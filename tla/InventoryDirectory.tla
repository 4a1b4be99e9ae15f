------------------------- MODULE InventoryDirectory -------------------------
(***************************************************************************)
(* The stock list of a branch: search and filters, pages, the dialogs that *)
(* place a product and that move stock, and the change of the branch.  The *)
(* list of its stock movements, a screen of its own, comes after it.       *)
(***************************************************************************)
EXTENDS Screen

About(a) == [place |-> a.place, q |-> a.q, filter |-> a.filter]
Question == About(asked)

\* The read of the list, of the branch and of the merchants.
Asks(a) ==
  /\ asked' = a /\ view' = Reloading(view)
  /\ calls' = calls \cup {Call("load", view.gen + 1, About(a), 0)}

Init ==
  /\ asked \in [place : Places, q : {""}, typed : {""}, filter : Filters]
  /\ view = Blank /\ calls = {Call("load", 0, Question, 0)}
  /\ data = 0 /\ told = 0 /\ form = NoForm /\ turns = 0 /\ faults = 0

Type(t) ==
  /\ Input /\ form.kind = "none" /\ t # asked.typed
  /\ asked' = [asked EXCEPT !.typed = t]
  /\ UNCHANGED <<view, calls, data, told, form, faults>>
Debounced ==
  /\ asked.typed # asked.q
  /\ Asks([asked EXCEPT !.q = asked.typed])
  /\ UNCHANGED <<data, told, form>> /\ Unmoved
Filter(f) ==
  /\ Input /\ form.kind = "none" /\ f # asked.filter
  /\ Asks([asked EXCEPT !.filter = f])
  /\ UNCHANGED <<data, told, form, faults>>
Retry ==
  /\ Input /\ view.error /\ form.kind = "none"
  /\ Asks(asked)
  /\ UNCHANGED <<data, told, form, faults>>
LoadPage(i) ==
  /\ Input /\ form.kind = "none"
  /\ ~view.loading /\ ~view.error /\ ~view.paging
  /\ i \in {view.index - 1, view.index + 1}
  /\ view' = [view EXCEPT !.paging = TRUE]
  /\ calls' = calls \cup {Call("page", view.gen, Question, i)}
  /\ UNCHANGED <<asked, data, told, form, faults>>
\* The list of another branch is another instance of the screen.
ChangeBranch(b) ==
  /\ Input /\ ~form.pending /\ b # asked.place
  /\ Asks([place |-> b, q |-> "", typed |-> "", filter |-> ""])
  /\ form' = NoForm /\ told' = 0
  /\ UNCHANGED <<data, faults>>

\* The stock dialogs wait for an earlier command that lost its dialog.
Open(kind) ==
  /\ Input /\ form.kind = "none" /\ ~view.loading /\ ~view.error
  /\ kind = "stock" => ~form.pending
  /\ form' = [form EXCEPT !.kind = kind, !.opened = view.gen]
  /\ UNCHANGED <<asked, view, calls, data, told, faults>>
Close ==
  /\ Input /\ form.kind # "none" /\ ~form.pending
  /\ form' = NoForm
  /\ UNCHANGED <<asked, view, calls, data, told, faults>>
Submit ==
  /\ Input /\ form.kind # "none"
  /\ ~\E c \in calls : c.kind = "save" /\ c.gen = form.opened
  /\ form' = [form EXCEPT !.pending = TRUE]
  /\ calls' = calls \cup {Call("save", form.opened, form.kind, 0)}
  /\ UNCHANGED <<asked, view, data, told, faults>>

Loaded(c) ==
  /\ Back(c, "load") /\ Current(c) /\ Taken(c)
  /\ view' = IF c.state = "ok" THEN [view EXCEPT !.loading = FALSE, !.rows = {Row(c)}]
                               ELSE [view EXCEPT !.loading = FALSE, !.error = TRUE]
  /\ UNCHANGED <<asked, data, told, form>> /\ Unmoved
\* A page that is denied ends the access of the whole screen; a command that
\* is on its way stays pending.
Paged(c) ==
  /\ Back(c, "page") /\ Current(c) /\ Taken(c)
  /\ view' = CASE c.state = "ok" ->
                    [view EXCEPT !.paging = FALSE, !.rows = {Row(c)}, !.index = c.page]
               [] c.state = "failed" -> [view EXCEPT !.paging = FALSE]
               [] c.state = "denied" -> AccessLost(view)
  /\ form' = IF c.state = "denied" THEN [form EXCEPT !.kind = "none"] ELSE form
  /\ UNCHANGED <<asked, data, told>> /\ Unmoved
Saved(c) ==
  /\ Back(c, "save") /\ c.state = "ok"
  /\ form' = IF form.kind = c.ask THEN NoForm ELSE [form EXCEPT !.pending = FALSE]
  /\ told' = c.ver
  /\ view' = Reloading(view)
  /\ calls' = (calls \ {c}) \cup {Call("load", view.gen + 1, Question, 0)}
  /\ UNCHANGED <<asked, data>> /\ Unmoved
\* Only the stock form tells the list that its access was denied.
NotSaved(c) ==
  /\ Back(c, "save") /\ c.state # "ok" /\ Taken(c)
  /\ IF c.state = "denied" /\ c.ask = "stock"
       THEN view' = AccessLost(view) /\ form' = NoForm
       ELSE view' = view /\ form' = [form EXCEPT !.pending = FALSE]
  /\ UNCHANGED <<asked, data, told>> /\ Unmoved
Deliver(c) ==
  Loaded(c) \/ Paged(c) \/ Saved(c) \/ NotSaved(c) \/ Dropped(c, "load") \/ Dropped(c, "page")

Proceeds == Debounced \/ \E c \in calls : Serve(c) \/ Deliver(c)
Next ==
  \/ Proceeds
  \/ \E t \in Texts : Type(t)
  \/ \E f \in Filters : Filter(f)
  \/ \E i \in 0..LastPage : LoadPage(i)
  \/ \E b \in Places : ChangeBranch(b)
  \/ \E k \in {"placement", "stock"} : Open(k)
  \/ Retry \/ Close \/ Submit

Spec == Init /\ [][Next]_screenVars /\ WF_screenVars(Proceeds)

-----------------------------------------------------------------------------
(* The stock movements of a branch: search, filters and pages.  A new read  *)
(* overtakes a page that is on its way, and leaves that page pending.       *)

RecordsAbout(a) == [q |-> a.q, filter |-> a.filter]
RecordsQuestion == RecordsAbout(asked)

RecordsAsks(a) ==
  /\ asked' = a
  /\ view' = [Reloading(view) EXCEPT !.paging = view.paging]
  /\ calls' = calls \cup {Call("load", view.gen + 1, RecordsAbout(a), 0)}

\* paged is the reading in which a page was asked for last.
RecordsInit ==
  /\ asked = [q |-> "", typed |-> "", filter |-> "", paged |-> 0]
  /\ view = Blank /\ calls = {Call("load", 0, RecordsQuestion, 0)}
  /\ data = 0 /\ told = 0 /\ form = NoForm /\ turns = 0 /\ faults = 0

RecordsType(t) ==
  /\ Input /\ t # asked.typed
  /\ asked' = [asked EXCEPT !.typed = t]
  /\ UNCHANGED <<view, calls, data, told, form, faults>>
RecordsDebounced ==
  /\ asked.typed # asked.q
  /\ RecordsAsks([asked EXCEPT !.q = asked.typed])
  /\ UNCHANGED <<data, told, form>> /\ Unmoved
\* The type, the merchant, or dates that are applied or cleared.
RecordsFilter(f) ==
  /\ Input /\ f # asked.filter
  /\ RecordsAsks([asked EXCEPT !.filter = f])
  /\ UNCHANGED <<data, told, form, faults>>
RecordsRetry ==
  /\ Input /\ view.error /\ ~view.loading
  /\ RecordsAsks(asked)
  /\ UNCHANGED <<data, told, form, faults>>
RecordsLoadPage(i) ==
  /\ Input /\ ~view.loading /\ ~view.error /\ ~view.paging
  /\ i \in {view.index - 1, view.index + 1}
  /\ view' = [view EXCEPT !.paging = TRUE]
  /\ asked' = [asked EXCEPT !.paged = view.gen]
  /\ calls' = calls \cup {Call("page", view.gen, RecordsQuestion, i)}
  /\ UNCHANGED <<data, told, form, faults>>

RecordsLoaded(c) ==
  /\ Back(c, "load") /\ Current(c) /\ Taken(c)
  /\ view' = CASE c.state = "ok" -> [view EXCEPT !.loading = FALSE, !.rows = {Row(c)}]
               [] c.state = "failed" -> [view EXCEPT !.loading = FALSE, !.error = TRUE]
               [] c.state = "denied" -> AccessLost(view)
  /\ UNCHANGED <<asked, data, told, form>> /\ Unmoved
RecordsPaged(c) ==
  /\ Back(c, "page") /\ Current(c) /\ Taken(c)
  /\ view' = CASE c.state = "ok" ->
                    [view EXCEPT !.paging = FALSE, !.rows = {Row(c)}, !.index = c.page]
               [] c.state = "failed" -> [view EXCEPT !.paging = FALSE]
               [] c.state = "denied" -> AccessLost(view)
  /\ UNCHANGED <<asked, data, told, form>> /\ Unmoved
RecordsDeliver(c) == RecordsLoaded(c) \/ RecordsPaged(c) \/ Dropped(c, "load") \/ Dropped(c, "page")

RecordsProceeds == RecordsDebounced \/ \E c \in calls : Serve(c) \/ RecordsDeliver(c)
RecordsNext ==
  \/ RecordsProceeds
  \/ \E t \in Texts : RecordsType(t)
  \/ \E f \in Filters : RecordsFilter(f)
  \/ \E i \in 0..LastPage : RecordsLoadPage(i)
  \/ RecordsRetry

RecordsSpec == RecordsInit /\ [][RecordsNext]_screenVars /\ WF_screenVars(RecordsProceeds)

-----------------------------------------------------------------------------
(* Properties *)

\* The text settles, its read is answered, and so is a page of it; a page that
\* a new read overtook is waited for all the same.
RecordsRest ==
  /\ ~view.loading /\ asked.typed = asked.q
  /\ asked.paged = view.gen => ~view.paging
=============================================================================
