---------------------------- MODULE SpaceDetail ----------------------------
(***************************************************************************)
(* One space: the space with its present occupant, its occupancy history   *)
(* with a search, dates and pages, and the commands of the owner.  All of  *)
(* it is read together, and the earlier space stays while it is.           *)
(***************************************************************************)
EXTENDS Screen

About(a) == [place |-> a.place, q |-> a.q, filter |-> a.filter, page |-> a.page]
Question == About(asked)

Asks(a) ==
  /\ asked' = a
  /\ view' = [view EXCEPT !.gen = @ + 1, !.loading = (view.item = {}),
                          !.paging = TRUE, !.error = FALSE]
  /\ calls' = calls \cup {Call("load", view.gen + 1, About(a), a.page)}

Init ==
  /\ asked \in [place : Places, typed : {""}, q : {""}, filter : {""}, page : {0}]
  /\ view = [Blank EXCEPT !.paging = TRUE]
  /\ calls = {Call("load", 0, Question, 0)}
  /\ data = 0 /\ told = 0 /\ form = NoForm /\ turns = 0 /\ faults = 0

Usable == ~view.loading /\ ~view.error
HistoryBusy == view.paging \/ asked.typed # asked.q

\* A letter returns to the first page at once, and to the search when it settles.
Type(t) ==
  /\ Input /\ Usable /\ form.kind = "none" /\ t # asked.typed
  /\ IF asked.page = 0
       THEN asked' = [asked EXCEPT !.typed = t] /\ UNCHANGED <<view, calls>>
       ELSE Asks([asked EXCEPT !.typed = t, !.page = 0])
  /\ UNCHANGED <<data, told, form, faults>>
Debounced ==
  /\ asked.typed # asked.q
  /\ Asks([asked EXCEPT !.q = asked.typed])
  /\ UNCHANGED <<data, told, form>> /\ Unmoved
Filter(f) ==
  /\ Input /\ Usable /\ form.kind = "none" /\ f # asked.filter
  /\ Asks([asked EXCEPT !.filter = f, !.page = 0])
  /\ UNCHANGED <<data, told, form, faults>>
LoadPage(i) ==
  /\ Input /\ Usable /\ ~form.pending /\ ~HistoryBusy
  /\ i \in {asked.page - 1, asked.page + 1}
  /\ Asks([asked EXCEPT !.page = i])
  /\ UNCHANGED <<data, told, form, faults>>
Retry ==
  /\ Input /\ view.error
  /\ Asks(asked)
  /\ UNCHANGED <<data, told, form, faults>>
\* The branch selector finds that the branch is no longer accessible.
Denied ==
  /\ Input /\ faults < MaxFaults /\ faults' = faults + 1
  /\ view' = AccessLost(view)
  /\ UNCHANGED <<asked, calls, data, told, form>>
Visit(p) ==
  /\ Input /\ ~form.pending /\ p # asked.place
  /\ LET a == [place |-> p, typed |-> "", q |-> "", filter |-> "", page |-> 0]
     IN asked' = a /\ calls' = calls \cup {Call("load", view.gen + 1, About(a), 0)}
  /\ view' = [Reloading(view) EXCEPT !.paging = TRUE]
  /\ form' = NoForm /\ told' = 0
  /\ UNCHANGED <<data, faults>>
\* Assign, edit or release with a form, or the status after a confirmation.
Submit ==
  /\ Input /\ Usable /\ ~form.pending
  /\ form' = [kind |-> "command", pending |-> TRUE, opened |-> view.gen]
  /\ calls' = calls \cup {Call("save", view.gen, "command", 0)}
  /\ UNCHANGED <<asked, view, data, told, faults>>

Loaded(c) ==
  /\ Back(c, "load") /\ Current(c) /\ Taken(c)
  /\ view' = IF c.state = "ok"
               THEN [view EXCEPT !.loading = FALSE, !.paging = FALSE,
                                 !.rows = {Row(c)}, !.item = {Row(c)}]
               ELSE [view EXCEPT !.loading = FALSE, !.paging = FALSE, !.error = TRUE]
  /\ UNCHANGED <<asked, data, told, form>> /\ Unmoved
Saved(c) ==
  /\ Back(c, "save") /\ c.state = "ok"
  /\ form' = NoForm /\ told' = c.ver
  /\ asked' = [asked EXCEPT !.page = 0]
  /\ view' = [view EXCEPT !.gen = @ + 1, !.loading = (view.item = {}),
                          !.paging = TRUE, !.error = FALSE]
  /\ calls' = (calls \ {c})
       \cup {Call("load", view.gen + 1, About([asked EXCEPT !.page = 0]), 0)}
  /\ UNCHANGED data /\ Unmoved
\* A refused status takes the place of the page until it is read again.
NotSaved(c) ==
  /\ Back(c, "save") /\ c.state # "ok" /\ Taken(c)
  /\ form' = NoForm
  /\ view' \in {view, [view EXCEPT !.error = TRUE]}
  /\ UNCHANGED <<asked, data, told>> /\ Unmoved
Deliver(c) == Loaded(c) \/ Saved(c) \/ NotSaved(c) \/ Dropped(c, "load")

Proceeds == Debounced \/ \E c \in calls : Serve(c) \/ Deliver(c)
Next ==
  \/ Proceeds
  \/ \E t \in Texts : Type(t)
  \/ \E f \in Filters : Filter(f)
  \/ \E i \in 0..LastPage : LoadPage(i)
  \/ \E p \in Places : Visit(p)
  \/ Retry \/ Submit \/ Denied

Spec == Init /\ [][Next]_screenVars /\ WF_screenVars(Proceeds)

-----------------------------------------------------------------------------
(* Properties *)

\* The history that is shown answers the search, the dates and the page that
\* are asked for, and the space is the one of the address.
HistoryAsked ==
  Usable => /\ ~HistoryBusy => \A r \in view.rows : r.ask = Question
            /\ \A r \in view.item : r.ask.place = asked.place
\* The space and its history come from one reading, after the last save, as
\* soon as the screen stops reading.
SpaceSaved ==
  /\ ~view.loading => \/ view.error
                      \/ view.rows = view.item /\ view.item # {}
  /\ ~view.paging /\ ~view.error => \A r \in view.item : r.ver >= told
=============================================================================
