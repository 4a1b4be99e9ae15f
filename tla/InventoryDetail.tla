-------------------------- MODULE InventoryDetail --------------------------
(***************************************************************************)
(* One placement of a branch: its present stock and price, its movements   *)
(* with filters and pages, and the four commands on it.  A filter reads    *)
(* the movements alone; a command that succeeds reads everything anew.     *)
(***************************************************************************)
EXTENDS Screen

About(a) == [place |-> a.place, filter |-> a.filter]
Question == About(asked)

Asks(a) ==
  /\ asked' = a /\ view' = Reloading(view)
  /\ calls' = calls \cup {Call("load", view.gen + 1, About(a), 0)}

Init ==
  /\ asked \in [place : Places, filter : {""}]
  /\ view = Blank /\ calls = {Call("load", 0, Question, 0)}
  /\ data = 0 /\ told = 0 /\ form = NoForm /\ turns = 0 /\ faults = 0

Usable == ~view.loading /\ ~view.error /\ view.item # {}
Retry ==
  /\ Input /\ ~view.loading /\ view.error
  /\ Asks(asked)
  /\ UNCHANGED <<data, told, form, faults>>
Filter(f) ==
  /\ Input /\ Usable /\ ~form.pending /\ f # asked.filter
  /\ asked' = [asked EXCEPT !.filter = f]
  /\ view' = [Reloading(view) EXCEPT !.loading = FALSE, !.paging = TRUE, !.item = view.item]
  /\ calls' = calls \cup {Call("page", view.gen + 1, [place |-> asked.place, filter |-> f], 0)}
  /\ UNCHANGED <<data, told, form, faults>>
\* The first page is loaded again after a filter that could not be read.
LoadPage(i) ==
  /\ Input /\ Usable /\ ~view.paging
  /\ i \in {view.index - 1, view.index + 1} \cup (IF view.rows = {} THEN {0} ELSE {})
  /\ view' = [view EXCEPT !.paging = TRUE]
  /\ calls' = calls \cup {Call("page", view.gen, Question, i)}
  /\ UNCHANGED <<asked, data, told, form, faults>>
\* Stock is received or adjusted, or the threshold or the price is set.
Submit ==
  /\ Input /\ Usable /\ ~form.pending
  /\ form' = [form EXCEPT !.pending = TRUE]
  /\ calls' = calls \cup {Call("save", view.gen, "command", 0)}
  /\ UNCHANGED <<asked, view, data, told, faults>>
\* Another placement is another instance of the screen.
Visit(p) ==
  /\ Input /\ ~form.pending /\ p # asked.place
  /\ Asks([place |-> p, filter |-> ""])
  /\ told' = 0
  /\ UNCHANGED <<data, form, faults>>

Loaded(c) ==
  /\ Back(c, "load") /\ Current(c) /\ Taken(c)
  /\ view' = IF c.state = "ok"
               THEN [view EXCEPT !.loading = FALSE, !.rows = {Row(c)}, !.item = {Row(c)}]
               ELSE [view EXCEPT !.loading = FALSE, !.error = TRUE]
  /\ UNCHANGED <<asked, data, told, form>> /\ Unmoved
Paged(c) ==
  /\ Back(c, "page") /\ Current(c) /\ Taken(c)
  /\ view' = CASE c.state = "ok" ->
                    [view EXCEPT !.paging = FALSE, !.rows = {Row(c)}, !.index = c.page]
               [] c.state = "failed" -> [view EXCEPT !.paging = FALSE]
               [] c.state = "denied" -> AccessLost(view)
  /\ UNCHANGED <<asked, data, told, form>> /\ Unmoved
Saved(c) ==
  /\ Back(c, "save") /\ c.state = "ok"
  /\ form' = NoForm /\ told' = c.ver
  /\ view' = Reloading(view)
  /\ calls' = (calls \ {c}) \cup {Call("load", view.gen + 1, Question, 0)}
  /\ UNCHANGED <<asked, data>> /\ Unmoved
NotSaved(c) ==
  /\ Back(c, "save") /\ c.state # "ok" /\ Taken(c)
  /\ view' = IF c.state = "denied" THEN AccessLost(view) ELSE view
  /\ form' = NoForm
  /\ UNCHANGED <<asked, data, told>> /\ Unmoved
Deliver(c) ==
  Loaded(c) \/ Paged(c) \/ Saved(c) \/ NotSaved(c) \/ Dropped(c, "load") \/ Dropped(c, "page")

Proceeds == \E c \in calls : Serve(c) \/ Deliver(c)
Next ==
  \/ Proceeds
  \/ \E f \in Filters : Filter(f)
  \/ \E i \in 0..LastPage : LoadPage(i)
  \/ \E p \in Places : Visit(p)
  \/ Retry \/ Submit

Spec == Init /\ [][Next]_screenVars /\ WF_screenVars(Proceeds)
=============================================================================
