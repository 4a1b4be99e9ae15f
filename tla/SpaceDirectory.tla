--------------------------- MODULE SpaceDirectory ---------------------------
(***************************************************************************)
(* The spaces of a branch, or the occupancies of a merchant: filters and   *)
(* pages, the forms of the owner, and archiving after a confirmation.  An  *)
(* answer to the archiving is heard only by the reading that asked for it. *)
(***************************************************************************)
EXTENDS Screen

Question == asked

\* Every control reads at once.
Asks(a) ==
  /\ asked' = a /\ view' = Reloading(view)
  /\ calls' = calls \cup {Call("load", view.gen + 1, a, a.page)}

Init ==
  /\ asked \in [place : Places, filter : {""}, page : {0}]
  /\ view = Blank /\ calls = {Call("load", 0, Question, 0)}
  /\ data = 0 /\ told = 0 /\ form = NoForm /\ turns = 0 /\ faults = 0

Free == form = NoForm
Filter(f) ==
  /\ Input /\ Free /\ f # asked.filter
  /\ Asks([asked EXCEPT !.filter = f, !.page = 0])
  /\ UNCHANGED <<data, told, form, faults>>
LoadPage(i) ==
  /\ Input /\ Free /\ view.rows # {}
  /\ i \in {asked.page - 1, asked.page + 1}
  /\ Asks([asked EXCEPT !.page = i])
  /\ UNCHANGED <<data, told, form, faults>>
Retry ==
  /\ Input /\ Free /\ view.error
  /\ Asks(asked)
  /\ UNCHANGED <<data, told, form, faults>>
\* Another branch or merchant is another instance of the list.
ChangePlace(b) ==
  /\ Input /\ ~form.pending /\ b # asked.place
  /\ Asks([place |-> b, filter |-> "", page |-> 0])
  /\ form' = NoForm /\ told' = 0
  /\ UNCHANGED <<data, faults>>

\* A space is added at any time; the rest needs a row.
Open(kind) ==
  /\ Input /\ Free
  /\ kind = "archive" => view.rows # {}
  /\ form' = [kind |-> kind, pending |-> FALSE, opened |-> view.gen]
  /\ UNCHANGED <<asked, view, calls, data, told, faults>>
Close ==
  /\ Input /\ form.kind # "none" /\ ~form.pending
  /\ form' = NoForm
  /\ UNCHANGED <<asked, view, calls, data, told, faults>>
Submit ==
  /\ Input /\ form.kind # "none" /\ ~form.pending
  /\ IF form.kind = "archive" /\ form.opened # view.gen
       THEN form' = NoForm /\ UNCHANGED <<calls, view>>
       ELSE /\ form' = [form EXCEPT !.pending = TRUE]
            /\ calls' = calls \cup {Call("save", view.gen, form.kind, 0)}
            /\ view' = IF form.kind = "archive" THEN [view EXCEPT !.error = FALSE] ELSE view
  /\ UNCHANGED <<asked, data, told, faults>>

Loaded(c) ==
  /\ Back(c, "load") /\ Current(c) /\ Taken(c)
  /\ view' = IF c.state = "ok" THEN [view EXCEPT !.loading = FALSE, !.rows = {Row(c)}]
                               ELSE [view EXCEPT !.loading = FALSE, !.error = TRUE]
  /\ UNCHANGED <<asked, data, told, form>> /\ Unmoved
\* What was saved may be anywhere: the first page is read.
Saved(c) ==
  /\ Back(c, "save") /\ c.state = "ok"
  /\ c.ask = "archive" => Current(c)
  /\ form' = NoForm /\ told' = c.ver
  /\ asked' = [asked EXCEPT !.page = 0]
  /\ view' = Reloading(view)
  /\ calls' = (calls \ {c}) \cup {Call("load", view.gen + 1, [asked EXCEPT !.page = 0], 0)}
  /\ UNCHANGED data /\ Unmoved
\* A form keeps its draft; a refused archiving is told above the rows.
NotSaved(c) ==
  /\ Back(c, "save") /\ c.state # "ok" /\ Taken(c)
  /\ c.ask = "archive" => Current(c)
  /\ form' = IF c.ask = "archive" THEN NoForm ELSE [form EXCEPT !.pending = FALSE]
  /\ view' = IF c.ask = "archive" THEN [view EXCEPT !.error = TRUE] ELSE view
  /\ UNCHANGED <<asked, data, told>> /\ Unmoved
Deliver(c) ==
  \/ Loaded(c) \/ Saved(c) \/ NotSaved(c) \/ Dropped(c, "load")
  \/ c.kind = "save" /\ c.ask = "archive" /\ Dropped(c, "save")

Proceeds == \E c \in calls : Serve(c) \/ Deliver(c)
Next ==
  \/ Proceeds
  \/ \E f \in Filters : Filter(f)
  \/ \E i \in 0..LastPage : LoadPage(i)
  \/ \E b \in Places : ChangePlace(b)
  \/ \E k \in {"form", "archive"} : Open(k)
  \/ Retry \/ Close \/ Submit

Spec == Init /\ [][Next]_screenVars /\ WF_screenVars(Proceeds)

-----------------------------------------------------------------------------
(* Properties *)

\* The rows answer the filter, the page and the place that are asked for now;
\* a list that reads shows none.
SpacesAsked ==
  /\ \A r \in view.rows : r.ask = asked
  /\ view.loading => view.rows = {}
=============================================================================
