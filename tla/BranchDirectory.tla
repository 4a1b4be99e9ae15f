-------------------------- MODULE BranchDirectory --------------------------
(***************************************************************************)
(* The branches an owner, a manager or a cashier may see: search, status   *)
(* and pages, and the form that adds a branch.  A change of what is asked  *)
(* starts the read in a timer of its own, and not before: an earlier       *)
(* answer may come in between, and its rows go with the read that is due.  *)
(***************************************************************************)
EXTENDS Screen

About(a) == [q |-> a.q, filter |-> a.filter, page |-> a.page]
Question == About(asked)

\* A read is due (paging); it starts with what is asked then.
Due(a) == asked' = a /\ view' = [view EXCEPT !.paging = TRUE]
LoadDirectory(a) ==
  /\ view' = [view EXCEPT !.gen = @ + 1, !.loading = TRUE, !.error = FALSE, !.paging = FALSE]
  /\ calls' = calls \cup {Call("load", view.gen + 1, About(a), a.page)}

Init ==
  /\ asked = [typed |-> "", q |-> "", filter |-> "", page |-> 0]
  /\ view = [Blank EXCEPT !.paging = TRUE] /\ calls = {}
  /\ data = 0 /\ told = 0 /\ form = NoForm /\ turns = 0 /\ faults = 0

Start ==
  /\ view.paging
  /\ LoadDirectory(asked)
  /\ UNCHANGED <<asked, data, told, form>> /\ Unmoved
\* A letter goes back to the first page at once, and to the search later.
Type(t) ==
  /\ Input /\ form.kind = "none" /\ t # asked.typed
  /\ IF asked.page # 0
       THEN Due([asked EXCEPT !.typed = t, !.page = 0])
       ELSE asked' = [asked EXCEPT !.typed = t] /\ UNCHANGED view
  /\ UNCHANGED <<calls, data, told, form, faults>>
Debounced ==
  /\ asked.typed # asked.q
  /\ Due([asked EXCEPT !.q = asked.typed])
  /\ UNCHANGED <<calls, data, told, form>> /\ Unmoved
Filter(f) ==
  /\ Input /\ form.kind = "none" /\ f # asked.filter
  /\ Due([asked EXCEPT !.filter = f, !.page = 0])
  /\ UNCHANGED <<calls, data, told, form, faults>>
Shown == ~view.loading /\ ~view.error
TurnPage(i) ==
  /\ Input /\ form.kind = "none" /\ Shown /\ view.rows # {}
  /\ \E r \in view.rows : i \in {r.page - 1, r.page + 1}
  /\ i # asked.page
  /\ Due([asked EXCEPT !.page = i])
  /\ UNCHANGED <<calls, data, told, form, faults>>
Retry ==
  /\ Input /\ view.error /\ ~view.loading /\ form.kind = "none"
  /\ LoadDirectory(asked)
  /\ UNCHANGED <<asked, data, told, form, faults>>

Open ==
  /\ Input /\ form.kind = "none"
  /\ form' = [form EXCEPT !.kind = "branch"]
  /\ UNCHANGED <<asked, view, calls, data, told, faults>>
Close ==
  /\ Input /\ form.kind # "none" /\ ~form.pending
  /\ form' = NoForm
  /\ UNCHANGED <<asked, view, calls, data, told, faults>>
\* Filling in the form takes longer than the search takes to settle.
Submit ==
  /\ Input /\ form.kind # "none" /\ ~form.pending
  /\ asked.typed = asked.q /\ ~view.paging
  /\ form' = [form EXCEPT !.pending = TRUE]
  /\ calls' = calls \cup {Call("save", 0, "branch", 0)}
  /\ UNCHANGED <<asked, view, data, told, faults>>

Loaded(c) ==
  /\ Back(c, "load") /\ Current(c) /\ Taken(c)
  /\ view' = IF c.state = "ok"
               THEN [view EXCEPT !.loading = FALSE, !.rows = {Row(c)}]
               ELSE [view EXCEPT !.loading = FALSE, !.rows = {}, !.error = TRUE]
  /\ UNCHANGED <<asked, data, told, form>> /\ Unmoved
\* The first page is read at once, and again when another page was open.
Saved(c) ==
  /\ Back(c, "save") /\ c.state = "ok"
  /\ form' = NoForm /\ told' = c.ver
  /\ asked' = [asked EXCEPT !.page = 0]
  /\ view' = [view EXCEPT !.gen = @ + 1, !.loading = TRUE, !.error = FALSE,
                          !.paging = (asked.page # 0)]
  /\ calls' = (calls \ {c})
       \cup {Call("load", view.gen + 1, About([asked EXCEPT !.page = 0]), 0)}
  /\ UNCHANGED data /\ Unmoved
NotSaved(c) ==
  /\ Back(c, "save") /\ c.state # "ok" /\ Taken(c)
  /\ form' = [form EXCEPT !.pending = FALSE]
  /\ UNCHANGED <<asked, view, data, told>> /\ Unmoved
Deliver(c) == Loaded(c) \/ Saved(c) \/ NotSaved(c) \/ Dropped(c, "load")

Proceeds == Start \/ Debounced \/ \E c \in calls : Serve(c) \/ Deliver(c)
Next ==
  \/ Proceeds
  \/ \E t \in Texts : Type(t)
  \/ \E f \in Filters : Filter(f)
  \/ \E i \in 0..LastPage : TurnPage(i)
  \/ Retry \/ Open \/ Close \/ Submit

Spec == Init /\ [][Next]_screenVars /\ WF_screenVars(Proceeds)

-----------------------------------------------------------------------------
(* Properties *)

\* Unless a read is due or on its way, the branches on the screen answer the
\* search, the status and the page that are asked for, and were read after the
\* last branch was added.
BranchesAsked ==
  Shown /\ ~view.paging => \A r \in view.rows : r.ask = Question /\ r.ver >= told
=============================================================================
