--------------------------- MODULE AssignmentForm ---------------------------
(***************************************************************************)
(* The form that assigns a space to a merchant, opened for a merchant: the *)
(* branch is chosen first, then one of its active spaces, which are read   *)
(* page by page.  An occupied space can only be chosen for a completed     *)
(* occupancy of the past.                                                  *)
(***************************************************************************)
EXTENDS Screen

NoSpace == [place |-> "", occupied |-> FALSE]
\* Each page holds a free and an occupied space of the branch.
SpacesOf(c) == {[ask |-> c.ask, page |-> c.page, ver |-> c.ver, occupied |-> o] : o \in BOOLEAN}

Asks(a) ==
  /\ asked' = a /\ view' = Reloading(view)
  /\ calls' = calls \cup {Call("load", view.gen + 1, a.place, 0)}

Init ==
  /\ asked = [place |-> "", space |-> NoSpace, past |-> FALSE]
  /\ view = [Blank EXCEPT !.loading = FALSE]
  /\ calls = {} /\ data = 0 /\ told = 0
  /\ form = [NoForm EXCEPT !.kind = "assignment"]
  /\ turns = 0 /\ faults = 0

Free == form.kind = "assignment" /\ ~form.pending
ChooseBranch(b) ==
  /\ Input /\ Free /\ ~view.error /\ b # asked.place
  /\ Asks([asked EXCEPT !.place = b, !.space = NoSpace])
  /\ UNCHANGED <<data, told, form, faults>>
ChooseSpace(r) ==
  /\ Input /\ Free /\ ~view.loading /\ ~view.error
  /\ r.occupied => asked.past
  /\ asked' = [asked EXCEPT !.space = [place |-> r.ask, occupied |-> r.occupied]]
  /\ UNCHANGED <<view, calls, data, told, form, faults>>
\* A switch between a present and a past occupancy gives the space up.
SwitchPast ==
  /\ Input /\ Free
  /\ asked' = [asked EXCEPT !.past = ~@, !.space = NoSpace]
  /\ UNCHANGED <<view, calls, data, told, form, faults>>
Retry ==
  /\ Input /\ Free /\ view.error
  /\ Asks([asked EXCEPT !.space = NoSpace])
  /\ UNCHANGED <<data, told, form, faults>>
Submit ==
  /\ Input /\ Free /\ ~view.error /\ asked.space # NoSpace
  /\ form' = [form EXCEPT !.pending = TRUE]
  /\ calls' = calls \cup {Call("save", 0, asked, 0)}
  /\ UNCHANGED <<asked, view, data, told, faults>>

\* The pages of the spaces are read until the last, and shown together.
Loaded(c) ==
  /\ Back(c, "load") /\ Current(c)
  /\ CASE c.state # "ok" ->
            Taken(c) /\ view' = [view EXCEPT !.loading = FALSE, !.error = TRUE, !.item = {}]
       [] c.state = "ok" /\ c.page < LastPage ->
            /\ calls' = (calls \ {c}) \cup {Call("load", view.gen, c.ask, c.page + 1)}
            /\ view' = [view EXCEPT !.item = @ \cup SpacesOf(c)]
       [] OTHER ->
            Taken(c) /\ view' = [view EXCEPT !.loading = FALSE, !.item = {},
                                             !.rows = view.item \cup SpacesOf(c)]
  /\ UNCHANGED <<asked, data, told, form>> /\ Unmoved
Submitted(c) ==
  /\ Back(c, "save") /\ Taken(c)
  /\ form' = IF c.state = "ok" THEN NoForm ELSE [form EXCEPT !.pending = FALSE]
  /\ UNCHANGED <<asked, view, data, told>> /\ Unmoved
Deliver(c) == Loaded(c) \/ Submitted(c) \/ Dropped(c, "load")

Proceeds == \E c \in calls : Serve(c) \/ Deliver(c)
Next ==
  \/ Proceeds
  \/ \E b \in Places : ChooseBranch(b)
  \/ \E r \in view.rows : ChooseSpace(r)
  \/ SwitchPast \/ Retry \/ Submit

Spec == Init /\ [][Next]_screenVars /\ WF_screenVars(Proceeds)

-----------------------------------------------------------------------------
(* Properties *)

\* What is sent names a space of the branch that is sent with it, and one that
\* was occupied only for a completed occupancy; the choices are all the pages
\* of that branch, once each.
ChosenFits ==
  /\ asked.space # NoSpace =>
       asked.space.place = asked.place /\ (asked.space.occupied => asked.past)
  /\ \A c \in calls : c.kind = "save" =>
       c.ask.space.place = c.ask.place /\ (c.ask.space.occupied => c.ask.past)
  /\ \A r \in view.rows : r.ask = asked.place
  /\ view.rows # {} => Cardinality(view.rows) = 2 * (LastPage + 1)
=============================================================================
