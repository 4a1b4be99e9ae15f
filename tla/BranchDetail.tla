---------------------------- MODULE BranchDetail ----------------------------
(***************************************************************************)
(* One branch: its details, the change of its status after a confirmation, *)
(* and the form that edits it, with the server that refuses a status       *)
(* change of an owner who has not seen the present version.  Another owner *)
(* changes the branch elsewhere.                                           *)
(***************************************************************************)
EXTENDS Screen

NoBranch == [ver |-> 0, active |-> TRUE]
Nothing == [seen |-> NoBranch, was |-> NoBranch]
Flip(b) == ~b.active

Ask(kind, seen) ==
  calls' = calls \cup {[kind |-> kind, gen |-> view.gen, ask |-> seen,
                        state |-> "sent", ver |-> NoBranch]}

Init ==
  /\ asked = "branch" /\ view = Blank
  /\ data = [ver |-> 1, active |-> TRUE]
  /\ told = Nothing      \* what the last status change was decided on, and changed
  /\ form = NoForm /\ turns = 0 /\ faults = 0
  /\ calls = {[kind |-> "load", gen |-> 0, ask |-> NoBranch, state |-> "sent", ver |-> NoBranch]}

Usable == ~view.loading /\ ~view.error /\ view.item # {}
Reload ==
  /\ Input /\ view.error
  /\ view' = Reloading(view)
  /\ calls' = calls \cup {[kind |-> "load", gen |-> view.gen + 1, ask |-> NoBranch,
                           state |-> "sent", ver |-> NoBranch]}
  /\ UNCHANGED <<asked, data, told, form, faults>>
\* The owner confirms the change of the status that is shown.
ChangeStatus ==
  /\ Input /\ Usable /\ ~form.pending /\ form.kind = "none"
  /\ form' = [form EXCEPT !.pending = TRUE]
  /\ \E b \in view.item : Ask("status", b)
  /\ UNCHANGED <<asked, view, data, told, faults>>
\* The form opens and saves while a status is on its way, too.
Edit ==
  /\ Input /\ Usable /\ form.kind = "none"
  /\ form' = [form EXCEPT !.kind = "edit"]
  /\ Ask("save", NoBranch)
  /\ UNCHANGED <<asked, view, data, told, faults>>
Elsewhere ==
  /\ Input
  /\ \E s \in BOOLEAN : data' = [ver |-> data.ver + 1, active |-> s]
  /\ UNCHANGED <<asked, view, calls, told, form, faults>>

\* For mutants: the version is not compared.
AnyVersion(c) == c.ask.ver <= data.ver
\* A status that is decided on an earlier version is refused.
Fresh(c) == c.ask.ver = data.ver
UpdateStatus(c) ==
  IF Fresh(c)
    THEN /\ data' = IF data.active = Flip(c.ask) THEN data
                    ELSE [ver |-> data.ver + 1, active |-> Flip(c.ask)]
         /\ told' = IF data.active = Flip(c.ask) THEN told
                    ELSE [seen |-> c.ask, was |-> data]
    ELSE UNCHANGED <<data, told>>
Update(c) ==
  /\ data' = IF c.kind = "save" THEN [data EXCEPT !.ver = @ + 1] ELSE data
  /\ UNCHANGED told
Answer(c, s) == calls' = (calls \ {c}) \cup {[c EXCEPT !.state = s, !.ver = data']}
AnswerTo(c) ==
  /\ c.state = "sent"
  /\ \/ /\ IF c.kind = "status" THEN UpdateStatus(c) ELSE Update(c)
        /\ Answer(c, IF c.kind = "status" /\ ~Fresh(c) THEN "stale" ELSE "ok")
        /\ UNCHANGED faults
     \/ /\ faults < MaxFaults /\ faults' = faults + 1
        /\ UNCHANGED <<data, told>> \/ (c.kind = "status" /\ UpdateStatus(c))
        /\ Answer(c, "failed")
  /\ UNCHANGED <<asked, view, form, turns>>

Show(c) == view' = [view EXCEPT !.loading = FALSE, !.item = {c.ver}]
Loaded(c) ==
  /\ Back(c, "load") /\ Current(c) /\ Taken(c)
  /\ IF c.state = "ok" THEN Show(c)
                       ELSE view' = [view EXCEPT !.loading = FALSE, !.error = TRUE]
  /\ UNCHANGED <<asked, data, told, form>> /\ Unmoved
\* A refused status reads the latest branch before anything can be confirmed.
StatusAnswered(c) ==
  /\ Back(c, "status")
  /\ CASE c.state = "ok" -> Show(c) /\ Taken(c) /\ form' = [form EXCEPT !.pending = FALSE]
       [] c.state = "failed" -> Taken(c) /\ form' = [form EXCEPT !.pending = FALSE] /\ UNCHANGED view
       [] c.state = "stale" ->
            /\ calls' = (calls \ {c}) \cup {[c EXCEPT !.kind = "latest", !.state = "sent"]}
            /\ UNCHANGED <<view, form>>
  /\ UNCHANGED <<asked, data, told>> /\ Unmoved
LatestRead(c) ==
  /\ Back(c, "latest") /\ Taken(c)
  /\ IF c.state = "ok" THEN Show(c) ELSE UNCHANGED view
  /\ form' = [form EXCEPT !.pending = FALSE]
  /\ UNCHANGED <<asked, data, told>> /\ Unmoved
Edited(c) ==
  /\ Back(c, "save") /\ Taken(c)
  /\ IF c.state = "ok" THEN Show(c) ELSE UNCHANGED view
  /\ form' = [form EXCEPT !.kind = "none"]
  /\ UNCHANGED <<asked, data, told>> /\ Unmoved
Deliver(c) == Loaded(c) \/ StatusAnswered(c) \/ LatestRead(c) \/ Edited(c) \/ Dropped(c, "load")

Proceeds == \E c \in calls : AnswerTo(c) \/ Deliver(c)
Next == Proceeds \/ Reload \/ ChangeStatus \/ Edit \/ Elsewhere

Spec == Init /\ [][Next]_screenVars /\ WF_screenVars(Proceeds)

-----------------------------------------------------------------------------
(* Properties *)

\* A status change is applied to the very branch its owner had before them:
\* a change that another owner made meanwhile is never overwritten unseen.
ChangedAsSeen == told.seen = told.was
\* A change of the status comes to an end, and so does the form.
BranchRests == ~view.loading /\ form = NoForm
=============================================================================
