---------------------------- MODULE MemberAccess ----------------------------
(***************************************************************************)
(* The dialog that edits the access of a member: the role, and for staff   *)
(* the branches, each saved on its own, a revocation after a confirmation. *)
(* data is what the server holds; told, whether an answer of it was lost.  *)
(***************************************************************************)
EXTENDS Screen

Roles == {"CASHIER", "MERCHANT"}
NoChange == [kind |-> "none", branch |-> "", role |-> "", merchant |-> ""]
Grant(b) == [NoChange EXCEPT !.kind = "grant", !.branch = b]
Revoke(b) == [NoChange EXCEPT !.kind = "revoke", !.branch = b]
Request(change, gen) == [change |-> change, gen |-> gen, state |-> "sent", ver |-> data]
Read(v) == [v EXCEPT !.gen = @ + 1, !.error = FALSE]

Init ==
  /\ asked = [member |-> "CASHIER", linked |-> "", role |-> "CASHIER", merchant |-> ""]
  /\ data = [role |-> "CASHIER", merchant |-> "", branches |-> {}]
  /\ view = Blank /\ calls = {Request(NoChange, 0)}
  /\ form = [kind |-> "access", pending |-> FALSE, confirm |-> NoChange]
  /\ told = FALSE /\ turns = 0 /\ faults = 0

Usable == form.kind = "access" /\ ~view.loading
Free == Usable /\ ~form.pending /\ form.confirm = NoChange
\* Try again, also after an error of another kind.
Retry ==
  /\ Input /\ form.kind = "access" /\ view.loading /\ view.error
  /\ view' = Read(view) /\ calls' = calls \cup {Request(NoChange, view.gen + 1)}
  /\ UNCHANGED <<asked, data, told, form, faults>>
ChooseRole(r) ==
  /\ Input /\ Free /\ r # asked.role
  /\ asked' = [asked EXCEPT !.role = r]
  /\ view' = [view EXCEPT !.error = FALSE]
  /\ UNCHANGED <<calls, data, told, form, faults>>
ChooseMerchant(m) ==
  /\ Input /\ Free /\ asked.role = "MERCHANT"
  /\ asked' = [asked EXCEPT !.merchant = m]
  /\ UNCHANGED <<view, calls, data, told, form, faults>>
\* A role, a merchant and a revocation are reviewed before they are sent.
Review(change) ==
  /\ Input /\ Free
  /\ form' = [form EXCEPT !.confirm = change]
  /\ UNCHANGED <<asked, view, calls, data, told, faults>>
ReviewRole ==
  /\ asked.role # asked.member
  /\ asked.role = "MERCHANT" => asked.merchant # ""
  /\ Review([NoChange EXCEPT !.kind = "role", !.role = asked.role,
                             !.merchant = IF asked.role = "MERCHANT" THEN asked.merchant ELSE ""])
ReviewMerchant ==
  /\ asked.role = asked.member /\ asked.member = "MERCHANT"
  /\ asked.merchant \notin {"", asked.linked}
  /\ Review([NoChange EXCEPT !.kind = "merchant", !.merchant = asked.merchant])
Listed == asked.role = asked.member /\ asked.role # "MERCHANT"
ReviewRevocation(b) == Listed /\ view.item # {} /\ b \in UNION view.item /\ Review(Revoke(b))
Keep ==
  /\ Input /\ Usable /\ ~form.pending /\ form.confirm # NoChange
  /\ form' = [form EXCEPT !.confirm = NoChange] /\ view' = [view EXCEPT !.error = FALSE]
  /\ UNCHANGED <<asked, calls, data, told, faults>>
Write(change) ==
  /\ Input /\ Usable /\ ~form.pending
  /\ form' = [form EXCEPT !.pending = TRUE]
  /\ view' = [view EXCEPT !.error = FALSE]
  /\ calls' = calls \cup {Request(change, view.gen)}
  /\ UNCHANGED <<asked, data, told, faults>>
Confirm == form.confirm # NoChange /\ Write(form.confirm)
GrantBranch(b) == Free /\ Listed /\ b \notin UNION view.item /\ Write(Grant(b))
\* Another member, or the same again: the row tells the role.
Reopen ==
  /\ Input /\ (form.kind = "access" => ~form.pending)
  /\ form' = [kind |-> "access", pending |-> FALSE, confirm |-> NoChange]
  /\ asked' = [asked EXCEPT !.role = asked.member, !.merchant = asked.linked]
  /\ view' = Reloading(view)
  /\ calls' = calls \cup {Request(NoChange, view.gen + 1)}
  /\ UNCHANGED <<data, told, faults>>

\* The server grants to staff only; another role clears what the earlier had.
Applied(c) ==
  CASE c.change.kind = "grant" -> [data EXCEPT !.branches = @ \cup {c.change.branch}]
    [] c.change.kind = "revoke" -> [data EXCEPT !.branches = @ \ {c.change.branch}]
    [] c.change.kind = "merchant" -> [data EXCEPT !.merchant = c.change.merchant]
    [] c.change.kind = "role" ->
         [role |-> c.change.role, merchant |-> c.change.merchant,
          branches |-> IF c.change.role = data.role THEN data.branches ELSE {}]
    [] OTHER -> data
\* A merchant has the branches of the profile.
Branches(d) == IF d.role = "MERCHANT" THEN {d.merchant} ELSE d.branches
Fits(c) ==
  CASE c.change.kind \in {"grant", "revoke"} -> data.role # "MERCHANT"
    [] c.change.kind = "merchant" -> data.role = "MERCHANT"
    [] OTHER -> TRUE
Answer(c, s) == calls' = (calls \ {c}) \cup {[c EXCEPT !.state = s, !.ver = data']}
AnswerTo(c) ==
  /\ c.state = "sent"
  /\ \/ /\ data' = IF Fits(c) THEN Applied(c) ELSE data
        /\ Answer(c, IF Fits(c) THEN "ok" ELSE "refused")
        /\ UNCHANGED <<faults, told>>
     \/ /\ faults < MaxFaults /\ faults' = faults + 1
        /\ data' \in {data} \cup (IF Fits(c) THEN {Applied(c)} ELSE {})
        /\ told' = (told \/ data' # data)
        /\ Answer(c, "failed")
  /\ UNCHANGED <<asked, view, form, turns>>

Loaded(c) ==
  /\ c.change = NoChange /\ c.state # "sent" /\ Taken(c)
  /\ view' = CASE ~Current(c) \/ form.kind # "access" -> view
               [] c.state = "ok" -> [view EXCEPT !.loading = FALSE, !.error = FALSE,
                                                 !.item = {Branches(c.ver)}]
               [] OTHER -> [view EXCEPT !.error = TRUE]
  /\ UNCHANGED <<asked, data, told, form>> /\ Unmoved
\* A new role closes the dialog; a new merchant reads the access again.
Written(c) ==
  /\ c.change # NoChange /\ c.state = "ok"
  /\ form' = [form EXCEPT !.pending = FALSE, !.confirm = NoChange,
                          !.kind = IF c.change.kind = "role" THEN "none" ELSE "access"]
  /\ asked' = CASE c.change.kind = "role" -> [asked EXCEPT !.member = c.change.role,
                                                          !.linked = c.change.merchant]
                [] c.change.kind = "merchant" -> [asked EXCEPT !.linked = c.change.merchant]
                [] OTHER -> asked
  /\ LET shown == UNION view.item IN
       view' = CASE c.change.kind = "grant" -> [view EXCEPT !.item = {shown \cup {c.change.branch}}]
                 [] c.change.kind = "revoke" -> [view EXCEPT !.item = {shown \ {c.change.branch}}]
                 [] c.change.kind = "merchant" -> Read(view)
                 [] OTHER -> view
  /\ calls' = (calls \ {c}) \cup
       (IF c.change.kind = "merchant" THEN {Request(NoChange, view.gen + 1)} ELSE {})
  /\ UNCHANGED <<data, told>> /\ Unmoved
NotWritten(c) ==
  /\ c.change # NoChange /\ c.state \in {"failed", "refused"} /\ Taken(c)
  /\ form' = [form EXCEPT !.pending = FALSE]
  /\ view' = [view EXCEPT !.error = TRUE]
  /\ UNCHANGED <<asked, data, told>> /\ Unmoved
Deliver(c) == Loaded(c) \/ Written(c) \/ NotWritten(c)

Proceeds == \E c \in calls : AnswerTo(c) \/ Deliver(c)
Next ==
  \/ Proceeds
  \/ \E r \in Roles : ChooseRole(r)
  \/ \E p \in Places : ChooseMerchant(p) \/ ReviewRevocation(p) \/ GrantBranch(p)
  \/ Retry \/ ReviewRole \/ ReviewMerchant \/ Keep \/ Confirm \/ Reopen

Spec == Init /\ [][Next]_screenVars /\ WF_screenVars(Proceeds)

-----------------------------------------------------------------------------
(* Properties *)

\* The branches shown as granted are those the server has granted, after any
\* run of changes of role, merchant and branches, as long as no change lost
\* its answer; and only one change is on its way.
GrantsShown ==
  /\ ~told /\ Usable /\ ~form.pending =>
       /\ asked.member = data.role
       /\ data.role # "MERCHANT" => view.item = {data.branches}
  /\ \A c, d \in calls : c.change # NoChange /\ d.change # NoChange => c = d
AccessRests == ~form.pending /\ (view.loading => view.error)
=============================================================================
