--------------------------- MODULE InvitationForm ---------------------------
(***************************************************************************)
(* The form that invites a member: an address, a role, and with it either  *)
(* branches or a merchant.  The branches are picked from a list that is    *)
(* searched and read on.  A new invitation of an address replaces the      *)
(* earlier one, so only the link that was made last works; data is that    *)
(* link.                                                                   *)
(***************************************************************************)
EXTENDS Screen

Roles == {"CASHIER", "MERCHANT"}
\* A list is due before its read is sent.
Reads(v) == [v EXCEPT !.gen = @ + 1]

Init ==
  /\ asked = [valid |-> FALSE, role |-> "CASHIER", merchant |-> "", branches |-> {},
              q |-> "", due |-> TRUE, since |-> 0]
  /\ view = Blank /\ calls = {} /\ data = 0 /\ told = 0
  /\ form = [kind |-> "invitation", pending |-> FALSE, created |-> 0]
  /\ turns = 0 /\ faults = 0

Free == form.kind = "invitation" /\ ~form.pending /\ form.created = 0
Fill(a) == asked' = a /\ UNCHANGED <<view, calls, data, told, form, faults>>
Address == Input /\ Free /\ Fill([asked EXCEPT !.valid = TRUE])
\* Another role gives the merchant up and keeps the branches that were picked.
\* Their list is mounted anew with a role that has branches.
ChooseRole(r) ==
  /\ Input /\ Free /\ r # asked.role
  /\ asked' = [asked EXCEPT !.role = r, !.merchant = "", !.q = "",
                             !.due = r # "MERCHANT", !.since = view.gen + 1]
  /\ view' = Reloading(view)
  /\ UNCHANGED <<calls, data, told, form, faults>>
ChooseMerchant(m) ==
  Input /\ Free /\ asked.role = "MERCHANT" /\ Fill([asked EXCEPT !.merchant = m])

Picking == Free /\ asked.role # "MERCHANT"
Type(t) ==
  /\ Input /\ Picking /\ t # asked.q
  /\ asked' = [asked EXCEPT !.q = t, !.due = TRUE]
  /\ view' = Reads(view)
  /\ UNCHANGED <<calls, data, told, form, faults>>
Debounced ==
  /\ asked.due
  /\ asked' = [asked EXCEPT !.due = FALSE]
  /\ view' = [view EXCEPT !.loading = TRUE, !.error = FALSE]
  /\ calls' = calls \cup {Call("load", view.gen, asked.q, 0)}
  /\ UNCHANGED <<data, told, form>> /\ Unmoved
Retry ==
  /\ Input /\ Picking /\ view.error /\ ~view.loading
  /\ asked' = [asked EXCEPT !.due = TRUE]
  /\ view' = Reads(view)
  /\ UNCHANGED <<calls, data, told, form, faults>>
LoadMore ==
  /\ Input /\ Picking /\ ~view.loading /\ ~view.error
  /\ view.rows # {} /\ view.index < LastPage
  /\ view' = [view EXCEPT !.loading = TRUE]
  /\ calls' = calls \cup {Call("page", view.gen, asked.q, view.index + 1)}
  /\ UNCHANGED <<asked, data, told, form, faults>>
Listed == view.rows # {} /\ ~view.loading /\ ~view.error
Toggle(b) ==
  /\ Input /\ Picking /\ Listed
  /\ Fill([asked EXCEPT !.branches = IF b \in @ THEN @ \ {b} ELSE @ \cup {b}])
Clear == Input /\ Picking /\ asked.branches # {} /\ Fill([asked EXCEPT !.branches = {}])

\* What is sent has what belongs to the role.
Command ==
  [role |-> asked.role,
   merchant |-> IF asked.role = "MERCHANT" THEN asked.merchant ELSE "",
   branches |-> IF asked.role = "MERCHANT" THEN {} ELSE asked.branches]
Validates == asked.valid /\ (asked.role = "MERCHANT" => asked.merchant # "")
Submit ==
  /\ Input /\ Free /\ Validates
  /\ form' = [form EXCEPT !.pending = TRUE]
  /\ calls' = calls \cup {Call("save", turns, Command, 0)}
  /\ UNCHANGED <<asked, view, data, told, faults>>
Close ==
  /\ Input /\ form.kind = "invitation" /\ ~form.pending
  /\ form' = [form EXCEPT !.kind = "none"] /\ view' = [AccessLost(view) EXCEPT !.error = FALSE]
  /\ asked' = [asked EXCEPT !.due = FALSE]
  /\ UNCHANGED <<calls, data, told, faults>>

Loaded(c) ==
  /\ Back(c, "load") /\ Current(c) /\ Taken(c)
  /\ view' = [view EXCEPT !.loading = FALSE, !.index = 0, !.error = c.state # "ok",
                          !.rows = IF c.state = "ok" THEN {Row(c)} ELSE {}]
  /\ UNCHANGED <<asked, data, told, form>> /\ Unmoved
\* Another page is taken by whatever search the same list has come to.
PageLoaded(c) ==
  /\ Back(c, "page") /\ Taken(c)
  /\ view' = IF c.gen < asked.since THEN view ELSE IF c.state = "ok"
               THEN [view EXCEPT !.loading = FALSE, !.index = @ + 1, !.rows = @ \cup {Row(c)}]
               ELSE [view EXCEPT !.loading = FALSE, !.error = TRUE]
  /\ UNCHANGED <<asked, data, told, form>> /\ Unmoved
Created(c) ==
  /\ Back(c, "save") /\ Taken(c)
  /\ form' = [form EXCEPT !.pending = FALSE, !.created = IF c.state = "ok" THEN c.ver ELSE @]
  /\ UNCHANGED <<asked, view, data, told>> /\ Unmoved
Deliver(c) == Loaded(c) \/ PageLoaded(c) \/ Created(c) \/ Dropped(c, "load")

Proceeds == (\E c \in calls : Serve(c) \/ Deliver(c)) \/ Debounced
Next ==
  \/ Proceeds
  \/ \E r \in Roles : ChooseRole(r)
  \/ \E p \in Places : ChooseMerchant(p) \/ Toggle(p)
  \/ \E t \in Texts : Type(t)
  \/ Address \/ Retry \/ LoadMore \/ Clear \/ Submit \/ Close

Spec == Init /\ [][Next]_screenVars /\ WF_screenVars(Proceeds)

-----------------------------------------------------------------------------
(* Properties *)

\* What is sent fits its role, whatever was chosen for another role before,
\* and is what the form says until it is answered.
SentFits ==
  \A c \in calls : c.kind = "save" =>
    /\ c.ask.role = "MERCHANT" <=> c.ask.merchant # ""
    /\ c.ask.role = "MERCHANT" => c.ask.branches = {}
    /\ c.state = "sent" => c.ask = Command
\* The link that the form shows is the one that works, also when an earlier
\* attempt made another and its answer was lost.
LinkWorks == form.created # 0 => form.created = data
\* The invitation is answered, and so is every read of a list that is shown.
FormRests == ~form.pending /\ ~asked.due /\ (asked.role # "MERCHANT" => ~view.loading)
=============================================================================
