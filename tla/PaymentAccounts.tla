--------------------------- MODULE PaymentAccounts ---------------------------
(***************************************************************************)
(* The payment accounts of an organization: the list with its local        *)
(* filters, the form that creates or edits an account, and the server that *)
(* saves it in a serializable transaction.  The model follows the account  *)
(* of one name; version 0 is the account before it was created.  Another   *)
(* owner saves it, and opens or closes branches, elsewhere.                *)
(***************************************************************************)
EXTENDS Screen

None == [ver |-> 0, enabled |-> FALSE, all |-> FALSE, branches |-> {}]
Drafts == {d \in [enabled : BOOLEAN, all : BOOLEAN, branches : SUBSET Places] :
             d.all <=> d.branches = {}}
Draft(a) == [enabled |-> a.enabled, all |-> a.all, branches |-> a.branches]
Account(d, v) == [ver |-> v, enabled |-> d.enabled, all |-> d.all, branches |-> d.branches]

Nothing == [seen |-> None, was |-> None, opened |-> {}, active |-> {}]

Init ==
  /\ asked = [status |-> "", place |-> ""] /\ view = Blank
  /\ data \in {[account |-> a, branches |-> [p \in Places |-> 0]] :
                 a \in {None} \cup {Account(d, 1) : d \in Drafts}}
  /\ told = Nothing      \* the last save: what was seen, replaced and opened
  /\ form = NoForm /\ turns = 0 /\ faults = 0
  /\ calls = {[kind |-> "load", gen |-> 0, state |-> "sent", item |-> {}]}

\* The list is filtered in the browser.
Visible == {a \in view.item :
  /\ asked.status \in {"", IF a.enabled THEN "enabled" ELSE "disabled"}
  /\ asked.place = "" \/ a.all \/ asked.place \in a.branches}
Usable == ~view.loading /\ form.kind = "none"
Filter(s, p) ==
  /\ Input /\ form.kind = "none" /\ asked # [status |-> s, place |-> p]
  /\ asked' = [status |-> s, place |-> p]
  /\ UNCHANGED <<view, calls, data, told, form, faults>>
\* A reload hides the accounts it had.
Retry ==
  /\ Input /\ Usable /\ view.error
  /\ view' = [view EXCEPT !.gen = @ + 1, !.loading = TRUE, !.error = FALSE]
  /\ calls' = calls \cup {[kind |-> "load", gen |-> view.gen + 1, state |-> "sent", item |-> {}]}
  /\ UNCHANGED <<asked, data, told, form, faults>>
\* The form keeps the account as it was when the form was opened.
Open ==
  /\ Input /\ Usable
  /\ \E a \in {None} \cup (IF view.error THEN {} ELSE Visible) :
       form' = [kind |-> "account", pending |-> FALSE, opened |-> a]
  /\ UNCHANGED <<asked, view, calls, data, told, faults>>
Close ==
  /\ Input /\ form.kind = "account" /\ ~form.pending
  /\ form' = NoForm
  /\ UNCHANGED <<asked, view, calls, data, told, faults>>
Submit ==
  /\ Input /\ form.kind = "account" /\ ~form.pending
  /\ form' = [form EXCEPT !.pending = TRUE]
  /\ \E d \in Drafts :
       /\ form.opened.ver > 0 => d # Draft(form.opened)
       /\ calls' = calls \cup {[kind |-> "save", gen |-> turns, seen |-> form.opened,
                                draft |-> d, state |-> "sent", snap |-> data, item |-> {}]}
  /\ UNCHANGED <<asked, view, data, told, faults>>

-----------------------------------------------------------------------------
(* The server *)

At(a) == IF a.all THEN Places ELSE a.branches
\* The branches where an account can be chosen for a sale.
Available(a) == IF a.enabled THEN At(a) ELSE {}
\* A branch row is written when the branch is closed, and when it is opened again.
Active(rows) == {p \in Places : rows.branches[p] % 2 = 0}
\* New branches have to be active, and all of them when the account is enabled.
Closed(was, d, active) ==
  ~(At(d) \ At(was) \subseteq active) \/ (d.enabled /\ ~was.enabled /\ ~(At(d) \subseteq active))

Elsewhere ==
  /\ Input
  /\ \/ \E d \in Drafts : /\ ~Closed(data.account, d, Active(data))
                          /\ data' = [data EXCEPT !.account = Account(d, @.ver + 1)]
     \/ \E p \in Places : data' = [data EXCEPT !.branches[p] = @ + 1]
  /\ UNCHANGED <<asked, view, calls, told, form, faults>>

Step(c, s) == calls' = (calls \ {c}) \cup {[c EXCEPT !.state = s]}
Listed(c) ==
  /\ c.kind = "load" /\ c.state = "sent"
  /\ \/ /\ calls' = (calls \ {c}) \cup {[c EXCEPT !.state = "ok", !.item =
                      IF data.account.ver = 0 THEN {} ELSE {data.account}]}
        /\ UNCHANGED faults
     \/ faults < MaxFaults /\ faults' = faults + 1 /\ Step(c, "failed")
  /\ UNCHANGED <<asked, view, data, told, form, turns>>
\* The snapshot of the transaction is taken before the account is locked; an
\* account that is edited must have the version its owner saw.
Fresh(c) == c.seen.ver = data.account.ver \/ c.seen = None
Begin(c) ==
  /\ c.kind = "save" /\ c.state = "sent"
  /\ calls' = (calls \ {c}) \cup {[c EXCEPT !.snap = data,
                 !.state = IF Fresh(c) THEN "begun" ELSE "conflict"]}
  /\ UNCHANGED <<asked, view, data, told, form>> /\ Unmoved
\* Rows it locks that were written since the snapshot, and a name that is taken,
\* end the transaction, and so does a new branch that is not active.
Overtaken(c) ==
  \/ c.seen # None /\ c.snap.account # data.account
  \/ c.seen = None /\ data.account.ver > 0
  \/ \E p \in At(c.seen) \cup At(c.draft) : c.snap.branches[p] # data.branches[p]
Save(c) ==
  LET was == data.account
      saved == Account(c.draft, was.ver + 1)
  IN /\ data' = [data EXCEPT !.account = saved]
     /\ told' = [seen |-> c.seen, was |-> was, active |-> Active(data),
                 opened |-> Available(saved) \ Available(was)]
     /\ calls' = (calls \ {c}) \cup {[c EXCEPT !.state = "ok", !.item = {saved}]}
Commit(c) ==
  /\ c.kind = "save" /\ c.state = "begun"
  /\ IF Overtaken(c) \/ Closed(c.seen, c.draft, Active(c.snap))
       THEN Step(c, "conflict") /\ UNCHANGED <<data, told>>
       ELSE Save(c)
  /\ UNCHANGED <<asked, view, form>> /\ Unmoved

-----------------------------------------------------------------------------
(* Answers *)

\* The client gives up; the server goes on with the request.
Lose(c) ==
  /\ c.kind = "save" /\ c.gen # -1 /\ faults < MaxFaults /\ faults' = faults + 1
  /\ calls' = (calls \ {c}) \cup {[c EXCEPT !.gen = -1]}
  /\ form' = [form EXCEPT !.pending = FALSE]
  /\ UNCHANGED <<asked, view, data, told, turns>>
Loaded(c) ==
  /\ Back(c, "load") /\ Current(c) /\ Taken(c)
  /\ view' = IF c.state = "ok" THEN [view EXCEPT !.loading = FALSE, !.item = c.item]
                               ELSE [view EXCEPT !.loading = FALSE, !.error = TRUE]
  /\ UNCHANGED <<asked, data, told, form>> /\ Unmoved
\* The saved account takes the place of the one in the list.
Saved(c) ==
  /\ Back(c, "save") /\ c.state = "ok" /\ c.gen # -1 /\ Taken(c)
  /\ view' = [view EXCEPT !.item = c.item] /\ form' = NoForm
  /\ UNCHANGED <<asked, data, told>> /\ Unmoved
\* The form stays as it was, with the version it had.
NotSaved(c) ==
  /\ Back(c, "save") /\ c.state = "conflict" /\ c.gen # -1 /\ Taken(c)
  /\ form' = [form EXCEPT !.pending = FALSE]
  /\ UNCHANGED <<asked, view, data, told>> /\ Unmoved
Deliver(c) == Loaded(c) \/ Saved(c) \/ NotSaved(c)

Proceeds == \E c \in calls : Listed(c) \/ Begin(c) \/ Commit(c) \/ Deliver(c)
Next ==
  \/ Proceeds
  \/ \E c \in calls : Lose(c)
  \/ \E s \in {"", "enabled"}, p \in {""} \cup Places : Filter(s, p)
  \/ Retry \/ Open \/ Close \/ Submit \/ Elsewhere

Spec == Init /\ [][Next]_screenVars /\ WF_screenVars(Proceeds)

-----------------------------------------------------------------------------
(* Properties *)

\* A save replaces the very account its owner had before them, and makes it
\* available at no branch that was closed when it was saved.
SavedAsSeen == told.seen = told.was /\ told.opened \subseteq told.active
=============================================================================
