----------------------------- MODULE Memberships -----------------------------
(***************************************************************************)
(* Who belongs to an organization, with which role, branches and merchant  *)
(* (memberships/organization-memberships.service.ts), the invitations that *)
(* create members (invitations/organization-invitations.service.ts), and   *)
(* what happens to both when an account is deleted (auth.service.ts) or    *)
(* the organization or a branch changes status.                            *)
(*                                                                         *)
(* A request is admitted by the guards, which read the caller's membership *)
(* and the status of the organization.  Role changes, branch grants,       *)
(* merchant links, removals, acceptances and account deletions then run as *)
(* SERIALIZABLE transactions: two steps, the snapshot and the commit.  The *)
(* others are READ COMMITTED and lock the Organization row first, so each  *)
(* is one step.  A transaction that is refused or conflicts leaves         *)
(* nothing behind.                                                         *)
(***************************************************************************)
EXTENDS Naturals, FiniteSets

CONSTANTS
  Users, Branches, Merchants,
  Invites,    \* ids of invitations
  Workers,    \* requests in progress at once
  Commands,   \* requests the clients may send
  Founders,   \* bound: the owners at first
  Switched,   \* bound: the branches whose status changes
  Switching,  \* bound: whether the organization's status changes
  MaxTokens,  \* bound: how often an invitation is resent
  None

VARIABLES
  members,  \* OrganizationMembership: role and merchant, or None
  access,   \* BranchMembership: the branches assigned to each user
  audit,    \* the latest MemberAccessEvent of a user since joining
  invites,  \* OrganizationInvitation by id
  accounts, \* users that are not deleted
  status,   \* of the organization
  open,     \* the ACTIVE branches
  pc,       \* idle, admitted by the guards, or running (holds a snapshot)
  cmd,
  snap,     \* what the transaction of a worker sees
  since     \* transactions committed since that snapshot

tables == <<members, access, audit, invites, accounts, status, open>>
requests == <<pc, cmd, snap, since>>
vars == <<members, access, audit, invites, accounts, status, open,
          pc, cmd, snap, since>>

-----------------------------------------------------------------------------
Roles == {"OWNER", "MANAGER", "CASHIER", "MERCHANT"}
\* The database refuses a merchant link of any other role.
Member == {m \in [role : Roles, merchant : Merchants \cup {None}] :
             m.merchant # None => m.role = "MERCHANT"}
Tokens == 0 .. MaxTokens
Invitation ==
  [state : {"absent", "pending", "expired", "accepted", "revoked", "removed"},
   email : Users \cup {None}, member : Member \cup {None},
   branches : SUBSET Branches, token : Tokens]
NoInvitation == [state |-> "absent", email |-> None, member |-> None,
                 branches |-> {}, token |-> 0]
\* What an event keeps of a member.
Recorded == [role : Roles \cup {None}, merchant : Merchants \cup {None},
             branches : SUBSET Branches]
Snapshot == [members |-> members, access |-> access, invites |-> invites,
             status |-> status, open |-> open]

\* The DTOs: a merchant link goes with the role MERCHANT, and only staff
\* invitations carry branches.  Owners are never invited.
Command ==
  {c \in [op : {"role"}, actor : Users, target : Users,
          role : Roles, merchant : Merchants \cup {None}] :
     (c.merchant # None) <=> (c.role = "MERCHANT")}
  \cup [op : {"grant", "revoke"}, actor : Users, target : Users, branch : Branches]
  \cup [op : {"link"}, actor : Users, target : Users, merchant : Merchants]
  \cup [op : {"remove"}, actor : Users, target : Users]
  \cup [op : {"delete"}, actor : Users]
  \cup {c \in [op : {"invite"}, actor : Users, id : Invites, email : Users,
               member : Member, branches : SUBSET Branches] :
          /\ c.member.role # "OWNER"
          /\ (c.member.merchant # None) <=> (c.member.role = "MERCHANT")
          /\ c.member.role = "MERCHANT" => c.branches = {}}
  \cup [op : {"resend", "cancel", "discard"}, actor : Users, id : Invites]
  \cup [op : {"accept"}, actor : Users, id : Invites, token : Tokens]

ASSUME CommandsAssumption == Commands \subseteq Command
ASSUME BoundsAssumption ==
  /\ Founders \subseteq Users /\ Founders # {}
  /\ Switched \subseteq Branches /\ Switching \in BOOLEAN /\ MaxTokens \in Nat
ASSUME NoneAssumption ==
  /\ None \notin Roles
  /\ None \notin Users \cup Merchants \cup Commands \cup Member \cup Workers

Owners(view) == {u \in Users : view[u] # None /\ view[u].role = "OWNER"}
Manages(c) == c.op \notin {"delete", "accept"}

-----------------------------------------------------------------------------
(* Transactions. *)

Objects == {<<"organization">>} \cup ({"member", "user"} \X Users)
             \cup ({"access"} \X Users \X Branches)
             \cup ({"branch"} \X Branches) \cup ({"invite"} \X Invites)
AccessOf(u) == {"access"} \X {u} \X Branches

\* The values the variables take: rows, requests and answers of the right shape.
TypeOK ==
  /\ members \in [Users -> Member \cup {None}]
  /\ access \in [Users -> SUBSET Branches]
  /\ audit \in [Users -> Recorded \cup {None}]
  /\ invites \in [Invites -> Invitation]
  /\ accounts \subseteq Users /\ open \subseteq Branches
  /\ status \in {"ACTIVE", "INACTIVE"}
  /\ pc \in [Workers -> {"idle", "admitted", "running"}]
  /\ cmd \in [Workers -> Commands \cup {None}]
  /\ since \in [Workers -> SUBSET [reads : SUBSET Objects, writes : SUBSET Objects]]
  /\ \A w \in Workers : snap[w] # None <=> pc[w] = "running"

\* Whether the last owner may be losing the role is judged by counting owners.
CountsOwners(c, view) ==
  \/ c.op = "role" /\ c.role # "OWNER" /\ c.target \in Owners(view.members)
  \/ c.op = "remove" /\ c.target \in Owners(view.members)
  \/ c.op = "delete" /\ c.actor \in Owners(view.members)

ReadsOf(c, view) ==
  (IF CountsOwners(c, view) THEN {"member"} \X Users ELSE {}) \cup
  CASE c.op \in {"role", "remove"} ->
         {<<"organization">>, <<"member", c.target>>} \cup AccessOf(c.target)
    [] c.op \in {"grant", "revoke"} ->
         {<<"organization">>, <<"member", c.target>>, <<"branch", c.branch>>}
           \cup AccessOf(c.target)
    [] c.op = "link" -> {<<"member", c.target>>} \cup AccessOf(c.target)
    [] c.op = "delete" -> {<<"member", c.actor>>, <<"user", c.actor>>}
    [] c.op = "accept" ->
         {<<"organization">>, <<"invite", c.id>>, <<"member", c.actor>>} \cup ({"branch"} \X view.invites[c.id].branches)

WritesOf(c, view) ==
  CASE c.op = "role" ->
         {<<"member", c.target>>} \cup
           IF view.members[c.target].role = c.role THEN {} ELSE AccessOf(c.target)
    [] c.op \in {"grant", "revoke"} -> {<<"access", c.target, c.branch>>}
    [] c.op = "link" -> {<<"member", c.target>>}
    [] c.op = "remove" -> {<<"member", c.target>>} \cup AccessOf(c.target)
    [] c.op = "delete" ->
         {<<"member", c.actor>>, <<"user", c.actor>>} \cup AccessOf(c.actor)
    [] c.op = "accept" ->
         {<<"member", c.actor>>, <<"invite", c.id>>} \cup AccessOf(c.actor)

\* The rows it locks or updates.  A merchant link takes no organization lock.
Assigned(u, view) == {"access"} \X {u} \X view.access[u]
Touches(c, view) ==
  CASE c.op \in {"role", "remove"} ->
         {<<"organization">>, <<"member", c.target>>} \cup Assigned(c.target, view)
    [] c.op \in {"grant", "revoke"} ->
         {<<"organization">>, <<"member", c.target>>, <<"branch", c.branch>>,
          <<"access", c.target, c.branch>>}
    [] c.op = "link" -> {<<"member", c.target>>}
    [] c.op = "delete" ->
         {<<"member", c.actor>>, <<"user", c.actor>>} \cup Assigned(c.actor, view)
    [] c.op = "accept" ->
         {<<"organization">>, <<"invite", c.id>>, <<"member", c.actor>>} \cup ({"branch"} \X view.invites[c.id].branches)

\* A row that was updated after the snapshot may not be locked or updated.
FirstUpdaterWins(w) ==
  \A t \in since[w] : t.writes \cap Touches(cmd[w], snap[w]) = {}
\* Two concurrent transactions never both miss what the other one wrote.
NoWriteSkew(w) ==
  \A t \in since[w] :
    \/ t.writes \cap ReadsOf(cmd[w], snap[w]) = {}
    \/ t.reads \cap WritesOf(cmd[w], snap[w]) = {}

\* Faulty variant: REPEATABLE READ.
RepeatableRead(w) == FirstUpdaterWins(w)
\* Faulty variant: no row is locked and nothing is detected.
NotIsolated(w) == TRUE
\* withOwnerInvariant, accept() and deleteCurrentUser() ask for SERIALIZABLE.
Isolated(w) == FirstUpdaterWins(w) /\ NoWriteSkew(w)

Log(w, t) ==
  since' = [v \in Workers |->
              IF v # w /\ pc[v] = "running" THEN since[v] \cup {t} ELSE {}]

Done(w) ==
  /\ pc' = [pc EXCEPT ![w] = "idle"]
  /\ cmd' = [cmd EXCEPT ![w] = None]
  /\ snap' = [snap EXCEPT ![w] = None]

-----------------------------------------------------------------------------
(* A request arrives and passes the guards. *)

Admitted(c) ==
  /\ c.actor \in accounts
  /\ Manages(c) => c.actor \in Owners(members) /\ status = "ACTIVE"

Admit(w, c) ==
  /\ pc[w] = "idle" /\ Admitted(c)
  /\ pc' = [pc EXCEPT ![w] = "admitted"]
  /\ cmd' = [cmd EXCEPT ![w] = c]
  /\ UNCHANGED <<snap, since>> /\ UNCHANGED tables

Serializable(c) == c.op \notin {"invite", "resend", "cancel", "discard"}

Begin(w) ==
  /\ pc[w] = "admitted" /\ Serializable(cmd[w])
  /\ pc' = [pc EXCEPT ![w] = "running"]
  /\ snap' = [snap EXCEPT ![w] = Snapshot]
  /\ UNCHANGED <<cmd, since>> /\ UNCHANGED tables

\* Refused, in conflict with another transaction, failed or dropped.
Fail(w) ==
  /\ pc[w] # "idle"
  /\ Done(w)
  /\ since' = [since EXCEPT ![w] = {}]
  /\ UNCHANGED tables

-----------------------------------------------------------------------------
(* Members. *)

Runs(w, op) == pc[w] = "running" /\ cmd[w].op = op
Commit(w) == /\ Isolated(w) /\ Done(w)
             /\ Log(w, [reads |-> ReadsOf(cmd[w], snap[w]),
                        writes |-> WritesOf(cmd[w], snap[w])])

\* What the transaction found of its target, as events record it.
Before(w) ==
  LET t == cmd[w].target IN
  [role |-> snap[w].members[t].role, merchant |-> snap[w].members[t].merchant,
   branches |-> snap[w].access[t]]
NoMember == [role |-> None, merchant |-> None, branches |-> {}]

\* Faulty variant: only a change of role is recorded.
RecordRole(w, after) ==
  audit' = IF after.role = Before(w).role THEN audit
           ELSE [audit EXCEPT ![cmd[w].target] = after]
\* An event is written unless nothing changed.
Record(w, after) ==
  audit' = IF after = Before(w) THEN audit
           ELSE [audit EXCEPT ![cmd[w].target] = after]

LeavesAnOwner(w) ==
  CountsOwners(cmd[w], snap[w]) => Cardinality(Owners(snap[w].members)) > 1

NewRole(w) == [role |-> cmd[w].role, merchant |-> cmd[w].merchant]

\* The event of a change between MANAGER and CASHIER still lists the branches
\* whose assignments the same transaction deletes.
UpdateRole(w) ==
  LET c == cmd[w] IN
  /\ Runs(w, "role")
  /\ snap[w].status = "ACTIVE" /\ snap[w].members[c.target] # None
  /\ LeavesAnOwner(w)
  /\ Commit(w)
  /\ members' = [members EXCEPT ![c.target] = NewRole(w)]
  /\ access' = IF Before(w).role = c.role THEN access
               ELSE [access EXCEPT ![c.target] = @ \ Before(w).branches]
  /\ Record(w, [role |-> c.role, merchant |-> c.merchant,
                branches |-> IF c.role \in {"OWNER", "MERCHANT"} THEN {}
                             ELSE Before(w).branches])
  /\ UNCHANGED <<invites, accounts, status, open>>

SetBranch(w) ==
  LET c == cmd[w]
      grant == c.op = "grant"
      found == Before(w).branches IN
  /\ Runs(w, "grant") \/ Runs(w, "revoke")
  /\ snap[w].status = "ACTIVE" /\ snap[w].members[c.target] # None
  /\ Before(w).role \notin {"OWNER", "MERCHANT"}
  /\ grant => c.branch \in snap[w].open
  /\ Commit(w)
  /\ access' = [access EXCEPT ![c.target] = IF grant THEN @ \cup {c.branch}
                                            ELSE @ \ ({c.branch} \cap found)]
  /\ Record(w, [Before(w) EXCEPT !.branches = IF grant THEN @ \cup {c.branch}
                                              ELSE @ \ {c.branch}])
  /\ UNCHANGED <<members, invites, accounts, status, open>>

\* The one change of a member that does not look at the organization's status.
SetMerchant(w) ==
  LET c == cmd[w] IN
  /\ Runs(w, "link")
  /\ snap[w].members[c.target] # None /\ Before(w).role = "MERCHANT"
  /\ Commit(w)
  /\ members' = [members EXCEPT ![c.target].merchant = c.merchant]
  /\ Record(w, [Before(w) EXCEPT !.merchant = c.merchant])
  /\ UNCHANGED <<access, invites, accounts, status, open>>

Remove(w) ==
  LET c == cmd[w] IN
  /\ Runs(w, "remove")
  /\ snap[w].status = "ACTIVE" /\ snap[w].members[c.target] # None
  /\ LeavesAnOwner(w)
  /\ Commit(w)
  /\ members' = [members EXCEPT ![c.target] = None]
  /\ access' = [access EXCEPT ![c.target] = {}]
  /\ Record(w, NoMember)
  /\ UNCHANGED <<invites, accounts, status, open>>

\* AuthService.deleteCurrentUser: the membership goes without an event.
DeleteAccount(w) ==
  LET u == cmd[w].actor IN
  /\ Runs(w, "delete")
  /\ LeavesAnOwner(w)
  /\ u \in accounts
  /\ Commit(w)
  /\ members' = [members EXCEPT ![u] =
                   IF snap[w].members[u] = None THEN @ ELSE None]
  /\ access' = [access EXCEPT ![u] =
                   IF snap[w].members[u] = None THEN @ ELSE {}]
  /\ accounts' = accounts \ {u}
  /\ UNCHANGED <<audit, invites, status, open>>

-----------------------------------------------------------------------------
(* Invitations. *)

Locked(w, op) == pc[w] = "admitted" /\ cmd[w].op = op /\ status = "ACTIVE"
\* A READ COMMITTED transaction: the others only see what it wrote.
CommitLocked(w, writes) == Done(w) /\ Log(w, [reads |-> {}, writes |-> writes])
Unresolved(i) == invites[i].state \in {"pending", "expired"}
PendingOf(email) == {i \in Invites : Unresolved(i) /\ invites[i].email = email}

Superseded(email) == PendingOf(email)

Invite(w) ==
  LET c == cmd[w] IN
  /\ Locked(w, "invite")
  /\ invites[c.id].state = "absent"
  /\ c.branches \subseteq open
  /\ members[c.email] = None
  /\ invites' = [i \in Invites |->
       IF i = c.id THEN [state |-> "pending", email |-> c.email,
                         member |-> c.member, branches |-> c.branches, token |-> 0]
       ELSE IF i \in Superseded(c.email) THEN [invites[i] EXCEPT !.state = "revoked"]
       ELSE invites[i]]
  /\ CommitLocked(w, {"invite"} \X ({c.id} \cup Superseded(c.email)))
  /\ UNCHANGED <<members, access, audit, accounts, status, open>>

\* A new token; the link that was sent before stops working.
Resend(w) ==
  LET i == cmd[w].id IN
  /\ Locked(w, "resend")
  /\ invites[i].state = "pending" /\ invites[i].token < MaxTokens
  /\ invites' = [invites EXCEPT ![i].token = @ + 1]
  /\ CommitLocked(w, {<<"invite", i>>})
  /\ UNCHANGED <<members, access, audit, accounts, status, open>>

Revoke(w) ==
  LET i == cmd[w].id IN
  /\ Locked(w, "cancel") /\ Unresolved(i)
  /\ invites' = [invites EXCEPT ![i].state = "revoked"]
  /\ CommitLocked(w, {<<"invite", i>>})
  /\ UNCHANGED <<members, access, audit, accounts, status, open>>

Discard(w) ==
  LET i == cmd[w].id IN
  /\ Locked(w, "discard") /\ invites[i].state \notin {"absent", "removed"}
  /\ invites' = [invites EXCEPT ![i].state = "removed"]
  /\ CommitLocked(w, {<<"invite", i>>})
  /\ UNCHANGED <<members, access, audit, accounts, status, open>>

\* The invitation found by its token, of the caller's address, is claimed,
\* if it is still unresolved, and becomes a membership.
Usable(w) ==
  LET c == cmd[w]
      found == snap[w].invites[c.id] IN
  /\ found.state = "pending" /\ found.token = c.token /\ found.email = c.actor
  /\ found.member.role = "MERCHANT" => found.member.merchant # None
  /\ found.branches \subseteq snap[w].open
  /\ snap[w].status = "ACTIVE" /\ snap[w].members[c.actor] = None

Accept(w) ==
  LET c == cmd[w]
      found == snap[w].invites[c.id] IN
  /\ Runs(w, "accept") /\ Usable(w)
  /\ invites[c.id].state = "pending"
  /\ members[c.actor] = None
  /\ Commit(w)
  /\ invites' = [invites EXCEPT ![c.id].state = "accepted"]
  /\ members' = [members EXCEPT ![c.actor] = found.member]
  /\ access' = [access EXCEPT ![c.actor] =
                  IF found.member.role = "MERCHANT" THEN {} ELSE found.branches]
  /\ audit' = [audit EXCEPT ![c.actor] = None]
  /\ UNCHANGED <<accounts, status, open>>

-----------------------------------------------------------------------------
(* What else changes the rows these transactions read. *)

Expire(i) ==
  /\ invites[i].state = "pending"
  /\ invites' = [invites EXCEPT ![i].state = "expired"]
  /\ UNCHANGED <<members, access, audit, accounts, status, open>>
  /\ UNCHANGED requests

\* OrganizationLifecycleService.changeStatus.
SwitchOrganization ==
  /\ Switching
  /\ status' = IF status = "ACTIVE" THEN "INACTIVE" ELSE "ACTIVE"
  /\ Log(None, [reads |-> {}, writes |-> {<<"organization">>}])
  /\ UNCHANGED <<members, access, audit, invites, accounts, open, pc, cmd, snap>>

\* BranchesService.updateStatus, under the organization lock.
SwitchBranch(b) ==
  /\ b \in Switched /\ status = "ACTIVE"
  /\ open' = IF b \in open THEN open \ {b} ELSE open \cup {b}
  /\ Log(None, [reads |-> {}, writes |-> {<<"branch", b>>}])
  /\ UNCHANGED <<members, access, audit, invites, accounts, status, pc, cmd, snap>>

Init ==
  /\ members = [u \in Users |->
       IF u \in Founders THEN [role |-> "OWNER", merchant |-> None] ELSE None]
  /\ access = [u \in Users |-> {}]
  /\ audit = [u \in Users |-> None]
  /\ invites = [i \in Invites |-> NoInvitation]
  /\ accounts = Users /\ status = "ACTIVE" /\ open = Branches
  /\ pc = [w \in Workers |-> "idle"]
  /\ cmd = [w \in Workers |-> None]
  /\ snap = [w \in Workers |-> None]
  /\ since = [w \in Workers |-> {}]

Next ==
  \/ \E w \in Workers :
       \/ \E c \in Commands : Admit(w, c)
       \/ Begin(w) \/ Fail(w)
       \/ UpdateRole(w) \/ SetBranch(w) \/ SetMerchant(w) \/ Remove(w)
       \/ DeleteAccount(w)
       \/ Invite(w) \/ Resend(w) \/ Revoke(w) \/ Discard(w) \/ Accept(w)
  \/ \E i \in Invites : Expire(i)
  \/ SwitchOrganization
  \/ \E b \in Branches : SwitchBranch(b)

Spec == Init /\ [][Next]_vars

-----------------------------------------------------------------------------
(* Properties. *)

\* However demotions, removals and account deletions race, the organization
\* keeps an owner.
AlwaysAnOwner == Owners(members) # {}

\* Owners and merchant members have no branch assignments of their own: none
\* survives a change of role, also when it was granted meanwhile.
NoStrayAccess ==
  \A u \in Users :
    members[u] = None \/ members[u].role \in {"OWNER", "MERCHANT"} => access[u] = {}

\* The latest event of a member tells its role and merchant link.
AuditFollowsRole ==
  \A u \in Users : members[u] # None /\ audit[u] # None =>
    /\ audit[u].role = members[u].role
    /\ audit[u].merchant = members[u].merchant

\* An invitation that is accepted was pending until then, not revoked, removed,
\* expired or resent under another token while its acceptance was running.
AcceptedWhilePending ==
  [][\A w \in Workers : Accept(w) =>
       /\ invites[cmd[w].id].state = "pending"
       /\ invites[cmd[w].id].token = cmd[w].token
       /\ status = "ACTIVE"
       /\ invites[cmd[w].id].branches \subseteq open]_vars

=============================================================================
