-------------------------- MODULE MembershipsProofs --------------------------
(***************************************************************************)
(* An organization keeps an owner, nobody keeps a branch of a role that is *)
(* gone, the trail tells a member's role, and an invitation is accepted    *)
(* while it is pending: for every set of users and requests and however    *)
(* many of them race.  Members are counted in a snapshot; what the count   *)
(* is worth at the commit follows from what SERIALIZABLE promises:         *)
(*   - a row that a transaction locks has not changed since its snapshot   *)
(*     (FirstUpdaterWins), so the member it takes the role from is as it   *)
(*     was counted;                                                        *)
(*   - an owner that it counted and that is gone was taken away by a       *)
(*     transaction that counted the owners, too; each of the two read what *)
(*     the other one wrote, and NoWriteSkew refuses the later one.         *)
(***************************************************************************)
EXTENDS Memberships, FiniteSetTheorems, TLAPS

Everyone == {"member"} \X Users
WroteMember(t, u) == <<"member", u>> \in t.writes

Functional ==
  /\ members = [u \in Users |-> members[u]]
  /\ pc \in [Workers -> {"idle", "admitted", "running"}]
  /\ cmd = [w \in Workers |-> cmd[w]]
  /\ snap = [w \in Workers |-> snap[w]]
  /\ since = [w \in Workers |-> since[w]]
  /\ \A w \in Workers : pc[w] # "idle" => cmd[w] \in Commands

\* What a running transaction saw and is no longer so was written since.
Tracked(w) ==
  /\ \A u \in Users : snap[w].members[u] # members[u] =>
       \E t \in since[w] : WroteMember(t, u)
  /\ \A u \in Owners(snap[w].members) \ Owners(members) :
       \E t \in since[w] : WroteMember(t, u) /\ Everyone \subseteq t.reads
IInv ==
  /\ Functional
  /\ \A w \in Workers : pc[w] = "running" => Tracked(w)
  /\ AlwaysAnOwner

-----------------------------------------------------------------------------
(* Facts about requests. *)

\* A request that changes a member names it.
LEMMA Targets ==
  ASSUME NEW c \in Commands
  PROVE  /\ c.op \in {"role", "grant", "revoke", "link", "remove"} => c.target \in Users
         /\ c.op \in {"delete", "accept"} => c.actor \in Users
BY CommandsAssumption DEF Command

\* Counting leaves another owner.
LEMMA AnotherOwner ==
  ASSUME NEW S, NEW x \in S, Cardinality(S) > 1
  PROVE  \E y \in S : y # x
<1>1. SUFFICES ASSUME \A y \in S : y = x PROVE FALSE
  OBVIOUS
<1>2. S = {x}
  BY <1>1
<1>3. Cardinality(S) = 1
  BY <1>2, FS_Singleton
<1> QED
  BY <1>3

-----------------------------------------------------------------------------
(* The steps. *)

\* The initial state satisfies the invariant of the owners.
LEMMA InitOwned == Init => IInv
<1> SUFFICES ASSUME Init PROVE IInv
  OBVIOUS
<1>1. Functional
  BY DEF Init, Functional
<1>2. AlwaysAnOwner
  <2>1. PICK f \in Founders : f \in Users
    BY BoundsAssumption
  <2>2. members[f] = [role |-> "OWNER", merchant |-> None]
    BY <2>1 DEF Init
  <2>3. members[f] \in Member
    BY <2>2 DEF Member, Roles
  <2>4. members[f] # None
    BY <2>3, NoneAssumption
  <2>5. members[f].role = "OWNER"
    BY <2>2
  <2> QED
    BY <2>1, <2>4, <2>5 DEF AlwaysAnOwner, Owners
<1>3. \A w \in Workers : pc[w] # "running"
  BY DEF Init
<1> QED
  BY <1>1, <1>2, <1>3 DEF IInv

\* A step that leaves the members as they are only adds to what was written.
LEMMA QuietKeeps ==
  ASSUME IInv, Functional', UNCHANGED members,
         \A w \in Workers : pc'[w] = "running" =>
           \/ snap'[w].members = members
           \/ pc[w] = "running" /\ snap'[w] = snap[w] /\ since[w] \subseteq since'[w]
  PROVE  IInv'
<1>1. AlwaysAnOwner'
  BY DEF IInv, AlwaysAnOwner, Owners
<1>2. ASSUME NEW w \in Workers, pc'[w] = "running" PROVE Tracked(w)'
  <2>1. CASE snap'[w].members = members
    BY <2>1 DEF Tracked, Owners
  <2>2. CASE pc[w] = "running" /\ snap'[w] = snap[w] /\ since[w] \subseteq since'[w]
    BY <2>2 DEF IInv, Tracked, Owners
  <2> QED
    BY <1>2, <2>1, <2>2
<1> QED
  BY <1>1, <1>2 DEF IInv

\* After a commit the other transactions know of it.
LEMMA CommitLogs ==
  ASSUME Functional, NEW w \in Workers, Commit(w)
  PROVE  /\ pc' = [pc EXCEPT ![w] = "idle"] /\ snap' = [snap EXCEPT ![w] = None]
         /\ cmd' = [cmd EXCEPT ![w] = None]
         /\ since' = [v \in Workers |->
              IF v # w /\ pc[v] = "running"
                THEN since[v] \cup {[reads |-> ReadsOf(cmd[w], snap[w]),
                                     writes |-> WritesOf(cmd[w], snap[w])]}
                ELSE {}]
BY DEF Commit, Done, Log

\* A commit answers its worker and logs its accesses for the others.
LEMMA CommitFunctional ==
  ASSUME Functional, NEW w \in Workers, Commit(w),
         members' = [u \in Users |-> members'[u]]
  PROVE  Functional'
BY CommitLogs DEF Functional

\* A locked member is as the snapshot shows it.
LEMMA LockedIsSeen ==
  ASSUME IInv, NEW w \in Workers, pc[w] = "running", Isolated(w), NEW u \in Users,
         <<"member", u>> \in Touches(cmd[w], snap[w])
  PROVE  snap[w].members[u] = members[u]
BY DEF IInv, Tracked, WroteMember, Isolated, FirstUpdaterWins

\* The commit of a transaction that changes one member, and counts the owners
\* if it takes the role of an owner.
LEMMA ChangeKeeps ==
  ASSUME IInv, NEW w \in Workers, pc[w] = "running", Commit(w), NEW x \in Users,
         members' = [u \in Users |-> members'[u]],
         \A u \in Users \ {x} : members'[u] = members[u],
         <<"member", x>> \in WritesOf(cmd[w], snap[w]),
         x \in Owners(members) \ Owners(members)' =>
           /\ x \in Owners(snap[w].members)
           /\ Cardinality(Owners(snap[w].members)) > 1
           /\ Everyone \subseteq ReadsOf(cmd[w], snap[w])
  PROVE  IInv'
<1> DEFINE t == [reads |-> ReadsOf(cmd[w], snap[w]), writes |-> WritesOf(cmd[w], snap[w])]
<1>1. Functional'
  BY CommitFunctional DEF IInv
<1>2. ASSUME NEW v \in Workers, pc'[v] = "running" PROVE Tracked(v)'
  <2>1. /\ v # w /\ pc[v] = "running" /\ snap'[v] = snap[v]
        /\ since'[v] = since[v] \cup {t}
    BY <1>2, CommitLogs DEF IInv, Functional
  <2>2. Tracked(v)
    BY <2>1 DEF IInv
  <2>3. ASSUME NEW u \in Users, snap'[v].members[u] # members'[u]
        PROVE  \E s \in since'[v] : WroteMember(s, u)
    <3>1. CASE snap[v].members[u] # members[u]
      BY <2>1, <2>2, <3>1 DEF Tracked
    <3>2. CASE snap[v].members[u] = members[u]
      <4>1. u = x
        BY <2>1, <2>3, <3>2
      <4>2. WroteMember(t, u)
        BY <4>1 DEF WroteMember
      <4> QED
        BY <2>1, <4>2
    <3> QED
      BY <3>1, <3>2
  <2>4. ASSUME NEW u \in Owners(snap[v].members), u \notin Owners(members)'
        PROVE  \E s \in since'[v] : WroteMember(s, u) /\ Everyone \subseteq s.reads
    <3>1. CASE u \in Owners(members)
      <4>1. u = x
        BY <2>4, <3>1 DEF Owners
      <4>2. Everyone \subseteq t.reads /\ WroteMember(t, u)
        BY <2>4, <3>1, <4>1 DEF WroteMember
      <4> QED
        BY <2>1, <4>2
    <3>2. CASE u \notin Owners(members)
      BY <2>1, <2>2, <2>4, <3>2 DEF Tracked
    <3> QED
      BY <3>1, <3>2
  <2>5. Owners(snap'[v].members) = Owners(snap[v].members)
    BY <2>1
  <2> QED
    BY <2>3, <2>4, <2>5 DEF Tracked
<1>3. AlwaysAnOwner'
  <2>1. CASE x \in Owners(members) \ Owners(members)'
    <3>1. PICK y \in Owners(snap[w].members) : y # x
      BY <2>1, AnotherOwner
    <3>2. y \in Users
      BY DEF Owners
    <3>3. y \in Owners(members)
      <4>1. SUFFICES ASSUME y \notin Owners(members) PROVE FALSE
        OBVIOUS
      <4>2. PICK s \in since[w] : WroteMember(s, y) /\ Everyone \subseteq s.reads
        BY <4>1 DEF IInv, Tracked
      <4>3. s.writes \cap ReadsOf(cmd[w], snap[w]) # {}
        BY <2>1, <3>2, <4>2 DEF WroteMember, Everyone
      <4>4. s.reads \cap WritesOf(cmd[w], snap[w]) # {}
        BY <4>2 DEF Everyone
      <4> QED
        BY <4>2, <4>3, <4>4 DEF Commit, Isolated, NoWriteSkew
    <3> QED
      BY <3>1, <3>2, <3>3 DEF AlwaysAnOwner, Owners
  <2>2. CASE ~(x \in Owners(members) \ Owners(members)')
    BY <2>2 DEF IInv, AlwaysAnOwner, Owners
  <2> QED
    BY <2>1, <2>2
<1> QED
  BY <1>1, <1>2, <1>3 DEF IInv

-----------------------------------------------------------------------------
(* The actions that change a member. *)

\* A change of role leaves an owner,
LEMMA UpdateRoleKeeps ==
  ASSUME IInv, NEW w \in Workers, UpdateRole(w)
  PROVE  IInv'
<1> DEFINE x == cmd[w].target
<1>1. pc[w] = "running" /\ cmd[w] \in Commands /\ cmd[w].op = "role"
  BY DEF UpdateRole, Runs, IInv, Functional
<1>2. x \in Users
  BY <1>1, Targets
<1>3. /\ <<"member", x>> \in WritesOf(cmd[w], snap[w])
      /\ <<"member", x>> \in Touches(cmd[w], snap[w])
  BY <1>1 DEF WritesOf, Touches
<1>4. snap[w].members[x] = members[x]
  BY <1>1, <1>2, <1>3, LockedIsSeen DEF UpdateRole, Commit
<1>5. members' = [members EXCEPT ![x] = NewRole(w)] /\ Commit(w)
  BY DEF UpdateRole
<1>6. /\ members' = [u \in Users |-> members'[u]]
      /\ \A u \in Users \ {x} : members'[u] = members[u]
      /\ members'[x] = NewRole(w)
  BY <1>2, <1>5 DEF IInv, Functional
<1>7. ASSUME x \in Owners(members) \ Owners(members)'
      PROVE  /\ x \in Owners(snap[w].members)
             /\ Cardinality(Owners(snap[w].members)) > 1
             /\ Everyone \subseteq ReadsOf(cmd[w], snap[w])
  <2>1. x \in Owners(snap[w].members)
    BY <1>4, <1>7 DEF Owners
  <2>2. cmd[w].role # "OWNER"
    <3>1. SUFFICES ASSUME cmd[w].role = "OWNER" PROVE FALSE
      OBVIOUS
    <3>2. cmd[w] \in Command
      BY <1>1, CommandsAssumption
    <3>3. cmd[w].merchant \in Merchants \cup {None} /\ (cmd[w].merchant # None => cmd[w].role = "MERCHANT")
      BY <1>1, <3>2 DEF Command
    <3>4. NewRole(w) = [role |-> "OWNER", merchant |-> None]
      BY <3>1, <3>3 DEF NewRole
    <3>5. NewRole(w) \in Member
      BY <3>4 DEF Member, Roles
    <3>6. members'[x] # None /\ members'[x].role = "OWNER"
      BY <1>6, <3>4, <3>5, NoneAssumption
    <3> QED
      BY <1>2, <1>7, <3>6 DEF Owners
  <2>3. CountsOwners(cmd[w], snap[w])
    BY <1>1, <2>1, <2>2 DEF CountsOwners
  <2> QED
    BY <2>1, <2>3 DEF UpdateRole, LeavesAnOwner, ReadsOf, Everyone
<1> QED
  BY <1>1, <1>2, <1>3, <1>5, <1>6, <1>7, ChangeKeeps

\* and so does a removal,
LEMMA RemoveKeeps ==
  ASSUME IInv, NEW w \in Workers, Remove(w)
  PROVE  IInv'
<1> DEFINE x == cmd[w].target
<1>1. pc[w] = "running" /\ cmd[w] \in Commands /\ cmd[w].op = "remove"
  BY DEF Remove, Runs, IInv, Functional
<1>2. x \in Users
  BY <1>1, Targets
<1>3. /\ <<"member", x>> \in WritesOf(cmd[w], snap[w])
      /\ <<"member", x>> \in Touches(cmd[w], snap[w])
  BY <1>1 DEF WritesOf, Touches
<1>4. snap[w].members[x] = members[x]
  BY <1>1, <1>2, <1>3, LockedIsSeen DEF Remove, Commit
<1>5. members' = [members EXCEPT ![x] = None] /\ Commit(w)
  BY DEF Remove
<1>6. /\ members' = [u \in Users |-> members'[u]]
      /\ \A u \in Users \ {x} : members'[u] = members[u]
  BY <1>2, <1>5 DEF IInv, Functional
<1>7. ASSUME x \in Owners(members) \ Owners(members)'
      PROVE  /\ x \in Owners(snap[w].members)
             /\ Cardinality(Owners(snap[w].members)) > 1
             /\ Everyone \subseteq ReadsOf(cmd[w], snap[w])
  <2>1. x \in Owners(snap[w].members)
    BY <1>4, <1>7 DEF Owners
  <2>2. CountsOwners(cmd[w], snap[w])
    BY <1>1, <2>1 DEF CountsOwners
  <2> QED
    BY <2>1, <2>2 DEF Remove, LeavesAnOwner, ReadsOf, Everyone
<1> QED
  BY <1>1, <1>2, <1>3, <1>5, <1>6, <1>7, ChangeKeeps

\* the deletion of an account,
LEMMA DeleteAccountKeeps ==
  ASSUME IInv, NEW w \in Workers, DeleteAccount(w)
  PROVE  IInv'
<1> DEFINE x == cmd[w].actor
<1>1. pc[w] = "running" /\ cmd[w] \in Commands /\ cmd[w].op = "delete"
  BY DEF DeleteAccount, Runs, IInv, Functional
<1>2. x \in Users
  BY <1>1, Targets
<1>3. /\ <<"member", x>> \in WritesOf(cmd[w], snap[w])
      /\ <<"member", x>> \in Touches(cmd[w], snap[w])
  BY <1>1 DEF WritesOf, Touches
<1>4. snap[w].members[x] = members[x]
  BY <1>1, <1>2, <1>3, LockedIsSeen DEF DeleteAccount, Commit
<1>5. /\ members' = [members EXCEPT ![x] =
                       IF snap[w].members[x] = None THEN @ ELSE None]
      /\ Commit(w)
  BY DEF DeleteAccount
<1>6. /\ members' = [u \in Users |-> members'[u]]
      /\ \A u \in Users \ {x} : members'[u] = members[u]
  BY <1>2, <1>5 DEF IInv, Functional
<1>7. ASSUME x \in Owners(members) \ Owners(members)'
      PROVE  /\ x \in Owners(snap[w].members)
             /\ Cardinality(Owners(snap[w].members)) > 1
             /\ Everyone \subseteq ReadsOf(cmd[w], snap[w])
  <2>1. x \in Owners(snap[w].members)
    BY <1>4, <1>7 DEF Owners
  <2>2. CountsOwners(cmd[w], snap[w])
    BY <1>1, <2>1 DEF CountsOwners
  <2> QED
    BY <2>1, <2>2 DEF DeleteAccount, LeavesAnOwner, ReadsOf, Everyone
<1> QED
  BY <1>1, <1>2, <1>3, <1>5, <1>6, <1>7, ChangeKeeps

\* a change of merchant, which changes no role,
LEMMA SetMerchantKeeps ==
  ASSUME IInv, NEW w \in Workers, SetMerchant(w)
  PROVE  IInv'
<1> DEFINE x == cmd[w].target
<1>1. pc[w] = "running" /\ cmd[w] \in Commands /\ cmd[w].op = "link"
  BY DEF SetMerchant, Runs, IInv, Functional
<1>2. x \in Users
  BY <1>1, Targets
<1>3. /\ <<"member", x>> \in WritesOf(cmd[w], snap[w])
      /\ <<"member", x>> \in Touches(cmd[w], snap[w])
  BY <1>1 DEF WritesOf, Touches
<1>4. snap[w].members[x] = members[x]
  BY <1>1, <1>2, <1>3, LockedIsSeen DEF SetMerchant, Commit
<1>5. members[x].role = "MERCHANT"
  BY <1>4 DEF SetMerchant, Before
<1>6. x \notin Owners(members)
  BY <1>5 DEF Owners
<1>7. /\ members' = [u \in Users |-> members'[u]]
      /\ \A u \in Users \ {x} : members'[u] = members[u]
  BY <1>2 DEF SetMerchant, IInv, Functional
<1> QED
  BY <1>1, <1>2, <1>3, <1>6, <1>7, ChangeKeeps DEF SetMerchant

\* the acceptance of an invitation, which adds a member,
LEMMA AcceptKeeps ==
  ASSUME IInv, NEW w \in Workers, Accept(w)
  PROVE  IInv'
<1> DEFINE x == cmd[w].actor
<1>1. pc[w] = "running" /\ cmd[w] \in Commands /\ cmd[w].op = "accept"
  BY DEF Accept, Runs, IInv, Functional
<1>2. x \in Users
  BY <1>1, Targets
<1>3. <<"member", x>> \in WritesOf(cmd[w], snap[w])
  BY <1>1 DEF WritesOf
<1>4. members[x] = None
  BY DEF Accept
<1>5. x \notin Owners(members)
  BY <1>4 DEF Owners
<1>6. /\ members' = [u \in Users |-> members'[u]]
      /\ \A u \in Users \ {x} : members'[u] = members[u]
  BY <1>2 DEF Accept, IInv, Functional
<1> QED
  BY <1>1, <1>2, <1>3, <1>5, <1>6, ChangeKeeps DEF Accept

-----------------------------------------------------------------------------
(* The others. *)

\* What ends without a change of the members.
LEMMA CommitKeeps ==
  ASSUME IInv, NEW w \in Workers, Commit(w), UNCHANGED members
  PROVE  IInv'
<1>1. Functional'
  BY CommitFunctional DEF IInv, Functional
<1>2. ASSUME NEW v \in Workers, pc'[v] = "running"
      PROVE  pc[v] = "running" /\ snap'[v] = snap[v] /\ since[v] \subseteq since'[v]
  BY <1>2, CommitLogs DEF IInv, Functional
<1> QED
  BY <1>1, <1>2, QuietKeeps

\* and a request that writes no member.
LEMMA CommitLockedKeeps ==
  ASSUME IInv, NEW w \in Workers, NEW writes, CommitLocked(w, writes), UNCHANGED members
  PROVE  IInv'
<1>1. Functional'
  BY DEF CommitLocked, Done, Log, IInv, Functional
<1>2. ASSUME NEW v \in Workers, pc'[v] = "running"
      PROVE  pc[v] = "running" /\ snap'[v] = snap[v] /\ since[v] \subseteq since'[v]
  BY <1>2 DEF CommitLocked, Done, Log, IInv, Functional
<1> QED
  BY <1>1, <1>2, QuietKeeps

\* Every request keeps the invariant of the owners.
LEMMA RequestsKeep ==
  ASSUME IInv, NEW w \in Workers,
         (\E c \in Commands : Admit(w, c)) \/ Begin(w) \/ Fail(w)
  PROVE  IInv'
<1>1. UNCHANGED members
  BY DEF Admit, Begin, Fail, tables
<1>2. CASE \E c \in Commands : Admit(w, c)
  <2>1. PICK c \in Commands : Admit(w, c)
    BY <1>2
  <2>2. Functional'
    BY <2>1 DEF Admit, tables, IInv, Functional
  <2>3. ASSUME NEW v \in Workers, pc'[v] = "running"
        PROVE  pc[v] = "running" /\ snap'[v] = snap[v] /\ since[v] \subseteq since'[v]
    BY <2>1, <2>3 DEF Admit, IInv, Functional
  <2> QED
    BY <1>1, <2>2, <2>3, QuietKeeps
<1>3. CASE Begin(w)
  <2>1. Functional'
    BY <1>3 DEF Begin, tables, IInv, Functional
  <2>2. ASSUME NEW v \in Workers, pc'[v] = "running", v # w
        PROVE  pc[v] = "running" /\ snap'[v] = snap[v] /\ since[v] \subseteq since'[v]
    BY <1>3, <2>2 DEF Begin, IInv, Functional
  <2>3. snap'[w].members = members
    BY <1>3 DEF Begin, Snapshot, IInv, Functional
  <2> QED
    BY <1>1, <2>1, <2>2, <2>3, QuietKeeps
<1>4. CASE Fail(w)
  <2>1. Functional'
    BY <1>4 DEF Fail, Done, tables, IInv, Functional
  <2>2. ASSUME NEW v \in Workers, pc'[v] = "running"
        PROVE  pc[v] = "running" /\ snap'[v] = snap[v] /\ since[v] \subseteq since'[v]
    BY <1>4, <2>2 DEF Fail, Done, IInv, Functional
  <2> QED
    BY <1>1, <2>1, <2>2, QuietKeeps
<1> QED
  BY <1>2, <1>3, <1>4

\* What happens to the organization, a branch or an invitation meanwhile.
LEMMA OutsideKeeps ==
  ASSUME IInv, UNCHANGED <<members, pc, cmd, snap>>,
         \/ UNCHANGED since
         \/ \E t : Log(None, t)
  PROVE  IInv'
<1>1. Functional'
  BY DEF Log, IInv, Functional
<1>2. ASSUME NEW v \in Workers, pc'[v] = "running", UNCHANGED since
      PROVE  pc[v] = "running" /\ snap'[v] = snap[v] /\ since[v] \subseteq since'[v]
  BY <1>2
<1>3. ASSUME NEW v \in Workers, pc'[v] = "running", NEW t, Log(None, t)
      PROVE  pc[v] = "running" /\ snap'[v] = snap[v] /\ since[v] \subseteq since'[v]
  BY <1>3, NoneAssumption DEF Log
<1> QED
  BY <1>1, <1>2, <1>3, QuietKeeps

-----------------------------------------------------------------------------
(* The organization keeps an owner. *)

\* Every step keeps the invariant of the owners.
LEMMA StepKeeps ==
  ASSUME IInv, [Next]_vars
  PROVE  IInv'
<1>1. ASSUME NEW w \in Workers, (\E c \in Commands : Admit(w, c)) \/ Begin(w) \/ Fail(w)
      PROVE  IInv'
  BY <1>1, RequestsKeep
<1>2. ASSUME NEW w \in Workers, UpdateRole(w) PROVE IInv'
  BY <1>2, UpdateRoleKeeps
<1>3. ASSUME NEW w \in Workers, SetBranch(w) PROVE IInv'
  <2>1. Commit(w) /\ UNCHANGED members
    BY <1>3 DEF SetBranch
  <2> QED
    BY <2>1, CommitKeeps
<1>4. ASSUME NEW w \in Workers, SetMerchant(w) PROVE IInv'
  BY <1>4, SetMerchantKeeps
<1>5. ASSUME NEW w \in Workers, Remove(w) PROVE IInv'
  BY <1>5, RemoveKeeps
<1>6. ASSUME NEW w \in Workers, DeleteAccount(w) PROVE IInv'
  BY <1>6, DeleteAccountKeeps
<1>7. ASSUME NEW w \in Workers, Invite(w) \/ Resend(w) \/ Revoke(w) \/ Discard(w)
      PROVE  IInv'
  <2>1. PICK writes : CommitLocked(w, writes)
    BY <1>7 DEF Invite, Resend, Revoke, Discard
  <2>2. UNCHANGED members
    BY <1>7 DEF Invite, Resend, Revoke, Discard
  <2> QED
    BY <2>1, <2>2, CommitLockedKeeps
<1>8. ASSUME NEW w \in Workers, Accept(w) PROVE IInv'
  BY <1>8, AcceptKeeps
<1>9. ASSUME NEW i \in Invites, Expire(i) PROVE IInv'
  BY <1>9, OutsideKeeps DEF Expire, requests
<1>10. ASSUME SwitchOrganization PROVE IInv'
  BY <1>10, OutsideKeeps DEF SwitchOrganization
<1>11. ASSUME NEW b \in Branches, SwitchBranch(b) PROVE IInv'
  BY <1>11, OutsideKeeps DEF SwitchBranch
<1>12. ASSUME UNCHANGED vars PROVE IInv'
  BY <1>12, OutsideKeeps DEF vars
<1> QED
  BY <1>1, <1>2, <1>3, <1>4, <1>5, <1>6, <1>7, <1>8, <1>9, <1>10, <1>11, <1>12
     DEF Next

\* However demotions, removals and deletions of accounts race, in memberships
\* of any size, withOwnerInvariant leaves the organization an owner.
THEOREM OwnersAreKept == Spec => []AlwaysAnOwner
<1>1. IInv /\ [Next]_vars => IInv'
  BY StepKeeps
<1>2. IInv => AlwaysAnOwner
  BY DEF IInv
<1> QED
  BY InitOwned, <1>1, <1>2, PTL DEF Spec

-----------------------------------------------------------------------------
(* No owner and no merchant member keeps a branch.  A change of role deletes *)
(* the assignments that its snapshot shows; one that came meanwhile was      *)
(* written by a transaction that read the member, and the change read the    *)
(* assignments, so NoWriteSkew refuses the later of the two.                 *)

Invited(view) ==
  \A i \in Invites : view[i].state = "pending" =>
    view[i].member \in Member /\ view[i].member.role # "OWNER" /\ view[i].branches \subseteq Branches

\* A branch that a running transaction does not see was assigned since.
AccessTracked(w) ==
  \A u \in Users, b \in Branches : b \in access[u] /\ b \notin snap[w].access[u] =>
    \E t \in since[w] : <<"access", u, b>> \in t.writes /\ <<"member", u>> \in t.reads

Typed == access \in [Users -> SUBSET Branches] /\ invites \in [Invites -> Invitation]
StrayInv ==
  /\ IInv /\ Typed /\ Invited(invites)
  /\ \A w \in Workers : pc[w] = "running" => AccessTracked(w) /\ Invited(snap[w].invites)
  /\ NoStrayAccess

\* The initial state satisfies the invariant of the grants.
LEMMA InitStray == Init => StrayInv
<1> SUFFICES ASSUME Init PROVE StrayInv
  OBVIOUS
<1>1. Typed /\ Invited(invites)
  BY BoundsAssumption DEF Init, Typed, Invited, Invitation, NoInvitation, Tokens
<1>2. \A w \in Workers : pc[w] # "running"
  BY DEF Init
<1>3. NoStrayAccess
  BY DEF Init, NoStrayAccess
<1> QED
  BY InitOwned, <1>1, <1>2, <1>3 DEF StrayInv

\* A step that leaves members and assignments as they are.
LEMMA QuietStray ==
  ASSUME StrayInv, IInv', Typed', Invited(invites)', UNCHANGED <<members, access>>,
         \A w \in Workers : pc'[w] = "running" =>
           \/ snap'[w] = Snapshot
           \/ pc[w] = "running" /\ snap'[w] = snap[w] /\ since[w] \subseteq since'[w]
  PROVE  StrayInv'
<1>1. NoStrayAccess'
  BY DEF StrayInv, NoStrayAccess
<1>2. ASSUME NEW w \in Workers, pc'[w] = "running"
      PROVE  AccessTracked(w)' /\ Invited(snap[w].invites)'
  <2>1. CASE snap'[w] = Snapshot
    <3>1. snap'[w].access = access /\ snap'[w].invites = invites
      BY <2>1 DEF Snapshot
    <3> QED
      BY <3>1 DEF StrayInv, AccessTracked, Invited
  <2>2. CASE pc[w] = "running" /\ snap'[w] = snap[w] /\ since[w] \subseteq since'[w]
    BY <2>2 DEF StrayInv, AccessTracked, Invited
  <2> QED
    BY <1>2, <2>1, <2>2
<1> QED
  BY <1>1, <1>2 DEF StrayInv

\* The commit of a transaction that changes one member and its assignments.
LEMMA ChangeStray ==
  ASSUME StrayInv, IInv', Typed', Invited(invites)',
         NEW w \in Workers, Commit(w), NEW x \in Users,
         \A u \in Users \ {x} : members'[u] = members[u] /\ access'[u] = access[u],
         \A b \in access'[x] \ access[x] :
           /\ <<"access", x, b>> \in WritesOf(cmd[w], snap[w])
           /\ <<"member", x>> \in ReadsOf(cmd[w], snap[w]),
         members'[x] = None \/ members'[x].role \in {"OWNER", "MERCHANT"} => access'[x] = {}
  PROVE  StrayInv'
<1> DEFINE t == [reads |-> ReadsOf(cmd[w], snap[w]), writes |-> WritesOf(cmd[w], snap[w])]
<1>1. NoStrayAccess'
  BY DEF StrayInv, NoStrayAccess
<1>2. ASSUME NEW v \in Workers, pc'[v] = "running"
      PROVE  AccessTracked(v)' /\ Invited(snap[v].invites)'
  <2>1. /\ pc[v] = "running" /\ snap'[v] = snap[v]
        /\ since'[v] = since[v] \cup {t}
    BY <1>2, CommitLogs DEF StrayInv, IInv, Functional
  <2>2. AccessTracked(v) /\ Invited(snap[v].invites)
    BY <2>1 DEF StrayInv
  <2>3. ASSUME NEW u \in Users, NEW b \in Branches,
               b \in access'[u], b \notin snap[v].access[u]
        PROVE  \E s \in since'[v] : <<"access", u, b>> \in s.writes /\ <<"member", u>> \in s.reads
    <3>1. CASE b \in access[u]
      BY <2>1, <2>2, <2>3, <3>1 DEF AccessTracked
    <3>2. CASE b \notin access[u]
      <4>1. u = x
        BY <2>3, <3>2
      <4>2. <<"access", u, b>> \in t.writes /\ <<"member", u>> \in t.reads
        BY <2>3, <3>2, <4>1
      <4> QED
        BY <2>1, <4>2
    <3> QED
      BY <3>1, <3>2
  <2> QED
    BY <2>1, <2>2, <2>3 DEF AccessTracked, Invited
<1> QED
  BY <1>1, <1>2 DEF StrayInv

\* A change of role takes the grants its snapshot shows, and no other is left;
LEMMA UpdateRoleStray ==
  ASSUME StrayInv, IInv', NEW w \in Workers, UpdateRole(w)
  PROVE  StrayInv'
<1> DEFINE x == cmd[w].target
<1>1. pc[w] = "running" /\ cmd[w] \in Commands /\ cmd[w].op = "role"
  BY DEF UpdateRole, Runs, StrayInv, IInv, Functional
<1>2. x \in Users
  BY <1>1, Targets
<1>3. <<"member", x>> \in Touches(cmd[w], snap[w])
  BY <1>1 DEF Touches
<1>4. snap[w].members[x] = members[x]
  BY <1>1, <1>2, <1>3, LockedIsSeen DEF UpdateRole, Commit, StrayInv
<1>5. /\ members' = [members EXCEPT ![x] = NewRole(w)] /\ Commit(w)
      /\ access' = IF Before(w).role = cmd[w].role THEN access
                    ELSE [access EXCEPT ![x] = @ \ Before(w).branches]
      /\ UNCHANGED invites
  BY DEF UpdateRole
<1>6. Typed' /\ Invited(invites)'
  BY <1>2, <1>5 DEF StrayInv, Typed, Invited
<1>7. \A u \in Users \ {x} : members'[u] = members[u] /\ access'[u] = access[u]
  BY <1>2, <1>5 DEF StrayInv, Typed, IInv, Functional
<1>8. access'[x] \subseteq access[x]
  BY <1>2, <1>5 DEF StrayInv, Typed
<1>9. ASSUME members'[x] = None \/ members'[x].role \in {"OWNER", "MERCHANT"}
      PROVE  access'[x] = {}
  <2>1. NewRole(w) \in Member
    <3>1. cmd[w] \in Command
      BY <1>1, CommandsAssumption
    <3> QED
      BY <1>1, <3>1 DEF Command, NewRole, Member
  <2>2. members'[x] = NewRole(w) /\ NewRole(w) # None
    BY <1>2, <1>5, <2>1, NoneAssumption DEF StrayInv, IInv, Functional
  <2>3. cmd[w].role \in {"OWNER", "MERCHANT"}
    BY <1>9, <2>2 DEF NewRole
  <2>4. CASE Before(w).role = cmd[w].role
    <3>1. members[x].role \in {"OWNER", "MERCHANT"}
      BY <1>4, <2>3, <2>4 DEF Before
    <3> QED
      BY <1>2, <1>5, <2>4, <3>1 DEF StrayInv, NoStrayAccess
  <2>5. CASE Before(w).role # cmd[w].role
    <3>1. SUFFICES ASSUME NEW b \in access'[x] PROVE FALSE
      OBVIOUS
    <3>2. b \in access[x] /\ b \notin snap[w].access[x] /\ b \in Branches
      BY <1>2, <1>5, <2>5, <3>1 DEF Before, StrayInv, Typed
    <3>3. PICK t \in since[w] : <<"access", x, b>> \in t.writes /\ <<"member", x>> \in t.reads
      BY <1>1, <1>2, <3>2 DEF StrayInv, AccessTracked
    <3>4. <<"access", x, b>> \in ReadsOf(cmd[w], snap[w])
      BY <1>1, <3>2 DEF ReadsOf, AccessOf
    <3>5. <<"member", x>> \in WritesOf(cmd[w], snap[w])
      BY <1>1 DEF WritesOf
    <3> QED
      BY <1>5, <3>3, <3>4, <3>5 DEF Commit, Isolated, NoWriteSkew
  <2> QED
    BY <2>4, <2>5
<1> QED
  BY <1>2, <1>5, <1>6, <1>7, <1>8, <1>9, ChangeStray

\* a grant is made only to a role that may have it;
LEMMA SetBranchStray ==
  ASSUME StrayInv, IInv', NEW w \in Workers, SetBranch(w)
  PROVE  StrayInv'
<1> DEFINE x == cmd[w].target
<1>1. pc[w] = "running" /\ cmd[w] \in Commands /\ cmd[w].op \in {"grant", "revoke"}
  BY DEF SetBranch, Runs, StrayInv, IInv, Functional
<1>2. x \in Users /\ cmd[w].branch \in Branches
  BY <1>1, CommandsAssumption DEF Command
<1>3. <<"member", x>> \in Touches(cmd[w], snap[w])
  BY <1>1 DEF Touches
<1>4. snap[w].members[x] = members[x]
  BY <1>1, <1>2, <1>3, LockedIsSeen DEF SetBranch, Commit, StrayInv
<1>5. members[x] # None /\ members[x].role \notin {"OWNER", "MERCHANT"}
  BY <1>4 DEF SetBranch, Before
<1>6. /\ UNCHANGED <<members, invites>> /\ Commit(w)
      /\ access' = [access EXCEPT ![x] =
           IF cmd[w].op = "grant" THEN @ \cup {cmd[w].branch}
           ELSE @ \ ({cmd[w].branch} \cap Before(w).branches)]
  BY DEF SetBranch
<1>7. Typed' /\ Invited(invites)'
  BY <1>2, <1>6 DEF StrayInv, Typed, Invited
<1>8. \A u \in Users \ {x} : members'[u] = members[u] /\ access'[u] = access[u]
  BY <1>2, <1>6 DEF StrayInv, Typed
<1>9. ASSUME NEW b \in access'[x] \ access[x]
      PROVE  /\ <<"access", x, b>> \in WritesOf(cmd[w], snap[w])
             /\ <<"member", x>> \in ReadsOf(cmd[w], snap[w])
  <2>1. b = cmd[w].branch
    BY <1>2, <1>6, <1>9 DEF StrayInv, Typed
  <2> QED
    BY <1>1, <2>1 DEF WritesOf, ReadsOf
<1> QED
  BY <1>2, <1>5, <1>6, <1>7, <1>8, <1>9, ChangeStray

\* a change of merchant keeps the role;
LEMMA SetMerchantStray ==
  ASSUME StrayInv, IInv', NEW w \in Workers, SetMerchant(w)
  PROVE  StrayInv'
<1> DEFINE x == cmd[w].target
<1>1. pc[w] = "running" /\ cmd[w] \in Commands /\ cmd[w].op = "link"
  BY DEF SetMerchant, Runs, StrayInv, IInv, Functional
<1>2. x \in Users
  BY <1>1, Targets
<1>3. <<"member", x>> \in Touches(cmd[w], snap[w])
  BY <1>1 DEF Touches
<1>4. snap[w].members[x] = members[x]
  BY <1>1, <1>2, <1>3, LockedIsSeen DEF SetMerchant, Commit, StrayInv
<1>5. members[x].role = "MERCHANT"
  BY <1>4 DEF SetMerchant, Before
<1>6. access[x] = {}
  BY <1>2, <1>5 DEF StrayInv, NoStrayAccess
<1>7. Typed' /\ Invited(invites)'
  BY DEF SetMerchant, StrayInv, Typed, Invited
<1>8. \A u \in Users \ {x} : members'[u] = members[u] /\ access'[u] = access[u]
  BY <1>2 DEF SetMerchant, StrayInv, IInv, Functional
<1> QED
  BY <1>2, <1>6, <1>7, <1>8, ChangeStray DEF SetMerchant

\* whoever leaves leaves no grant;
LEMMA LeavingStray ==
  ASSUME StrayInv, IInv', NEW w \in Workers, Remove(w) \/ DeleteAccount(w)
  PROVE  StrayInv'
<1>1. CASE Remove(w)
  <2> DEFINE x == cmd[w].target
  <2>1. x \in Users
    BY <1>1, Targets DEF Remove, Runs, StrayInv, IInv, Functional
  <2>2. /\ access'[x] = {} /\ Commit(w) /\ Typed' /\ Invited(invites)'
        /\ \A u \in Users \ {x} : members'[u] = members[u] /\ access'[u] = access[u]
    BY <1>1, <2>1 DEF Remove, StrayInv, Typed, Invited, IInv, Functional
  <2> QED
    BY <2>1, <2>2, ChangeStray
<1>2. CASE DeleteAccount(w)
  <2> DEFINE x == cmd[w].actor
  <2>1. x \in Users
    BY <1>2, Targets DEF DeleteAccount, Runs, StrayInv, IInv, Functional
  <2>2. /\ Commit(w) /\ Typed' /\ Invited(invites)'
        /\ \A u \in Users \ {x} : members'[u] = members[u] /\ access'[u] = access[u]
    BY <1>2, <2>1 DEF DeleteAccount, StrayInv, Typed, Invited, IInv, Functional
  <2>3. access'[x] = {} \/ (members'[x] = members[x] /\ access'[x] = access[x])
    BY <1>2, <2>1 DEF DeleteAccount, StrayInv, Typed, IInv, Functional
  <2>4. CASE access'[x] = {}
    BY <2>1, <2>2, <2>4, ChangeStray
  <2>5. CASE members'[x] = members[x] /\ access'[x] = access[x]
    <3>1. members'[x] = None \/ members'[x].role \in {"OWNER", "MERCHANT"} => access'[x] = {}
      BY <2>1, <2>5 DEF StrayInv, NoStrayAccess
    <3> QED
      BY <2>1, <2>2, <2>5, <3>1, ChangeStray
  <2> QED
    BY <2>3, <2>4, <2>5
<1> QED
  BY <1>1, <1>2

\* and an accepted invitation grants what its role may have.
LEMMA AcceptStray ==
  ASSUME StrayInv, IInv', NEW w \in Workers, Accept(w)
  PROVE  StrayInv'
<1> DEFINE x == cmd[w].actor
           found == snap[w].invites[cmd[w].id]
<1>1. pc[w] = "running" /\ cmd[w] \in Commands /\ cmd[w].op = "accept"
  BY DEF Accept, Runs, StrayInv, IInv, Functional
<1>2. x \in Users /\ cmd[w].id \in Invites
  BY <1>1, CommandsAssumption DEF Command
<1>3. /\ found.member \in Member /\ found.member.role # "OWNER"
      /\ found.branches \subseteq Branches
  BY <1>1, <1>2 DEF Accept, Usable, StrayInv, Invited
<1>4. /\ members'[x] = found.member
      /\ access'[x] = IF found.member.role = "MERCHANT" THEN {} ELSE found.branches
      /\ \A u \in Users \ {x} : members'[u] = members[u] /\ access'[u] = access[u]
      /\ Commit(w)
  BY <1>2 DEF Accept, StrayInv, Typed, IInv, Functional
<1>5. access' \in [Users -> SUBSET Branches]
  BY <1>2, <1>3 DEF Accept, StrayInv, Typed
<1>6. invites' \in [Invites -> Invitation] /\ Invited(invites)'
  BY <1>2 DEF Accept, StrayInv, Typed, Invited, Invitation
<1>7. \A b \in Branches :
        /\ <<"access", x, b>> \in WritesOf(cmd[w], snap[w])
        /\ <<"member", x>> \in ReadsOf(cmd[w], snap[w])
  BY <1>1 DEF WritesOf, ReadsOf, AccessOf
<1>8. members'[x] = None \/ members'[x].role \in {"OWNER", "MERCHANT"} => access'[x] = {}
  BY <1>3, <1>4, NoneAssumption
<1> QED
  BY <1>2, <1>3, <1>4, <1>5, <1>6, <1>7, <1>8, ChangeStray DEF Typed

\* Invitations that are not accepted touch no grant.
LEMMA InvitationStray ==
  ASSUME StrayInv, IInv', NEW w \in Workers,
         Invite(w) \/ Resend(w) \/ Revoke(w) \/ Discard(w)
  PROVE  StrayInv'
<1>1. PICK writes : CommitLocked(w, writes) /\ UNCHANGED <<members, access>>
  BY DEF Invite, Resend, Revoke, Discard
<1>2. cmd[w] \in Command
  BY CommandsAssumption
     DEF Invite, Resend, Revoke, Discard, Locked, StrayInv, IInv, Functional
<1>3. Typed' /\ Invited(invites)'
  <2>1. CASE Invite(w)
    <3>1. cmd[w].op = "invite"
      BY <2>1 DEF Invite, Locked
    <3>2. /\ cmd[w].member \in Member /\ cmd[w].member.role # "OWNER"
          /\ cmd[w].branches \subseteq Branches /\ cmd[w].email \in Users
      BY <1>2, <3>1 DEF Command
    <3> QED
      BY <2>1, <3>2, BoundsAssumption
         DEF Invite, StrayInv, Typed, Invited, Invitation, Tokens
  <2>2. CASE Resend(w)
    <3>1. cmd[w].id \in Invites
      BY <1>2, <2>2 DEF Resend, Locked, Command
    <3> QED
      BY <2>2, <3>1, BoundsAssumption DEF Resend, StrayInv, Typed, Invited, Invitation, Tokens
  <2>3. CASE Revoke(w)
    <3>1. cmd[w].id \in Invites
      BY <1>2, <2>3 DEF Revoke, Locked, Command
    <3> QED
      BY <2>3, <3>1 DEF Revoke, StrayInv, Typed, Invited, Invitation
  <2>4. CASE Discard(w)
    <3>1. cmd[w].id \in Invites
      BY <1>2, <2>4 DEF Discard, Locked, Command
    <3> QED
      BY <2>4, <3>1 DEF Discard, StrayInv, Typed, Invited, Invitation
  <2> QED
    BY <2>1, <2>2, <2>3, <2>4
<1>4. ASSUME NEW v \in Workers, pc'[v] = "running"
      PROVE  pc[v] = "running" /\ snap'[v] = snap[v] /\ since[v] \subseteq since'[v]
  BY <1>1, <1>4 DEF CommitLocked, Done, Log, StrayInv, IInv, Functional
<1> QED
  BY <1>1, <1>3, <1>4, QuietStray

\* Every request keeps the invariant of the grants.
LEMMA RequestsStray ==
  ASSUME StrayInv, IInv', NEW w \in Workers,
         (\E c \in Commands : Admit(w, c)) \/ Begin(w) \/ Fail(w)
  PROVE  StrayInv'
<1>1. UNCHANGED tables
  BY DEF Admit, Begin, Fail
<1>2. Typed' /\ Invited(invites)' /\ UNCHANGED <<members, access>>
  BY <1>1 DEF tables, StrayInv, Typed, Invited
<1>3. ASSUME NEW v \in Workers, pc'[v] = "running"
      PROVE  \/ snap'[v] = Snapshot
             \/ pc[v] = "running" /\ snap'[v] = snap[v] /\ since[v] \subseteq since'[v]
  <2>1. CASE \E c \in Commands : Admit(w, c)
    BY <1>3, <2>1 DEF Admit, StrayInv, IInv, Functional
  <2>2. CASE Begin(w)
    BY <1>3, <2>2 DEF Begin, StrayInv, IInv, Functional
  <2>3. CASE Fail(w)
    BY <1>3, <2>3 DEF Fail, Done, StrayInv, IInv, Functional
  <2> QED
    BY <2>1, <2>2, <2>3
<1> QED
  BY <1>2, <1>3, QuietStray

\* So does everything outside of the requests.
LEMMA OutsideStray ==
  ASSUME StrayInv, IInv', UNCHANGED <<members, access, pc, cmd, snap>>,
         Typed', Invited(invites)',
         \/ UNCHANGED since
         \/ \E t : Log(None, t)
  PROVE  StrayInv'
<1>1. ASSUME NEW v \in Workers, pc'[v] = "running", UNCHANGED since
      PROVE  pc[v] = "running" /\ snap'[v] = snap[v] /\ since[v] \subseteq since'[v]
  BY <1>1
<1>2. ASSUME NEW v \in Workers, pc'[v] = "running", NEW t, Log(None, t)
      PROVE  pc[v] = "running" /\ snap'[v] = snap[v] /\ since[v] \subseteq since'[v]
  BY <1>2, NoneAssumption DEF Log
<1> QED
  BY <1>1, <1>2, QuietStray

\* Every step keeps the invariant of the grants.
LEMMA StepStray ==
  ASSUME StrayInv, [Next]_vars
  PROVE  StrayInv'
<1>0. IInv'
  BY StepKeeps DEF StrayInv
<1>1. ASSUME NEW w \in Workers, (\E c \in Commands : Admit(w, c)) \/ Begin(w) \/ Fail(w)
      PROVE  StrayInv'
  BY <1>0, <1>1, RequestsStray
<1>2. ASSUME NEW w \in Workers, UpdateRole(w) PROVE StrayInv'
  BY <1>0, <1>2, UpdateRoleStray
<1>3. ASSUME NEW w \in Workers, SetBranch(w) PROVE StrayInv'
  BY <1>0, <1>3, SetBranchStray
<1>4. ASSUME NEW w \in Workers, SetMerchant(w) PROVE StrayInv'
  BY <1>0, <1>4, SetMerchantStray
<1>5. ASSUME NEW w \in Workers, Remove(w) \/ DeleteAccount(w) PROVE StrayInv'
  BY <1>0, <1>5, LeavingStray
<1>6. ASSUME NEW w \in Workers, Invite(w) \/ Resend(w) \/ Revoke(w) \/ Discard(w)
      PROVE  StrayInv'
  BY <1>0, <1>6, InvitationStray
<1>7. ASSUME NEW w \in Workers, Accept(w) PROVE StrayInv'
  BY <1>0, <1>7, AcceptStray
<1>8. ASSUME NEW i \in Invites, Expire(i) PROVE StrayInv'
  <2>1. Typed' /\ Invited(invites)'
    BY <1>8 DEF Expire, StrayInv, Typed, Invited, Invitation
  <2> QED
    BY <1>0, <1>8, <2>1, OutsideStray DEF Expire, requests
<1>9. ASSUME SwitchOrganization \/ (\E b \in Branches : SwitchBranch(b)) \/ UNCHANGED vars
      PROVE  StrayInv'
  <2>1. UNCHANGED <<members, access, invites, pc, cmd, snap>>
    BY <1>9 DEF SwitchOrganization, SwitchBranch, vars
  <2>2. Typed' /\ Invited(invites)'
    BY <2>1 DEF StrayInv, Typed, Invited
  <2>3. UNCHANGED since \/ \E t : Log(None, t)
    BY <1>9 DEF SwitchOrganization, SwitchBranch, vars
  <2> QED
    BY <1>0, <2>1, <2>2, <2>3, OutsideStray
<1> QED
  BY <1>1, <1>2, <1>3, <1>4, <1>5, <1>6, <1>7, <1>8, <1>9 DEF Next

\* Grants, invitations and changes of role may race: an owner or a merchant
\* member has no branch assignment, and neither has somebody who left.
THEOREM NoAccessIsLeft == Spec => []NoStrayAccess
<1>1. StrayInv /\ [Next]_vars => StrayInv'
  BY StepStray
<1>2. StrayInv => NoStrayAccess
  BY DEF StrayInv
<1> QED
  BY InitStray, <1>1, <1>2, PTL DEF Spec

-----------------------------------------------------------------------------
(* What the trail tells of a member.  Every request that changes a role or a *)
(* merchant link locks the member, so what it found is what it changes and   *)
(* the event it leaves out, when nothing changed, would have said the same.  *)

AuditInv ==
  /\ StrayInv
  /\ members \in [Users -> Member \cup {None}]
  /\ audit = [u \in Users |-> audit[u]]
  /\ AuditFollowsRole

\* A step that changes neither the members nor their events.
LEMMA QuietAudit ==
  ASSUME AuditInv, StrayInv', UNCHANGED <<members, audit>>
  PROVE  AuditInv'
BY DEF AuditInv, AuditFollowsRole

\* A commit that changes one member and, if the change shows, its event.
LEMMA ChangeAudit ==
  ASSUME AuditInv, StrayInv', NEW x \in Users, NEW m \in Member \cup {None}, NEW e,
         members' = [members EXCEPT ![x] = m],
         audit' = [audit EXCEPT ![x] = e],
         m # None /\ e # None => e.role = m.role /\ e.merchant = m.merchant
  PROVE  AuditInv'
<1>1. members' \in [Users -> Member \cup {None}] /\ audit' = [u \in Users |-> audit'[u]]
  BY DEF AuditInv
<1>2. ASSUME NEW u \in Users, members'[u] # None, audit'[u] # None
      PROVE  audit'[u].role = members'[u].role /\ audit'[u].merchant = members'[u].merchant
  <2>1. CASE u = x
    <3>1. members'[u] = m /\ audit'[u] = e
      BY <2>1 DEF AuditInv
    <3> QED
      BY <1>2, <3>1
  <2>2. CASE u # x
    <3>1. members'[u] = members[u] /\ audit'[u] = audit[u]
      BY <2>2 DEF AuditInv
    <3> QED
      BY <1>2, <3>1 DEF AuditInv, AuditFollowsRole
  <2> QED
    BY <2>1, <2>2
<1> QED
  BY <1>1, <1>2 DEF AuditInv, AuditFollowsRole

\* What is recorded of a locked member tells its new role and merchant link.
LEMMA RecordFits ==
  ASSUME AuditInv, StrayInv', NEW w \in Workers, NEW x \in Users,
         x = cmd[w].target, snap[w].members[x] = members[x], members[x] # None,
         NEW m \in Member \cup {None}, members' = [members EXCEPT ![x] = m],
         NEW after, Record(w, after),
         m # None => after.role = m.role /\ after.merchant = m.merchant
  PROVE  AuditInv'
<1>1. CASE after = Before(w)
  <2>1. audit' = [audit EXCEPT ![x] = audit[x]]
    BY <1>1 DEF Record, AuditInv
  <2>2. after.role = members[x].role /\ after.merchant = members[x].merchant
    BY <1>1 DEF Before
  <2>3. m # None /\ audit[x] # None => audit[x].role = m.role /\ audit[x].merchant = m.merchant
    BY <2>2 DEF AuditInv, AuditFollowsRole
  <2> QED
    BY <2>1, <2>3, ChangeAudit
<1>2. CASE after # Before(w)
  <2>1. audit' = [audit EXCEPT ![x] = after]
    BY <1>2 DEF Record
  <2> QED
    BY <2>1, ChangeAudit
<1> QED
  BY <1>1, <1>2

\* A change of role, of branches or of the merchant link, or a removal.
LEMMA MemberAudit ==
  ASSUME AuditInv, StrayInv', NEW w \in Workers,
         UpdateRole(w) \/ SetBranch(w) \/ SetMerchant(w) \/ Remove(w)
  PROVE  AuditInv'
<1> DEFINE x == cmd[w].target
<1>1. /\ pc[w] = "running" /\ cmd[w] \in Commands /\ Isolated(w)
      /\ cmd[w].op \in {"role", "grant", "revoke", "link", "remove"}
      /\ snap[w].members[x] # None
  BY DEF UpdateRole, SetBranch, SetMerchant, Remove, Runs, Commit,
         AuditInv, StrayInv, IInv, Functional
<1>2. x \in Users /\ cmd[w] \in Command
  BY <1>1, Targets, CommandsAssumption
<1>3. <<"member", x>> \in Touches(cmd[w], snap[w])
  BY <1>1 DEF Touches
<1>4. snap[w].members[x] = members[x]
  BY <1>1, <1>2, <1>3, LockedIsSeen DEF AuditInv, StrayInv
<1>5. members[x] \in Member /\ members[x] # None
  BY <1>1, <1>2, <1>4 DEF AuditInv
<1>6. CASE UpdateRole(w)
  <2>1. cmd[w].op = "role"
    BY <1>6 DEF UpdateRole, Runs
  <2>2. NewRole(w) \in Member
    BY <1>2, <2>1 DEF Command, NewRole, Member
  <2> DEFINE after == [role |-> cmd[w].role, merchant |-> cmd[w].merchant,
                       branches |-> IF cmd[w].role \in {"OWNER", "MERCHANT"} THEN {}
                                    ELSE Before(w).branches]
  <2>3. members' = [members EXCEPT ![x] = NewRole(w)] /\ Record(w, after)
    BY <1>6 DEF UpdateRole
  <2>4. after.role = NewRole(w).role /\ after.merchant = NewRole(w).merchant
    BY DEF NewRole
  <2> HIDE DEF after
  <2> QED
    BY <1>2, <1>4, <1>5, <2>2, <2>3, <2>4, RecordFits
<1>7. CASE SetBranch(w)
  <2> DEFINE after == [Before(w) EXCEPT !.branches =
                         IF cmd[w].op = "grant" THEN @ \cup {cmd[w].branch}
                         ELSE @ \ {cmd[w].branch}]
  <2>1. UNCHANGED members /\ Record(w, after)
    BY <1>7 DEF SetBranch
  <2>2. members' = [members EXCEPT ![x] = members[x]]
    BY <2>1 DEF AuditInv
  <2>3. after.role = members[x].role /\ after.merchant = members[x].merchant
    BY <1>4 DEF Before
  <2> HIDE DEF after
  <2> QED
    BY <1>2, <1>4, <1>5, <2>1, <2>2, <2>3, RecordFits
<1>8. CASE SetMerchant(w)
  <2>1. cmd[w].op = "link"
    BY <1>8 DEF SetMerchant, Runs
  <2>2. cmd[w].merchant \in Merchants
    BY <1>2, <2>1 DEF Command
  <2>3. members[x].role = "MERCHANT"
    BY <1>4, <1>8 DEF SetMerchant, Before
  <2> DEFINE m == [members[x] EXCEPT !.merchant = cmd[w].merchant]
             after == [Before(w) EXCEPT !.merchant = cmd[w].merchant]
  <2>4. m \in Member /\ m.role = members[x].role /\ m.merchant = cmd[w].merchant
    BY <1>5, <2>2, <2>3 DEF Member
  <2>5. members' = [members EXCEPT ![x] = m] /\ Record(w, after)
    BY <1>2, <1>8 DEF SetMerchant, AuditInv
  <2>6. after.role = m.role /\ after.merchant = m.merchant
    BY <1>4, <2>4 DEF Before
  <2> HIDE DEF m, after
  <2> QED
    BY <1>2, <1>4, <1>5, <2>4, <2>5, <2>6, RecordFits
<1>9. CASE Remove(w)
  <2>1. members' = [members EXCEPT ![x] = None] /\ Record(w, NoMember)
    BY <1>9 DEF Remove
  <2> QED
    BY <1>2, <1>4, <1>5, <2>1, RecordFits
<1> QED
  BY <1>6, <1>7, <1>8, <1>9

\* Every step keeps what the trail tells.
LEMMA StepAudit ==
  ASSUME AuditInv, [Next]_vars
  PROVE  AuditInv'
<1>0. StrayInv'
  BY StepStray DEF AuditInv
<1>1. ASSUME NEW w \in Workers, UpdateRole(w) \/ SetBranch(w) \/ SetMerchant(w) \/ Remove(w)
      PROVE  AuditInv'
  BY <1>0, <1>1, MemberAudit
<1>2. ASSUME NEW w \in Workers, DeleteAccount(w) PROVE AuditInv'
  <2> DEFINE x == cmd[w].actor
  <2>1. x \in Users
    BY <1>2, Targets DEF DeleteAccount, Runs, AuditInv, StrayInv, IInv, Functional
  <2>2. members' = members \/ members' = [members EXCEPT ![x] = None]
    BY <1>2, <2>1 DEF DeleteAccount, AuditInv
  <2>3. UNCHANGED audit /\ audit' = [audit EXCEPT ![x] = audit[x]]
    BY <1>2 DEF DeleteAccount, AuditInv
  <2>4. CASE members' = members
    BY <1>0, <2>3, <2>4, QuietAudit
  <2>5. CASE members' = [members EXCEPT ![x] = None]
    <3> HIDE DEF x
    <3> QED
      BY <1>0, <2>1, <2>3, <2>5, ChangeAudit
  <2> QED
    BY <2>2, <2>4, <2>5
<1>3. ASSUME NEW w \in Workers, Accept(w) PROVE AuditInv'
  <2> DEFINE x == cmd[w].actor
             found == snap[w].invites[cmd[w].id]
  <2>1. pc[w] = "running" /\ cmd[w] \in Command /\ cmd[w].op = "accept"
    BY <1>3, CommandsAssumption DEF Accept, Runs, AuditInv, StrayInv, IInv, Functional
  <2>2. x \in Users /\ cmd[w].id \in Invites
    BY <2>1 DEF Command
  <2>3. found.member \in Member
    BY <1>3, <2>1, <2>2 DEF Accept, Usable, AuditInv, StrayInv, Invited
  <2>4. members' = [members EXCEPT ![x] = found.member] /\ audit' = [audit EXCEPT ![x] = None]
    BY <1>3 DEF Accept
  <2> HIDE DEF found
  <2> QED
    BY <1>0, <2>2, <2>3, <2>4, ChangeAudit
<1>4. ASSUME NEW w \in Workers,
             \/ \E c \in Commands : Admit(w, c)
             \/ Begin(w) \/ Fail(w)
             \/ Invite(w) \/ Resend(w) \/ Revoke(w) \/ Discard(w)
      PROVE  AuditInv'
  <2>1. UNCHANGED <<members, audit>>
    BY <1>4 DEF Admit, Begin, Fail, Invite, Resend, Revoke, Discard, tables
  <2> QED
    BY <1>0, <2>1, QuietAudit
<1>5. ASSUME \/ \E i \in Invites : Expire(i)
             \/ SwitchOrganization
             \/ \E b \in Branches : SwitchBranch(b)
             \/ UNCHANGED vars
      PROVE  AuditInv'
  <2>1. UNCHANGED <<members, audit>>
    BY <1>5 DEF Expire, SwitchOrganization, SwitchBranch, vars
  <2> QED
    BY <1>0, <2>1, QuietAudit
<1> QED
  BY <1>1, <1>2, <1>3, <1>4, <1>5 DEF Next

\* However role changes, merchant links, grants and removals race, the latest
\* event of a member tells the role and the merchant link it has.
THEOREM TrailTellsTheRole == Spec => []AuditFollowsRole
<1>1. Init => AuditInv
  <2> SUFFICES ASSUME Init PROVE AuditInv
    OBVIOUS
  <2>1. [role |-> "OWNER", merchant |-> None] \in Member
    BY DEF Member, Roles
  <2> QED
    BY <2>1, InitStray DEF Init, AuditInv, AuditFollowsRole
<1>2. AuditInv /\ [Next]_vars => AuditInv'
  BY StepAudit
<1>3. AuditInv => AuditFollowsRole
  BY DEF AuditInv
<1> QED
  BY <1>1, <1>2, <1>3, PTL DEF Spec

-----------------------------------------------------------------------------
(* What an acceptance relies on.  A transaction sees its invitation, the      *)
(* organization and the branches in its snapshot; whatever made them         *)
(* something else since is in its log, and FirstUpdaterWins lets nobody      *)
(* accept over it.  An invitation that only changed its state is caught by   *)
(* the claim, which looks at the row itself.                                 *)

WroteInvite(w, i) == \E t \in since[w] : <<"invite", i>> \in t.writes
WroteOrganization(w) == \E t \in since[w] : <<"organization">> \in t.writes
WroteBranch(w, b) == \E t \in since[w] : <<"branch", b>> \in t.writes

SameLink(one, other) == one.token = other.token /\ one.branches = other.branches

SeenTracked(w) ==
  /\ \A i \in Invites : SameLink(snap[w].invites[i], invites[i]) \/ WroteInvite(w, i)
  /\ snap[w].status = status \/ WroteOrganization(w)
  /\ \A b \in Branches \cap (snap[w].open \ open) : WroteBranch(w, b)
SeenInv ==
  /\ StrayInv
  /\ \A w \in Workers : pc[w] = "running" => SeenTracked(w)

\* A step logs what it makes of links, branches and the organization.
LEMMA LoggedSeen ==
  ASSUME SeenInv, StrayInv',
         \A w \in Workers : pc'[w] = "running" =>
           \/ /\ snap'[w] = Snapshot
              /\ UNCHANGED <<invites, status, open>>
           \/ /\ pc[w] = "running" /\ snap'[w] = snap[w] /\ since[w] \subseteq since'[w]
              /\ \A i \in Invites : SameLink(invites[i], invites'[i]) \/ WroteInvite(w, i)'
              /\ status = status' \/ WroteOrganization(w)'
              /\ \A b \in Branches \cap (open \ open') : WroteBranch(w, b)'
  PROVE  SeenInv'
<1>1. ASSUME NEW w \in Workers, pc'[w] = "running" PROVE SeenTracked(w)'
  <2>1. CASE snap'[w] = Snapshot /\ UNCHANGED <<invites, status, open>>
    BY <2>1 DEF SeenTracked, Snapshot, SameLink
  <2>2. CASE /\ pc[w] = "running" /\ snap'[w] = snap[w] /\ since[w] \subseteq since'[w]
             /\ \A i \in Invites : SameLink(invites[i], invites'[i]) \/ WroteInvite(w, i)'
             /\ status = status' \/ WroteOrganization(w)'
             /\ \A b \in Branches \cap (open \ open') : WroteBranch(w, b)'
    <3>1. SeenTracked(w)
      BY <2>2 DEF SeenInv
    <3>2. \A i \in Invites : WroteInvite(w, i) => WroteInvite(w, i)'
      BY <2>2 DEF WroteInvite
    <3>3. WroteOrganization(w) => WroteOrganization(w)'
      BY <2>2 DEF WroteOrganization
    <3>4. \A b \in Branches : WroteBranch(w, b) => WroteBranch(w, b)'
      BY <2>2 DEF WroteBranch
    <3>5. \A i \in Invites : SameLink(snap'[w].invites[i], invites'[i]) \/ WroteInvite(w, i)'
      BY <2>2, <3>1, <3>2 DEF SeenTracked, SameLink
    <3>6. snap'[w].status = status' \/ WroteOrganization(w)'
      BY <2>2, <3>1, <3>3 DEF SeenTracked
    <3>7. \A b \in Branches \cap (snap'[w].open \ open') : WroteBranch(w, b)'
      BY <2>2, <3>1, <3>4 DEF SeenTracked
    <3> QED
      BY <3>5, <3>6, <3>7 DEF SeenTracked
  <2> QED
    BY <1>1, <2>1, <2>2
<1> QED
  BY <1>1 DEF SeenInv

\* Most steps change none of them.
LEMMA QuietSeen ==
  ASSUME SeenInv, StrayInv', UNCHANGED <<status, open>>,
         \A i \in Invites : SameLink(invites[i], invites'[i]),
         \A w \in Workers : pc'[w] = "running" =>
           \/ snap'[w] = Snapshot /\ UNCHANGED invites
           \/ pc[w] = "running" /\ snap'[w] = snap[w] /\ since[w] \subseteq since'[w]
  PROVE  SeenInv'
BY LoggedSeen

\* The others go on after a commit, with a longer log.
LEMMA OthersGoOn ==
  ASSUME SeenInv, NEW w \in Workers, NEW t, Done(w) /\ Log(w, t),
         NEW v \in Workers, pc'[v] = "running"
  PROVE  pc[v] = "running" /\ snap'[v] = snap[v] /\ since'[v] = since[v] \cup {t}
BY DEF Done, Log, SeenInv, StrayInv, IInv, Functional

\* A new state of an invitation keeps its link and its branches.
LEMMA StateKeepsLink ==
  ASSUME SeenInv, NEW i \in Invites, NEW s, invites' = [invites EXCEPT ![i].state = s],
         NEW j \in Invites
  PROVE  SameLink(invites[j], invites'[j])
<1>1. invites[j] \in Invitation
  BY DEF SeenInv, StrayInv, Typed
<1> QED
  BY <1>1 DEF SeenInv, StrayInv, Typed, SameLink, Invitation

\* Serializable transactions write no link, no branch and no organization.
LEMMA CommitsSeen ==
  ASSUME SeenInv, StrayInv', NEW w \in Workers,
         UpdateRole(w) \/ SetBranch(w) \/ SetMerchant(w) \/ Remove(w)
           \/ DeleteAccount(w) \/ Accept(w)
  PROVE  SeenInv'
<1>1. Commit(w) /\ UNCHANGED <<status, open>>
  BY DEF UpdateRole, SetBranch, SetMerchant, Remove, DeleteAccount, Accept
<1>2. \A i \in Invites : SameLink(invites[i], invites'[i])
  <2>1. CASE Accept(w)
    <3>1. cmd[w].id \in Invites /\ invites' = [invites EXCEPT ![cmd[w].id].state = "accepted"]
      BY <2>1, CommandsAssumption
         DEF Accept, Runs, Command, SeenInv, StrayInv, IInv, Functional
    <3> QED
      BY <3>1, StateKeepsLink
  <2>2. CASE ~Accept(w)
    BY <2>2 DEF UpdateRole, SetBranch, SetMerchant, Remove, DeleteAccount, SameLink
  <2> QED
    BY <2>1, <2>2
<1>3. ASSUME NEW v \in Workers, pc'[v] = "running"
      PROVE  pc[v] = "running" /\ snap'[v] = snap[v] /\ since[v] \subseteq since'[v]
  BY <1>1, <1>3, OthersGoOn DEF Commit
<1> QED
  BY <1>1, <1>2, <1>3, QuietSeen

\* Sending and resending an invitation writes a new link, and logs it.
LEMMA LinksSeen ==
  ASSUME SeenInv, StrayInv', NEW w \in Workers, Invite(w) \/ Resend(w)
  PROVE  SeenInv'
<1>1. PICK i \in Invites : i = cmd[w].id
  BY CommandsAssumption
     DEF Invite, Resend, Locked, Command, SeenInv, StrayInv, IInv, Functional
<1>2. PICK writes : CommitLocked(w, writes) /\ <<"invite", i>> \in writes
  BY <1>1 DEF Invite, Resend
<1>3. \A j \in Invites \ {i} : SameLink(invites[j], invites'[j])
  <2>1. CASE Invite(w)
    <3>1. \A j \in Invites : invites[j] \in Invitation
      BY DEF SeenInv, StrayInv, Typed
    <3> QED
      BY <1>1, <2>1, <3>1 DEF Invite, SameLink, Invitation
  <2>2. CASE Resend(w)
    BY <1>1, <2>2 DEF Resend, SameLink, SeenInv, StrayInv, Typed
  <2> QED
    BY <2>1, <2>2
<1>4. ASSUME NEW v \in Workers, pc'[v] = "running"
      PROVE  /\ pc[v] = "running" /\ snap'[v] = snap[v] /\ since[v] \subseteq since'[v]
             /\ WroteInvite(v, i)'
  <2> DEFINE t == [reads |-> {}, writes |-> writes]
  <2>1. Done(w) /\ Log(w, t)
    BY <1>2 DEF CommitLocked
  <2>2. pc[v] = "running" /\ snap'[v] = snap[v] /\ since'[v] = since[v] \cup {t}
    BY <1>4, <2>1, OthersGoOn
  <2>3. t \in since'[v] /\ <<"invite", i>> \in t.writes
    BY <1>2, <2>2
  <2> HIDE DEF t
  <2> QED
    BY <2>2, <2>3 DEF WroteInvite
<1>5. UNCHANGED <<status, open>>
  BY DEF Invite, Resend
<1> QED
  BY <1>3, <1>4, <1>5, LoggedSeen

\* Every step keeps what a running transaction may rely on.
LEMMA StepSeen ==
  ASSUME SeenInv, [Next]_vars
  PROVE  SeenInv'
<1>0. StrayInv'
  BY StepStray DEF SeenInv
<1>1. ASSUME NEW w \in Workers,
             UpdateRole(w) \/ SetBranch(w) \/ SetMerchant(w) \/ Remove(w)
               \/ DeleteAccount(w) \/ Accept(w)
      PROVE  SeenInv'
  BY <1>0, <1>1, CommitsSeen
<1>2. ASSUME NEW w \in Workers, Invite(w) \/ Resend(w) PROVE SeenInv'
  BY <1>0, <1>2, LinksSeen
<1>3. ASSUME NEW w \in Workers, Revoke(w) \/ Discard(w) PROVE SeenInv'
  <2>1. PICK writes : CommitLocked(w, writes)
    BY <1>3 DEF Revoke, Discard
  <2>2. /\ cmd[w].id \in Invites /\ UNCHANGED <<status, open>>
        /\ \E s : invites' = [invites EXCEPT ![cmd[w].id].state = s]
    BY <1>3, CommandsAssumption
       DEF Revoke, Discard, Locked, Command, SeenInv, StrayInv, IInv, Functional
  <2>3. \A i \in Invites : SameLink(invites[i], invites'[i])
    BY <2>2, StateKeepsLink
  <2>4. ASSUME NEW v \in Workers, pc'[v] = "running"
        PROVE  pc[v] = "running" /\ snap'[v] = snap[v] /\ since[v] \subseteq since'[v]
    BY <2>1, <2>4, OthersGoOn DEF CommitLocked
  <2> QED
    BY <1>0, <2>2, <2>3, <2>4, QuietSeen
<1>4. ASSUME NEW w \in Workers, (\E c \in Commands : Admit(w, c)) \/ Begin(w) \/ Fail(w)
      PROVE  SeenInv'
  <2>1. UNCHANGED <<invites, status, open>>
    BY <1>4 DEF Admit, Begin, Fail, tables
  <2>2. ASSUME NEW v \in Workers, pc'[v] = "running"
        PROVE  \/ snap'[v] = Snapshot
               \/ pc[v] = "running" /\ snap'[v] = snap[v] /\ since[v] \subseteq since'[v]
    <3>1. CASE \E c \in Commands : Admit(w, c)
      BY <2>2, <3>1 DEF Admit, SeenInv, StrayInv, IInv, Functional
    <3>2. CASE Begin(w)
      BY <2>2, <3>2 DEF Begin, SeenInv, StrayInv, IInv, Functional
    <3>3. CASE Fail(w)
      BY <2>2, <3>3 DEF Fail, Done, SeenInv, StrayInv, IInv, Functional
    <3> QED
      BY <1>4, <3>1, <3>2, <3>3
  <2> QED
    BY <1>0, <2>1, <2>2, QuietSeen DEF SameLink
<1>5. ASSUME NEW i \in Invites, Expire(i) PROVE SeenInv'
  <2>1. \A j \in Invites : SameLink(invites[j], invites'[j])
    BY <1>5, StateKeepsLink DEF Expire
  <2> QED
    BY <1>0, <1>5, <2>1, QuietSeen DEF Expire, requests
<1>6. ASSUME SwitchOrganization PROVE SeenInv'
  <2>1. ASSUME NEW v \in Workers, pc'[v] = "running"
        PROVE  /\ pc[v] = "running" /\ snap'[v] = snap[v] /\ since[v] \subseteq since'[v]
               /\ WroteOrganization(v)'
    <3> DEFINE t == [reads |-> {}, writes |-> {<<"organization">>}]
    <3>1. Log(None, t) /\ UNCHANGED <<pc, snap>> /\ <<"organization">> \in t.writes
      BY <1>6 DEF SwitchOrganization
    <3> HIDE DEF t
    <3>2. pc[v] = "running" /\ since'[v] = since[v] \cup {t}
      BY <2>1, <3>1, NoneAssumption DEF Log
    <3> QED
      BY <3>1, <3>2 DEF WroteOrganization
  <2> QED
    BY <1>0, <1>6, <2>1, LoggedSeen DEF SwitchOrganization, SameLink
<1>7. ASSUME NEW b \in Branches, SwitchBranch(b) PROVE SeenInv'
  <2>1. ASSUME NEW v \in Workers, pc'[v] = "running"
        PROVE  /\ pc[v] = "running" /\ snap'[v] = snap[v] /\ since[v] \subseteq since'[v]
               /\ WroteBranch(v, b)'
    <3> DEFINE t == [reads |-> {}, writes |-> {<<"branch", b>>}]
    <3>1. Log(None, t) /\ UNCHANGED <<pc, snap>> /\ <<"branch", b>> \in t.writes
      BY <1>7 DEF SwitchBranch
    <3> HIDE DEF t
    <3>2. pc[v] = "running" /\ since'[v] = since[v] \cup {t}
      BY <2>1, <3>1, NoneAssumption DEF Log
    <3> QED
      BY <3>1, <3>2 DEF WroteBranch
  <2>2. \A c \in open \ open' : c = b
    BY <1>7 DEF SwitchBranch
  <2> QED
    BY <1>0, <1>7, <2>1, <2>2, LoggedSeen DEF SwitchBranch, SameLink
<1>8. ASSUME UNCHANGED vars PROVE SeenInv'
  BY <1>0, <1>8, QuietSeen DEF vars, SameLink
<1> QED
  BY <1>1, <1>2, <1>3, <1>4, <1>5, <1>6, <1>7, <1>8 DEF Next

\* An acceptance that commits finds its invitation, its branches and the
\* organization as it saw them.
LEMMA AcceptsWhatItSaw ==
  ASSUME SeenInv, NEW w \in Workers, Accept(w)
  PROVE  /\ invites[cmd[w].id].state = "pending"
         /\ invites[cmd[w].id].token = cmd[w].token
         /\ status = "ACTIVE"
         /\ invites[cmd[w].id].branches \subseteq open
<1> DEFINE i == cmd[w].id
           found == snap[w].invites[i]
<1>1. pc[w] = "running" /\ cmd[w].op = "accept" /\ cmd[w] \in Command
  BY CommandsAssumption DEF Accept, Runs, SeenInv, StrayInv, IInv, Functional
<1>2. i \in Invites
  BY <1>1 DEF Command
<1>3. /\ found.state = "pending" /\ found.token = cmd[w].token
      /\ found.branches \subseteq snap[w].open /\ snap[w].status = "ACTIVE"
      /\ invites[i].state = "pending"
  BY DEF Accept, Usable
<1>4. found.branches \subseteq Branches
  BY <1>1, <1>2, <1>3 DEF SeenInv, StrayInv, Invited
<1>5. /\ <<"organization">> \in Touches(cmd[w], snap[w])
      /\ <<"invite", i>> \in Touches(cmd[w], snap[w])
      /\ \A b \in found.branches : <<"branch", b>> \in Touches(cmd[w], snap[w])
  BY <1>1 DEF Touches
<1>6. FirstUpdaterWins(w) /\ SeenTracked(w)
  BY <1>1 DEF Accept, Commit, Isolated, SeenInv
<1>7. SameLink(found, invites[i])
  BY <1>2, <1>5, <1>6 DEF SeenTracked, WroteInvite, FirstUpdaterWins
<1>8. snap[w].status = status
  BY <1>5, <1>6 DEF SeenTracked, WroteOrganization, FirstUpdaterWins
<1>9. ASSUME NEW b \in found.branches PROVE b \in open
  BY <1>3, <1>4, <1>5, <1>6 DEF SeenTracked, WroteBranch, FirstUpdaterWins
<1> QED
  BY <1>3, <1>7, <1>8, <1>9 DEF SameLink

\* However invitations are revoked, removed, expire or are resent, branches
\* close and the organization stops while an acceptance runs: one that commits
\* accepts an invitation that is pending under its link, into open branches.
THEOREM AcceptsPending == Spec => AcceptedWhilePending
<1>1. Init => SeenInv
  BY InitStray DEF SeenInv, Init
<1>2. SeenInv /\ [Next]_vars => SeenInv'
  BY StepSeen
<1>3. SeenInv /\ [Next]_vars =>
        [\A w \in Workers : Accept(w) =>
           /\ invites[cmd[w].id].state = "pending"
           /\ invites[cmd[w].id].token = cmd[w].token
           /\ status = "ACTIVE"
           /\ invites[cmd[w].id].branches \subseteq open]_vars
  BY AcceptsWhatItSaw
<1> QED
  BY <1>1, <1>2, <1>3, PTL DEF Spec, AcceptedWhilePending

=============================================================================
