-------------------------------- MODULE Spaces --------------------------------
(***************************************************************************)
(* The physical spaces of branches and the merchants that occupy them      *)
(* (spaces/spaces.service.ts, spaces/space-occupancy.ts), the merchant and *)
(* participation status changes that end occupancies                       *)
(* (merchants/merchants.service.ts, merchant-branches/                     *)
(* merchant-branches.service.ts), and the catalog of space types.          *)
(*                                                                         *)
(* Every write is a SERIALIZABLE transaction that locks the Organization   *)
(* row and the caller's membership first.  It is two steps here, because   *)
(* its snapshot is taken by that first statement, before the lock is       *)
(* granted: the snapshot and the commit.                                   *)
(***************************************************************************)
EXTENDS Naturals, FiniteSets

CONSTANTS
  Users, Branches, Merchants, Spaces, Types,
  Occupancies,  \* ids of occupancies
  Workers,      \* requests in progress at once
  Commands,     \* requests the clients may send
  BranchOf,     \* the branch of each space
  Demoted,      \* bound: owners that may lose the role meanwhile
  Switched,     \* bound: branches whose status changes
  Switching,    \* bound: whether the organization's status changes
  MaxTime,      \* bound: of the clock
  MaxVersion,   \* bound: of the version of a type
  None

VARIABLES
  owners,       \* users whose membership has the role OWNER
  active,       \* whether the organization is ACTIVE
  open,         \* the ACTIVE branches
  merchants,    \* Merchant.status
  parts,        \* MerchantBranch.status by branch and merchant, or None
  spaces,       \* Space: status and type, or None
  types,        \* SpaceType: version and whether it is archived
  occupancies,  \* SpaceOccupancy by id, or None
  clock,
  pc,           \* idle or running (holds a snapshot)
  cmd,
  snap,         \* what the transaction of a worker sees
  since         \* transactions committed since that snapshot

rows == <<owners, active, open, merchants, parts, spaces, types, occupancies>>
requests == <<pc, cmd, snap, since>>
vars == <<owners, active, open, merchants, parts, spaces, types, occupancies,
          clock, pc, cmd, snap, since>>

-----------------------------------------------------------------------------
Times == 0 .. MaxTime
MerchantStatus == {"ACTIVE", "INACTIVE", "SUSPENDED", "ENDED"}
PartStatus == {"ACTIVE", "INACTIVE"}
Reasons == {"MANUAL", "PARTICIPATION_INACTIVE",
            "MERCHANT_INACTIVE", "MERCHANT_SUSPENDED", "MERCHANT_ENDED"}
Space == [status : {"ACTIVE", "ARCHIVED"}, type : Types]
SpaceType == [version : 1 .. MaxVersion, archived : BOOLEAN]
Occupancy == [space : Spaces, merchant : Merchants, startedAt : Times,
              endedAt : Times \cup {None}, reason : Reasons \cup {None}]
Snapshot == [owners |-> owners, active |-> active, open |-> open,
             merchants |-> merchants, parts |-> parts, spaces |-> spaces,
             types |-> types, occupancies |-> occupancies]

\* A date that is not given is the time of the request, or no end.
Command ==
  [op : {"assign"}, actor : Users, id : Occupancies, space : Spaces,
   merchant : Merchants, startedAt : Times \cup {None}, endedAt : Times \cup {None}]
  \cup [op : {"release"}, actor : Users, id : Occupancies, endedAt : Times \cup {None}]
  \cup [op : {"create", "retype"}, actor : Users, space : Spaces, type : Types]
  \cup [op : {"space"}, actor : Users, space : Spaces, status : {"ACTIVE", "ARCHIVED"}]
  \cup [op : {"type"}, actor : Users, type : Types, version : 1 .. MaxVersion,
        archived : BOOLEAN]
  \cup [op : {"merchant"}, actor : Users, merchant : Merchants, status : MerchantStatus]
  \cup [op : {"join"}, actor : Users, merchant : Merchants, branch : Branches]
  \cup [op : {"part"}, actor : Users, merchant : Merchants, branch : Branches,
        status : PartStatus]

ASSUME CommandsAssumption == Commands \subseteq Command
ASSUME BoundsAssumption ==
  /\ BranchOf \in [Spaces -> Branches]
  /\ Demoted \subseteq Users /\ Switched \subseteq Branches
  /\ Switching \in BOOLEAN /\ MaxTime \in Nat /\ MaxVersion \in Nat \ {0}
ASSUME NoneAssumption ==
  None \notin Nat \cup Reasons \cup Commands \cup Space \cup Occupancy
             \cup PartStatus \cup Workers

\* The values the variables take: rows, requests and answers of the right shape.
TypeOK ==
  /\ owners \subseteq Users /\ active \in BOOLEAN /\ open \subseteq Branches
  /\ merchants \in [Merchants -> MerchantStatus]
  /\ parts \in [Branches \X Merchants -> PartStatus \cup {None}]
  /\ spaces \in [Spaces -> Space \cup {None}]
  /\ types \in [Types -> SpaceType]
  /\ occupancies \in [Occupancies -> Occupancy \cup {None}]
  /\ clock \in Times
  /\ pc \in [Workers -> {"idle", "running"}]
  /\ cmd \in [Workers -> Commands \cup {None}]
  /\ \A w \in Workers : snap[w] # None <=> pc[w] = "running"
  /\ \A o \in Occupancies : occupancies[o] # None =>
       /\ occupancies[o].endedAt = None <=> occupancies[o].reason = None
       /\ occupancies[o].endedAt # None =>
            occupancies[o].endedAt > occupancies[o].startedAt

\* The open occupancies of a set of spaces by a set of merchants.
Held(view, where, who) ==
  {o \in Occupancies :
     /\ view[o] # None /\ view[o].endedAt = None
     /\ view[o].space \in where /\ view[o].merchant \in who}
SpacesIn(b) == {s \in Spaces : BranchOf[s] = b}

-----------------------------------------------------------------------------
(* Transactions. *)

\* What a query of a set of rows reads, and what it locks or updates.
HeldBy(ids, view) ==
  {<<"occupied", view[o].space, view[o].merchant>> : o \in ids}
    \cup ({"occupancy"} \X ids)
Ends(c) == c.op \in {"merchant", "part"} /\ c.status # "ACTIVE"
Released(c, view) ==
  Held(view.occupancies,
       IF c.op = "merchant" THEN Spaces ELSE SpacesIn(c.branch), {c.merchant})

ReadsOf(c, view) ==
  {<<"organization">>, <<"member", c.actor>>} \cup
  CASE c.op = "assign" ->
         {<<"branch", BranchOf[c.space]>>, <<"merchant", c.merchant>>,
          <<"part", BranchOf[c.space], c.merchant>>, <<"space", c.space>>}
           \cup ({"occupied"} \X {c.space} \X Merchants)
    [] c.op = "release" -> {<<"occupancy", c.id>>}
    [] c.op \in {"create", "retype"} ->
         {<<"branch", BranchOf[c.space]>>, <<"space", c.space>>, <<"type", c.type>>}
    [] c.op = "space" ->
         {<<"branch", BranchOf[c.space]>>, <<"space", c.space>>}
           \cup (IF c.status = "ARCHIVED"
                 THEN {"occupied"} \X {c.space} \X Merchants ELSE {})
    [] c.op = "type" -> {<<"type", c.type>>}
    [] c.op = "merchant" ->
         {<<"merchant", c.merchant>>}
           \cup (IF Ends(c) THEN {"occupied"} \X Spaces \X {c.merchant} ELSE {})
    [] c.op = "join" -> {<<"branch", c.branch>>, <<"part", c.branch, c.merchant>>}
    [] c.op = "part" ->
         {<<"merchant", c.merchant>>, <<"part", c.branch, c.merchant>>}
           \cup (IF c.status = "ACTIVE" THEN {<<"branch", c.branch>>} ELSE {})
           \cup (IF Ends(c) THEN {"occupied"} \X SpacesIn(c.branch) \X {c.merchant} ELSE {})

WritesOf(c, view) ==
  CASE c.op = "assign" ->
         {<<"occupancy", c.id>>, <<"occupied", c.space, c.merchant>>}
    [] c.op = "release" -> HeldBy({c.id}, view.occupancies)
    [] c.op \in {"create", "retype", "space"} -> {<<"space", c.space>>}
    [] c.op = "type" -> {<<"type", c.type>>}
    [] c.op = "merchant" ->
         {<<"merchant", c.merchant>>}
           \cup (IF Ends(c) THEN HeldBy(Released(c, view), view.occupancies) ELSE {})
    [] c.op = "join" -> {<<"part", c.branch, c.merchant>>}
    [] c.op = "part" ->
         {<<"part", c.branch, c.merchant>>}
           \cup (IF Ends(c) THEN HeldBy(Released(c, view), view.occupancies) ELSE {})

\* The rows it locks or updates; the space of an occupancy is locked with it.
Locks(c, view) ==
  {<<"organization">>, <<"member", c.actor>>} \cup
  CASE c.op = "assign" ->
         {<<"branch", BranchOf[c.space]>>, <<"merchant", c.merchant>>,
          <<"part", BranchOf[c.space], c.merchant>>, <<"space", c.space>>}
    [] c.op = "release" ->
         LET o == view.occupancies[c.id] IN
         {<<"branch", BranchOf[o.space]>>, <<"merchant", o.merchant>>,
          <<"space", o.space>>, <<"occupancy", c.id>>}
    [] c.op \in {"create", "retype"} ->
         {<<"branch", BranchOf[c.space]>>, <<"space", c.space>>, <<"type", c.type>>}
    [] c.op = "space" -> {<<"branch", BranchOf[c.space]>>, <<"space", c.space>>}
    [] c.op = "type" -> {<<"type", c.type>>}
    [] c.op = "join" -> {<<"branch", c.branch>>, <<"part", c.branch, c.merchant>>}
    [] c.op \in {"merchant", "part"} ->
         {<<"merchant", c.merchant>>}
           \cup (IF c.op = "part" THEN {<<"branch", c.branch>>,
                                        <<"part", c.branch, c.merchant>>} ELSE {})
           \cup (IF Ends(c)
                 THEN {<<"space", view.occupancies[o].space>> : o \in Released(c, view)}
                        \cup ({"occupancy"} \X Released(c, view)) ELSE {})

\* A row that was updated after the snapshot may not be locked or updated.
FirstUpdaterWins(w) ==
  \A t \in since[w] : t.writes \cap Locks(cmd[w], snap[w]) = {}
\* Two concurrent transactions never both miss what the other one wrote.
NoWriteSkew(w) ==
  \A t \in since[w] :
    \/ t.writes \cap ReadsOf(cmd[w], snap[w]) = {}
    \/ t.reads \cap WritesOf(cmd[w], snap[w]) = {}

\* Faulty variant: REPEATABLE READ.
RepeatableRead(w) == FirstUpdaterWins(w)
\* Faulty variant: no row is locked and nothing is detected.
NotIsolated(w) == TRUE
Isolated(w) == FirstUpdaterWins(w) /\ NoWriteSkew(w)

\* transaction(), mutate() and updateStatus(): the organization is active and
\* the caller is still an owner.
Runs(w, op) ==
  /\ pc[w] = "running" /\ cmd[w].op = op
  /\ snap[w].active /\ cmd[w].actor \in snap[w].owners

Log(w, t) ==
  since' = [v \in Workers |->
              IF v # w /\ pc[v] = "running" THEN since[v] \cup {t} ELSE {}]
Done(w) ==
  /\ pc' = [pc EXCEPT ![w] = "idle"]
  /\ cmd' = [cmd EXCEPT ![w] = None]
  /\ snap' = [snap EXCEPT ![w] = None]
Commit(w) == /\ Isolated(w) /\ Done(w)
             /\ Log(w, [reads |-> ReadsOf(cmd[w], snap[w]),
                        writes |-> WritesOf(cmd[w], snap[w])])

Begin(w, c) ==
  /\ pc[w] = "idle"
  /\ pc' = [pc EXCEPT ![w] = "running"]
  /\ cmd' = [cmd EXCEPT ![w] = c]
  /\ snap' = [snap EXCEPT ![w] = Snapshot]
  /\ UNCHANGED since /\ UNCHANGED <<rows, clock>>

\* Refused, in conflict (409), or failed: nothing stays behind.
Fail(w) ==
  /\ pc[w] = "running"
  /\ Done(w)
  /\ since' = [since EXCEPT ![w] = {}]
  /\ UNCHANGED <<rows, clock>>

-----------------------------------------------------------------------------
(* Occupancies. *)

Given(date) == IF date = None THEN clock ELSE date
Overlaps(o, startedAt, endedAt) ==
  /\ endedAt # None => o.startedAt < endedAt
  /\ o.endedAt # None => startedAt < o.endedAt

\* Faulty variant: only current occupancies are in the way.
OnlyCurrent(o, startedAt, endedAt) == o.endedAt = None /\ Overlaps(o, startedAt, endedAt)
InTheWay(o, startedAt, endedAt) == Overlaps(o, startedAt, endedAt)

Assign(w) ==
  LET c == cmd[w]
      startedAt == Given(c.startedAt)
      b == BranchOf[c.space] IN
  /\ Runs(w, "assign")
  /\ occupancies[c.id] = None
  /\ b \in snap[w].open
  /\ snap[w].merchants[c.merchant] = "ACTIVE"
  /\ snap[w].parts[<<b, c.merchant>>] = "ACTIVE"
  /\ snap[w].spaces[c.space] # None /\ snap[w].spaces[c.space].status = "ACTIVE"
  /\ startedAt <= clock
  /\ c.endedAt # None => c.endedAt <= clock /\ startedAt < c.endedAt
  /\ \A o \in Occupancies :
       snap[w].occupancies[o] # None /\ snap[w].occupancies[o].space = c.space =>
         ~InTheWay(snap[w].occupancies[o], startedAt, c.endedAt)
  \* The unique index on the open occupancy of a space.
  /\ c.endedAt = None => Held(occupancies, {c.space}, Merchants) = {}
  /\ Commit(w)
  /\ occupancies' = [occupancies EXCEPT ![c.id] =
       [space |-> c.space, merchant |-> c.merchant, startedAt |-> startedAt,
        endedAt |-> c.endedAt,
        reason |-> IF c.endedAt = None THEN None ELSE "MANUAL"]]
  /\ UNCHANGED <<owners, active, open, merchants, parts, spaces, types, clock>>

\* A branch that is inactive still allows it.
Release(w) ==
  LET c == cmd[w]
      endedAt == Given(c.endedAt) IN
  /\ Runs(w, "release")
  /\ snap[w].occupancies[c.id] # None
  /\ snap[w].occupancies[c.id].endedAt = None
  /\ endedAt <= clock /\ snap[w].occupancies[c.id].startedAt < endedAt
  /\ Commit(w)
  /\ occupancies' = [occupancies EXCEPT ![c.id].endedAt = endedAt,
                                        ![c.id].reason = "MANUAL"]
  /\ UNCHANGED <<owners, active, open, merchants, parts, spaces, types, clock>>

\* releaseMerchantSpaces(): the open occupancies the transaction found end now.
\* Faulty variant: the status changes and nothing is released.
EndNone(ids, reason) == occupancies
EndAll(ids, reason) ==
  [o \in Occupancies |->
     IF o \in ids THEN [occupancies[o] EXCEPT !.endedAt = clock, !.reason = reason]
     ELSE occupancies[o]]
MayEnd(w, ids) == \A o \in ids : snap[w].occupancies[o].startedAt < clock

-----------------------------------------------------------------------------
(* Merchants and their participation in branches. *)

ReasonOf(status) == CASE status = "INACTIVE" -> "MERCHANT_INACTIVE"
                      [] status = "SUSPENDED" -> "MERCHANT_SUSPENDED"
                      [] status = "ENDED" -> "MERCHANT_ENDED"

SetMerchantStatus(w) ==
  LET c == cmd[w]
      ids == Released(c, snap[w]) IN
  /\ Runs(w, "merchant")
  /\ Ends(c) => MayEnd(w, ids)
  /\ Commit(w)
  /\ merchants' = [merchants EXCEPT ![c.merchant] = c.status]
  /\ occupancies' = IF Ends(c) THEN EndAll(ids, ReasonOf(c.status)) ELSE occupancies
  /\ UNCHANGED <<owners, active, open, parts, spaces, types, clock>>

\* MerchantBranchesService.assign: an association that exists stays as it is.
Join(w) ==
  LET c == cmd[w]
      key == <<c.branch, c.merchant>> IN
  /\ Runs(w, "join")
  /\ c.branch \in snap[w].open
  /\ Commit(w)
  /\ parts' = IF snap[w].parts[key] = None THEN [parts EXCEPT ![key] = "ACTIVE"]
              ELSE parts
  /\ UNCHANGED <<owners, active, open, merchants, spaces, types, occupancies, clock>>

SetParticipation(w) ==
  LET c == cmd[w]
      key == <<c.branch, c.merchant>>
      ids == Released(c, snap[w]) IN
  /\ Runs(w, "part")
  /\ c.status = "ACTIVE" => c.branch \in snap[w].open
  /\ snap[w].parts[key] # None
  /\ Ends(c) => MayEnd(w, ids)
  /\ Commit(w)
  /\ parts' = [parts EXCEPT ![key] = c.status]
  /\ occupancies' = IF Ends(c) THEN EndAll(ids, "PARTICIPATION_INACTIVE") ELSE occupancies
  /\ UNCHANGED <<owners, active, open, merchants, spaces, types, clock>>

-----------------------------------------------------------------------------
(* Spaces and their types. *)

ActiveType(w, t) == ~snap[w].types[t].archived

CreateSpace(w) ==
  LET c == cmd[w] IN
  /\ Runs(w, "create")
  /\ BranchOf[c.space] \in snap[w].open
  /\ spaces[c.space] = None
  /\ ActiveType(w, c.type)
  /\ Commit(w)
  /\ spaces' = [spaces EXCEPT ![c.space] = [status |-> "ACTIVE", type |-> c.type]]
  /\ UNCHANGED <<owners, active, open, merchants, parts, types, occupancies, clock>>

\* update() with a type: the type a space already has may be archived.
Retype(w) ==
  LET c == cmd[w] IN
  /\ Runs(w, "retype")
  /\ BranchOf[c.space] \in snap[w].open
  /\ snap[w].spaces[c.space] # None
  /\ snap[w].spaces[c.space].type = c.type \/ ActiveType(w, c.type)
  /\ Commit(w)
  /\ spaces' = [spaces EXCEPT ![c.space].type = c.type]
  /\ UNCHANGED <<owners, active, open, merchants, parts, types, occupancies, clock>>

\* update() with a status: an occupied space is not archived.
SetSpaceStatus(w) ==
  LET c == cmd[w] IN
  /\ Runs(w, "space")
  /\ BranchOf[c.space] \in snap[w].open
  /\ snap[w].spaces[c.space] # None
  /\ c.status = "ARCHIVED" => Held(snap[w].occupancies, {c.space}, Merchants) = {}
  /\ Commit(w)
  /\ spaces' = [spaces EXCEPT ![c.space].status = c.status]
  /\ UNCHANGED <<owners, active, open, merchants, parts, types, occupancies, clock>>

\* Faulty variant: the version the client saw is not compared.
AnyVersion(w) == TRUE
SameVersion(w) == snap[w].types[cmd[w].type].version = cmd[w].version

\* Saving what is already there does not count as a new version.
UpdateType(w) ==
  LET c == cmd[w]
      found == snap[w].types[c.type] IN
  /\ Runs(w, "type")
  /\ SameVersion(w)
  /\ found.archived # c.archived => found.version < MaxVersion
  /\ Commit(w)
  /\ types' = IF found.archived = c.archived THEN types
              ELSE [types EXCEPT ![c.type] =
                      [version |-> found.version + 1, archived |-> c.archived]]
  /\ UNCHANGED <<owners, active, open, merchants, parts, spaces, occupancies, clock>>

-----------------------------------------------------------------------------
(* What else changes the rows these transactions read. *)

Tick ==
  /\ clock < MaxTime
  /\ clock' = clock + 1
  /\ UNCHANGED <<rows, requests>>

\* OrganizationMembershipsService.updateRole or remove.
Demote(u) ==
  /\ u \in Demoted \cap owners
  /\ owners' = owners \ {u}
  /\ Log(None, [reads |-> {}, writes |-> {<<"member", u>>}])
  /\ UNCHANGED <<active, open, merchants, parts, spaces, types, occupancies, clock,
                 pc, cmd, snap>>

\* OrganizationLifecycleService.changeStatus.
SwitchOrganization ==
  /\ Switching
  /\ active' = ~active
  /\ Log(None, [reads |-> {}, writes |-> {<<"organization">>}])
  /\ UNCHANGED <<owners, open, merchants, parts, spaces, types, occupancies, clock,
                 pc, cmd, snap>>

\* BranchesService.updateStatus: occupancies stay.
SwitchBranch(b) ==
  /\ b \in Switched /\ active
  /\ open' = IF b \in open THEN open \ {b} ELSE open \cup {b}
  /\ Log(None, [reads |-> {}, writes |-> {<<"branch", b>>}])
  /\ UNCHANGED <<owners, active, merchants, parts, spaces, types, occupancies, clock,
                 pc, cmd, snap>>

\* A catalog that was used before: every space exists unless a request creates it.
Init ==
  /\ owners = Users /\ active = TRUE /\ open = Branches
  /\ merchants = [m \in Merchants |-> "ACTIVE"]
  /\ parts = [key \in Branches \X Merchants |->
       IF \E c \in Commands : c.op = "join" /\ <<c.branch, c.merchant>> = key
       THEN None ELSE "ACTIVE"]
  /\ spaces \in [Spaces -> Space \cup {None}]
  /\ \A s \in Spaces :
       IF \E c \in Commands : c.op = "create" /\ c.space = s
       THEN spaces[s] = None
       ELSE spaces[s] # None /\ spaces[s].status = "ACTIVE"
  /\ types = [t \in Types |-> [version |-> 1, archived |-> FALSE]]
  /\ occupancies = [o \in Occupancies |-> None]
  /\ clock = 0
  /\ pc = [w \in Workers |-> "idle"]
  /\ cmd = [w \in Workers |-> None]
  /\ snap = [w \in Workers |-> None]
  /\ since = [w \in Workers |-> {}]

Next ==
  \/ \E w \in Workers :
       \/ \E c \in Commands : Begin(w, c)
       \/ Fail(w)
       \/ Assign(w) \/ Release(w)
       \/ SetMerchantStatus(w) \/ Join(w) \/ SetParticipation(w)
       \/ CreateSpace(w) \/ Retype(w) \/ SetSpaceStatus(w) \/ UpdateType(w)
  \/ Tick
  \/ \E u \in Users : Demote(u)
  \/ SwitchOrganization
  \/ \E b \in Branches : SwitchBranch(b)

Spec == Init /\ [][Next]_vars

-----------------------------------------------------------------------------
(* Properties. *)

\* A space has one occupant at a time: the periods of its occupancies, current
\* or recorded later, never overlap, although they are only counted before the
\* insert.
NeverDoubleOccupied ==
  \A o, p \in Occupancies :
    /\ o # p /\ occupancies[o] # None /\ occupancies[p] # None
    /\ occupancies[o].space = occupancies[p].space
    => ~Overlaps(occupancies[o], occupancies[p].startedAt, occupancies[p].endedAt)

\* Whoever occupies a space is an active merchant that participates in the
\* branch: deactivating either ends every occupancy, also one that was being
\* assigned meanwhile.
OccupantsAreActive ==
  \A o \in Held(occupancies, Spaces, Merchants) :
    LET m == occupancies[o].merchant IN
    /\ merchants[m] = "ACTIVE"
    /\ parts[<<BranchOf[occupancies[o].space], m>>] = "ACTIVE"

\* An archived space is empty.
ArchivedIsEmpty ==
  \A o \in Held(occupancies, Spaces, Merchants) :
    spaces[occupancies[o].space].status = "ACTIVE"

\* What a transaction may write, whatever changed since its snapshot: it writes for
\* a caller who still is an owner, and never while the organization is inactive;
ByAnOwner ==
  \A w \in Workers :
    pc[w] = "running" /\ pc'[w] = "idle"
      /\ <<merchants, parts, spaces, types, occupancies>>' #
         <<merchants, parts, spaces, types, occupancies>>
    => active /\ cmd[w].actor \in owners

\* a new occupancy begins in a branch and a space that accept it at that moment;
BeginsWhileOpen ==
  \A o \in Occupancies : occupancies[o] = None /\ occupancies'[o] # None =>
    LET s == occupancies'[o].space IN
    BranchOf[s] \in open /\ spaces[s].status = "ACTIVE"

\* and an occupancy ends once: neither a second release nor a later change of
\* status rewrites when and why it ended.
EndsOnce ==
  \A o \in Occupancies : occupancies[o] # None /\ occupancies[o].endedAt # None =>
    occupancies'[o] = occupancies[o]

\* Every write of a space command is lawful at the moment it commits.
WritesAreLawful == [][ByAnOwner /\ BeginsWhileOpen /\ EndsOnce]_vars

\* A change of a type is made by someone who saw the version it replaces, and
\* no space takes a type that is archived.
TypesAreCurrent ==
  [][/\ \A w \in Workers : UpdateType(w) => types[cmd[w].type].version = cmd[w].version
     /\ \A s \in Spaces :
          spaces'[s] # None /\ (spaces[s] = None \/ spaces[s].type # spaces'[s].type)
            => ~types[spaces'[s].type].archived]_vars
=============================================================================
