----------------------------- MODULE SpacesProofs -----------------------------
(***************************************************************************)
(* Spaces are never occupied twice, by nobody inactive and not while they  *)
(* are archived, and every write of a space command is lawful when it      *)
(* commits: for every set of spaces, merchants and requests.  A command    *)
(* judges everything by its snapshot.  Two facts carry its judgement over  *)
(* to the commit:                                                          *)
(*   - what it locked is as it saw it, because whoever changed it since    *)
(*     would be in the log, and FirstUpdaterWins refuses that;             *)
(*   - an occupancy that it did not see was assigned by a transaction that *)
(*     read the space, the merchant and its participation, and the other   *)
(*     occupancies of the space.  Whatever would make that occupancy wrong *)
(*     writes one of these and reads the occupancies itself, so            *)
(*     NoWriteSkew refuses the later of the two.                           *)
(***************************************************************************)
EXTENDS Spaces, TLAPS

Wrote(log, row) == \E t \in log : row \in t.writes

\* An occupancy only changes by ending.
Continues(old, new) ==
  /\ old.space = new.space /\ old.merchant = new.merchant
  /\ old.startedAt = new.startedAt
  /\ old.endedAt # None => new = old
\* A transaction that assigned an occupancy, and what it relied on.
AssignedBy(t, o) ==
  /\ <<"occupied", o.space, o.merchant>> \in t.writes
  /\ \A m \in Merchants : <<"occupied", o.space, m>> \in t.reads
  /\ <<"merchant", o.merchant>> \in t.reads
  /\ <<"part", BranchOf[o.space], o.merchant>> \in t.reads
  /\ <<"space", o.space>> \in t.reads

OccupancyFollows(log, o, old, new) ==
  /\ old # None => new # None /\ Continues(old, new)
  /\ old = new \/ Wrote(log, <<"occupancy", o>>)
  /\ old = None /\ new # None => \E t \in log : AssignedBy(t, new)

\* A log tells how one view of the tables became another.
Follows(log, old, new) ==
  /\ old.active = new.active \/ Wrote(log, <<"organization">>)
  /\ \A u \in Users \cap (old.owners \ new.owners) : Wrote(log, <<"member", u>>)
  /\ \A b \in Branches \cap (old.open \ new.open) : Wrote(log, <<"branch", b>>)
  /\ \A m \in Merchants : old.merchants[m] = new.merchants[m] \/ Wrote(log, <<"merchant", m>>)
  /\ \A b \in Branches, m \in Merchants :
       old.parts[<<b, m>>] = new.parts[<<b, m>>] \/ Wrote(log, <<"part", b, m>>)
  /\ \A s \in Spaces : old.spaces[s] = new.spaces[s] \/ Wrote(log, <<"space", s>>)
  /\ \A t \in Types : old.types[t] = new.types[t] \/ Wrote(log, <<"type", t>>)
  /\ \A o \in Occupancies :
       OccupancyFollows(log, o, old.occupancies[o], new.occupancies[o])

Shapes ==
  /\ merchants = [m \in Merchants |-> merchants[m]]
  /\ parts = [k \in Branches \X Merchants |-> parts[k]]
  /\ spaces \in [Spaces -> Space \cup {None}]
  /\ types = [t \in Types |-> types[t]]
  /\ occupancies \in [Occupancies -> Occupancy \cup {None}]
  /\ clock \in Times
  /\ pc \in [Workers -> {"idle", "running"}]
  /\ cmd = [w \in Workers |-> cmd[w]]
  /\ snap = [w \in Workers |-> snap[w]]
  /\ since = [w \in Workers |-> since[w]]
  /\ \A w \in Workers : pc[w] = "running" => cmd[w] \in Commands
SeenInv ==
  /\ Shapes
  /\ \A w \in Workers : pc[w] = "running" => Follows(since[w], snap[w], Snapshot)

\* What the commit of a worker leaves in the logs of the others.
Entry(w) == [reads |-> ReadsOf(cmd[w], snap[w]), writes |-> WritesOf(cmd[w], snap[w])]

-----------------------------------------------------------------------------
(* Logs. *)

\* A longer log tells no less.
LEMMA LongerLog ==
  ASSUME NEW log, NEW more, log \subseteq more, NEW row, Wrote(log, row)
  PROVE  Wrote(more, row)
BY DEF Wrote

\* What happened to an occupancy in two stretches of the log.
LEMMA OccupancyGoesOn ==
  ASSUME NEW log, NEW more, log \subseteq more, NEW o, NEW old, NEW mid, NEW new,
         OccupancyFollows(log, o, old, mid), OccupancyFollows(more, o, mid, new)
  PROVE  OccupancyFollows(more, o, old, new)
<1>1. old # None => new # None /\ Continues(old, new)
  BY DEF OccupancyFollows, Continues
<1>2. old = new \/ Wrote(more, <<"occupancy", o>>)
  BY LongerLog DEF OccupancyFollows
<1>3. ASSUME old = None, new # None PROVE \E t \in more : AssignedBy(t, new)
  <2>1. CASE mid = None
    BY <1>3, <2>1 DEF OccupancyFollows
  <2>2. CASE mid # None
    <3>1. PICK t \in log : AssignedBy(t, mid)
      BY <1>3, <2>2 DEF OccupancyFollows
    <3>2. mid.space = new.space /\ mid.merchant = new.merchant
      BY <2>2 DEF OccupancyFollows, Continues
    <3>3. AssignedBy(t, new)
      BY <3>1, <3>2 DEF AssignedBy
    <3> QED
      BY <3>1, <3>3
  <2> QED
    BY <2>1, <2>2
<1> QED
  BY <1>1, <1>2, <1>3 DEF OccupancyFollows

\* What happened to the tables in two stretches of the log.
LEMMA TablesGoOn ==
  ASSUME NEW log, NEW more, log \subseteq more, NEW old, NEW mid, NEW new,
         Follows(log, old, mid), Follows(more, mid, new)
  PROVE  Follows(more, old, new)
<1>1. \A row : Wrote(log, row) => Wrote(more, row)
  BY LongerLog
<1>2. \A o \in Occupancies : OccupancyFollows(more, o, old.occupancies[o], new.occupancies[o])
  BY OccupancyGoesOn DEF Follows
<1> QED
  BY <1>1, <1>2 DEF Follows

\* A view follows itself.
LEMMA NothingHappened ==
  ASSUME NEW log, NEW view
  PROVE  Follows(log, view, view)
BY DEF Follows, OccupancyFollows, Continues

\* Whatever is written by one entry is written by a log that has it.
LEMMA EntryTells ==
  ASSUME NEW t, NEW log, t \in log, NEW old, NEW new, Follows({t}, old, new)
  PROVE  Follows(log, old, new)
<1>1. {t} \subseteq log
  OBVIOUS
<1>2. Follows(log, new, new)
  BY NothingHappened
<1> QED
  BY <1>1, <1>2, TablesGoOn

-----------------------------------------------------------------------------
(* What the tables are to a running command. *)

\* A row that it locked has not been written since.
LEMMA LockedIsUnwritten ==
  ASSUME NEW w \in Workers, Isolated(w), NEW row \in Locks(cmd[w], snap[w])
  PROVE  ~Wrote(since[w], row)
BY DEF Isolated, FirstUpdaterWins, Wrote

\* Nobody it would have had to see, and who had to see it, came since.
LEMMA NoSkew ==
  ASSUME NEW w \in Workers, Isolated(w), NEW t \in since[w],
         NEW row \in ReadsOf(cmd[w], snap[w]), row \in t.writes,
         NEW other \in WritesOf(cmd[w], snap[w]), other \in t.reads
  PROVE  FALSE
BY DEF Isolated, NoWriteSkew

\* A commit keeps the logs true, if what it changes is what it says it writes.
LEMMA CommitSeen ==
  ASSUME SeenInv, NEW w \in Workers, Commit(w), Follows({Entry(w)}, Snapshot, Snapshot'),
         merchants' = [m \in Merchants |-> merchants'[m]],
         parts' = [k \in Branches \X Merchants |-> parts'[k]],
         spaces' \in [Spaces -> Space \cup {None}],
         types' = [t \in Types |-> types'[t]],
         occupancies' \in [Occupancies -> Occupancy \cup {None}], UNCHANGED clock
  PROVE  SeenInv'
<1> DEFINE e == Entry(w)
<1>1. /\ pc' = [pc EXCEPT ![w] = "idle"] /\ cmd' = [cmd EXCEPT ![w] = None]
      /\ snap' = [snap EXCEPT ![w] = None]
      /\ since' = [v \in Workers |->
                     IF v # w /\ pc[v] = "running" THEN since[v] \cup {e} ELSE {}]
  BY DEF Commit, Done, Log, Entry
<1> HIDE DEF e
<1>2. Shapes'
  BY <1>1 DEF SeenInv, Shapes
<1>3. ASSUME NEW v \in Workers, pc'[v] = "running"
      PROVE  Follows(since'[v], snap'[v], Snapshot')
  <2>1. v # w /\ pc[v] = "running" /\ snap'[v] = snap[v] /\ since'[v] = since[v] \cup {e}
    BY <1>1, <1>3 DEF SeenInv, Shapes
  <2>2. Follows(since[v], snap[v], Snapshot)
    BY <2>1 DEF SeenInv
  <2>3. Follows(since'[v], Snapshot, Snapshot')
    BY <2>1, EntryTells DEF e
  <2> QED
    BY <2>1, <2>2, <2>3, TablesGoOn
<1> QED
  BY <1>2, <1>3 DEF SeenInv

\* What it locked is as it saw it.
LEMMA LockedIsAsSeen ==
  ASSUME SeenInv, NEW w \in Workers, pc[w] = "running", Isolated(w)
  PROVE  /\ active = snap[w].active
         /\ cmd[w].actor \in Users \cap snap[w].owners => cmd[w].actor \in owners
         /\ \A b \in Branches : <<"branch", b>> \in Locks(cmd[w], snap[w]) =>
              (b \in snap[w].open => b \in open)
         /\ \A m \in Merchants : <<"merchant", m>> \in Locks(cmd[w], snap[w]) =>
              merchants[m] = snap[w].merchants[m]
         /\ \A b \in Branches, m \in Merchants :
              <<"part", b, m>> \in Locks(cmd[w], snap[w]) =>
                parts[<<b, m>>] = snap[w].parts[<<b, m>>]
         /\ \A s \in Spaces : <<"space", s>> \in Locks(cmd[w], snap[w]) =>
              spaces[s] = snap[w].spaces[s]
         /\ \A t \in Types : <<"type", t>> \in Locks(cmd[w], snap[w]) =>
              types[t] = snap[w].types[t]
         /\ \A o \in Occupancies : <<"occupancy", o>> \in Locks(cmd[w], snap[w]) =>
              occupancies[o] = snap[w].occupancies[o]
<1>1. Follows(since[w], snap[w], Snapshot)
  BY DEF SeenInv
<1>2. \A row \in Locks(cmd[w], snap[w]) : ~Wrote(since[w], row)
  BY LockedIsUnwritten
<1>3. <<"organization">> \in Locks(cmd[w], snap[w]) /\ <<"member", cmd[w].actor>> \in Locks(cmd[w], snap[w])
  BY DEF Locks
<1>4. Follows(since[w], snap[w],
        [owners |-> owners, active |-> active, open |-> open,
         merchants |-> merchants, parts |-> parts, spaces |-> spaces,
         types |-> types, occupancies |-> occupancies])
  BY <1>1 DEF Snapshot
<1>5. active = snap[w].active
  BY <1>2, <1>3, <1>4 DEF Follows
<1>6. cmd[w].actor \in Users \cap snap[w].owners => cmd[w].actor \in owners
  BY <1>2, <1>3, <1>4 DEF Follows
<1>7. \A o \in Occupancies : <<"occupancy", o>> \in Locks(cmd[w], snap[w]) =>
        occupancies[o] = snap[w].occupancies[o]
  BY <1>2, <1>4 DEF Follows, OccupancyFollows
<1> QED
  BY <1>2, <1>4, <1>5, <1>6, <1>7 DEF Follows

\* What became of the occupancies it saw, and where the others came from.
LEMMA OccupanciesFollow ==
  ASSUME SeenInv, NEW w \in Workers, pc[w] = "running", NEW o \in Occupancies
  PROVE  /\ snap[w].occupancies[o] # None =>
              occupancies[o] # None /\ Continues(snap[w].occupancies[o], occupancies[o])
         /\ snap[w].occupancies[o] = None /\ occupancies[o] # None =>
              \E t \in since[w] : AssignedBy(t, occupancies[o])
BY DEF SeenInv, Follows, OccupancyFollows, Snapshot

\* A request has the fields of its operation.
LEMMA Requested ==
  ASSUME SeenInv, NEW w \in Workers, pc[w] = "running"
  PROVE  /\ cmd[w] \in Command /\ cmd[w].actor \in Users
         /\ cmd[w].op = "assign" =>
              /\ cmd[w].id \in Occupancies /\ cmd[w].space \in Spaces
              /\ cmd[w].merchant \in Merchants /\ BranchOf[cmd[w].space] \in Branches
              /\ cmd[w].startedAt \in Times \cup {None} /\ cmd[w].endedAt \in Times \cup {None}
         /\ cmd[w].op = "release" =>
              cmd[w].id \in Occupancies /\ cmd[w].endedAt \in Times \cup {None}
         /\ cmd[w].op \in {"create", "retype"} =>
              /\ cmd[w].space \in Spaces /\ cmd[w].type \in Types
              /\ BranchOf[cmd[w].space] \in Branches
         /\ cmd[w].op = "space" =>
              /\ cmd[w].space \in Spaces /\ cmd[w].status \in {"ACTIVE", "ARCHIVED"}
              /\ BranchOf[cmd[w].space] \in Branches
         /\ cmd[w].op = "type" => cmd[w].type \in Types
         /\ cmd[w].op = "merchant" =>
              cmd[w].merchant \in Merchants /\ cmd[w].status \in MerchantStatus
         /\ cmd[w].op \in {"join", "part"} =>
              cmd[w].merchant \in Merchants /\ cmd[w].branch \in Branches
         /\ cmd[w].op = "part" => cmd[w].status \in PartStatus
<1>1. cmd[w] \in Command
  BY CommandsAssumption DEF SeenInv, Shapes
<1> QED
  BY <1>1, BoundsAssumption DEF Command

-----------------------------------------------------------------------------
(* Every command changes what it says it writes. *)

\* An assignment adds an occupancy.
LEMMA AssignSeen ==
  ASSUME SeenInv, NEW w \in Workers, Assign(w)
  PROVE  /\ SeenInv' /\ UNCHANGED <<owners, active, open, merchants, parts, spaces, types>>
         /\ Isolated(w) /\ pc[w] = "running" /\ cmd[w].op = "assign"
         /\ \E new \in Occupancy :
              /\ occupancies' = [occupancies EXCEPT ![cmd[w].id] = new]
              /\ new.space = cmd[w].space /\ new.merchant = cmd[w].merchant
              /\ new.startedAt = Given(cmd[w].startedAt) /\ new.endedAt = cmd[w].endedAt
<1> DEFINE c == cmd[w]
           new == [space |-> c.space, merchant |-> c.merchant,
                   startedAt |-> Given(c.startedAt), endedAt |-> c.endedAt,
                   reason |-> IF c.endedAt = None THEN None ELSE "MANUAL"]
<1>1. pc[w] = "running" /\ c.op = "assign" /\ Commit(w) /\ Isolated(w) /\ occupancies[c.id] = None
  BY DEF Assign, Runs, Commit
<1>2. /\ c.id \in Occupancies /\ c.space \in Spaces /\ c.merchant \in Merchants
      /\ c.startedAt \in Times \cup {None} /\ c.endedAt \in Times \cup {None}
  BY <1>1, Requested
<1>3. new \in Occupancy
  BY <1>2 DEF Occupancy, Given, SeenInv, Shapes, Reasons
<1>4. occupancies' = [occupancies EXCEPT ![c.id] = new]
  BY DEF Assign
<1>5. new.space = c.space /\ new.merchant = c.merchant
      /\ new.startedAt = Given(c.startedAt) /\ new.endedAt = c.endedAt
  OBVIOUS
<1> HIDE DEF new
<1>6. UNCHANGED <<owners, active, open, merchants, parts, spaces, types, clock>>
  BY DEF Assign
<1>7. AssignedBy(Entry(w), new)
  BY <1>1, <1>5 DEF AssignedBy, Entry, ReadsOf, WritesOf
<1>8. <<"occupancy", c.id>> \in Entry(w).writes
  BY <1>1 DEF Entry, WritesOf
<1>9. \A o \in Occupancies : OccupancyFollows({Entry(w)}, o, occupancies[o], occupancies'[o])
  <2>1. ASSUME NEW o \in Occupancies, o # c.id PROVE occupancies'[o] = occupancies[o]
    BY <1>4, <2>1 DEF SeenInv, Shapes
  <2>2. occupancies'[c.id] = new
    BY <1>2, <1>4 DEF SeenInv, Shapes
  <2> QED
    BY <1>1, <1>2, <1>7, <1>8, <2>1, <2>2 DEF OccupancyFollows, Continues, Wrote
<1>10. Follows({Entry(w)}, Snapshot, Snapshot')
  BY <1>6, <1>9 DEF Follows, Snapshot
<1>11. SeenInv'
  BY <1>1, <1>2, <1>3, <1>4, <1>6, <1>10, CommitSeen DEF SeenInv, Shapes
<1> QED
  BY <1>1, <1>3, <1>4, <1>5, <1>6, <1>11

\* What a release or a change of status does to the occupancies it found open.
Ended(w, ids) ==
  \E at \in Times, reason \in Reasons :
    occupancies' = [o \in Occupancies |->
      IF o \in ids THEN [occupancies[o] EXCEPT !.endedAt = at, !.reason = reason]
      ELSE occupancies[o]]

\* Ending the occupancies that a command locked, and that it found open.
LEMMA EndedFollows ==
  ASSUME SeenInv, NEW w \in Workers, pc[w] = "running", Isolated(w),
         NEW ids, ids \subseteq Occupancies,
         \A o \in ids : /\ <<"occupancy", o>> \in Locks(cmd[w], snap[w])
                        /\ <<"occupancy", o>> \in WritesOf(cmd[w], snap[w])
                        /\ snap[w].occupancies[o] # None
                        /\ snap[w].occupancies[o].endedAt = None,
         Ended(w, ids)
  PROVE  /\ occupancies' \in [Occupancies -> Occupancy \cup {None}]
         /\ \A o \in ids : occupancies[o] # None /\ occupancies[o].endedAt = None
         /\ \A o \in ids : occupancies'[o] # None /\ occupancies'[o].endedAt # None
         /\ \A o \in Occupancies \ ids : occupancies'[o] = occupancies[o]
         /\ \A o \in Occupancies : occupancies[o] # None =>
              occupancies'[o] # None /\ Continues(occupancies[o], occupancies'[o])
         /\ \A o \in Occupancies : occupancies[o] = None => occupancies'[o] = None
         /\ \A o \in Occupancies : OccupancyFollows({Entry(w)}, o, occupancies[o], occupancies'[o])
<1>1. PICK at \in Times, reason \in Reasons :
        occupancies' = [o \in Occupancies |->
          IF o \in ids THEN [occupancies[o] EXCEPT !.endedAt = at, !.reason = reason]
          ELSE occupancies[o]]
  BY DEF Ended
<1>2. \A o \in ids : occupancies[o] # None /\ occupancies[o].endedAt = None
  BY LockedIsAsSeen
<1>3. ASSUME NEW o \in ids
      PROVE  /\ occupancies'[o] \in Occupancy /\ occupancies'[o].endedAt = at
             /\ Continues(occupancies[o], occupancies'[o])
  <2>1. occupancies[o] \in Occupancy
    BY <1>2 DEF SeenInv, Shapes
  <2>2. occupancies'[o] = [occupancies[o] EXCEPT !.endedAt = at, !.reason = reason]
    BY <1>1
  <2> QED
    BY <1>2, <2>1, <2>2 DEF Occupancy, Continues
<1>4. at # None
  BY NoneAssumption DEF Times
<1>5. \A o \in Occupancies \ ids : occupancies'[o] = occupancies[o]
  BY <1>1
<1>6. \A o \in ids : occupancies'[o] # None
  BY <1>3, NoneAssumption
<1>7. \A o \in ids : <<"occupancy", o>> \in Entry(w).writes
  BY DEF Entry
<1>8. occupancies' \in [Occupancies -> Occupancy \cup {None}]
  <2>1. \A o \in Occupancies : occupancies'[o] \in Occupancy \cup {None}
    BY <1>3, <1>5 DEF SeenInv, Shapes
  <2> QED
    BY <1>1, <2>1
<1>9. \A o \in Occupancies : occupancies[o] # None =>
        occupancies'[o] # None /\ Continues(occupancies[o], occupancies'[o])
  BY <1>3, <1>5, <1>6 DEF Continues
<1>10. \A o \in Occupancies : OccupancyFollows({Entry(w)}, o, occupancies[o], occupancies'[o])
  BY <1>2, <1>5, <1>7, <1>9 DEF OccupancyFollows, Wrote
<1>11. \A o \in ids : occupancies'[o].endedAt # None
  BY <1>3, <1>4
<1> QED
  BY <1>2, <1>5, <1>6, <1>8, <1>9, <1>10, <1>11

\* The occupancies that a command ends.
EndedBy(w) ==
  {o \in Occupancies :
     \/ cmd[w].op = "release" /\ o = cmd[w].id
     \/ Ends(cmd[w]) /\ o \in Released(cmd[w], snap[w])}
Ending(w) == Release(w) \/ SetMerchantStatus(w) \/ SetParticipation(w)

\* A command that ends occupancies found each of them open, and locks it.
LEMMA EndingLocks ==
  ASSUME SeenInv, NEW w \in Workers, Ending(w)
  PROVE  /\ pc[w] = "running" /\ Commit(w) /\ Isolated(w)
         /\ cmd[w].op \in {"release", "merchant", "part"}
         /\ UNCHANGED <<owners, active, open, spaces, types, clock>>
         /\ \A o \in EndedBy(w) : /\ <<"occupancy", o>> \in Locks(cmd[w], snap[w])
                                  /\ <<"occupancy", o>> \in WritesOf(cmd[w], snap[w])
                                  /\ snap[w].occupancies[o] # None
                                  /\ snap[w].occupancies[o].endedAt = None
<1>1. CASE Release(w)
  <2>1. cmd[w].op = "release" /\ pc[w] = "running"
    BY <1>1 DEF Release, Runs
  <2>2. \A o \in EndedBy(w) : o = cmd[w].id
    BY <2>1 DEF EndedBy, Ends
  <2>3. /\ <<"occupancy", cmd[w].id>> \in Locks(cmd[w], snap[w])
        /\ <<"occupancy", cmd[w].id>> \in WritesOf(cmd[w], snap[w])
    BY <2>1 DEF Locks, WritesOf, HeldBy
  <2> QED
    BY <1>1, <2>1, <2>2, <2>3 DEF Release, Commit
<1>2. CASE SetMerchantStatus(w) \/ SetParticipation(w)
  <2>1. cmd[w].op \in {"merchant", "part"} /\ pc[w] = "running"
    BY <1>2 DEF SetMerchantStatus, SetParticipation, Runs
  <2>2. ASSUME NEW o \in EndedBy(w)
        PROVE  /\ <<"occupancy", o>> \in Locks(cmd[w], snap[w])
               /\ <<"occupancy", o>> \in WritesOf(cmd[w], snap[w])
               /\ snap[w].occupancies[o] # None
               /\ snap[w].occupancies[o].endedAt = None
    <3>1. Ends(cmd[w]) /\ o \in Released(cmd[w], snap[w])
      BY <2>1, <2>2 DEF EndedBy
    <3>2. snap[w].occupancies[o] # None /\ snap[w].occupancies[o].endedAt = None
      BY <3>1 DEF Released, Held
    <3>3. <<"occupancy", o>> \in Locks(cmd[w], snap[w])
      BY <2>1, <3>1 DEF Locks
    <3>4. <<"occupancy", o>> \in WritesOf(cmd[w], snap[w])
      BY <2>1, <3>1 DEF WritesOf, HeldBy
    <3> QED
      BY <3>2, <3>3, <3>4
  <2> QED
    BY <1>2, <2>1, <2>2 DEF SetMerchantStatus, SetParticipation, Commit
<1> QED
  BY <1>1, <1>2 DEF Ending

\* And it ends no other.
LEMMA EndingEnds ==
  ASSUME SeenInv, NEW w \in Workers, Ending(w)
  PROVE  Ended(w, EndedBy(w))
<1>1. clock \in Times /\ pc[w] = "running" /\ occupancies = [o \in Occupancies |-> occupancies[o]]
  BY EndingLocks DEF SeenInv, Shapes
<1>2. CASE Release(w)
  <2>1. cmd[w].op = "release"
    BY <1>2 DEF Release, Runs
  <2>2. cmd[w].id \in Occupancies /\ Given(cmd[w].endedAt) \in Times
    BY <1>1, <2>1, Requested DEF Given
  <2>3. EndedBy(w) = {cmd[w].id}
    BY <2>1, <2>2 DEF EndedBy, Ends
  <2>4. occupancies' = [o \in Occupancies |->
          IF o \in {cmd[w].id}
          THEN [occupancies[o] EXCEPT !.endedAt = Given(cmd[w].endedAt), !.reason = "MANUAL"]
          ELSE occupancies[o]]
    BY <1>1, <1>2, <2>2 DEF Release
  <2> QED
    BY <2>2, <2>3, <2>4 DEF Ended, Reasons
<1>3. ASSUME SetMerchantStatus(w) \/ SetParticipation(w) PROVE Ended(w, EndedBy(w))
  <2>1. cmd[w].op \in {"merchant", "part"}
    BY <1>3 DEF SetMerchantStatus, SetParticipation, Runs
  <2>2. CASE ~Ends(cmd[w])
    <3>1. EndedBy(w) = {} /\ occupancies' = occupancies
      BY <1>3, <2>1, <2>2 DEF EndedBy, SetMerchantStatus, SetParticipation
    <3>2. occupancies' = [o \in Occupancies |->
            IF o \in {} THEN [occupancies[o] EXCEPT !.endedAt = clock, !.reason = "MANUAL"]
            ELSE occupancies[o]]
      BY <1>1, <3>1
    <3> QED
      BY <1>1, <3>1, <3>2 DEF Ended, Reasons
  <2>3. CASE Ends(cmd[w])
    <3>1. EndedBy(w) = Released(cmd[w], snap[w])
      BY <2>1, <2>3 DEF EndedBy, Released, Held
    <3>2. PICK reason \in Reasons : occupancies' = EndAll(Released(cmd[w], snap[w]), reason)
      <4>1. CASE SetMerchantStatus(w)
        <5>1. cmd[w].op = "merchant"
          BY <4>1 DEF SetMerchantStatus, Runs
        <5>2. cmd[w].status \in {"INACTIVE", "SUSPENDED", "ENDED"}
          BY <1>1, <2>3, <5>1, Requested DEF Ends, MerchantStatus
        <5>3. ReasonOf(cmd[w].status) \in Reasons
          BY <5>2 DEF ReasonOf, Reasons
        <5> QED
          BY <2>3, <4>1, <5>3 DEF SetMerchantStatus
      <4>2. CASE SetParticipation(w)
        BY <2>3, <4>2 DEF SetParticipation, Reasons
      <4> QED
        BY <1>3, <4>1, <4>2
    <3>3. occupancies' = [o \in Occupancies |->
            IF o \in EndedBy(w) THEN [occupancies[o] EXCEPT !.endedAt = clock, !.reason = reason]
            ELSE occupancies[o]]
      BY <3>1, <3>2 DEF EndAll
    <3> QED
      BY <1>1, <3>3 DEF Ended
  <2> QED
    BY <2>2, <2>3
<1> QED
  BY <1>2, <1>3 DEF Ending

\* What such a command does to merchants and participations, it says it writes.
LEMMA EndingSeen ==
  ASSUME SeenInv, NEW w \in Workers, Ending(w)
  PROVE  SeenInv'
<1> DEFINE c == cmd[w]
<1>1. /\ pc[w] = "running" /\ Commit(w) /\ Isolated(w)
      /\ UNCHANGED <<owners, active, open, spaces, types, clock>>
  BY EndingLocks
<1>2. /\ occupancies' \in [Occupancies -> Occupancy \cup {None}]
      /\ \A o \in Occupancies : OccupancyFollows({Entry(w)}, o, occupancies[o], occupancies'[o])
  BY <1>1, EndingLocks, EndingEnds, EndedFollows DEF EndedBy
<1>3. /\ merchants' = [m \in Merchants |-> merchants'[m]]
      /\ \A m \in Merchants : merchants[m] = merchants'[m] \/ Wrote({Entry(w)}, <<"merchant", m>>)
  <2>1. CASE SetMerchantStatus(w)
    <3>1. c.op = "merchant" /\ merchants' = [merchants EXCEPT ![c.merchant] = c.status]
      BY <2>1 DEF SetMerchantStatus, Runs
    <3>2. <<"merchant", c.merchant>> \in Entry(w).writes
      BY <3>1 DEF Entry, WritesOf
    <3> QED
      BY <3>1, <3>2 DEF Wrote, SeenInv, Shapes
  <2>2. CASE ~SetMerchantStatus(w)
    BY <2>2 DEF Ending, Release, SetParticipation, SeenInv, Shapes
  <2> QED
    BY <2>1, <2>2
<1>4. /\ parts' = [k \in Branches \X Merchants |-> parts'[k]]
      /\ \A b \in Branches, m \in Merchants :
           parts[<<b, m>>] = parts'[<<b, m>>] \/ Wrote({Entry(w)}, <<"part", b, m>>)
  <2>1. CASE SetParticipation(w)
    <3>1. c.op = "part" /\ parts' = [parts EXCEPT ![<<c.branch, c.merchant>>] = c.status]
      BY <2>1 DEF SetParticipation, Runs
    <3>2. <<"part", c.branch, c.merchant>> \in Entry(w).writes
      BY <3>1 DEF Entry, WritesOf
    <3> QED
      BY <3>1, <3>2 DEF Wrote, SeenInv, Shapes
  <2>2. CASE ~SetParticipation(w)
    BY <2>2 DEF Ending, Release, SetMerchantStatus, SeenInv, Shapes
  <2> QED
    BY <2>1, <2>2
<1>5. Follows({Entry(w)}, Snapshot, Snapshot')
  BY <1>1, <1>2, <1>3, <1>4 DEF Follows, Snapshot
<1> QED
  BY <1>1, <1>2, <1>3, <1>4, <1>5, CommitSeen DEF SeenInv, Shapes

\* So does a command that changes a participation, a space or a type.
Changing(w) ==
  Join(w) \/ CreateSpace(w) \/ Retype(w) \/ SetSpaceStatus(w) \/ UpdateType(w)

LEMMA ChangingSeen ==
  ASSUME SeenInv, NEW w \in Workers, Changing(w)
  PROVE  /\ SeenInv' /\ pc[w] = "running" /\ Isolated(w)
         /\ UNCHANGED <<owners, active, open, merchants, occupancies, clock>>
<1> DEFINE c == cmd[w]
<1>1. /\ pc[w] = "running" /\ Commit(w) /\ Isolated(w)
      /\ UNCHANGED <<owners, active, open, merchants, occupancies, clock>>
  BY DEF Changing, Join, CreateSpace, Retype, SetSpaceStatus, UpdateType, Runs, Commit
<1>2. /\ parts' = [k \in Branches \X Merchants |-> parts'[k]]
      /\ \A b \in Branches, m \in Merchants :
           parts[<<b, m>>] = parts'[<<b, m>>] \/ Wrote({Entry(w)}, <<"part", b, m>>)
  <2>1. CASE Join(w)
    <3>1. c.op = "join" /\ (parts' = [parts EXCEPT ![<<c.branch, c.merchant>>] = "ACTIVE"] \/ parts' = parts)
      BY <2>1 DEF Join, Runs
    <3>2. <<"part", c.branch, c.merchant>> \in Entry(w).writes
      BY <3>1 DEF Entry, WritesOf
    <3> QED
      BY <3>1, <3>2 DEF Wrote, SeenInv, Shapes
  <2>2. CASE ~Join(w)
    BY <2>2 DEF Changing, CreateSpace, Retype, SetSpaceStatus, UpdateType, SeenInv, Shapes
  <2> QED
    BY <2>1, <2>2
<1>3. /\ spaces' \in [Spaces -> Space \cup {None}]
      /\ \A s \in Spaces : spaces[s] = spaces'[s] \/ Wrote({Entry(w)}, <<"space", s>>)
  <2>1. ASSUME CreateSpace(w) \/ Retype(w) \/ SetSpaceStatus(w)
        PROVE  /\ spaces' \in [Spaces -> Space \cup {None}]
               /\ \A s \in Spaces : spaces[s] = spaces'[s] \/ Wrote({Entry(w)}, <<"space", s>>)
    <3>1. c.op \in {"create", "retype", "space"}
      BY <2>1 DEF CreateSpace, Retype, SetSpaceStatus, Runs
    <3>2. c.space \in Spaces
      BY <1>1, <3>1, Requested
    <3>3. <<"space", c.space>> \in Entry(w).writes
      BY <3>1 DEF Entry, WritesOf
    <3>4. PICK new \in Space : spaces' = [spaces EXCEPT ![c.space] = new]
      <4>1. CASE CreateSpace(w)
        <5>1. c.type \in Types
          BY <1>1, <4>1, Requested DEF CreateSpace, Runs
        <5> QED
          BY <4>1, <5>1 DEF CreateSpace, Space
      <4>2. ASSUME Retype(w) \/ SetSpaceStatus(w)
            PROVE  \E new \in Space : spaces' = [spaces EXCEPT ![c.space] = new]
        <5>1. spaces[c.space] \in Space
          <6>1. <<"space", c.space>> \in Locks(c, snap[w])
            BY <3>1 DEF Locks
          <6>2. spaces[c.space] = snap[w].spaces[c.space]
            BY <1>1, <3>2, <6>1, LockedIsAsSeen
          <6> QED
            BY <3>2, <4>2, <6>2 DEF Retype, SetSpaceStatus, SeenInv, Shapes
        <5>2. CASE Retype(w)
          <6>1. c.type \in Types
            BY <1>1, <5>2, Requested DEF Retype, Runs
          <6> QED
            BY <5>1, <5>2, <6>1 DEF Retype, Space
        <5>3. CASE SetSpaceStatus(w)
          <6>1. c.status \in {"ACTIVE", "ARCHIVED"}
            BY <1>1, <5>3, Requested DEF SetSpaceStatus, Runs
          <6> QED
            BY <5>1, <5>3, <6>1 DEF SetSpaceStatus, Space
        <5> QED
          BY <4>2, <5>2, <5>3
      <4> QED
        BY <2>1, <4>1, <4>2
    <3> QED
      BY <3>2, <3>3, <3>4 DEF Wrote, SeenInv, Shapes
  <2>2. CASE ~(CreateSpace(w) \/ Retype(w) \/ SetSpaceStatus(w))
    BY <2>2 DEF Changing, Join, UpdateType, SeenInv, Shapes
  <2> QED
    BY <2>1, <2>2
<1>4. /\ types' = [t \in Types |-> types'[t]]
      /\ \A t \in Types : types[t] = types'[t] \/ Wrote({Entry(w)}, <<"type", t>>)
  <2>1. CASE UpdateType(w)
    <3>1. c.op = "type" /\ \E new : types' = types \/ types' = [types EXCEPT ![c.type] = new]
      BY <2>1 DEF UpdateType, Runs
    <3>2. <<"type", c.type>> \in Entry(w).writes
      BY <3>1 DEF Entry, WritesOf
    <3> QED
      BY <3>1, <3>2 DEF Wrote, SeenInv, Shapes
  <2>2. CASE ~UpdateType(w)
    BY <2>2 DEF Changing, Join, CreateSpace, Retype, SetSpaceStatus, SeenInv, Shapes
  <2> QED
    BY <2>1, <2>2
<1>5. Follows({Entry(w)}, Snapshot, Snapshot')
  <2>1. \A o \in Occupancies : OccupancyFollows({Entry(w)}, o, occupancies[o], occupancies'[o])
    BY <1>1 DEF OccupancyFollows, Continues
  <2> QED
    BY <1>1, <1>2, <1>3, <1>4, <2>1 DEF Follows, Snapshot
<1>6. SeenInv'
  BY <1>1, <1>2, <1>3, <1>4, <1>5, CommitSeen DEF SeenInv, Shapes
<1> QED
  BY <1>1, <1>6

\* A step in which no transaction ends takes a snapshot or only goes on.
LEMMA GoesOnSeen ==
  ASSUME SeenInv, Shapes', NEW t, Follows({t}, Snapshot, Snapshot'),
         \A w \in Workers : pc'[w] = "running" =>
           \/ snap'[w] = Snapshot /\ Snapshot' = Snapshot
           \/ /\ pc[w] = "running" /\ snap'[w] = snap[w]
              /\ since[w] \subseteq since'[w]
              /\ t \in since'[w] \/ Snapshot' = Snapshot
  PROVE  SeenInv'
<1>1. ASSUME NEW w \in Workers, pc'[w] = "running"
      PROVE  Follows(since'[w], snap'[w], Snapshot')
  <2>1. CASE snap'[w] = Snapshot /\ Snapshot' = Snapshot
    <3>1. Follows(since'[w], Snapshot, Snapshot)
      BY NothingHappened
    <3> QED
      BY <2>1, <3>1
  <2>2. CASE /\ pc[w] = "running" /\ snap'[w] = snap[w]
             /\ since[w] \subseteq since'[w]
             /\ t \in since'[w] \/ Snapshot' = Snapshot
    <3>1. Follows(since[w], snap[w], Snapshot)
      BY <2>2 DEF SeenInv
    <3>2. Follows(since'[w], Snapshot, Snapshot')
      <4>1. CASE t \in since'[w]
        BY <4>1, EntryTells
      <4>2. CASE Snapshot' = Snapshot
        <5>1. Follows(since'[w], Snapshot, Snapshot)
          BY NothingHappened
        <5> QED
          BY <4>2, <5>1
      <4> QED
        BY <2>2, <4>1, <4>2
    <3> QED
      BY <2>2, <3>1, <3>2, TablesGoOn
  <2> QED
    BY <1>1, <2>1, <2>2
<1> QED
  BY <1>1 DEF SeenInv

\* A request that starts, one that fails, and the clock.
LEMMA RequestsSeen ==
  ASSUME SeenInv,
         \/ \E w \in Workers : Fail(w) \/ \E c \in Commands : Begin(w, c)
         \/ Tick
         \/ UNCHANGED vars
  PROVE  SeenInv' /\ UNCHANGED rows
<1>1. UNCHANGED rows
  BY DEF Begin, Fail, Tick, vars, rows
<1>2. Snapshot' = Snapshot
  BY <1>1 DEF Snapshot, rows
<1>3. clock' \in Nat /\ clock' \in Times
  BY BoundsAssumption DEF Begin, Fail, Tick, vars, SeenInv, Shapes, Times
<1>4. Shapes'
  <2>1. ASSUME NEW w \in Workers, Fail(w) PROVE Shapes'
    BY <1>1, <1>3, <2>1 DEF Fail, Done, rows, SeenInv, Shapes
  <2>2. ASSUME NEW w \in Workers, NEW c \in Commands, Begin(w, c) PROVE Shapes'
    BY <1>1, <1>3, <2>2 DEF Begin, rows, SeenInv, Shapes
  <2>3. ASSUME Tick \/ UNCHANGED vars PROVE Shapes'
    BY <1>1, <1>3, <2>3 DEF Tick, vars, rows, requests, SeenInv, Shapes
  <2> QED
    BY <2>1, <2>2, <2>3
<1>5. ASSUME NEW v \in Workers, pc'[v] = "running"
      PROVE  \/ snap'[v] = Snapshot
             \/ pc[v] = "running" /\ snap'[v] = snap[v] /\ since[v] \subseteq since'[v]
  <2>1. CASE \E w \in Workers : Fail(w)
    BY <1>5, <2>1 DEF Fail, Done, SeenInv, Shapes
  <2>2. CASE \E w \in Workers, c \in Commands : Begin(w, c)
    BY <1>5, <2>2 DEF Begin, SeenInv, Shapes
  <2>3. CASE Tick \/ UNCHANGED vars
    BY <1>5, <2>3 DEF Tick, vars, requests
  <2> QED
    BY <2>1, <2>2, <2>3
<1>6. Follows({[reads |-> {}, writes |-> {}]}, Snapshot, Snapshot')
  BY <1>2, NothingHappened
<1> QED
  BY <1>1, <1>2, <1>4, <1>5, <1>6, GoesOnSeen

\* What other services do to owners, branches and the organization is logged.
LEMMA OutsideSeen ==
  ASSUME SeenInv,
         \/ \E u \in Users : Demote(u)
         \/ SwitchOrganization
         \/ \E b \in Branches : SwitchBranch(b)
  PROVE  /\ SeenInv'
         /\ UNCHANGED <<merchants, parts, spaces, types, occupancies, clock, pc, cmd>>
<1>1. PICK row : /\ Log(None, [reads |-> {}, writes |-> {row}])
                 /\ UNCHANGED <<merchants, parts, spaces, types, occupancies, clock, pc, cmd, snap>>
                 /\ active = active' \/ row = <<"organization">>
                 /\ \A u \in owners \ owners' : row = <<"member", u>>
                 /\ \A b \in open \ open' : row = <<"branch", b>>
  <2>1. ASSUME NEW u \in Users, Demote(u)
        PROVE  /\ Log(None, [reads |-> {}, writes |-> {<<"member", u>>}])
               /\ UNCHANGED <<active, open, merchants, parts, spaces, types, occupancies, clock, pc, cmd, snap>>
               /\ \A v \in owners \ owners' : v = u
    BY <2>1 DEF Demote
  <2>2. ASSUME NEW b \in Branches, SwitchBranch(b)
        PROVE  /\ Log(None, [reads |-> {}, writes |-> {<<"branch", b>>}])
               /\ UNCHANGED <<owners, active, merchants, parts, spaces, types, occupancies, clock, pc, cmd, snap>>
               /\ \A c \in open \ open' : c = b
    BY <2>2 DEF SwitchBranch
  <2>3. ASSUME SwitchOrganization
        PROVE  /\ Log(None, [reads |-> {}, writes |-> {<<"organization">>}])
               /\ UNCHANGED <<owners, open, merchants, parts, spaces, types, occupancies, clock, pc, cmd, snap>>
    BY <2>3 DEF SwitchOrganization
  <2>4. CASE \E u \in Users : Demote(u)
    <3>1. PICK u \in Users : Demote(u)
      BY <2>4
    <3> WITNESS <<"member", u>>
    <3> QED
      BY <2>1, <3>1
  <2>5. CASE \E b \in Branches : SwitchBranch(b)
    <3>1. PICK b \in Branches : SwitchBranch(b)
      BY <2>5
    <3> WITNESS <<"branch", b>>
    <3> QED
      BY <2>2, <3>1
  <2>6. CASE SwitchOrganization
    <3> WITNESS <<"organization">>
    <3> QED
      BY <2>3, <2>6
  <2> QED
    BY <2>4, <2>5, <2>6
<1> DEFINE t == [reads |-> {}, writes |-> {row}]
<1>2. Follows({t}, Snapshot, Snapshot')
  <2>1. Wrote({t}, row)
    BY DEF Wrote
  <2> HIDE DEF t
  <2> QED
    BY <1>1, <2>1 DEF Follows, OccupancyFollows, Continues, Snapshot
<1>3. since' = [v \in Workers |-> IF pc[v] = "running" THEN since[v] \cup {t} ELSE {}]
  BY <1>1, NoneAssumption DEF Log
<1> HIDE DEF t
<1>4. Shapes'
  BY <1>1, <1>3 DEF SeenInv, Shapes
<1>5. ASSUME NEW v \in Workers, pc'[v] = "running"
      PROVE  pc[v] = "running" /\ snap'[v] = snap[v] /\ since[v] \subseteq since'[v] /\ t \in since'[v]
  BY <1>1, <1>3, <1>5
<1> QED
  BY <1>1, <1>2, <1>4, <1>5, GoesOnSeen

\* Nothing has happened yet.
LEMMA InitSeen == Init => SeenInv
<1> SUFFICES ASSUME Init PROVE SeenInv
  OBVIOUS
<1>1. \A w \in Workers : pc[w] = "idle"
  BY DEF Init
<1>2. Shapes
  BY BoundsAssumption DEF Init, Shapes, Times
<1> QED
  BY <1>1, <1>2 DEF SeenInv

-----------------------------------------------------------------------------
(* Occupancies are apart, and their occupants and spaces are active. *)

SpacesInv ==
  SeenInv /\ NeverDoubleOccupied /\ OccupantsAreActive /\ ArchivedIsEmpty

\* Two periods that are apart stay apart when one of them, or both, end.
LEMMA EndedOverlapsLess ==
  ASSUME NEW a, NEW b, NEW c, NEW d, Continues(a, c), Continues(b, d),
         Overlaps(c, d.startedAt, d.endedAt)
  PROVE  Overlaps(a, b.startedAt, b.endedAt)
BY DEF Continues, Overlaps

\* An open occupancy was open in the snapshot, or was assigned since.
LEMMA OpenWasSeen ==
  ASSUME SeenInv, NEW w \in Workers, pc[w] = "running",
         NEW o \in Held(occupancies, Spaces, Merchants),
         o \notin Held(snap[w].occupancies, {occupancies[o].space}, {occupancies[o].merchant})
  PROVE  \E t \in since[w] : AssignedBy(t, occupancies[o])
<1>1. o \in Occupancies /\ occupancies[o] # None /\ occupancies[o].endedAt = None
  BY DEF Held
<1>2. CASE snap[w].occupancies[o] = None
  BY <1>1, <1>2, OccupanciesFollow
<1>3. CASE snap[w].occupancies[o] # None
  <2>1. Continues(snap[w].occupancies[o], occupancies[o])
    BY <1>1, <1>3, OccupanciesFollow
  <2> QED
    BY <1>1, <1>3, <2>1 DEF Continues, Held
<1> QED
  BY <1>2, <1>3

\* An assignment finds its period free in every occupancy there is.
LEMMA AssignedApart ==
  ASSUME SeenInv, NEW w \in Workers, Assign(w), NEW p \in Occupancies,
         occupancies[p] # None, occupancies[p].space = cmd[w].space
  PROVE  ~Overlaps(occupancies[p], Given(cmd[w].startedAt), cmd[w].endedAt)
<1>1. pc[w] = "running" /\ Isolated(w) /\ cmd[w].op = "assign"
  BY DEF Assign, Runs, Commit
<1>2. occupancies[p] \in Occupancy
  BY DEF SeenInv, Shapes
<1>3. CASE snap[w].occupancies[p] = None
  <2>1. PICK t \in since[w] : AssignedBy(t, occupancies[p])
    BY <1>1, <1>3, OccupanciesFollow
  <2>2. /\ <<"occupied", cmd[w].space, occupancies[p].merchant>> \in ReadsOf(cmd[w], snap[w])
        /\ <<"occupied", cmd[w].space, cmd[w].merchant>> \in WritesOf(cmd[w], snap[w])
        /\ cmd[w].merchant \in Merchants
    BY <1>1, <1>2, Requested DEF ReadsOf, WritesOf, Occupancy
  <2> QED
    BY <1>1, <2>1, <2>2, NoSkew DEF AssignedBy
<1>4. CASE snap[w].occupancies[p] # None
  <2>1. Continues(snap[w].occupancies[p], occupancies[p])
    BY <1>1, <1>4, OccupanciesFollow
  <2>2. snap[w].occupancies[p].space = cmd[w].space
    BY <2>1 DEF Continues
  <2>3. ~Overlaps(snap[w].occupancies[p], Given(cmd[w].startedAt), cmd[w].endedAt)
    BY <1>4, <2>2 DEF Assign, InTheWay
  <2> QED
    BY <2>1, <2>3 DEF Continues, Overlaps
<1> QED
  BY <1>3, <1>4

\* The occupant of an assignment is active, in its branch too, and its space is;
LEMMA AssignedActive ==
  ASSUME SeenInv, NEW w \in Workers, Assign(w)
  PROVE  /\ merchants[cmd[w].merchant] = "ACTIVE"
         /\ parts[<<BranchOf[cmd[w].space], cmd[w].merchant>>] = "ACTIVE"
         /\ spaces[cmd[w].space] # None /\ spaces[cmd[w].space].status = "ACTIVE"
         /\ BranchOf[cmd[w].space] \in open
<1>1. pc[w] = "running" /\ Isolated(w) /\ cmd[w].op = "assign"
  BY DEF Assign, Runs, Commit
<1>2. /\ cmd[w].space \in Spaces /\ cmd[w].merchant \in Merchants
      /\ BranchOf[cmd[w].space] \in Branches
  BY <1>1, Requested
<1>3. /\ <<"branch", BranchOf[cmd[w].space]>> \in Locks(cmd[w], snap[w])
      /\ <<"merchant", cmd[w].merchant>> \in Locks(cmd[w], snap[w])
      /\ <<"part", BranchOf[cmd[w].space], cmd[w].merchant>> \in Locks(cmd[w], snap[w])
      /\ <<"space", cmd[w].space>> \in Locks(cmd[w], snap[w])
  BY <1>1 DEF Locks
<1> QED
  BY <1>1, <1>2, <1>3, LockedIsAsSeen DEF Assign

\* so an assignment keeps the invariant.
LEMMA AssignKeeps ==
  ASSUME SpacesInv, NEW w \in Workers, Assign(w)
  PROVE  SpacesInv'
<1> DEFINE id == cmd[w].id
<1>0. SeenInv
  BY DEF SpacesInv
<1>1. pc[w] = "running" /\ cmd[w].op = "assign" /\ occupancies[id] = None
      /\ SeenInv' /\ UNCHANGED <<merchants, parts, spaces>>
  BY <1>0, AssignSeen DEF Assign
<1>2. id \in Occupancies /\ cmd[w].space \in Spaces /\ cmd[w].merchant \in Merchants
  BY <1>0, <1>1, Requested
<1>3. PICK new \in Occupancy :
        /\ occupancies' = [occupancies EXCEPT ![id] = new]
        /\ new.space = cmd[w].space /\ new.merchant = cmd[w].merchant
        /\ new.startedAt = Given(cmd[w].startedAt) /\ new.endedAt = cmd[w].endedAt
  BY <1>0, AssignSeen
<1>4. occupancies'[id] = new /\ \A o \in Occupancies \ {id} : occupancies'[o] = occupancies[o]
  BY <1>0, <1>2, <1>3 DEF SeenInv, Shapes
<1>5. NeverDoubleOccupied'
  <2>1. ASSUME NEW o \in Occupancies, NEW p \in Occupancies, o # p,
               occupancies'[o] # None, occupancies'[p] # None,
               occupancies'[o].space = occupancies'[p].space
        PROVE  ~Overlaps(occupancies'[o], occupancies'[p].startedAt, occupancies'[p].endedAt)
    <3>1. CASE o # id /\ p # id
      BY <1>4, <2>1, <3>1 DEF SpacesInv, NeverDoubleOccupied
    <3>2. CASE p = id
      <4>1. ~Overlaps(occupancies[o], Given(cmd[w].startedAt), cmd[w].endedAt)
        BY <1>0, <1>3, <1>4, <2>1, <3>2, AssignedApart
      <4> QED
        BY <1>3, <1>4, <2>1, <3>2, <4>1
    <3>3. CASE o = id
      <4>1. ~Overlaps(occupancies[p], Given(cmd[w].startedAt), cmd[w].endedAt)
        BY <1>0, <1>3, <1>4, <2>1, <3>3, AssignedApart
      <4> QED
        BY <1>3, <1>4, <2>1, <3>3, <4>1 DEF Overlaps
    <3> QED
      BY <3>1, <3>2, <3>3
  <2> QED
    BY <2>1 DEF NeverDoubleOccupied
<1>6. OccupantsAreActive' /\ ArchivedIsEmpty'
  <2>1. ASSUME NEW o \in Held(occupancies, Spaces, Merchants)'
        PROVE  /\ merchants'[occupancies'[o].merchant] = "ACTIVE"
               /\ parts'[<<BranchOf[occupancies'[o].space], occupancies'[o].merchant>>] = "ACTIVE"
               /\ spaces'[occupancies'[o].space].status = "ACTIVE"
    <3>1. CASE o = id
      BY <1>0, <1>1, <1>3, <1>4, <3>1, AssignedActive
    <3>2. CASE o # id
      <4>1. o \in Held(occupancies, Spaces, Merchants) /\ occupancies'[o] = occupancies[o]
        BY <1>4, <2>1, <3>2 DEF Held
      <4> QED
        BY <1>1, <4>1 DEF SpacesInv, OccupantsAreActive, ArchivedIsEmpty
    <3> QED
      BY <3>1, <3>2
  <2> QED
    BY <2>1 DEF OccupantsAreActive, ArchivedIsEmpty
<1> QED
  BY <1>1, <1>5, <1>6 DEF SpacesInv

\* A command that deactivates a merchant, or its participation in a branch,
\* ends every occupancy that it would make wrong.
LEMMA EndingMissesNone ==
  ASSUME SeenInv, NEW w \in Workers, Ending(w), Ends(cmd[w]),
         NEW o \in Held(occupancies, Spaces, Merchants),
         occupancies[o].merchant = cmd[w].merchant,
         cmd[w].op = "part" => BranchOf[occupancies[o].space] = cmd[w].branch
  PROVE  o \in EndedBy(w)
<1>1. /\ pc[w] = "running" /\ Isolated(w) /\ o \in Occupancies
      /\ cmd[w].op \in {"merchant", "part"}
  BY EndingLocks DEF Ends, Held
<1>2. cmd[w].merchant \in Merchants /\ occupancies[o].space \in Spaces
  BY <1>1, Requested DEF Held
<1>3. SUFFICES ASSUME o \notin Released(cmd[w], snap[w]) PROVE FALSE
  BY <1>1 DEF EndedBy
<1>4. o \notin Held(snap[w].occupancies, {occupancies[o].space}, {occupancies[o].merchant})
  BY <1>1, <1>2, <1>3 DEF Released, Held, SpacesIn
<1>5. PICK t \in since[w] : AssignedBy(t, occupancies[o])
  BY <1>1, <1>4, OpenWasSeen
<1>6. <<"occupied", occupancies[o].space, occupancies[o].merchant>> \in ReadsOf(cmd[w], snap[w])
  BY <1>1, <1>2 DEF ReadsOf, SpacesIn
<1>7. CASE cmd[w].op = "merchant"
  <2>1. <<"merchant", occupancies[o].merchant>> \in WritesOf(cmd[w], snap[w])
    BY <1>7 DEF WritesOf
  <2> QED
    BY <1>1, <1>5, <1>6, <2>1, NoSkew DEF AssignedBy
<1>8. CASE cmd[w].op = "part"
  <2>1. <<"part", BranchOf[occupancies[o].space], occupancies[o].merchant>> \in WritesOf(cmd[w], snap[w])
    BY <1>8 DEF WritesOf
  <2> QED
    BY <1>1, <1>5, <1>6, <2>1, NoSkew DEF AssignedBy
<1> QED
  BY <1>1, <1>7, <1>8

\* So a release and a change of status keep the invariant.
LEMMA EndingKeeps ==
  ASSUME SpacesInv, NEW w \in Workers, Ending(w)
  PROVE  SpacesInv'
<1>0. SeenInv
  BY DEF SpacesInv
<1>1. /\ pc[w] = "running" /\ Isolated(w) /\ SeenInv' /\ UNCHANGED spaces
      /\ cmd[w].op \in {"release", "merchant", "part"}
  BY <1>0, EndingLocks, EndingSeen
<1>2. /\ \A o \in EndedBy(w) : occupancies'[o] # None /\ occupancies'[o].endedAt # None
      /\ \A o \in Occupancies \ EndedBy(w) : occupancies'[o] = occupancies[o]
      /\ \A o \in Occupancies : occupancies[o] # None =>
           occupancies'[o] # None /\ Continues(occupancies[o], occupancies'[o])
      /\ \A o \in Occupancies : occupancies[o] = None => occupancies'[o] = None
  BY <1>0, EndingLocks, EndingEnds, EndedFollows DEF EndedBy
<1>3. NeverDoubleOccupied'
  <2>1. ASSUME NEW o \in Occupancies, NEW p \in Occupancies, o # p,
               occupancies'[o] # None, occupancies'[p] # None,
               occupancies'[o].space = occupancies'[p].space
        PROVE  ~Overlaps(occupancies'[o], occupancies'[p].startedAt, occupancies'[p].endedAt)
    <3>1. /\ occupancies[o] # None /\ Continues(occupancies[o], occupancies'[o])
          /\ occupancies[p] # None /\ Continues(occupancies[p], occupancies'[p])
      BY <1>2, <2>1
    <3>2. occupancies[o].space = occupancies[p].space
      BY <2>1, <3>1 DEF Continues
    <3>3. ~Overlaps(occupancies[o], occupancies[p].startedAt, occupancies[p].endedAt)
      BY <2>1, <3>1, <3>2 DEF SpacesInv, NeverDoubleOccupied
    <3> QED
      BY <3>1, <3>3, EndedOverlapsLess
  <2> QED
    BY <2>1 DEF NeverDoubleOccupied
<1>4. ASSUME NEW o \in Held(occupancies, Spaces, Merchants)'
      PROVE  /\ o \in Held(occupancies, Spaces, Merchants) /\ o \notin EndedBy(w)
             /\ occupancies'[o] = occupancies[o]
  BY <1>2, <1>4 DEF Held
<1>5. OccupantsAreActive'
  <2>1. ASSUME NEW o \in Held(occupancies, Spaces, Merchants)'
        PROVE  /\ merchants'[occupancies'[o].merchant] = "ACTIVE"
               /\ parts'[<<BranchOf[occupancies'[o].space], occupancies'[o].merchant>>] = "ACTIVE"
    <3> DEFINE m == occupancies[o].merchant
               b == BranchOf[occupancies[o].space]
    <3>1. /\ o \in Held(occupancies, Spaces, Merchants) /\ o \notin EndedBy(w)
          /\ occupancies'[o] = occupancies[o] /\ m \in Merchants
          /\ merchants[m] = "ACTIVE" /\ parts[<<b, m>>] = "ACTIVE" /\ b \in Branches
      BY <1>4, <2>1, BoundsAssumption DEF Held, SpacesInv, OccupantsAreActive
    <3>2. merchants'[m] = "ACTIVE"
      <4>1. CASE SetMerchantStatus(w)
        <5>1. cmd[w].op = "merchant" /\ merchants' = [merchants EXCEPT ![cmd[w].merchant] = cmd[w].status]
          BY <4>1 DEF SetMerchantStatus, Runs
        <5>2. m = cmd[w].merchant => ~Ends(cmd[w])
          BY <1>0, <3>1, <5>1, EndingMissesNone
        <5> QED
          BY <1>0, <3>1, <5>1, <5>2 DEF Ends, SeenInv, Shapes
      <4>2. CASE ~SetMerchantStatus(w)
        BY <3>1, <4>2 DEF Ending, Release, SetParticipation
      <4> QED
        BY <4>1, <4>2
    <3>3. parts'[<<b, m>>] = "ACTIVE"
      <4>1. CASE SetParticipation(w)
        <5>1. cmd[w].op = "part" /\ parts' = [parts EXCEPT ![<<cmd[w].branch, cmd[w].merchant>>] = cmd[w].status]
          BY <4>1 DEF SetParticipation, Runs
        <5>2. m = cmd[w].merchant /\ b = cmd[w].branch => ~Ends(cmd[w])
          BY <1>0, <3>1, <5>1, EndingMissesNone
        <5> QED
          BY <1>0, <3>1, <5>1, <5>2 DEF Ends, SeenInv, Shapes
      <4>2. CASE ~SetParticipation(w)
        BY <3>1, <4>2 DEF Ending, Release, SetMerchantStatus
      <4> QED
        BY <4>1, <4>2
    <3> QED
      BY <3>1, <3>2, <3>3
  <2> QED
    BY <2>1 DEF OccupantsAreActive
<1>6. ArchivedIsEmpty'
  BY <1>1, <1>4 DEF SpacesInv, ArchivedIsEmpty
<1> QED
  BY <1>1, <1>3, <1>5, <1>6 DEF SpacesInv

\* The other commands open what was closed, or find a space empty to archive it.
LEMMA ChangingKeeps ==
  ASSUME SpacesInv, NEW w \in Workers, Changing(w)
  PROVE  SpacesInv'
<1>0. SeenInv
  BY DEF SpacesInv
<1>1. SeenInv' /\ pc[w] = "running" /\ Isolated(w) /\ UNCHANGED <<merchants, occupancies>>
  BY <1>0, ChangingSeen
<1>2. NeverDoubleOccupied'
  BY <1>1 DEF SpacesInv, NeverDoubleOccupied
<1>3. Held(occupancies, Spaces, Merchants)' = Held(occupancies, Spaces, Merchants)
  BY <1>1 DEF Held
<1>4. OccupantsAreActive'
  <2>1. CASE Join(w)
    <3>1. parts' = parts \/ parts' = [parts EXCEPT ![<<cmd[w].branch, cmd[w].merchant>>] = "ACTIVE"]
      BY <2>1 DEF Join
    <3>2. \A b \in Branches, m \in Merchants :
            parts[<<b, m>>] = "ACTIVE" => parts'[<<b, m>>] = "ACTIVE"
      BY <1>0, <3>1 DEF SeenInv, Shapes
    <3>3. \A o \in Held(occupancies, Spaces, Merchants) :
            BranchOf[occupancies[o].space] \in Branches /\ occupancies[o].merchant \in Merchants
      BY BoundsAssumption DEF Held
    <3> QED
      BY <1>1, <1>3, <3>2, <3>3 DEF SpacesInv, OccupantsAreActive
  <2>2. CASE ~Join(w)
    BY <1>1, <1>3, <2>2
       DEF Changing, CreateSpace, Retype, SetSpaceStatus, UpdateType, SpacesInv, OccupantsAreActive
  <2> QED
    BY <2>1, <2>2
<1>5. ArchivedIsEmpty'
  <2>1. ASSUME NEW o \in Held(occupancies, Spaces, Merchants)
        PROVE  spaces'[occupancies[o].space].status = "ACTIVE"
    <3> DEFINE s == occupancies[o].space
    <3>1. /\ s \in Spaces /\ o \in Occupancies /\ occupancies[o].merchant \in Merchants
          /\ spaces[s].status = "ACTIVE"
      BY DEF Held, SpacesInv, ArchivedIsEmpty
    <3>2. CASE CreateSpace(w)
      BY <1>0, <3>1, <3>2 DEF CreateSpace, SeenInv, Shapes
    <3>3. CASE Retype(w)
      <4>1. cmd[w].space \in Spaces /\ <<"space", cmd[w].space>> \in Locks(cmd[w], snap[w])
        BY <1>0, <1>1, <3>3, Requested DEF Retype, Runs, Locks
      <4>2. spaces[cmd[w].space] \in Space
        BY <1>0, <1>1, <3>3, <4>1, LockedIsAsSeen DEF Retype, SeenInv, Shapes
      <4> QED
        BY <1>0, <3>1, <3>3, <4>1, <4>2 DEF Retype, SeenInv, Shapes, Space
    <3>4. CASE SetSpaceStatus(w)
      <4>1. cmd[w].op = "space" /\ spaces' = [spaces EXCEPT ![cmd[w].space].status = cmd[w].status]
        BY <3>4 DEF SetSpaceStatus, Runs
      <4>2. /\ cmd[w].space \in Spaces /\ cmd[w].status \in {"ACTIVE", "ARCHIVED"}
            /\ <<"space", cmd[w].space>> \in Locks(cmd[w], snap[w])
        BY <1>0, <1>1, <4>1, Requested DEF Locks
      <4>3. spaces[cmd[w].space] \in Space
        BY <1>0, <1>1, <3>4, <4>2, LockedIsAsSeen DEF SetSpaceStatus, SeenInv, Shapes
      <4>4. ASSUME s = cmd[w].space PROVE cmd[w].status = "ACTIVE"
        <5>1. SUFFICES ASSUME cmd[w].status = "ARCHIVED" PROVE FALSE
          BY <4>2
        <5>2. Held(snap[w].occupancies, {s}, Merchants) = {}
          BY <3>4, <4>4, <5>1 DEF SetSpaceStatus
        <5>3. o \notin Held(snap[w].occupancies, {s}, {occupancies[o].merchant})
          BY <3>1, <5>2 DEF Held
        <5>4. PICK t \in since[w] : AssignedBy(t, occupancies[o])
          BY <1>0, <1>1, <5>3, OpenWasSeen
        <5>5. /\ <<"occupied", s, occupancies[o].merchant>> \in ReadsOf(cmd[w], snap[w])
              /\ <<"space", s>> \in WritesOf(cmd[w], snap[w])
          BY <3>1, <4>1, <4>4, <5>1 DEF ReadsOf, WritesOf
        <5> QED
          BY <1>1, <5>4, <5>5, NoSkew DEF AssignedBy
      <4> QED
        BY <1>0, <3>1, <4>1, <4>2, <4>3, <4>4 DEF SeenInv, Shapes, Space
    <3>5. CASE Join(w) \/ UpdateType(w)
      BY <3>1, <3>5 DEF Join, UpdateType
    <3> QED
      BY <3>2, <3>3, <3>4, <3>5 DEF Changing
  <2> QED
    BY <1>1, <1>3, <2>1 DEF ArchivedIsEmpty
<1> QED
  BY <1>1, <1>2, <1>4, <1>5 DEF SpacesInv

\* Steps that change no merchant, participation, space or occupancy.
LEMMA QuietSpaces ==
  ASSUME SpacesInv, SeenInv', UNCHANGED <<merchants, parts, spaces, occupancies>>
  PROVE  SpacesInv'
BY DEF SpacesInv, NeverDoubleOccupied, OccupantsAreActive, ArchivedIsEmpty, Held

\* The kinds of steps.
LEMMA Steps ==
  ASSUME [Next]_vars
  PROVE  \/ \E w \in Workers : Assign(w) \/ Ending(w) \/ Changing(w)
         \/ \/ \E w \in Workers : Fail(w) \/ \E c \in Commands : Begin(w, c)
            \/ Tick \/ UNCHANGED vars
         \/ \/ \E u \in Users : Demote(u)
            \/ SwitchOrganization
            \/ \E b \in Branches : SwitchBranch(b)
BY DEF Next, Ending, Changing

\* Every step keeps the invariant of the spaces.
LEMMA StepSpaces ==
  ASSUME SpacesInv, [Next]_vars
  PROVE  SpacesInv'
<1>1. ASSUME NEW w \in Workers, Assign(w) \/ Ending(w) \/ Changing(w) PROVE SpacesInv'
  BY <1>1, AssignKeeps, EndingKeeps, ChangingKeeps
<1>2. ASSUME \/ \E w \in Workers : Fail(w) \/ \E c \in Commands : Begin(w, c)
             \/ Tick \/ UNCHANGED vars
      PROVE  SpacesInv'
  BY <1>2, RequestsSeen, QuietSpaces DEF SpacesInv, rows
<1>3. ASSUME \/ \E u \in Users : Demote(u)
             \/ SwitchOrganization
             \/ \E b \in Branches : SwitchBranch(b)
      PROVE  SpacesInv'
  BY <1>3, OutsideSeen, QuietSpaces DEF SpacesInv
<1> QED
  BY <1>1, <1>2, <1>3, Steps

\* Initially nothing is occupied.
LEMMA InitSpaces == Init => SpacesInv
<1> SUFFICES ASSUME Init PROVE SpacesInv
  OBVIOUS
<1>1. \A o \in Occupancies : occupancies[o] = None
  BY DEF Init
<1> QED
  BY <1>1, InitSeen DEF SpacesInv, NeverDoubleOccupied, OccupantsAreActive, ArchivedIsEmpty, Held

\* However assignments, releases and changes of status race, the periods of the
\* occupancies of a space never overlap: SpacesService.assignOccupancy counts
\* those in the way only before it inserts.
THEOREM OccupiedOnce == Spec => []NeverDoubleOccupied
<1>1. SpacesInv /\ [Next]_vars => SpacesInv'
  BY StepSpaces
<1>2. SpacesInv => NeverDoubleOccupied
  BY DEF SpacesInv
<1> QED
  BY InitSpaces, <1>1, <1>2, PTL DEF Spec

\* A merchant that is deactivated, or whose participation in a branch is, occupies
\* nothing there, also if it was being assigned meanwhile.
THEOREM OnlyActiveOccupy == Spec => []OccupantsAreActive
<1>1. SpacesInv /\ [Next]_vars => SpacesInv'
  BY StepSpaces
<1>2. SpacesInv => OccupantsAreActive
  BY DEF SpacesInv
<1> QED
  BY InitSpaces, <1>1, <1>2, PTL DEF Spec

\* No assignment slips into a space while update() archives it.
THEOREM ArchivedStayEmpty == Spec => []ArchivedIsEmpty
<1>1. SpacesInv /\ [Next]_vars => SpacesInv'
  BY StepSpaces
<1>2. SpacesInv => ArchivedIsEmpty
  BY DEF SpacesInv
<1> QED
  BY InitSpaces, <1>1, <1>2, PTL DEF Spec

-----------------------------------------------------------------------------
(* What a step may write. *)

\* A command that commits is one of an owner, in an active organization.
LEMMA CommitsForOwner ==
  ASSUME SeenInv, NEW w \in Workers, Assign(w) \/ Ending(w) \/ Changing(w)
  PROVE  active /\ cmd[w].actor \in owners /\ pc' = [pc EXCEPT ![w] = "idle"]
<1>1. /\ pc[w] = "running" /\ Isolated(w) /\ Done(w)
      /\ snap[w].active /\ cmd[w].actor \in snap[w].owners
  BY DEF Assign, Ending, Changing, Release, SetMerchantStatus, SetParticipation, Join,
         CreateSpace, Retype, SetSpaceStatus, UpdateType, Runs, Commit
<1>2. cmd[w].actor \in Users
  BY <1>1, Requested
<1>3. active /\ cmd[w].actor \in owners
  BY <1>1, <1>2, LockedIsAsSeen
<1> QED
  BY <1>1, <1>3 DEF Done

\* Only such a command ends with a change of the tables.
LEMMA StepByAnOwner ==
  ASSUME SeenInv, [Next]_vars
  PROVE  ByAnOwner
<1>1. ASSUME NEW v \in Workers, Assign(v) \/ Ending(v) \/ Changing(v) PROVE ByAnOwner
  <2>1. active /\ cmd[v].actor \in owners /\ pc' = [pc EXCEPT ![v] = "idle"]
    BY <1>1, CommitsForOwner
  <2>2. \A w \in Workers \ {v} : pc'[w] = pc[w]
    BY <2>1 DEF SeenInv, Shapes
  <2> QED
    BY <2>1, <2>2 DEF ByAnOwner
<1>2. ASSUME \/ \E w \in Workers : Fail(w) \/ \E c \in Commands : Begin(w, c)
             \/ Tick \/ UNCHANGED vars
      PROVE  ByAnOwner
  BY <1>2, RequestsSeen DEF rows, ByAnOwner
<1>3. ASSUME \/ \E u \in Users : Demote(u)
             \/ SwitchOrganization
             \/ \E b \in Branches : SwitchBranch(b)
      PROVE  ByAnOwner
  BY <1>3, OutsideSeen DEF ByAnOwner
<1> QED
  BY <1>1, <1>2, <1>3, Steps

\* What a step does to the occupancies.
LEMMA StepOccupancies ==
  ASSUME SeenInv, [Next]_vars
  PROVE  BeginsWhileOpen /\ EndsOnce
<1>1. ASSUME NEW w \in Workers, Assign(w) PROVE BeginsWhileOpen /\ EndsOnce
  <2> DEFINE id == cmd[w].id
  <2>1. pc[w] = "running" /\ cmd[w].op = "assign" /\ occupancies[id] = None
    BY <1>1 DEF Assign, Runs
  <2>2. id \in Occupancies
    BY <2>1, Requested
  <2>3. PICK new \in Occupancy :
          occupancies' = [occupancies EXCEPT ![id] = new] /\ new.space = cmd[w].space
    BY <1>1, AssignSeen
  <2>4. occupancies'[id] = new /\ \A o \in Occupancies \ {id} : occupancies'[o] = occupancies[o]
    BY <2>2, <2>3 DEF SeenInv, Shapes
  <2>5. BeginsWhileOpen
    <3>1. ASSUME NEW o \in Occupancies, occupancies[o] = None, occupancies'[o] # None
          PROVE  occupancies'[o].space = cmd[w].space
      BY <2>3, <2>4, <3>1
    <3>2. BranchOf[cmd[w].space] \in open /\ spaces[cmd[w].space].status = "ACTIVE"
      BY <1>1, AssignedActive
    <3> QED
      BY <3>1, <3>2 DEF BeginsWhileOpen
  <2>6. EndsOnce
    BY <2>1, <2>4 DEF EndsOnce
  <2> QED
    BY <2>5, <2>6
<1>2. ASSUME NEW w \in Workers, Ending(w) PROVE BeginsWhileOpen /\ EndsOnce
  <2>1. /\ \A o \in Occupancies : occupancies[o] # None =>
             occupancies'[o] # None /\ Continues(occupancies[o], occupancies'[o])
        /\ \A o \in Occupancies : occupancies[o] = None => occupancies'[o] = None
    BY <1>2, EndingLocks, EndingEnds, EndedFollows DEF EndedBy
  <2> QED
    BY <2>1 DEF BeginsWhileOpen, EndsOnce, Continues
<1>3. ASSUME UNCHANGED occupancies PROVE BeginsWhileOpen /\ EndsOnce
  BY <1>3 DEF BeginsWhileOpen, EndsOnce
<1>4. ASSUME NEW w \in Workers, Changing(w) PROVE UNCHANGED occupancies
  BY <1>4, ChangingSeen
<1>5. ASSUME \/ \E w \in Workers : Fail(w) \/ \E c \in Commands : Begin(w, c)
             \/ Tick \/ UNCHANGED vars
      PROVE  UNCHANGED occupancies
  BY <1>5, RequestsSeen DEF rows
<1>6. ASSUME \/ \E u \in Users : Demote(u)
             \/ SwitchOrganization
             \/ \E b \in Branches : SwitchBranch(b)
      PROVE  UNCHANGED occupancies
  BY <1>6, OutsideSeen
<1> QED
  BY <1>1, <1>2, <1>3, <1>4, <1>5, <1>6, Steps

\* A caller who is an owner no more writes nothing, an occupancy begins only where
\* the branch and the space accept it, and no end of an occupancy is rewritten,
\* whatever became of them between the snapshot and the commit.
THEOREM LawfulWrites == Spec => WritesAreLawful
<1>1. SpacesInv /\ [Next]_vars => SpacesInv'
  BY StepSpaces
<1>2. SpacesInv /\ [Next]_vars => [ByAnOwner /\ BeginsWhileOpen /\ EndsOnce]_vars
  BY StepByAnOwner, StepOccupancies DEF SpacesInv
<1> QED
  BY InitSpaces, <1>1, <1>2, PTL DEF Spec, WritesAreLawful

\* What a step does to spaces and their types.
LEMMA StepTypes ==
  ASSUME SeenInv, [Next]_vars
  PROVE  /\ \A w \in Workers : UpdateType(w) => types[cmd[w].type].version = cmd[w].version
         /\ \A s \in Spaces :
              spaces'[s] # None /\ (spaces[s] = None \/ spaces[s].type # spaces'[s].type)
                => ~types[spaces'[s].type].archived
<1>1. ASSUME NEW w \in Workers, UpdateType(w)
      PROVE  types[cmd[w].type].version = cmd[w].version
  <2>1. pc[w] = "running" /\ cmd[w].op = "type" /\ Isolated(w) /\ SameVersion(w)
    BY <1>1 DEF UpdateType, Runs, Commit
  <2>2. cmd[w].type \in Types /\ <<"type", cmd[w].type>> \in Locks(cmd[w], snap[w])
    BY <2>1, Requested DEF Locks
  <2>3. types[cmd[w].type] = snap[w].types[cmd[w].type]
    BY <2>1, <2>2, LockedIsAsSeen
  <2> QED
    BY <2>1, <2>3 DEF SameVersion
<1>2. ASSUME NEW w \in Workers, CreateSpace(w) \/ Retype(w) \/ SetSpaceStatus(w),
             NEW s \in Spaces, spaces'[s] # None,
             spaces[s] = None \/ spaces[s].type # spaces'[s].type
      PROVE  ~types[spaces'[s].type].archived
  <2> DEFINE c == cmd[w]
  <2>1. pc[w] = "running" /\ Isolated(w) /\ c.op \in {"create", "retype", "space"}
    BY <1>2 DEF CreateSpace, Retype, SetSpaceStatus, Runs, Commit
  <2>2. c.space \in Spaces /\ <<"space", c.space>> \in Locks(c, snap[w])
    BY <2>1, Requested DEF Locks
  <2>3. spaces[c.space] = snap[w].spaces[c.space]
    BY <2>1, <2>2, LockedIsAsSeen
  <2>4. c.op \in {"create", "retype"} => c.type \in Types /\ types[c.type] = snap[w].types[c.type]
    <3>1. SUFFICES ASSUME c.op \in {"create", "retype"} PROVE c.type \in Types /\ types[c.type] = snap[w].types[c.type]
      OBVIOUS
    <3>2. c.type \in Types /\ <<"type", c.type>> \in Locks(c, snap[w])
      BY <2>1, <3>1, Requested DEF Locks
    <3> QED
      BY <2>1, <3>2, LockedIsAsSeen
  <2>5. CASE CreateSpace(w)
    <3>1. s = c.space /\ spaces'[s].type = c.type
      BY <1>2, <2>2, <2>5 DEF CreateSpace, SeenInv, Shapes
    <3>2. c.op = "create"
      BY <2>5 DEF CreateSpace, Runs
    <3> QED
      BY <2>4, <2>5, <3>1, <3>2 DEF CreateSpace, ActiveType
  <2>6. CASE Retype(w)
    <3>1. spaces[c.space] \in Space /\ spaces[c.space] # None
      BY <2>2, <2>3, <2>6 DEF Retype, SeenInv, Shapes
    <3>2. s = c.space /\ spaces'[s].type = c.type
      BY <1>2, <2>2, <2>6, <3>1 DEF Retype, SeenInv, Shapes, Space
    <3>3. c.op = "retype"
      BY <2>6 DEF Retype, Runs
    <3>4. snap[w].spaces[c.space].type # c.type
      BY <1>2, <2>3, <3>1, <3>2
    <3> QED
      BY <2>4, <2>6, <3>2, <3>3, <3>4 DEF Retype, ActiveType
  <2>7. CASE SetSpaceStatus(w)
    <3>1. spaces[c.space] \in Space /\ spaces[c.space] # None
      BY <2>2, <2>3, <2>7 DEF SetSpaceStatus, SeenInv, Shapes
    <3>2. s # c.space => spaces'[s] = spaces[s]
      BY <2>2, <2>7 DEF SetSpaceStatus, SeenInv, Shapes
    <3>3. spaces'[c.space].type = spaces[c.space].type
      BY <2>2, <2>7, <3>1 DEF SetSpaceStatus, SeenInv, Shapes, Space
    <3> QED
      BY <1>2, <3>1, <3>2, <3>3
  <2> QED
    BY <1>2, <2>5, <2>6, <2>7
<1>3. ASSUME UNCHANGED spaces, NEW s \in Spaces
      PROVE  ~(spaces'[s] # None /\ (spaces[s] = None \/ spaces[s].type # spaces'[s].type))
  BY <1>3
<1>4. \/ \E w \in Workers : CreateSpace(w) \/ Retype(w) \/ SetSpaceStatus(w)
      \/ UNCHANGED spaces
  <2>1. ASSUME NEW w \in Workers, Assign(w) \/ Ending(w) PROVE UNCHANGED spaces
    BY <2>1, AssignSeen, EndingLocks
  <2>2. ASSUME NEW w \in Workers, Join(w) \/ UpdateType(w) PROVE UNCHANGED spaces
    BY <2>2 DEF Join, UpdateType
  <2>3. ASSUME \/ \E w \in Workers : Fail(w) \/ \E c \in Commands : Begin(w, c)
               \/ Tick \/ UNCHANGED vars
        PROVE  UNCHANGED spaces
    BY <2>3, RequestsSeen DEF rows
  <2>4. ASSUME \/ \E u \in Users : Demote(u)
               \/ SwitchOrganization
               \/ \E b \in Branches : SwitchBranch(b)
        PROVE  UNCHANGED spaces
    BY <2>4, OutsideSeen
  <2> QED
    BY <2>1, <2>2, <2>3, <2>4, Steps DEF Changing
<1> QED
  BY <1>1, <1>2, <1>3, <1>4

\* A change of a type replaces the version its caller saw, and no space takes a
\* type that is archived, though update() looks at both in its snapshot.
THEOREM CurrentTypes == Spec => TypesAreCurrent
<1>1. SpacesInv /\ [Next]_vars => SpacesInv'
  BY StepSpaces
<1>2. SpacesInv /\ [Next]_vars =>
        [/\ \A w \in Workers : UpdateType(w) => types[cmd[w].type].version = cmd[w].version
         /\ \A s \in Spaces :
              spaces'[s] # None /\ (spaces[s] = None \/ spaces[s].type # spaces'[s].type)
                => ~types[spaces'[s].type].archived]_vars
  BY StepTypes DEF SpacesInv
<1> QED
  BY InitSpaces, <1>1, <1>2, PTL DEF Spec, TypesAreCurrent

=============================================================================
