------------------------------ MODULE MCSpaces ------------------------------
(* Small instances of Spaces: the requests the clients may send. *)
EXTENDS Spaces, TLC

CONSTANTS ann, bob, b1, b2, m1, m2, s1, s2, t1, t2, o1, o2, w1, w2

WorkerSymmetry == Permutations(Workers)
TwoBranches == [s \in Spaces |-> IF s = s1 THEN b1 ELSE b2]

Occupy(by, o, s, m, from, to) ==
  [op |-> "assign", actor |-> by, id |-> o, space |-> s, merchant |-> m,
   startedAt |-> from, endedAt |-> to]
Vacate(by, o, at) == [op |-> "release", actor |-> by, id |-> o, endedAt |-> at]
Status(by, m, status) == [op |-> "merchant", actor |-> by, merchant |-> m, status |-> status]
Part(by, m, at, status) ==
  [op |-> "part", actor |-> by, merchant |-> m, branch |-> at, status |-> status]
Enter(by, m, at) == [op |-> "join", actor |-> by, merchant |-> m, branch |-> at]
New(by, s, t) == [op |-> "create", actor |-> by, space |-> s, type |-> t]
Label(by, s, t) == [op |-> "retype", actor |-> by, space |-> s, type |-> t]
Put(by, s, status) == [op |-> "space", actor |-> by, space |-> s, status |-> status]
Type(by, t, v, archived) ==
  [op |-> "type", actor |-> by, type |-> t, version |-> v, archived |-> archived]

\* Current and historical periods of one space, overlapping and adjacent, and its
\* archival.
PeriodCommands ==
  {Occupy(ann, o1, s1, m1, None, None), Occupy(ann, o1, s1, m1, 0, 2),
   Occupy(ann, o2, s1, m2, 0, 1), Occupy(ann, o2, s1, m2, 1, 2), Occupy(ann, o2, s1, m2, 1, None),
   Vacate(ann, o1, 1), Vacate(ann, o1, None), Put(ann, s1, "ARCHIVED"), Put(ann, s1, "ACTIVE")}
\* Occupants that are deactivated or leave a branch while they are assigned.
StatusCommands ==
  {Occupy(ann, o1, s1, m1, None, None), Occupy(ann, o2, s2, m1, 0, None), Vacate(ann, o1, None)}
    \cup {Status(ann, m1, x) : x \in {"SUSPENDED", "ACTIVE"}}
    \cup {Part(ann, m1, b1, x) : x \in {"INACTIVE", "ACTIVE"}}
    \cup {Enter(ann, m1, b2)}
\* Two owners, one of them demoted meanwhile, while spaces and types change.
OwnerCommands ==
  {Occupy(ann, o1, s1, m1, None, None), Vacate(ann, o1, None), Put(bob, s1, "ARCHIVED"),
   Status(bob, m1, "ENDED")}
TypeCommands ==
  {New(ann, s2, t1), Label(ann, s1, t2), Label(bob, s1, t1), Type(bob, t1, 1, TRUE),
   Type(ann, t1, 2, FALSE), Type(ann, t1, 1, TRUE)}
AllCommands == PeriodCommands \cup StatusCommands \cup OwnerCommands \cup TypeCommands

(* Each run is one of four: the clients send one of the sets above. *)
VARIABLE scene
mcVars == <<vars, scene>>

PeriodScene == INSTANCE Spaces WITH
  Commands <- PeriodCommands, Demoted <- {}, Switched <- {}, Switching <- FALSE
StatusScene == INSTANCE Spaces WITH
  Commands <- StatusCommands, Demoted <- {}, Switched <- {}, Switching <- FALSE,
  MaxTime <- 0
OwnerScene == INSTANCE Spaces WITH
  Commands <- OwnerCommands, Demoted <- {ann}, Switched <- {b1}, Switching <- FALSE,
  MaxTime <- 1
TypeScene == INSTANCE Spaces WITH
  Commands <- TypeCommands, Demoted <- {}, Switched <- {}, Switching <- TRUE,
  MaxTime <- 0

\* Only where types change do the spaces start with different ones.
OneType == \A s \in Spaces : spaces[s] # None => spaces[s].type = t1

MCInit ==
  \/ scene = "periods" /\ PeriodScene!Init /\ OneType
  \/ scene = "status" /\ StatusScene!Init /\ OneType
  \/ scene = "owners" /\ OwnerScene!Init /\ OneType
  \/ scene = "types" /\ TypeScene!Init
MCNext ==
  /\ UNCHANGED scene
  /\ \/ scene = "periods" /\ PeriodScene!Next
     \/ scene = "status" /\ StatusScene!Next
     \/ scene = "owners" /\ OwnerScene!Next
     \/ scene = "types" /\ TypeScene!Next
MCSpec == MCInit /\ [][MCNext]_mcVars
=============================================================================
