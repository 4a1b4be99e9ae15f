------------------------------- MODULE MCAuth -------------------------------
(***************************************************************************)
(* Small instances of the two sides of authentication, Sessions and        *)
(* AccountTokens.  They meet in the password and in the account, which     *)
(* each has as a variable of its own; a run is of one of them, in one of   *)
(* five scenes.                                                            *)
(***************************************************************************)
EXTENDS Sessions, TLC

CONSTANTS t1, t2, s1, s2, r1, r2, r3, k1, k2
VARIABLES scene, user, verified, pending, made, links, rowLock, work
linkVars == <<user, verified, pending, made, links, rowLock, work>>
mcVars == <<vars, scene, linkVars>>

Symmetry == Permutations(Tabs) \cup Permutations(Ids) \cup Permutations(Requests)
              \cup Permutations({k1, k2})

\* Two tabs with Web Locks that lose nothing.
LockScene == INSTANCE Sessions WITH
  Kinds <- {"restore", "login", "logout"}, WebLocks <- TRUE,
  MaxRefreshes <- 3, MaxHash <- 0, MaxFaults <- 0
\* Sign-ins overlap changes and resets of the password and the deletion.
PasswordScene == INSTANCE Sessions WITH Tabs <- {t1},
  Kinds <- {"login", "end", "change", "reset", "delete"}, WebLocks <- TRUE,
  MaxRefreshes <- 0, MaxHash <- 1, MaxFaults <- 0
\* Lost answers, reloads and no Web Locks.
ReplayScene == INSTANCE Sessions WITH Ids <- {s1},
  Kinds <- {"restore", "login", "call"}, WebLocks <- FALSE,
  MaxRefreshes <- 3, MaxHash <- 0, MaxFaults <- 1
\* Links to an account are asked for and followed at the same time.
LinkScene == INSTANCE AccountTokens WITH
  Links <- {k1, k2}, Kinds <- {"forgot", "reset", "resend", "verify", "delete"},
  Known <- TRUE, MaxRows <- 1, lock <- rowLock, req <- work
\* An address is registered several times at once, and confirmed.
RegisterScene == INSTANCE AccountTokens WITH
  Links <- {k1, k2}, Kinds <- {"register", "verify", "delete"},
  Known <- FALSE, MaxRows <- 3, lock <- rowLock, req <- work

ASSUME LinkBounds == LinkScene!Bounds /\ RegisterScene!Bounds

MCInit ==
  \/ scene = "locks" /\ LockScene!Init /\ LinkScene!Init
  \/ scene = "password" /\ PasswordScene!Init /\ LinkScene!Init
  \/ scene = "replay" /\ ReplayScene!Init /\ LinkScene!Init
  \/ scene = "links" /\ LockScene!Init /\ LinkScene!Init
  \/ scene = "register" /\ LockScene!Init /\ RegisterScene!Init
MCNext ==
  /\ UNCHANGED scene
  /\ \/ /\ UNCHANGED linkVars
        /\ \/ scene = "locks" /\ LockScene!Next
           \/ scene = "password" /\ PasswordScene!Next
           \/ scene = "replay" /\ ReplayScene!Next
     \/ /\ UNCHANGED vars
        /\ \/ scene = "links" /\ LinkScene!Next
           \/ scene = "register" /\ RegisterScene!Next
MCSpec == MCInit /\ [][MCNext]_mcVars

\* Tabs that share Web Locks, and lose no answer, are never taken for someone
\* who replays an old token: no refresh ends a session.
LocksKeepSessions == [][scene = "locks" => LockScene!Undisturbed]_mcVars
\* A link takes effect once, however many requests follow it, and a reset of
\* the password ends the links that were sent before it.
LinksEnd ==
  [][/\ scene \in {"links", "register"} => LinkScene!SingleUse'
     /\ scene = "links" => LinkScene!EndsEarlierLinks]_mcVars
=============================================================================
