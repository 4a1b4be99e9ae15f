-------------------------- MODULE CommandEnvelope --------------------------
(***************************************************************************)
(* What docs/modules/pos.md ("Payment confirmation and recovery") promises *)
(* of a saved command, with no requests, retries, reads or crashes: it is  *)
(* open until it is executed once or abandoned, an executed command blocks *)
(* its owner until it is acknowledged, and an owner has one unresolved     *)
(* command at a time.                                                      *)
(***************************************************************************)
EXTENDS Naturals

CONSTANTS Actors, RequestIds, None

VARIABLES
  owner,      \* who prepared the command
  status,     \* where the command stands
  executions  \* sales committed under its request id

envelope == <<owner, status, executions>>

Unresolved(a) == {r \in RequestIds : owner[r] = a /\ status[r] \in {"open", "executed"}}

\* A request id may stand for a sale recorded before envelopes existed.
Init ==
  /\ owner = [r \in RequestIds |-> None]
  /\ status = [r \in RequestIds |-> "none"]
  /\ executions \in [RequestIds -> {0, 1}]

\* Preparing a command that was executed before only saves its outcome.
Prepare(a, r) ==
  /\ status[r] = "none"
  /\ Unresolved(a) = {}
  /\ owner' = [owner EXCEPT ![r] = a]
  /\ status' = [status EXCEPT ![r] = IF executions[r] = 0 THEN "open" ELSE "executed"]
  /\ UNCHANGED executions

Execute(r) ==
  /\ status[r] = "open"
  /\ status' = [status EXCEPT ![r] = "executed"]
  /\ executions' = [executions EXCEPT ![r] = @ + 1]
  /\ UNCHANGED owner

Acknowledge(r) ==
  /\ status[r] = "executed"
  /\ status' = [status EXCEPT ![r] = "acknowledged"]
  /\ UNCHANGED <<owner, executions>>

Abandon(r) ==
  /\ status[r] = "open"
  /\ status' = [status EXCEPT ![r] = "abandoned"]
  /\ UNCHANGED <<owner, executions>>

Next ==
  \E r \in RequestIds :
    (\E a \in Actors : Prepare(a, r)) \/ Execute(r) \/ Acknowledge(r) \/ Abandon(r)

Spec == Init /\ [][Next]_envelope
=============================================================================
