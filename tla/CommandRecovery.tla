-------------------------- MODULE CommandRecovery --------------------------
(***************************************************************************)
(* The command-recovery envelope of checkouts and refunds                  *)
(* (backend/src/modules/organizations/recovery/command-recovery.service.ts)*)
(* for one organization and one kind of command: the two kinds have        *)
(* disjoint rows, request ids and source tables and never interact.        *)
(*                                                                         *)
(* The service is not one transaction.  Every await is a statement of its  *)
(* own, so each action below is one database statement (or one short       *)
(* transaction) of one HTTP request, and Workers serve requests            *)
(* concurrently.  A worker keeps what it read (seen) across its awaits.    *)
(* A row is named by its request id, which (org, kind, requestId) makes    *)
(* unique; its identity and command are immutable (database trigger).      *)
(* Timestamps are abstracted to "is not null", but for acknowledgedAt,     *)
(* which a second acknowledge writes again: it is the number of the write  *)
(* that set it, 0 for null.  sourceId is written together with             *)
(* completedAt, so the one flag stands for both.                           *)
(***************************************************************************)
EXTENDS Naturals, TLC

CONSTANTS
  Actors,          \* users of the organization
  RequestIds,      \* idempotency keys the clients generate
  Commands,        \* canonical commands (branch, sale, lines, payment)
  Workers,         \* HTTP requests that can be in progress at once
  None,            \* no row, no source, nothing read
  ExclusiveSubmit, \* TRUE: an actor's clients never overlap two submissions
  MaxFaults        \* bound on lost connections and process restarts

ASSUME ExclusiveAssumption == ExclusiveSubmit \in BOOLEAN
ASSUME FaultsAssumption == MaxFaults \in Nat

VARIABLES
  rows,    \* the CommandRecovery table
  sales,   \* the Sale (or Refund) table: the authoritative outcomes
  pc,      \* the statement each worker executes next
  job,     \* the request each worker serves
  target,  \* the request id of the row it works on
  seen,    \* the row state it read last (or is about to insert)
  fault,   \* how isSafeRejection classifies the error being handled
  reply,   \* the answer to the worker's last request
  faults   \* lost connections and restarts so far

vars == <<rows, sales, pc, job, target, seen, fault, reply, faults>>

-----------------------------------------------------------------------------
States == {"PREPARED", "SUBMITTED", "COMPLETED", "ACKNOWLEDGED", "ABANDONED"}
BlockingStates == {"PREPARED", "SUBMITTED", "COMPLETED"}
ClosedStates == States \ BlockingStates

Source == [actor : Actors, command : Commands]
Row == [actor : Actors, command : Commands, state : States,
        submittedAt : BOOLEAN, completedAt : BOOLEAN,
        acknowledgedAt : Nat, closedAt : BOOLEAN]

ASSUME NoneAssumption == None \notin Row \cup Source

Ops == {"prepare", "legacyPrepare", "legacySubmit", "submit", "acknowledge",
        "abandon", "get", "list"}
Job == [op : Ops, actor : Actors, req : RequestIds, command : Commands]

PrepareSteps == {"prepareRead", "prepareInsert", "prepareConflict",
                 "prepareRequest"}
SubmitSteps == {"submitLoad", "submitMark", "submitReload", "submitFind",
                "submitFound", "checkout", "submitComplete", "catch",
                "catchComplete", "reset"}
OtherSteps == {"ackLoad", "ackFind", "ackComplete", "ackUpdate",
               "abandonLoad", "abandonFind", "abandonUpdate",
               "getLoad", "listLoad", "view", "viewComplete"}
Steps == PrepareSteps \cup SubmitSteps \cup OtherSteps
Replies == {"none", "view", "result", "closed", "blocked", "conflict",
            "notFound", "notPrepared", "unknown", "completed", "rejected",
            "error"}

\* The values the variables take: rows, requests and answers of the right shape.
TypeOK ==
  /\ rows \in [RequestIds -> Row \cup {None}]
  /\ sales \in [RequestIds -> Source \cup {None}]
  /\ pc \in [Workers -> Steps \cup {"idle"}]
  /\ job \in [Workers -> Job \cup {None}]
  /\ target \in [Workers -> RequestIds \cup {None}]
  /\ seen \in [Workers -> States \cup {None}]
  /\ fault \in [Workers -> {"none", "safe", "unsafe"}]
  /\ reply \in [Workers -> Replies]
  /\ faults \in 0 .. MaxFaults

-----------------------------------------------------------------------------
(* What the database accepts. *)

Exists(r) == rows[r] # None
InState(r, states) == Exists(r) /\ rows[r].state \in states
Blocks(r, a) == InState(r, BlockingStates) /\ rows[r].actor = a

\* Faulty variant: the table has no lifecycle constraint.
LifecycleUnchecked(row) == TRUE

\* CHECK constraint CommandRecovery_lifecycle_check.
LifecycleCheck(row) ==
  \/ /\ row.state = "PREPARED"
     /\ ~row.completedAt /\ row.acknowledgedAt = 0 /\ ~row.closedAt
  \/ /\ row.state = "SUBMITTED"
     /\ row.submittedAt /\ row.acknowledgedAt = 0 /\ ~row.closedAt
  \/ /\ row.state = "COMPLETED" /\ row.submittedAt /\ row.completedAt
     /\ row.acknowledgedAt = 0 /\ ~row.closedAt
  \/ /\ row.state = "ACKNOWLEDGED" /\ row.submittedAt /\ row.completedAt
     /\ row.acknowledgedAt # 0 /\ ~row.closedAt
  \/ /\ row.state = "ABANDONED"
     /\ ~row.completedAt /\ row.acknowledgedAt = 0 /\ row.closedAt

\* Faulty variant: no unique index over the blocking states.
NoBlockingIndex(r, row) == TRUE

\* Partial unique index CommandRecovery_blocking_actor_kind_key.
BlockingIndex(r, row) ==
  row.state \in BlockingStates =>
    \A q \in RequestIds \ {r} : ~Blocks(q, row.actor)

Accepts(r, row) == LifecycleCheck(row) /\ BlockingIndex(r, row)

-----------------------------------------------------------------------------
(* Control flow of a worker. *)

At(w, step) == pc[w] = step
Goto(w, step) == pc' = [pc EXCEPT ![w] = step]
Read(w, state) == seen' = [seen EXCEPT ![w] = state]

\* The request ends with an answer; what the worker had read is gone.
Answer(w, kind) ==
  /\ Goto(w, "idle")
  /\ reply' = [reply EXCEPT ![w] = kind]
  /\ Read(w, None)
  /\ fault' = [fault EXCEPT ![w] = "none"]
  /\ UNCHANGED job

\* A successful response: prepare's response inside submitLegacy only names
\* the row to submit; submitLegacy without a result is an unknown outcome.
Respond(w, kind) ==
  IF job[w].op = "legacyPrepare"
  THEN /\ Goto(w, "submitLoad")
       /\ job' = [job EXCEPT ![w].op = "legacySubmit"]
       /\ Read(w, None)
       /\ UNCHANGED <<fault, reply>>
  ELSE Answer(w, IF job[w].op = "legacySubmit" /\ kind = "view"
                 THEN "unknown" ELSE kind)

\* view(record): only a submitted or completed record is looked up.
View(w, state) ==
  IF state \in {"SUBMITTED", "COMPLETED"}
  THEN Goto(w, "view") /\ Read(w, state) /\ UNCHANGED <<job, fault, reply>>
  ELSE Respond(w, "view")

Move(w, step) == Goto(w, step) /\ UNCHANGED <<job, seen, fault, reply>>
Catch(w, class) ==
  /\ Goto(w, "catch")
  /\ fault' = [fault EXCEPT ![w] = class]
  /\ UNCHANGED <<job, seen, reply>>

\* load() only sees the actor's own row.
Loads(w) == Exists(target[w]) /\ rows[target[w]].actor = job[w].actor

\* findSource() for the row the worker handles, and assertSourceOwner().
Absent(w) == sales[target[w]] = None
Owned(w) ==
  sales[target[w]] = [actor |-> job[w].actor, command |-> rows[target[w]].command]

-----------------------------------------------------------------------------
(* A client sends a request to an idle worker. *)

SubmissionInFlight(a) ==
  \E v \in Workers : /\ pc[v] # "idle"
                     /\ job[v].actor = a
                     /\ job[v].op \in {"submit", "legacyPrepare", "legacySubmit"}

Receive(w, j, step) ==
  /\ At(w, "idle")
  /\ Goto(w, step)
  /\ job' = [job EXCEPT ![w] = j]
  /\ target' = [target EXCEPT ![w] = j.req]
  /\ reply' = [reply EXCEPT ![w] = "none"]
  /\ UNCHANGED <<rows, sales, seen, fault, faults>>

\* POST command-recovery, or POST checkout/refund (submitLegacy).
StartPrepare(w) ==
  \E a \in Actors, r \in RequestIds, c \in Commands,
     op \in {"prepare", "legacyPrepare"} :
    /\ op = "legacyPrepare" /\ ExclusiveSubmit => ~SubmissionInFlight(a)
    /\ Receive(w, [op |-> op, actor |-> a, req |-> r, command |-> c],
               "prepareRead")

\* The commands of an existing row: submit, acknowledge, abandon, get, list.
FirstStep == [submit |-> "submitLoad", acknowledge |-> "ackLoad",
              abandon |-> "abandonLoad", get |-> "getLoad", list |-> "listLoad"]

StartOn(w, op, r) ==
  /\ Exists(r)
  /\ op = "submit" /\ ExclusiveSubmit => ~SubmissionInFlight(rows[r].actor)
  /\ Receive(w, [op |-> op, actor |-> rows[r].actor, req |-> r,
                 command |-> rows[r].command], FirstStep[op])

-----------------------------------------------------------------------------
(* prepare: reads in one Serializable transaction, insert at its end. *)

\* The request id has a row already: return it if it is the same command.
\* assertSameCommand compares branch, sale and command.
PrepareExisting(w) ==
  LET r == target[w] IN
  /\ At(w, "prepareRead") /\ Exists(r)
  /\ IF rows[r].command = job[w].command
     THEN View(w, rows[r].state)
     ELSE Answer(w, "conflict")
  /\ UNCHANGED <<rows, sales, target, faults>>

PrepareBlocked(w) ==
  /\ At(w, "prepareRead") /\ ~Exists(target[w])
  /\ \E q \in RequestIds : Blocks(q, job[w].actor)
  /\ Answer(w, "blocked")
  /\ UNCHANGED <<rows, sales, target, faults>>

\* Faulty variant: an older sale is adopted without assertSourceOwner.
PrepareAdoptAny(w) ==
  /\ At(w, "prepareRead") /\ ~Exists(target[w])
  /\ \A q \in RequestIds : ~Blocks(q, job[w].actor)
  /\ Goto(w, "prepareInsert")
  /\ Read(w, IF sales[target[w]] = None THEN "PREPARED" ELSE "COMPLETED")
  /\ UNCHANGED <<rows, sales, target, faults, job, fault, reply>>

\* Nothing in the way: decide from the snapshot which row to insert.
PrepareDecide(w) ==
  LET s == sales[target[w]] IN
  /\ At(w, "prepareRead") /\ ~Exists(target[w])
  /\ \A q \in RequestIds : ~Blocks(q, job[w].actor)
  /\ IF s = None \/ s = [actor |-> job[w].actor, command |-> job[w].command]
     THEN /\ Goto(w, "prepareInsert")
          /\ Read(w, IF s = None THEN "PREPARED" ELSE "COMPLETED")
          /\ UNCHANGED <<job, fault, reply>>
     ELSE Answer(w, "conflict")
  /\ UNCHANGED <<rows, sales, target, faults>>

NewRow(w) ==
  [actor |-> job[w].actor, command |-> job[w].command, state |-> seen[w],
   submittedAt |-> seen[w] = "COMPLETED", completedAt |-> seen[w] = "COMPLETED",
   acknowledgedAt |-> 0, closedAt |-> FALSE]

\* The insert commits, unless a concurrent prepare took the request id or
\* became the actor's blocking row after the snapshot.
PrepareInsert(w) ==
  LET r == target[w] IN
  /\ At(w, "prepareInsert") /\ ~Exists(r) /\ Accepts(r, NewRow(w))
  /\ rows' = [rows EXCEPT ![r] = NewRow(w)]
  /\ View(w, seen[w])
  /\ UNCHANGED <<sales, target, faults>>

\* P2002.  A serialization failure (P2034) is rethrown instead: see Fail.
PrepareConflict(w) ==
  /\ At(w, "prepareInsert")
  /\ Exists(target[w]) \/ ~Accepts(target[w], NewRow(w))
  /\ Move(w, "prepareConflict")
  /\ UNCHANGED <<rows, sales, target, faults>>

\* Faulty variant: the merge skips assertSameCommand.
PrepareMergeAny(w) ==
  /\ At(w, "prepareConflict")
  /\ \E q \in RequestIds :
       /\ Blocks(q, job[w].actor)
       /\ View(w, rows[q].state) /\ target' = [target EXCEPT ![w] = q]
  /\ UNCHANGED <<rows, sales, faults>>

\* The catch block returns the actor's blocking row if it holds the same
\* command, whatever its request id is.
PrepareMerge(w) ==
  /\ At(w, "prepareConflict")
  /\ \E q \in RequestIds :
       /\ Blocks(q, job[w].actor)
       /\ IF rows[q].command = job[w].command
          THEN View(w, rows[q].state) /\ target' = [target EXCEPT ![w] = q]
          ELSE Answer(w, "conflict") /\ UNCHANGED target
  /\ UNCHANGED <<rows, sales, faults>>

PrepareNoBlocker(w) ==
  /\ At(w, "prepareConflict")
  /\ \A q \in RequestIds : ~Blocks(q, job[w].actor)
  /\ Move(w, "prepareRequest")
  /\ UNCHANGED <<rows, sales, target, faults>>

PrepareGiveUp(w) ==
  /\ At(w, "prepareRequest")
  /\ Answer(w, IF Exists(target[w]) THEN "conflict" ELSE "error")
  /\ UNCHANGED <<rows, sales, target, faults>>

-----------------------------------------------------------------------------
(* load() of submit, acknowledge, abandon and get; the reads of list. *)

LoadMissing(w) ==
  /\ pc[w] \in {"submitLoad", "submitReload", "ackLoad", "abandonLoad", "getLoad"}
  /\ ~Loads(w)
  /\ Answer(w, "notFound")
  /\ UNCHANGED <<rows, sales, target, faults>>

SubmitLoad(w) ==
  LET state == rows[target[w]].state IN
  /\ At(w, "submitLoad") /\ Loads(w)
  /\ CASE state \in ClosedStates -> Answer(w, "closed")
       [] state = "COMPLETED" -> View(w, state)
       [] state = "PREPARED" -> Move(w, "submitMark")
       [] state = "SUBMITTED" -> Move(w, "submitFind")
  /\ UNCHANGED <<rows, sales, target, faults>>

\* updateMany where the state is still PREPARED; its count is not read.
SubmitMark(w) ==
  LET r == target[w] IN
  /\ At(w, "submitMark")
  /\ rows' = IF rows[r].state = "PREPARED"
             THEN [rows EXCEPT ![r].state = "SUBMITTED", ![r].submittedAt = TRUE]
             ELSE rows
  /\ Move(w, "submitReload")
  /\ UNCHANGED <<sales, target, faults>>

\* Any state but ABANDONED and COMPLETED goes on, PREPARED included.
SubmitReload(w) ==
  LET state == rows[target[w]].state IN
  /\ At(w, "submitReload") /\ Loads(w)
  /\ CASE state = "ABANDONED" -> Answer(w, "closed")
       [] state = "COMPLETED" -> View(w, state)
       [] OTHER -> Move(w, "submitFind")
  /\ UNCHANGED <<rows, sales, target, faults>>

AckLoad(w) ==
  LET state == rows[target[w]].state IN
  /\ At(w, "ackLoad") /\ Loads(w)
  /\ CASE state = "ACKNOWLEDGED" -> Respond(w, "view")
       [] state = "COMPLETED" -> Move(w, "ackUpdate")
       [] OTHER -> Move(w, "ackFind")
  /\ UNCHANGED <<rows, sales, target, faults>>

AbandonLoad(w) ==
  /\ At(w, "abandonLoad") /\ Loads(w)
  /\ IF rows[target[w]].state = "PREPARED"
     THEN Move(w, "abandonFind")
     ELSE Answer(w, "notPrepared")
  /\ UNCHANGED <<rows, sales, target, faults>>

GetLoad(w) ==
  /\ At(w, "getLoad") /\ Loads(w)
  /\ View(w, rows[target[w]].state)
  /\ UNCHANGED <<rows, sales, target, faults>>

\* The blocking rows of the actor: the unique index leaves at most one.
ListLoad(w) ==
  /\ At(w, "listLoad")
  /\ \/ \E q \in RequestIds :
          /\ Blocks(q, job[w].actor)
          /\ View(w, rows[q].state)
          /\ target' = [target EXCEPT ![w] = q]
     \/ /\ \A q \in RequestIds : ~Blocks(q, job[w].actor)
        /\ Respond(w, "view")
        /\ UNCHANGED target
  /\ UNCHANGED <<rows, sales, faults>>

-----------------------------------------------------------------------------
(* findSource() and what follows it. *)

\* assertSourceOwner throws; abandon refuses any source instead.
FindForeign(w) ==
  /\ pc[w] \in {"submitFind", "catch", "ackFind", "view"}
  /\ ~Absent(w) /\ ~Owned(w)
  /\ Answer(w, "conflict")
  /\ UNCHANGED <<rows, sales, target, faults>>

SubmitFind(w) ==
  /\ At(w, "submitFind") /\ (Absent(w) \/ Owned(w))
  /\ Move(w, IF Absent(w) THEN "checkout" ELSE "submitFound")
  /\ UNCHANGED <<rows, sales, target, faults>>

\* Faulty variant: every error reopens the record, with no look for an outcome.
CatchHasty(w) ==
  /\ At(w, "catch") /\ (Absent(w) \/ Owned(w))
  /\ Move(w, "reset")
  /\ UNCHANGED <<rows, sales, target, faults>>

\* The catch block looks for an outcome before it classifies the error.
CatchFind(w) ==
  /\ At(w, "catch") /\ (Absent(w) \/ Owned(w))
  /\ IF Owned(w) THEN Move(w, "catchComplete")
     ELSE IF fault[w] = "safe" THEN Move(w, "reset")
     ELSE Answer(w, "error")
  /\ UNCHANGED <<rows, sales, target, faults>>

\* Faulty variant: acknowledging does not need an outcome.
AckBlind(w) ==
  /\ At(w, "ackFind")
  /\ Move(w, "ackComplete")
  /\ UNCHANGED <<rows, sales, target, faults>>

AckFind(w) ==
  /\ At(w, "ackFind") /\ (Absent(w) \/ Owned(w))
  /\ IF Owned(w) THEN Move(w, "ackComplete") ELSE Answer(w, "unknown")
  /\ UNCHANGED <<rows, sales, target, faults>>

AbandonFind(w) ==
  /\ At(w, "abandonFind")
  /\ IF Absent(w) THEN Move(w, "abandonUpdate") ELSE Answer(w, "completed")
  /\ UNCHANGED <<rows, sales, target, faults>>

\* Faulty variant: reading an outcome never completes the record.
ViewReadOnly(w) ==
  /\ At(w, "view") /\ (Absent(w) \/ Owned(w))
  /\ Respond(w, IF Absent(w) THEN "view" ELSE "result")
  /\ UNCHANGED <<rows, sales, target, faults>>

\* Polling completes a submitted record whose outcome was committed.
ViewFind(w) ==
  /\ At(w, "view") /\ (Absent(w) \/ Owned(w))
  /\ IF Absent(w) THEN Respond(w, "view")
     ELSE IF seen[w] = "SUBMITTED" THEN Move(w, "viewComplete")
     ELSE Respond(w, "result")
  /\ UNCHANGED <<rows, sales, target, faults>>

-----------------------------------------------------------------------------
(* checkout.complete / refunds.complete: one transaction. *)

CheckoutCommit(w) ==
  LET r == target[w] IN
  /\ At(w, "checkout") /\ Absent(w)
  /\ sales' = [sales EXCEPT ![r] = [actor |-> job[w].actor,
                                    command |-> rows[r].command]]
  /\ Move(w, "submitComplete")
  /\ UNCHANGED <<rows, target, faults>>

\* The request id is committed already: replay it, or REQUEST_ID_CONFLICT.
CheckoutReplay(w) ==
  /\ At(w, "checkout") /\ ~Absent(w)
  /\ IF Owned(w) THEN Move(w, "submitComplete") ELSE Catch(w, "safe")
  /\ UNCHANGED <<rows, sales, target, faults>>

\* Rolled back with a business or access rejection (isSafeRejection) ...
CheckoutReject(w) ==
  /\ At(w, "checkout")
  /\ Catch(w, "safe")
  /\ UNCHANGED <<rows, sales, target, faults>>

\* ... or with CHECKOUT_RETRY / REFUND_RETRY, which leaves the outcome open.
CheckoutRetry(w) ==
  /\ At(w, "checkout")
  /\ Catch(w, "unsafe")
  /\ UNCHANGED <<rows, sales, target, faults>>

-----------------------------------------------------------------------------
(* Writes of the envelope. *)

\* completeRecord(): an unconditional update by id.
Completed(row) ==
  [row EXCEPT !.state = "COMPLETED", !.submittedAt = TRUE, !.completedAt = TRUE]

CompleteSteps == {"submitFound", "submitComplete", "catchComplete",
                  "ackComplete", "viewComplete"}

CompleteRecord(w) ==
  LET r == target[w] IN
  /\ pc[w] \in CompleteSteps
  /\ Accepts(r, Completed(rows[r]))
  /\ rows' = [rows EXCEPT ![r] = Completed(@)]
  /\ CASE pc[w] \in {"submitFound", "catchComplete"} -> View(w, "COMPLETED")
       [] pc[w] \in {"submitComplete", "viewComplete"} -> Respond(w, "result")
       [] pc[w] = "ackComplete" -> Move(w, "ackUpdate")
  /\ UNCHANGED <<sales, target, faults>>

\* The database refuses it, which submit's try block catches once.
CompleteRefused(w) ==
  LET r == target[w] IN
  /\ pc[w] \in CompleteSteps
  /\ ~Accepts(r, Completed(rows[r]))
  /\ IF At(w, "submitComplete") THEN Catch(w, "unsafe") ELSE Answer(w, "error")
  /\ UNCHANGED <<rows, sales, target, faults>>

\* A safe rejection reopens the record: updateMany where it is SUBMITTED.
Reset(w) ==
  LET r == target[w] IN
  /\ At(w, "reset")
  /\ rows' = IF rows[r].state = "SUBMITTED"
             THEN [rows EXCEPT ![r].state = "PREPARED", ![r].submittedAt = FALSE]
             ELSE rows
  /\ Answer(w, "rejected")
  /\ UNCHANGED <<sales, target, faults>>

\* acknowledge's last update is unconditional and takes a new time: of two that
\* loaded the row COMPLETED, the later one writes the acknowledged row again.
Acknowledged(row) == [row EXCEPT !.state = "ACKNOWLEDGED", !.acknowledgedAt = @ + 1]

AckUpdate(w) ==
  LET r == target[w] IN
  /\ At(w, "ackUpdate")
  /\ IF Accepts(r, Acknowledged(rows[r]))
     THEN rows' = [rows EXCEPT ![r] = Acknowledged(@)] /\ Respond(w, "view")
     ELSE UNCHANGED rows /\ Answer(w, "error")
  /\ UNCHANGED <<sales, target, faults>>

\* Faulty variant: abandon updates by id alone.
AbandonAny(w) ==
  LET r == target[w] IN
  /\ At(w, "abandonUpdate")
  /\ rows' = [rows EXCEPT ![r].state = "ABANDONED", ![r].closedAt = TRUE]
  /\ Respond(w, "view")
  /\ UNCHANGED <<sales, target, faults>>

\* updateMany where it is still PREPARED, and its count is checked.
AbandonUpdate(w) ==
  LET r == target[w] IN
  /\ At(w, "abandonUpdate")
  /\ IF rows[r].state = "PREPARED"
     THEN /\ rows' = [rows EXCEPT ![r].state = "ABANDONED", ![r].closedAt = TRUE]
          /\ Respond(w, "view")
     ELSE UNCHANGED rows /\ Answer(w, "notPrepared")
  /\ UNCHANGED <<sales, target, faults>>

-----------------------------------------------------------------------------
(* Failures. *)

\* A statement fails (lost connection, serialization failure, lost access):
\* inside submit's try block that is an error to handle, elsewhere the end.
Fail(w) ==
  /\ pc[w] # "idle" /\ faults < MaxFaults
  /\ IF pc[w] \in {"checkout", "submitComplete"}
     THEN Catch(w, "unsafe") ELSE Answer(w, "error")
  /\ faults' = faults + 1
  /\ UNCHANGED <<rows, sales, target>>

\* The process stops: every request is dropped where it is, nothing rolls
\* back but the transaction in progress.
Crash ==
  /\ \E w \in Workers : pc[w] # "idle"
  /\ faults < MaxFaults
  /\ pc' = [w \in Workers |-> "idle"]
  /\ seen' = [w \in Workers |-> None]
  /\ fault' = [w \in Workers |-> "none"]
  /\ reply' = [w \in Workers |-> IF At(w, "idle") THEN reply[w] ELSE "none"]
  /\ faults' = faults + 1
  /\ UNCHANGED <<rows, sales, job, target>>

-----------------------------------------------------------------------------
\* Sales and refunds recorded before the envelope existed may be there.
Init ==
  /\ rows = [r \in RequestIds |-> None]
  /\ sales \in [RequestIds -> Source \cup {None}]
  /\ pc = [w \in Workers |-> "idle"]
  /\ job = [w \in Workers |-> None]
  /\ target = [w \in Workers |-> None]
  /\ seen = [w \in Workers |-> None]
  /\ fault = [w \in Workers |-> "none"]
  /\ reply = [w \in Workers |-> "none"]
  /\ faults = 0

Start(w) ==
  \/ StartPrepare(w)
  \/ \E r \in RequestIds, op \in DOMAIN FirstStep : StartOn(w, op, r)

Serve(w) ==
  \/ PrepareExisting(w) \/ PrepareBlocked(w) \/ PrepareDecide(w)
  \/ PrepareInsert(w) \/ PrepareConflict(w) \/ PrepareMerge(w)
  \/ PrepareNoBlocker(w) \/ PrepareGiveUp(w)
  \/ LoadMissing(w) \/ SubmitLoad(w) \/ SubmitMark(w) \/ SubmitReload(w)
  \/ AckLoad(w) \/ AbandonLoad(w) \/ GetLoad(w) \/ ListLoad(w)
  \/ FindForeign(w) \/ SubmitFind(w) \/ CatchFind(w) \/ AckFind(w)
  \/ AbandonFind(w) \/ ViewFind(w)
  \/ CheckoutCommit(w) \/ CheckoutReplay(w) \/ CheckoutReject(w) \/ CheckoutRetry(w)
  \/ CompleteRecord(w) \/ CompleteRefused(w) \/ Reset(w)
  \/ AckUpdate(w) \/ AbandonUpdate(w)

Next == Crash \/ \E w \in Workers : Start(w) \/ Serve(w) \/ Fail(w)

Spec == Init /\ [][Next]_vars

\* Actors, request ids, commands and workers are interchangeable.  For runs
\* that check no liveness.
Symmetry ==
  Permutations(Actors) \cup Permutations(RequestIds)
    \cup Permutations(Commands) \cup Permutations(Workers)

\* A bound for a run: either one actor is there, or all of them use one command
\* and nothing fails.  The time of an acknowledgement is read by nobody: a row
\* that was acknowledged twice is looked at, and not followed further.
Recorded ==
  {rows[r] : r \in RequestIds} \cup {sales[r] : r \in RequestIds}
    \cup {job[w] : w \in Workers}
Few ==
  /\ \/ \E a \in Actors : \A x \in Recorded \ {None} : x.actor = a
     \/ faults = 0 /\ \E c \in Commands : \A x \in Recorded \ {None} : x.command = c
  /\ \A r \in RequestIds : Exists(r) => rows[r].acknowledgedAt <= 1

\* The server goes on with every request it has, and the cashier's screen
\* keeps reading the saved command until it is resolved.
Poll(r) == \E w \in Workers : StartOn(w, "get", r)
FairSpec ==
  /\ Spec
  /\ \A w \in Workers : WF_vars(Serve(w))
  /\ \A r \in RequestIds : SF_vars(Poll(r))

-----------------------------------------------------------------------------
(* Correctness, whatever the clients overlap. *)

\* A row and the sale committed under its request id belong to one actor and
\* hold one command: neither prepare's adoption of an older sale, nor the
\* submission of a merged row, ever crosses two commands.
OutcomeIsOwn ==
  \A r \in RequestIds : Exists(r) /\ sales[r] # None =>
    sales[r] = [actor |-> rows[r].actor, command |-> rows[r].command]

\* A record that shows a saved receipt, acknowledged or not, has a committed
\* sale behind it.
ResolvedHasSource ==
  \A r \in RequestIds : Exists(r) /\ rows[r].completedAt => sales[r] # None

\* An actor has at most one unresolved command, also when two prepares race
\* and when a late completeRecord meets a closed row.
OneBlockingPerActor ==
  \A q, r \in RequestIds : \A a \in Actors : Blocks(q, a) /\ Blocks(r, a) => q = r

\* What a step does to a closed row: nothing to an abandoned one, and at most a
\* new time of acknowledgement to an acknowledged one.
StaysClosed(r) ==
  /\ InState(r, {"ABANDONED"}) => rows'[r] = rows[r]
  /\ InState(r, {"ACKNOWLEDGED"}) =>
       LET t == rows'[r].acknowledgedAt IN
       t >= rows[r].acknowledgedAt /\ rows'[r] = [rows[r] EXCEPT !.acknowledgedAt = t]

\* An abandoned row never changes again; of an acknowledged row only
\* acknowledgedAt does, when two acknowledges overlap: although completeRecord
\* and acknowledge update by id alone, neither reopens, replaces or takes away
\* what was closed.
ClosedIsFinal == [][\A r \in RequestIds : StaysClosed(r)]_vars

\* Whatever row a prepare or a checkout request is answered from, it holds the
\* command the client sent, and a checkout's result is that actor's own sale.
Answered(w) == At(w, "idle") /\ reply[w] \in {"view", "result"}
\* Every answer shows the command of its request.
AnswerMatchesRequest ==
  \A w \in Workers : Answered(w) =>
    /\ job[w].op \in {"prepare", "legacySubmit"} =>
         rows[target[w]].command = job[w].command
    /\ job[w].op = "legacySubmit" =>
         sales[target[w]] = [actor |-> job[w].actor, command |-> job[w].command]

-----------------------------------------------------------------------------
(* Correctness while an actor's clients never overlap two submissions. *)

\* "A prepared command may be abandoned only before submission": a row that
\* can be abandoned, or is, has not been executed.
PreparedIsUnexecuted ==
  \A r \in RequestIds :
    InState(r, {"PREPARED", "ABANDONED"}) => sales[r] = None

\* A submission whose sale was committed is shown as completed at last, even
\* if the process stopped between the two writes.
CommittedIsResolved ==
  \A r \in RequestIds :
    (InState(r, {"SUBMITTED"}) /\ sales[r] # None)
      ~> InState(r, {"COMPLETED", "ACKNOWLEDGED"})

-----------------------------------------------------------------------------
(* The envelope promised to the cashier: CommandEnvelope, implemented while  *)
(* submissions do not overlap.  PREPARED and SUBMITTED are one open command. *)

Status(r) ==
  IF ~Exists(r) THEN "none"
  ELSE IF rows[r].state = "ABANDONED" THEN "abandoned"
  ELSE IF rows[r].state = "ACKNOWLEDGED" THEN "acknowledged"
  ELSE IF sales[r] = None THEN "open" ELSE "executed"

Envelope ==
  INSTANCE CommandEnvelope WITH
    owner <- [r \in RequestIds |-> IF Exists(r) THEN rows[r].actor ELSE None],
    status <- [r \in RequestIds |-> Status(r)],
    executions <- [r \in RequestIds |-> IF sales[r] = None THEN 0 ELSE 1]

\* The service behaves like the promised envelope.
ImplementsEnvelope == Envelope!Spec

-----------------------------------------------------------------------------
(* What the documentation says, and the code does not do. *)

\* docs/modules/pos.md: a prepared command that is abandoned "is permanently
\* fenced against delayed submission".
AbandonedIsFenced ==
  \A r \in RequestIds :
    InState(r, {"ABANDONED"}) => sales[r] = None

=============================================================================
