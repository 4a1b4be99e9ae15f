----------------------- MODULE CommandRecoveryProofs -----------------------
(***************************************************************************)
(* Proofs about CommandRecovery for every set of actors, request ids,      *)
(* commands and workers.  The first half holds whatever the requests       *)
(* overlap; the last two parts assume ExclusiveSubmit where they say so.   *)
(*                                                                         *)
(* Typed is the inductive typing: besides the type of every variable it    *)
(* says that a worker that got past its first read works on a row that     *)
(* exists.                                                                 *)
(***************************************************************************)
EXTENDS CommandRecovery, TLAPS

\* The steps of a worker that has found its row.
LoadSteps == {"submitLoad", "ackLoad", "abandonLoad", "getLoad", "listLoad"}
RowSteps == Steps \ (PrepareSteps \cup LoadSteps)

WorkersTyped ==
  \A w \in Workers :
    /\ pc[w] # "idle" => job[w] \in Job /\ target[w] \in RequestIds
    /\ pc[w] \in RowSteps => Exists(target[w])
    /\ pc[w] = "prepareInsert" => seen[w] \in {"PREPARED", "COMPLETED"}

Typed == TypeOK /\ WorkersTyped

LocalsTyped ==
  /\ pc \in [Workers -> Steps \cup {"idle"}]
  /\ job \in [Workers -> Job \cup {None}]
  /\ seen \in [Workers -> States \cup {None}]
  /\ fault \in [Workers -> {"none", "safe", "unsafe"}]
  /\ reply \in [Workers -> Replies]

-----------------------------------------------------------------------------
(* What the control-flow operators do to the locals of a worker. *)

\* Worker w goes on to a step it is equipped for, and the others stay.
Continues(w) ==
  /\ LocalsTyped'
  /\ \A v \in Workers \ {w} :
       pc'[v] = pc[v] /\ job'[v] = job[v] /\ seen'[v] = seen[v]
  /\ pc'[w] # "idle" => job'[w] \in Job
  /\ pc'[w] \in RowSteps => Exists(target[w])'
  /\ pc'[w] = "prepareInsert" => seen'[w] \in {"PREPARED", "COMPLETED"}

\* How the sets of statements a request can be at relate.
LEMMA StepKinds ==
  /\ RowSteps \subseteq Steps
  /\ "idle" \notin Steps
  /\ "submitLoad" \in Steps \ RowSteps
  /\ {"view", "catch", "checkout"} \subseteq RowSteps
  /\ "prepareInsert" \in Steps \ RowSteps
BY DEF RowSteps, Steps, PrepareSteps, SubmitSteps, OtherSteps, LoadSteps

\* An answered worker is idle and typed; the other workers do not move.
LEMMA AnswerContinues ==
  ASSUME Typed, NEW w \in Workers, NEW kind \in Replies, Answer(w, kind)
  PROVE  Continues(w)
BY StepKinds DEF Answer, Continues, LocalsTyped, Typed, TypeOK, Goto, Read

\* A response ends the request, or goes on to the submission of a legacy one.
LEMMA RespondContinues ==
  ASSUME Typed, NEW w \in Workers, pc[w] # "idle",
         NEW kind \in {"view", "result"}, Respond(w, kind)
  PROVE  Continues(w)
<1>1. CASE job[w].op = "legacyPrepare"
  <2>1. job[w] \in Job
    BY DEF Typed, WorkersTyped
  <2>2. [job[w] EXCEPT !.op = "legacySubmit"] \in Job
    BY <2>1 DEF Job, Ops
  <2>3. job' = [job EXCEPT ![w] = [job[w] EXCEPT !.op = "legacySubmit"]]
    BY <1>1 DEF Respond
  <2>4. /\ Goto(w, "submitLoad") /\ Read(w, None)
        /\ UNCHANGED <<fault, reply>>
    BY <1>1 DEF Respond
  <2>5. job' \in [Workers -> Job \cup {None}]
    BY <2>2, <2>3 DEF Typed, TypeOK
  <2>6. job'[w] \in Job /\ \A v \in Workers \ {w} : job'[v] = job[v]
    BY <2>2, <2>3 DEF Typed, TypeOK
  <2> QED
    BY <2>4, <2>5, <2>6, StepKinds
       DEF Continues, LocalsTyped, Typed, TypeOK, Goto, Read
<1>2. CASE job[w].op # "legacyPrepare"
  <2>1. PICK k \in Replies : Answer(w, k)
    BY <1>2 DEF Respond, Replies
  <2> QED
    BY <2>1, AnswerContinues
<1> QED
  BY <1>1, <1>2

\* A view ends like a response, or reads the source of an open row first.
LEMMA ViewContinues ==
  ASSUME Typed, NEW w \in Workers, pc[w] # "idle", NEW state \in States,
         View(w, state), Exists(target[w])'
  PROVE  Continues(w)
<1>1. CASE state \in {"SUBMITTED", "COMPLETED"}
  <2>1. /\ Goto(w, "view") /\ Read(w, state)
        /\ UNCHANGED <<job, fault, reply>>
    BY <1>1 DEF View
  <2> QED
    BY <2>1, StepKinds
       DEF Continues, LocalsTyped, Typed, TypeOK, WorkersTyped, Goto, Read
<1>2. CASE state \notin {"SUBMITTED", "COMPLETED"}
  BY <1>2, RespondContinues DEF View
<1> QED
  BY <1>1, <1>2

\* Going on to a statement that needs a row keeps the worker typed.
LEMMA MoveContinues ==
  ASSUME Typed, NEW w \in Workers, pc[w] # "idle",
         NEW step \in Steps \ {"prepareInsert"}, Move(w, step),
         step \in RowSteps => Exists(target[w])'
  PROVE  Continues(w)
BY DEF Move, Continues, LocalsTyped, Typed, TypeOK, WorkersTyped, Goto

\* Handling an error keeps the worker typed.
LEMMA CatchContinues ==
  ASSUME Typed, NEW w \in Workers, pc[w] # "idle",
         NEW class \in {"safe", "unsafe"}, Catch(w, class), Exists(target[w])'
  PROVE  Continues(w)
BY StepKinds DEF Catch, Continues, LocalsTyped, Typed, TypeOK, WorkersTyped, Goto

\* The tables and the targets of the other workers, in the next state.
TablesTyped(w) ==
  /\ rows' \in [RequestIds -> Row \cup {None}]
  /\ sales' \in [RequestIds -> Source \cup {None}]
  /\ faults' \in 0 .. MaxFaults
  /\ target' \in [Workers -> RequestIds \cup {None}]
  /\ target'[w] \in RequestIds
  /\ \A v \in Workers \ {w} : target'[v] = target[v]
  /\ \A r \in RequestIds : Exists(r) => Exists(r)'

\* A step that keeps its worker and the tables typed keeps everything typed.
LEMMA StepsKeepTyped ==
  ASSUME Typed, NEW w \in Workers, Continues(w), TablesTyped(w)
  PROVE  Typed'
<1>1. TypeOK'
  BY DEF Continues, LocalsTyped, TablesTyped, TypeOK
<1>2. ASSUME NEW v \in Workers
      PROVE  /\ pc'[v] # "idle" => job'[v] \in Job /\ target'[v] \in RequestIds
             /\ pc'[v] \in RowSteps => Exists(target[v])'
             /\ pc'[v] = "prepareInsert" => seen'[v] \in {"PREPARED", "COMPLETED"}
  <2>1. CASE v = w
    BY <2>1 DEF Continues, TablesTyped
  <2>2. CASE v # w
    <3>1. /\ pc'[v] = pc[v] /\ job'[v] = job[v] /\ seen'[v] = seen[v]
          /\ target'[v] = target[v]
      BY <2>2 DEF Continues, TablesTyped
    <3>2. /\ pc[v] # "idle" => job[v] \in Job /\ target[v] \in RequestIds
          /\ pc[v] \in RowSteps => Exists(target[v])
          /\ pc[v] = "prepareInsert" => seen[v] \in {"PREPARED", "COMPLETED"}
      BY DEF Typed, WorkersTyped
    <3>3. pc[v] \in RowSteps => pc[v] # "idle"
      BY StepKinds
    <3>4. Exists(target[v]) /\ target[v] \in RequestIds => Exists(target[v])'
      BY <3>1 DEF TablesTyped, Exists
    <3> QED
      BY <3>1, <3>2, <3>3, <3>4
  <2> QED
    BY <2>1, <2>2
<1> QED
  BY <1>1, <1>2 DEF Typed, WorkersTyped

\* Most steps leave the tables and the targets alone.
LEMMA QuietTables ==
  ASSUME Typed, NEW w \in Workers, pc[w] # "idle",
         UNCHANGED <<rows, sales, target, faults>>
  PROVE  TablesTyped(w)
BY DEF Typed, TypeOK, WorkersTyped, TablesTyped, Exists

-----------------------------------------------------------------------------
(* The ways a step that only reads can end. *)

\* The row a worker has read is still there: no row is ever deleted.
LEMMA ExistsStays ==
  ASSUME Typed, NEW w \in Workers, pc[w] \in RowSteps, UNCHANGED <<rows, target>>
  PROVE  Exists(target[w]) /\ Exists(target[w])'
BY DEF Typed, WorkersTyped, Exists

\* A step that changes no table and answers keeps the types ...
LEMMA QuietAnswer ==
  ASSUME Typed, NEW w \in Workers, pc[w] # "idle",
         UNCHANGED <<rows, sales, target, faults>>,
         NEW kind \in Replies, Answer(w, kind)
  PROVE  Typed'
BY QuietTables, AnswerContinues, StepsKeepTyped

\* ... and so does one that responds ...
LEMMA QuietRespond ==
  ASSUME Typed, NEW w \in Workers, pc[w] # "idle",
         UNCHANGED <<rows, sales, target, faults>>,
         NEW kind \in {"view", "result"}, Respond(w, kind)
  PROVE  Typed'
BY QuietTables, RespondContinues, StepsKeepTyped

\* ... or builds a view ...
LEMMA QuietView ==
  ASSUME Typed, NEW w \in Workers, pc[w] # "idle",
         UNCHANGED <<rows, sales, target, faults>>,
         Exists(target[w]), NEW state \in States, View(w, state)
  PROVE  Typed'
<1>1. Exists(target[w])'
  BY DEF Exists
<1> QED
  BY <1>1, QuietTables, ViewContinues, StepsKeepTyped

\* ... or goes on to its next statement ...
LEMMA QuietMove ==
  ASSUME Typed, NEW w \in Workers, pc[w] # "idle",
         UNCHANGED <<rows, sales, target, faults>>,
         NEW step \in Steps \ {"prepareInsert"}, Move(w, step),
         step \in RowSteps => Exists(target[w])
  PROVE  Typed'
<1>1. step \in RowSteps => Exists(target[w])'
  BY DEF Exists
<1> QED
  BY <1>1, QuietTables, MoveContinues, StepsKeepTyped

\* ... or handles an error.
LEMMA QuietCatch ==
  ASSUME Typed, NEW w \in Workers, pc[w] # "idle",
         UNCHANGED <<rows, sales, target, faults>>,
         NEW class \in {"safe", "unsafe"}, Catch(w, class), Exists(target[w])
  PROVE  Typed'
<1>1. Exists(target[w])'
  BY DEF Exists
<1> QED
  BY <1>1, QuietTables, CatchContinues, StepsKeepTyped

-----------------------------------------------------------------------------
\* Init satisfies the inductive invariant.
LEMMA InitTyped == Init => Typed
BY FaultsAssumption
   DEF Init, Typed, TypeOK, WorkersTyped, RowSteps, Steps, PrepareSteps,
       SubmitSteps, OtherSteps, LoadSteps, Replies

\* A new request is typed.
LEMMA StartTyped ==
  ASSUME Typed, NEW w \in Workers, Start(w)
  PROVE  Typed'
<1>1. ASSUME NEW j \in Job, NEW step \in Steps \ (RowSteps \cup {"prepareInsert"}),
             Receive(w, j, step)
      PROVE  Typed'
  <2>1. Continues(w)
    BY <1>1, StepKinds
       DEF Receive, Continues, LocalsTyped, Typed, TypeOK, Goto, At, Replies
  <2>2. TablesTyped(w)
    BY <1>1 DEF Receive, TablesTyped, Typed, TypeOK, Exists, Job
  <2> QED
    BY <2>1, <2>2, StepsKeepTyped
<1>2. CASE StartPrepare(w)
  <2>1. PICK a \in Actors, r \in RequestIds, c \in Commands,
             op \in {"prepare", "legacyPrepare"} :
               Receive(w, [op |-> op, actor |-> a, req |-> r, command |-> c],
                       "prepareRead")
    BY <1>2 DEF StartPrepare
  <2>2. [op |-> op, actor |-> a, req |-> r, command |-> c] \in Job
    BY DEF Job, Ops
  <2>3. "prepareRead" \in Steps \ (RowSteps \cup {"prepareInsert"})
    BY DEF Steps, RowSteps, PrepareSteps
  <2> QED
    BY <1>1, <2>1, <2>2, <2>3
<1>3. ASSUME NEW r \in RequestIds, NEW op \in DOMAIN FirstStep, StartOn(w, op, r)
      PROVE  Typed'
  <2>1. Receive(w, [op |-> op, actor |-> rows[r].actor, req |-> r,
                    command |-> rows[r].command], FirstStep[op])
    BY <1>3 DEF StartOn
  <2>2. rows[r] \in Row
    BY <1>3 DEF StartOn, Exists, Typed, TypeOK
  <2>3. [op |-> op, actor |-> rows[r].actor, req |-> r,
         command |-> rows[r].command] \in Job
    BY <2>2 DEF Job, Ops, FirstStep, Row
  <2>4. FirstStep[op] \in Steps \ (RowSteps \cup {"prepareInsert"})
    BY DEF FirstStep, Steps, RowSteps, SubmitSteps, OtherSteps, LoadSteps
  <2> QED
    BY <1>1, <2>1, <2>3, <2>4
<1> QED
  BY <1>2, <1>3 DEF Start

\* A failing statement keeps the types.
LEMMA FailTyped ==
  ASSUME Typed, NEW w \in Workers, Fail(w)
  PROVE  Typed'
<1>1. TablesTyped(w)
  BY FaultsAssumption DEF Fail, TablesTyped, Typed, TypeOK, WorkersTyped, Exists
<1>2. Continues(w)
  <2>1. CASE pc[w] \in {"checkout", "submitComplete"}
    <3>1. pc[w] \in RowSteps
      BY <2>1 DEF RowSteps, Steps, PrepareSteps, SubmitSteps, LoadSteps
    <3>2. Exists(target[w])'
      BY <3>1, ExistsStays DEF Fail
    <3> QED
      BY <2>1, <3>2, CatchContinues DEF Fail
  <2>2. CASE pc[w] \notin {"checkout", "submitComplete"}
    BY <2>2, AnswerContinues DEF Fail, Replies
  <2> QED
    BY <2>1, <2>2
<1> QED
  BY <1>1, <1>2, StepsKeepTyped

\* A restart keeps the types.
LEMMA CrashTyped == Typed /\ Crash => Typed'
BY FaultsAssumption, StepKinds
   DEF Crash, Typed, TypeOK, WorkersTyped, Replies, At

-----------------------------------------------------------------------------
(* One step per action of Serve. *)

\* Which statements come after the row was read.
LEMMA AfterFirstRead ==
  /\ Steps \ RowSteps = PrepareSteps \cup LoadSteps
  /\ SubmitSteps \ {"submitLoad"} \subseteq RowSteps
  /\ OtherSteps \ LoadSteps \subseteq RowSteps
  /\ {"submitLoad", "view"} \subseteq Steps
  /\ PrepareSteps \cup SubmitSteps \cup OtherSteps = Steps
  /\ CompleteSteps \subseteq RowSteps
BY DEF RowSteps, Steps, PrepareSteps, SubmitSteps, OtherSteps, LoadSteps,
       CompleteSteps

\* A worker that goes on with a blocking row of its actor.
LEMMA ViewOfBlocking ==
  ASSUME Typed, NEW w \in Workers, pc[w] # "idle", NEW q \in RequestIds,
         Blocks(q, job[w].actor), View(w, rows[q].state),
         target' = [target EXCEPT ![w] = q], UNCHANGED <<rows, sales, faults>>
  PROVE  Typed'
<1>1. rows[q] \in Row /\ rows[q].state \in States
  BY DEF Blocks, InState, Exists, Typed, TypeOK, Row
<1>2. target'[w] = q /\ Exists(target[w])'
  BY DEF Typed, TypeOK, Blocks, InState, Exists
<1>3. Continues(w)
  BY <1>1, <1>2, ViewContinues
<1>4. TablesTyped(w)
  BY <1>2 DEF Typed, TypeOK, TablesTyped, Exists
<1> QED
  BY <1>3, <1>4, StepsKeepTyped

\* The reads of prepare keep the types.
LEMMA PrepareTyped ==
  ASSUME Typed, NEW w \in Workers,
         \/ PrepareExisting(w) \/ PrepareBlocked(w) \/ PrepareDecide(w)
         \/ PrepareConflict(w) \/ PrepareMerge(w)
         \/ PrepareNoBlocker(w) \/ PrepareGiveUp(w)
  PROVE  Typed'
<1>1. CASE PrepareExisting(w)
  <2>1. rows[target[w]].state \in States
    BY <1>1 DEF PrepareExisting, At, Exists, Typed, TypeOK, WorkersTyped, Row
  <2> QED
    BY <1>1, <2>1, QuietAnswer, QuietView DEF PrepareExisting, At, Replies
<1>2. CASE PrepareBlocked(w)
  BY <1>2, QuietAnswer DEF PrepareBlocked, At, Replies
<1>3. CASE PrepareDecide(w)
  <2>1. CASE Answer(w, "conflict")
    BY <1>3, <2>1, QuietAnswer DEF PrepareDecide, At, Replies
  <2>2. CASE ~Answer(w, "conflict")
    <3>1. PICK state \in {"PREPARED", "COMPLETED"} :
            /\ Goto(w, "prepareInsert") /\ Read(w, state)
            /\ UNCHANGED <<job, fault, reply>>
      BY <1>3, <2>2 DEF PrepareDecide
    <3>2. "prepareInsert" \in Steps \ RowSteps /\ state \in States
      BY StepKinds DEF States
    <3>3. Continues(w)
      BY <1>3, <3>1, <3>2
         DEF PrepareDecide, At, Continues, LocalsTyped, Typed, TypeOK,
             WorkersTyped, Goto, Read
    <3> QED
      BY <1>3, <3>3, QuietTables, StepsKeepTyped DEF PrepareDecide, At
  <2> QED
    BY <2>1, <2>2
<1>4. CASE PrepareConflict(w)
  BY <1>4, QuietMove DEF PrepareConflict, At, RowSteps, Steps, PrepareSteps
<1>5. CASE PrepareMerge(w)
  <2>1. CASE Answer(w, "conflict") /\ UNCHANGED target
    BY <1>5, <2>1, QuietAnswer DEF PrepareMerge, At, Replies
  <2>2. CASE ~(Answer(w, "conflict") /\ UNCHANGED target)
    <3>1. PICK q \in RequestIds :
            /\ Blocks(q, job[w].actor)
            /\ View(w, rows[q].state) /\ target' = [target EXCEPT ![w] = q]
      BY <1>5, <2>2 DEF PrepareMerge
    <3> QED
      BY <1>5, <3>1, ViewOfBlocking DEF PrepareMerge, At
  <2> QED
    BY <2>1, <2>2
<1>6. CASE PrepareNoBlocker(w)
  BY <1>6, QuietMove DEF PrepareNoBlocker, At, RowSteps, Steps, PrepareSteps
<1>7. CASE PrepareGiveUp(w)
  BY <1>7, QuietAnswer DEF PrepareGiveUp, At, Replies
<1> QED
  BY <1>1, <1>2, <1>3, <1>4, <1>5, <1>6, <1>7

\* What prepare inserts is a row.
LEMMA InsertedRow ==
  ASSUME Typed, NEW w \in Workers, pc[w] = "prepareInsert"
  PROVE  /\ target[w] \in RequestIds /\ job[w] \in Job /\ seen[w] \in States
         /\ NewRow(w) \in Row /\ NewRow(w) # None
<1>1. /\ target[w] \in RequestIds /\ job[w] \in Job
      /\ seen[w] \in {"PREPARED", "COMPLETED"}
  BY DEF Typed, WorkersTyped
<1>2. job[w].actor \in Actors /\ job[w].command \in Commands
  BY <1>1 DEF Job
<1>3. seen[w] \in States /\ (seen[w] = "COMPLETED") \in BOOLEAN
  BY <1>1 DEF States
<1>4. NewRow(w) \in Row
  BY <1>2, <1>3, Zenon DEF NewRow, Row
<1> QED
  BY <1>1, <1>3, <1>4, NoneAssumption

\* The insertion of prepare keeps the types.
LEMMA InsertTyped ==
  ASSUME Typed, NEW w \in Workers, PrepareInsert(w)
  PROVE  Typed'
<1>1. /\ target[w] \in RequestIds /\ seen[w] \in States
      /\ NewRow(w) \in Row /\ NewRow(w) # None
  BY InsertedRow DEF PrepareInsert, At
<1>2. TablesTyped(w)
  BY <1>1 DEF PrepareInsert, TablesTyped, Typed, TypeOK, Exists
<1>3. Exists(target[w])'
  BY <1>1 DEF PrepareInsert, Exists, Typed, TypeOK
<1>4. Continues(w)
  BY <1>1, <1>3, ViewContinues DEF PrepareInsert, At
<1> QED
  BY <1>2, <1>4, StepsKeepTyped

\* Loading a row, or failing to, keeps the types.
LEMMA LoadTyped ==
  ASSUME Typed, NEW w \in Workers,
         \/ LoadMissing(w) \/ SubmitLoad(w) \/ SubmitReload(w) \/ AckLoad(w)
         \/ AbandonLoad(w) \/ GetLoad(w) \/ ListLoad(w)
  PROVE  Typed'
<1>1. CASE LoadMissing(w)
  BY <1>1, QuietAnswer DEF LoadMissing, Replies
<1>2. CASE ListLoad(w)
  BY <1>2, ViewOfBlocking, QuietRespond DEF ListLoad, At
<1>3. ASSUME Loads(w), pc[w] # "idle"
      PROVE  Exists(target[w]) /\ rows[target[w]].state \in States
  BY <1>3 DEF Loads, Exists, Typed, TypeOK, WorkersTyped, Row
<1>4. {"submitMark", "submitFind", "ackFind", "ackUpdate", "abandonFind"}
        \subseteq Steps \ {"prepareInsert"}
  BY DEF Steps, PrepareSteps, SubmitSteps, OtherSteps
<1>5. CASE SubmitLoad(w)
  <2>1. \/ Answer(w, "closed") \/ View(w, rows[target[w]].state)
        \/ Move(w, "submitMark") \/ Move(w, "submitFind")
    BY <1>3, <1>5 DEF SubmitLoad, At, States, ClosedStates, BlockingStates
  <2> QED
    BY <1>3, <1>4, <1>5, <2>1, QuietAnswer, QuietView, QuietMove
       DEF SubmitLoad, At, Replies
<1>6. CASE SubmitReload(w)
  <2>1. \/ Answer(w, "closed") \/ View(w, rows[target[w]].state)
        \/ Move(w, "submitFind")
    BY <1>6 DEF SubmitReload
  <2> QED
    BY <1>3, <1>4, <1>6, <2>1, QuietAnswer, QuietView, QuietMove
       DEF SubmitReload, At, Replies
<1>7. CASE AckLoad(w)
  <2>1. Respond(w, "view") \/ Move(w, "ackUpdate") \/ Move(w, "ackFind")
    BY <1>7 DEF AckLoad
  <2> QED
    BY <1>3, <1>4, <1>7, <2>1, QuietRespond, QuietMove DEF AckLoad, At
<1>8. CASE AbandonLoad(w)
  BY <1>3, <1>4, <1>8, QuietAnswer, QuietMove DEF AbandonLoad, At, Replies
<1>9. CASE GetLoad(w)
  BY <1>3, <1>9, QuietView DEF GetLoad, At
<1> QED
  BY <1>1, <1>2, <1>5, <1>6, <1>7, <1>8, <1>9

\* Looking for the sale of a row keeps the types.
LEMMA FindTyped ==
  ASSUME Typed, NEW w \in Workers,
         \/ FindForeign(w) \/ SubmitFind(w) \/ CatchFind(w) \/ AckFind(w)
         \/ AbandonFind(w) \/ ViewFind(w)
  PROVE  Typed'
<1>1. pc[w] \in RowSteps /\ pc[w] # "idle"
  BY DEF FindForeign, SubmitFind, CatchFind, AckFind, AbandonFind, ViewFind, At,
         RowSteps, Steps, PrepareSteps, SubmitSteps, OtherSteps, LoadSteps
<1>2. Exists(target[w])
  BY <1>1 DEF Typed, WorkersTyped
<1>3. {"checkout", "submitFound", "catchComplete", "reset", "ackComplete",
       "abandonUpdate", "viewComplete"} \subseteq Steps \ {"prepareInsert"}
  BY DEF Steps, PrepareSteps, SubmitSteps, OtherSteps
<1>4. UNCHANGED <<rows, sales, target, faults>>
  BY DEF FindForeign, SubmitFind, CatchFind, AckFind, AbandonFind, ViewFind
<1>5. \/ \E kind \in Replies : Answer(w, kind)
      \/ \E kind \in {"view", "result"} : Respond(w, kind)
      \/ \E step \in Steps \ {"prepareInsert"} : Move(w, step)
  BY <1>3 DEF FindForeign, SubmitFind, CatchFind, AckFind, AbandonFind, ViewFind,
              Replies
<1> QED
  BY <1>1, <1>2, <1>4, <1>5, QuietAnswer, QuietRespond, QuietMove

\* The ways a checkout ends keep the types.
LEMMA CheckoutTyped ==
  ASSUME Typed, NEW w \in Workers,
         \/ CheckoutCommit(w) \/ CheckoutReplay(w) \/ CheckoutReject(w)
         \/ CheckoutRetry(w)
  PROVE  Typed'
<1>1. pc[w] \in RowSteps /\ pc[w] # "idle"
  BY DEF CheckoutCommit, CheckoutReplay, CheckoutReject, CheckoutRetry, At,
         RowSteps, Steps, PrepareSteps, SubmitSteps, OtherSteps, LoadSteps
<1>2. Exists(target[w]) /\ target[w] \in RequestIds /\ job[w] \in Job
  BY <1>1 DEF Typed, WorkersTyped
<1>3. "submitComplete" \in Steps \ {"prepareInsert"}
  BY DEF Steps, SubmitSteps
<1>4. CASE CheckoutCommit(w)
  <2>1. Exists(target[w])'
    BY <1>1, <1>4, ExistsStays DEF CheckoutCommit
  <2>2. rows[target[w]] \in Row
    BY <1>2 DEF Exists, Typed, TypeOK
  <2>3. [actor |-> job[w].actor, command |-> rows[target[w]].command] \in Source
    BY <1>2, <2>2 DEF Source, Row, Job
  <2>4. TablesTyped(w)
    BY <1>2, <1>4, <2>3
       DEF CheckoutCommit, TablesTyped, Typed, TypeOK, Exists
  <2> QED
    BY <1>1, <1>3, <1>4, <2>1, <2>4, MoveContinues, StepsKeepTyped
       DEF CheckoutCommit
<1>5. CASE ~CheckoutCommit(w)
  BY <1>1, <1>2, <1>3, <1>5, QuietMove, QuietCatch
     DEF CheckoutReplay, CheckoutReject, CheckoutRetry
<1> QED
  BY <1>4, <1>5

\* Acknowledging a row takes it to a row, with the same owner and command.
LEMMA AcknowledgedTyped ==
  ASSUME NEW row \in Row
  PROVE  /\ Acknowledged(row) \in Row
         /\ Acknowledged(row).state = "ACKNOWLEDGED"
         /\ Acknowledged(row) = [row EXCEPT !.state = "ACKNOWLEDGED",
                                            !.acknowledgedAt = row.acknowledgedAt + 1]
<1>1. row.acknowledgedAt \in Nat /\ row.acknowledgedAt + 1 \in Nat
  BY DEF Row
<1>2. "ACKNOWLEDGED" \in States
  BY DEF States
<1>3. ASSUME NEW n \in Nat
      PROVE  [row EXCEPT !.state = "ACKNOWLEDGED", !.acknowledgedAt = n] \in Row
  BY <1>2 DEF Row
<1> QED
  BY <1>1, <1>3 DEF Acknowledged, Row

\* The updates of a row keep the types.
LEMMA WriteTyped ==
  ASSUME Typed, NEW w \in Workers,
         \/ SubmitMark(w) \/ CompleteRecord(w) \/ CompleteRefused(w)
         \/ Reset(w) \/ AckUpdate(w) \/ AbandonUpdate(w)
  PROVE  Typed'
<1>1. pc[w] \in RowSteps /\ pc[w] # "idle"
  BY DEF SubmitMark, CompleteRecord, CompleteRefused, Reset, AckUpdate,
         AbandonUpdate, At, CompleteSteps,
         RowSteps, Steps, PrepareSteps, SubmitSteps, OtherSteps, LoadSteps
<1>2. Exists(target[w]) /\ target[w] \in RequestIds /\ rows[target[w]] \in Row
  BY <1>1 DEF Typed, TypeOK, WorkersTyped, Exists
<1>3. CASE CompleteRefused(w)
  BY <1>1, <1>2, <1>3, QuietCatch, QuietAnswer DEF CompleteRefused, Replies
<1>4. ASSUME NEW row \in Row, rows' = [rows EXCEPT ![target[w]] = row],
             UNCHANGED <<sales, target, faults>>
      PROVE  TablesTyped(w) /\ Exists(target[w])'
  BY <1>2, <1>4, NoneAssumption
     DEF TablesTyped, Typed, TypeOK, Exists
<1>5. UNCHANGED <<rows, sales, target, faults>> =>
        TablesTyped(w) /\ Exists(target[w])'
  BY <1>1, QuietTables, ExistsStays
<1>6. CASE SubmitMark(w)
  <2>1. [rows[target[w]] EXCEPT !.state = "SUBMITTED", !.submittedAt = TRUE] \in Row
    BY <1>2 DEF Row, States
  <2>2. TablesTyped(w) /\ Exists(target[w])'
    BY <1>2, <1>4, <1>5, <1>6, <2>1 DEF SubmitMark, Typed, TypeOK
  <2>3. "submitReload" \in Steps \ {"prepareInsert"}
    BY DEF Steps, SubmitSteps
  <2> QED
    BY <1>1, <1>6, <2>2, <2>3, MoveContinues, StepsKeepTyped DEF SubmitMark
<1>7. CASE CompleteRecord(w)
  <2>1. Completed(rows[target[w]]) \in Row
    BY <1>2 DEF Completed, Row, States
  <2>2. TablesTyped(w) /\ Exists(target[w])'
    BY <1>2, <1>4, <1>7, <2>1 DEF CompleteRecord, Typed, TypeOK
  <2>3. "ackUpdate" \in Steps \ {"prepareInsert"} /\ "COMPLETED" \in States
    BY DEF Steps, OtherSteps, States
  <2>4. \/ View(w, "COMPLETED") \/ Respond(w, "result") \/ Move(w, "ackUpdate")
    BY <1>7 DEF CompleteRecord, CompleteSteps
  <2>5. Continues(w)
    BY <1>1, <2>2, <2>3, <2>4, ViewContinues, RespondContinues, MoveContinues
  <2> QED
    BY <2>2, <2>5, StepsKeepTyped
<1>8. CASE Reset(w)
  <2>1. [rows[target[w]] EXCEPT !.state = "PREPARED", !.submittedAt = FALSE] \in Row
    BY <1>2 DEF Row, States
  <2>2. TablesTyped(w)
    BY <1>2, <1>4, <1>5, <1>8, <2>1 DEF Reset, Typed, TypeOK
  <2> QED
    BY <1>8, <2>2, AnswerContinues, StepsKeepTyped DEF Reset, Replies
<1>9. CASE AckUpdate(w)
  <2>1. Acknowledged(rows[target[w]]) \in Row
    BY <1>2, AcknowledgedTyped
  <2>2. TablesTyped(w)
    BY <1>2, <1>4, <1>5, <1>9, <2>1 DEF AckUpdate, Typed, TypeOK
  <2>3. Continues(w)
    BY <1>1, <1>9, AnswerContinues, RespondContinues DEF AckUpdate, Replies
  <2> QED
    BY <2>2, <2>3, StepsKeepTyped
<1>10. CASE AbandonUpdate(w)
  <2>1. [rows[target[w]] EXCEPT !.state = "ABANDONED", !.closedAt = TRUE] \in Row
    BY <1>2 DEF Row, States
  <2>2. TablesTyped(w)
    BY <1>2, <1>4, <1>5, <1>10, <2>1 DEF AbandonUpdate, Typed, TypeOK
  <2>3. Continues(w)
    BY <1>1, <1>10, AnswerContinues, RespondContinues DEF AbandonUpdate, Replies
  <2> QED
    BY <2>2, <2>3, StepsKeepTyped
<1> QED
  BY <1>3, <1>6, <1>7, <1>8, <1>9, <1>10

-----------------------------------------------------------------------------
\* Every step keeps the inductive invariant.
LEMMA StepTyped == Typed /\ [Next]_vars => Typed'
<1> SUFFICES ASSUME Typed, [Next]_vars
             PROVE  Typed'
  OBVIOUS
<1>1. CASE UNCHANGED vars
  BY <1>1 DEF vars, Typed, TypeOK, WorkersTyped, Exists
<1>2. CASE Crash
  BY <1>2, CrashTyped
<1>3. ASSUME NEW w \in Workers, Start(w) \/ Fail(w)
      PROVE  Typed'
  BY <1>3, StartTyped, FailTyped
<1>4. ASSUME NEW w \in Workers, Serve(w)
      PROVE  Typed'
  BY <1>4, PrepareTyped, InsertTyped, LoadTyped, FindTyped, CheckoutTyped,
     WriteTyped DEF Serve
<1> QED
  BY <1>1, <1>2, <1>3, <1>4 DEF Next

\* The inductive invariant behind TypeCorrect.
LEMMA TypedInvariant == Spec => []Typed
BY InitTyped, StepTyped, PTL DEF Spec

\* Every variable keeps its type, whatever the requests overlap and wherever
\* they fail: in particular every row and every sale is well formed.
THEOREM TypeCorrect == Spec => []TypeOK
<1>1. Typed => TypeOK
  BY DEF Typed
<1> QED
  BY <1>1, TypedInvariant, PTL

-----------------------------------------------------------------------------
(* Safety, for every value of the constants and whatever the requests        *)
(* overlap.  Every argument rests on TableSteps, which lists the ways a step *)
(* can change the two tables, and on what a worker is known to have found    *)
(* when it reaches its next statement.                                       *)


-----------------------------------------------------------------------------
(* How a step changes the tables. *)

Marked(row) == [row EXCEPT !.state = "SUBMITTED", !.submittedAt = TRUE]
Reopened(row) == [row EXCEPT !.state = "PREPARED", !.submittedAt = FALSE]
Abandoned(row) == [row EXCEPT !.state = "ABANDONED", !.closedAt = TRUE]

\* The updates a worker makes to the row it works on.
Change(w, new) ==
  LET r == target[w] IN
  \/ rows[r].state = "PREPARED" /\ new \in {Marked(rows[r]), Abandoned(rows[r])}
  \/ pc[w] = "reset" /\ rows[r].state = "SUBMITTED" /\ new = Reopened(rows[r])
  \/ pc[w] \in CompleteSteps /\ new = Completed(rows[r]) /\ Accepts(r, new)
  \/ new = Acknowledged(rows[r]) /\ Accepts(r, new)

\* Worker w inserts its row, updates it, or commits its sale.
Inserts(w) ==
  LET r == target[w] IN
  /\ At(w, "prepareInsert") /\ ~Exists(r) /\ Accepts(r, NewRow(w))
  /\ rows' = [rows EXCEPT ![r] = NewRow(w)]
  /\ UNCHANGED sales

Updates(w) ==
  /\ pc[w] \in RowSteps
  /\ \E new \in Row : Change(w, new) /\ rows' = [rows EXCEPT ![target[w]] = new]
  /\ UNCHANGED sales

Sells(w) ==
  LET r == target[w] IN
  /\ At(w, "checkout") /\ Absent(w)
  /\ sales' = [sales EXCEPT ![r] = [actor |-> job[w].actor,
                                    command |-> rows[r].command]]
  /\ UNCHANGED rows

\* A worker at a statement on a row has that row.
LEMMA Found ==
  ASSUME Typed, NEW w \in Workers, pc[w] \in RowSteps
  PROVE  /\ Exists(target[w]) /\ target[w] \in RequestIds
         /\ rows[target[w]] \in Row /\ job[w] \in Job /\ pc[w] # "idle"
BY StepKinds DEF Typed, TypeOK, WorkersTyped, Exists

\* What one statement does to the tables: nothing, or one insert, update or sale.
LEMMA ServeTables ==
  ASSUME Typed, NEW w \in Workers, Serve(w)
  PROVE  UNCHANGED <<rows, sales>> \/ Inserts(w) \/ Updates(w) \/ Sells(w)
<1>1. CASE \/ PrepareExisting(w) \/ PrepareBlocked(w) \/ PrepareDecide(w)
           \/ PrepareConflict(w) \/ PrepareMerge(w)
           \/ PrepareNoBlocker(w) \/ PrepareGiveUp(w)
           \/ LoadMissing(w) \/ SubmitLoad(w) \/ SubmitReload(w) \/ AckLoad(w)
           \/ AbandonLoad(w) \/ GetLoad(w) \/ ListLoad(w)
           \/ FindForeign(w) \/ SubmitFind(w) \/ CatchFind(w) \/ AckFind(w)
           \/ AbandonFind(w) \/ ViewFind(w) \/ CheckoutReplay(w)
           \/ CheckoutReject(w) \/ CheckoutRetry(w) \/ CompleteRefused(w)
  BY <1>1
     DEF PrepareExisting, PrepareBlocked, PrepareDecide, PrepareConflict,
         PrepareMerge, PrepareNoBlocker, PrepareGiveUp, LoadMissing, SubmitLoad,
         SubmitReload, AckLoad, AbandonLoad, GetLoad, ListLoad, FindForeign,
         SubmitFind, CatchFind, AckFind, AbandonFind, ViewFind, CheckoutReplay,
         CheckoutReject, CheckoutRetry, CompleteRefused
<1>2. CASE PrepareInsert(w)
  BY <1>2 DEF PrepareInsert, Inserts
<1>3. CASE CheckoutCommit(w)
  BY <1>3 DEF CheckoutCommit, Sells
<1>4. CASE \/ SubmitMark(w) \/ CompleteRecord(w) \/ Reset(w) \/ AckUpdate(w)
           \/ AbandonUpdate(w)
  <2>1. pc[w] \in RowSteps
    BY <1>4
       DEF SubmitMark, CompleteRecord, Reset, AckUpdate, AbandonUpdate, At,
           CompleteSteps, RowSteps, Steps, PrepareSteps, SubmitSteps, OtherSteps,
           LoadSteps
  <2>2. /\ Exists(target[w]) /\ target[w] \in RequestIds
        /\ rows[target[w]] \in Row
    BY <2>1, Found
  <2>3. /\ Marked(rows[target[w]]) \in Row
        /\ Reopened(rows[target[w]]) \in Row
        /\ Abandoned(rows[target[w]]) \in Row
        /\ Completed(rows[target[w]]) \in Row
        /\ Acknowledged(rows[target[w]]) \in Row
    <3>1. Acknowledged(rows[target[w]]) \in Row
      BY <2>2, AcknowledgedTyped
    <3> QED
      BY <2>2, <3>1 DEF Marked, Reopened, Abandoned, Completed, Row, States
  <2>4. CASE SubmitMark(w)
    BY <2>1, <2>2, <2>3, <2>4
       DEF SubmitMark, Updates, Change, Marked, Typed, TypeOK
  <2>5. CASE CompleteRecord(w)
    BY <2>1, <2>2, <2>3, <2>5 DEF CompleteRecord, Updates, Change, Typed, TypeOK
  <2>6. CASE Reset(w)
    BY <2>1, <2>2, <2>3, <2>6
       DEF Reset, At, Updates, Change, Reopened, Typed, TypeOK
  <2>7. CASE AckUpdate(w)
    BY <2>1, <2>2, <2>3, <2>7 DEF AckUpdate, Updates, Change, Typed, TypeOK
  <2>8. CASE AbandonUpdate(w)
    BY <2>1, <2>2, <2>3, <2>8
       DEF AbandonUpdate, Updates, Change, Abandoned, Typed, TypeOK
  <2> QED
    BY <1>4, <2>4, <2>5, <2>6, <2>7, <2>8
<1> QED
  BY <1>1, <1>2, <1>3, <1>4 DEF Serve

\* What any step does to the tables.
LEMMA TableSteps ==
  ASSUME Typed, [Next]_vars
  PROVE  \/ UNCHANGED <<rows, sales>>
         \/ \E w \in Workers : Inserts(w) \/ Updates(w) \/ Sells(w)
<1>1. ASSUME NEW w \in Workers, Start(w) \/ Fail(w)
      PROVE  UNCHANGED <<rows, sales>>
  BY <1>1 DEF Start, StartPrepare, StartOn, Receive, Fail
<1>2. Crash => UNCHANGED <<rows, sales>>
  BY DEF Crash
<1> QED
  BY <1>1, <1>2, ServeTables DEF Next, vars

-----------------------------------------------------------------------------
(* Rows obey the lifecycle, and closed rows are final. *)

\* Stronger than the CHECK constraint: a submitted row has no completion time,
\* so that reopening it is legal.
RowsLegal ==
  \A r \in RequestIds : Exists(r) =>
    /\ LifecycleCheck(rows[r])
    /\ rows[r].state = "SUBMITTED" => ~rows[r].completedAt

\* An update the database accepts leaves a legal row.
LEMMA ChangeIsLegal ==
  ASSUME Typed, RowsLegal, NEW w \in Workers, pc[w] \in RowSteps, NEW new \in Row,
         Change(w, new)
  PROVE  LifecycleCheck(new) /\ (new.state = "SUBMITTED" => ~new.completedAt)
<1>1. /\ rows[target[w]] \in Row
      /\ LifecycleCheck(rows[target[w]])
      /\ rows[target[w]].state = "SUBMITTED" => ~rows[target[w]].completedAt
  BY Found DEF RowsLegal
<1> QED
  BY <1>1 DEF Change, Accepts, LifecycleCheck, Row, Marked, Abandoned, Reopened,
              Completed, Acknowledged

\* Every step keeps the lifecycle check of every row.
LEMMA RowsLegalStep ==
  ASSUME Typed, RowsLegal, [Next]_vars
  PROVE  RowsLegal'
<1>1. CASE UNCHANGED rows
  BY <1>1 DEF RowsLegal, Exists, LifecycleCheck
<1>2. ASSUME NEW w \in Workers, Inserts(w)
      PROVE  RowsLegal'
  <2>1. LifecycleCheck(NewRow(w)) /\ NewRow(w).state # "SUBMITTED"
    BY <1>2 DEF Inserts, Accepts, At, Typed, WorkersTyped, NewRow
  <2> QED
    BY <1>2, <2>1
       DEF Inserts, RowsLegal, Exists, LifecycleCheck, Typed, TypeOK
<1>3. ASSUME NEW w \in Workers, Updates(w)
      PROVE  RowsLegal'
  <2>1. PICK new \in Row :
          /\ Change(w, new) /\ rows' = [rows EXCEPT ![target[w]] = new]
    BY <1>3 DEF Updates
  <2>2. LifecycleCheck(new) /\ (new.state = "SUBMITTED" => ~new.completedAt)
    BY <1>3, <2>1, ChangeIsLegal DEF Updates
  <2> QED
    BY <2>1, <2>2 DEF RowsLegal, Exists, LifecycleCheck, Typed, TypeOK
<1> QED
  BY <1>1, <1>2, <1>3, TableSteps DEF Sells

\* Every row satisfies the lifecycle check, and a submitted one is not complete.
LEMMA RowsLegalInvariant == Spec => []RowsLegal
<1>1. Init => RowsLegal
  BY DEF Init, RowsLegal, Exists
<1> QED
  BY <1>1, RowsLegalStep, TypedInvariant, PTL DEF Spec

\* An abandoned row never changes and an acknowledged one only in the time of
\* its acknowledgement: the lifecycle constraint refuses the unconditional
\* updates of completeRecord and acknowledge whenever they would reopen or
\* replace what was closed.
THEOREM ClosedRowsAreFinal == Spec => ClosedIsFinal
<1>1. ASSUME Typed, RowsLegal, [Next]_vars
      PROVE  [\A r \in RequestIds : StaysClosed(r)]_vars
  <2>1. ASSUME NEW w \in Workers, NEW new \in Row, pc[w] \in RowSteps,
               Change(w, new), rows[target[w]].state \in ClosedStates
        PROVE  /\ rows[target[w]].state = "ACKNOWLEDGED"
               /\ new = Acknowledged(rows[target[w]])
    <3>1. /\ rows[target[w]] \in Row /\ LifecycleCheck(rows[target[w]])
      BY <1>1, <2>1, Found DEF RowsLegal
    <3>2. rows[target[w]].state \in {"ACKNOWLEDGED", "ABANDONED"}
      BY <2>1 DEF ClosedStates, States, BlockingStates
    <3>3. ~LifecycleCheck(Completed(rows[target[w]]))
      <4> DEFINE row == rows[target[w]]
      <4>1. /\ Completed(row).state = "COMPLETED"
            /\ Completed(row).acknowledgedAt = row.acknowledgedAt
            /\ Completed(row).closedAt = row.closedAt
        BY <3>1 DEF Completed, Row
      <4> QED
        BY <3>1, <3>2, <4>1 DEF LifecycleCheck
    <3>4. new = Acknowledged(rows[target[w]]) /\ LifecycleCheck(new)
      BY <2>1, <3>2, <3>3 DEF Change, Accepts
    <3>5. /\ new.state = "ACKNOWLEDGED"
          /\ new.closedAt = rows[target[w]].closedAt
      BY <3>1, <3>4 DEF Acknowledged, Row
    <3> QED
      BY <3>1, <3>2, <3>4, <3>5 DEF LifecycleCheck
  <2>2. ASSUME NEW r \in RequestIds, InState(r, ClosedStates),
               NEW w \in Workers, Inserts(w) \/ Updates(w) \/ Sells(w)
        PROVE  \/ rows'[r] = rows[r]
               \/ rows[r].state = "ACKNOWLEDGED" /\ rows'[r] = Acknowledged(rows[r])
    BY <1>1, <2>1, <2>2 DEF Inserts, Updates, Sells, InState, Typed, TypeOK
  <2>3. ASSUME NEW row \in Row, row.state = "ACKNOWLEDGED"
        PROVE  /\ Acknowledged(row).acknowledgedAt >= row.acknowledgedAt
               /\ Acknowledged(row) = [row EXCEPT !.acknowledgedAt =
                                                    Acknowledged(row).acknowledgedAt]
    <3> DEFINE n == row.acknowledgedAt + 1
    <3>1. n \in Nat /\ n >= row.acknowledgedAt
      BY DEF Row
    <3>2. Acknowledged(row) = [row EXCEPT !.state = "ACKNOWLEDGED", !.acknowledgedAt = n]
      BY AcknowledgedTyped
    <3> HIDE DEF n
    <3>3. /\ Acknowledged(row).acknowledgedAt = n
          /\ Acknowledged(row) = [row EXCEPT !.acknowledgedAt = n]
      BY <2>3, <3>2 DEF Row
    <3> QED
      BY <3>1, <3>3
  <2>4. ASSUME NEW row \in Row
        PROVE  /\ row.acknowledgedAt >= row.acknowledgedAt
               /\ row = [row EXCEPT !.acknowledgedAt = row.acknowledgedAt]
    BY <2>4 DEF Row
  <2>5. ASSUME NEW r \in RequestIds, InState(r, ClosedStates),
               \/ rows'[r] = rows[r]
               \/ rows[r].state = "ACKNOWLEDGED" /\ rows'[r] = Acknowledged(rows[r])
        PROVE  StaysClosed(r)
    <3>1. rows[r] \in Row
      BY <1>1, <2>5 DEF InState, Exists, Typed, TypeOK
    <3>2. CASE rows'[r] = rows[r]
      BY <2>4, <3>1, <3>2 DEF StaysClosed
    <3>3. CASE rows[r].state = "ACKNOWLEDGED" /\ rows'[r] = Acknowledged(rows[r])
      BY <2>3, <3>1, <3>3 DEF StaysClosed, InState
    <3> QED
      BY <2>5, <3>2, <3>3
  <2>6. ASSUME NEW r \in RequestIds, ~InState(r, ClosedStates)
        PROVE  StaysClosed(r)
    BY <2>6 DEF StaysClosed, InState, ClosedStates, States, BlockingStates
  <2>7. ASSUME NEW r \in RequestIds
        PROVE  StaysClosed(r)
    <3>1. CASE UNCHANGED <<rows, sales>>
      BY <2>5, <2>6, <3>1
    <3>2. ASSUME NEW w \in Workers, Inserts(w) \/ Updates(w) \/ Sells(w)
          PROVE  StaysClosed(r)
      BY <2>2, <2>5, <2>6, <3>2
    <3> QED
      BY <1>1, <3>1, <3>2, TableSteps
  <2> QED
    BY <2>7
<1> QED
  BY <1>1, TypedInvariant, RowsLegalInvariant, PTL DEF Spec, ClosedIsFinal

-----------------------------------------------------------------------------
(* At most one unresolved command per actor. *)

\* An update to a blocking state meets no other blocking row of the actor.
LEMMA ChangeKeepsBlocker ==
  ASSUME Typed, OneBlockingPerActor, NEW w \in Workers, pc[w] \in RowSteps,
         NEW new \in Row, Change(w, new), new.state \in BlockingStates
  PROVE  /\ new.actor = rows[target[w]].actor
         /\ \A q \in RequestIds \ {target[w]} : ~Blocks(q, new.actor)
<1>1. /\ target[w] \in RequestIds /\ rows[target[w]] \in Row
      /\ Exists(target[w]) /\ rows[target[w]].actor \in Actors
  BY Found DEF Row
<1>2. new.actor = rows[target[w]].actor
  BY <1>1 DEF Change, Marked, Abandoned, Reopened, Completed, Acknowledged, Row
<1>3. CASE rows[target[w]].state \in {"PREPARED", "SUBMITTED"}
  BY <1>1, <1>2, <1>3
     DEF OneBlockingPerActor, Blocks, InState, BlockingStates
<1>4. CASE rows[target[w]].state \notin {"PREPARED", "SUBMITTED"}
  BY <1>2, <1>4 DEF Change, Accepts, BlockingIndex
<1> QED
  BY <1>2, <1>3, <1>4

\* No interleaving of prepares, late completions and reopenings leaves an actor
\* with two unresolved commands.
THEOREM OneBlocking == Spec => []OneBlockingPerActor
<1>1. Init => OneBlockingPerActor
  BY DEF Init, OneBlockingPerActor, Blocks, InState, Exists
<1>2. ASSUME Typed, OneBlockingPerActor, [Next]_vars
      PROVE  OneBlockingPerActor'
  <2>1. CASE UNCHANGED rows
    BY <1>2, <2>1 DEF OneBlockingPerActor, Blocks, InState, Exists
  <2>2. ASSUME NEW r \in RequestIds, NEW new \in Row,
               rows' = [rows EXCEPT ![r] = new],
               new.state \in BlockingStates =>
                 \A q \in RequestIds \ {r} : ~Blocks(q, new.actor)
        PROVE  OneBlockingPerActor'
    <3>1. \A q \in RequestIds \ {r} : \A a \in Actors :
            Blocks(q, a)' <=> Blocks(q, a)
      BY <1>2, <2>2 DEF Blocks, InState, Exists, Typed, TypeOK
    <3>2. \A a \in Actors : Blocks(r, a)' =>
            new.actor = a /\ new.state \in BlockingStates
      BY <1>2, <2>2 DEF Blocks, InState, Exists, Typed, TypeOK
    <3> QED
      BY <1>2, <2>2, <3>1, <3>2 DEF OneBlockingPerActor
  <2>3. ASSUME NEW w \in Workers, Inserts(w)
        PROVE  OneBlockingPerActor'
    <3>1. target[w] \in RequestIds /\ NewRow(w) \in Row
      BY <1>2, <2>3, InsertedRow DEF Inserts, At
    <3>2. NewRow(w).state \in BlockingStates =>
            \A q \in RequestIds \ {target[w]} : ~Blocks(q, NewRow(w).actor)
      BY <2>3 DEF Inserts, Accepts, BlockingIndex
    <3> QED
      BY <2>2, <2>3, <3>1, <3>2 DEF Inserts
  <2>4. ASSUME NEW w \in Workers, Updates(w)
        PROVE  OneBlockingPerActor'
    <3>1. PICK new \in Row :
            Change(w, new) /\ rows' = [rows EXCEPT ![target[w]] = new]
      BY <2>4 DEF Updates
    <3>2. target[w] \in RequestIds
      BY <1>2, <2>4, Found DEF Updates
    <3> QED
      BY <1>2, <2>2, <2>4, <3>1, <3>2, ChangeKeepsBlocker DEF Updates
  <2> QED
    BY <1>2, <2>1, <2>3, <2>4, TableSteps DEF Sells
<1> QED
  BY <1>1, <1>2, TypedInvariant, PTL DEF Spec
-----------------------------------------------------------------------------
(* What a worker has found when it reaches a statement. *)

\* The steps that need nothing found.
Neutral == {"idle", "view"} \cup (PrepareSteps \ {"prepareInsert"}) \cup LoadSteps
LoadedSteps == SubmitSteps \ {"submitLoad"}

Others(w) ==
  \A v \in Workers \ {w} : pc'[v] = pc[v] /\ job'[v] = job[v] /\ seen'[v] = seen[v]

\* prepare decides to insert a row ...
Decides(w) ==
  /\ pc'[w] = "prepareInsert" /\ ~Exists(target[w])
  /\ UNCHANGED <<rows, sales, target, job>>
  /\ \/ Absent(w) /\ seen'[w] = "PREPARED"
     \/ ~Absent(w) /\ seen'[w] = "COMPLETED"
        /\ sales[target[w]] = [actor |-> job[w].actor, command |-> job[w].command]

\* ... or a worker goes on with the row it has.
Proceeds(w) ==
  /\ pc'[w] \notin PrepareSteps
  /\ UNCHANGED <<target, job>>
  /\ pc'[w] \in CompleteSteps => sales'[target[w]] # None
  /\ pc'[w] \in LoadedSteps =>
       pc[w] \in LoadedSteps \/ (pc[w] = "submitLoad" /\ Loads(w))

\* What the endings of a statement do to program counters and jobs.
LEMMA Endings ==
  ASSUME Typed, NEW w \in Workers
  PROVE  /\ \A kind : Answer(w, kind) => Others(w) /\ pc'[w] = "idle"
         /\ \A kind : Respond(w, kind) => Others(w) /\ pc'[w] \in {"idle", "submitLoad"}
         /\ \A state : View(w, state) =>
              Others(w) /\ pc'[w] \in {"idle", "submitLoad", "view"}
         /\ \A step : Move(w, step) => Others(w) /\ pc'[w] = step /\ UNCHANGED job
         /\ \A class : Catch(w, class) => Others(w) /\ pc'[w] = "catch" /\ UNCHANGED job
BY DEF Answer, Respond, View, Move, Catch, Goto, Read, Others, Typed, TypeOK

\* Neutral statements rely on no sale that was found and on no row that was loaded.
LEMMA NeutralSteps ==
  /\ {"idle", "submitLoad", "view", "prepareConflict", "prepareRequest"} \subseteq Neutral
  /\ Neutral \cap (CompleteSteps \cup LoadedSteps \cup {"prepareInsert"}) = {}
BY DEF Neutral, CompleteSteps, LoadedSteps, PrepareSteps, SubmitSteps, LoadSteps

\* A source of the worker's actor is not None.
LEMMA OwnedIsThere ==
  ASSUME Typed, NEW w \in Workers, pc[w] \in RowSteps, Owned(w)
  PROVE  ~Absent(w)
<1>1. job[w] \in Job /\ rows[target[w]] \in Row
  BY Found
<1>2. [actor |-> job[w].actor, command |-> rows[target[w]].command] \in Source
  BY <1>1 DEF Source, Row, Job
<1> QED
  BY <1>2, NoneAssumption DEF Owned, Absent

\* The steps of Serve that leave the worker at a neutral statement.
LEMMA NeutralServe ==
  ASSUME Typed, NEW w \in Workers,
         \/ PrepareExisting(w) \/ PrepareBlocked(w) \/ PrepareInsert(w)
         \/ PrepareConflict(w) \/ PrepareMerge(w) \/ PrepareNoBlocker(w)
         \/ PrepareGiveUp(w) \/ LoadMissing(w) \/ GetLoad(w) \/ ListLoad(w)
         \/ FindForeign(w) \/ Reset(w) \/ AckUpdate(w) \/ AbandonUpdate(w)
  PROVE  Others(w) /\ pc'[w] \in Neutral
BY Endings, NeutralSteps
   DEF PrepareExisting, PrepareBlocked, PrepareInsert, PrepareConflict,
       PrepareMerge, PrepareNoBlocker, PrepareGiveUp, LoadMissing, GetLoad,
       ListLoad, FindForeign, Reset, AckUpdate, AbandonUpdate

\* prepare's decision: COMPLETED only if the sale was found.
LEMMA DecideServe ==
  ASSUME Typed, NEW w \in Workers, PrepareDecide(w)
  PROVE  Others(w) /\ (pc'[w] \in Neutral \/ Decides(w))
<1>1. CASE Answer(w, "conflict")
  BY <1>1, Endings, NeutralSteps
<1>2. CASE ~Answer(w, "conflict")
  <2>1. /\ pc' = [pc EXCEPT ![w] = "prepareInsert"]
        /\ seen' = [seen EXCEPT ![w] = IF Absent(w) THEN "PREPARED" ELSE "COMPLETED"]
        /\ UNCHANGED <<rows, sales, target, job>> /\ ~Exists(target[w])
    BY <1>2 DEF PrepareDecide, Goto, Read, Absent
  <2>2. ~Absent(w) =>
          sales[target[w]] = [actor |-> job[w].actor, command |-> job[w].command]
    BY <1>2 DEF PrepareDecide, Absent
  <2>3. pc'[w] = "prepareInsert" /\ Others(w)
    BY <2>1 DEF Others, Typed, TypeOK
  <2>4. seen'[w] = IF Absent(w) THEN "PREPARED" ELSE "COMPLETED"
    BY <2>1 DEF Typed, TypeOK
  <2> QED
    BY <2>1, <2>2, <2>3, <2>4 DEF Decides
<1> QED
  BY <1>1, <1>2

\* Loads and marks go on to statements on the row they read.
LEMMA LoadServe ==
  ASSUME Typed, NEW w \in Workers,
         SubmitLoad(w) \/ SubmitMark(w) \/ SubmitReload(w) \/ AckLoad(w) \/ AbandonLoad(w)
  PROVE  Others(w) /\ (pc'[w] \in Neutral \/ Proceeds(w))
<1>1. ASSUME NEW step \in {"submitMark", "submitReload", "submitFind", "ackUpdate",
                           "ackFind", "abandonFind"},
             Move(w, step), UNCHANGED target,
             step \in SubmitSteps =>
               pc[w] \in LoadedSteps \/ (pc[w] = "submitLoad" /\ Loads(w))
      PROVE  Others(w) /\ Proceeds(w)
  BY <1>1, Endings
     DEF Proceeds, LoadedSteps, SubmitSteps, PrepareSteps, CompleteSteps
<1>2. CASE SubmitLoad(w)
  <2>1. pc[w] = "submitLoad" /\ Loads(w) /\ UNCHANGED target
    BY <1>2 DEF SubmitLoad, At
  <2>2. rows[target[w]].state \in States
    BY <2>1 DEF Loads, Exists, Typed, TypeOK, WorkersTyped, Row
  <2>3. \/ Answer(w, "closed") \/ View(w, rows[target[w]].state)
        \/ Move(w, "submitMark") \/ Move(w, "submitFind")
    BY <1>2, <2>2 DEF SubmitLoad, States, ClosedStates, BlockingStates
  <2> QED
    BY <1>1, <2>1, <2>3, Endings, NeutralSteps
<1>3. CASE SubmitMark(w)
  BY <1>1, <1>3 DEF SubmitMark, At, LoadedSteps, SubmitSteps
<1>4. CASE SubmitReload(w)
  <2>1. \/ Answer(w, "closed") \/ View(w, rows[target[w]].state)
        \/ Move(w, "submitFind")
    BY <1>4 DEF SubmitReload
  <2>2. pc[w] \in LoadedSteps /\ UNCHANGED target
    BY <1>4 DEF SubmitReload, At, LoadedSteps, SubmitSteps
  <2> QED
    BY <1>1, <2>1, <2>2, Endings, NeutralSteps
<1>5. CASE AckLoad(w)
  <2>1. Respond(w, "view") \/ Move(w, "ackUpdate") \/ Move(w, "ackFind")
    BY <1>5 DEF AckLoad
  <2>2. {"ackUpdate", "ackFind"} \cap SubmitSteps = {} /\ UNCHANGED target
    BY <1>5 DEF AckLoad, SubmitSteps
  <2> QED
    BY <1>1, <2>1, <2>2, Endings, NeutralSteps
<1>6. CASE AbandonLoad(w)
  BY <1>1, <1>6, Endings, NeutralSteps DEF AbandonLoad, SubmitSteps
<1> QED
  BY <1>2, <1>3, <1>4, <1>5, <1>6

\* A lookup goes on to completion only if the sale was found.
LEMMA FindServe ==
  ASSUME Typed, NEW w \in Workers,
         SubmitFind(w) \/ CatchFind(w) \/ AckFind(w) \/ AbandonFind(w) \/ ViewFind(w)
  PROVE  Others(w) /\ (pc'[w] \in Neutral \/ Proceeds(w))
<1>1. pc[w] \in RowSteps
  BY DEF SubmitFind, CatchFind, AckFind, AbandonFind, ViewFind, At,
         RowSteps, Steps, PrepareSteps, SubmitSteps, OtherSteps, LoadSteps
<1>2. Owned(w) => ~Absent(w)
  BY <1>1, OwnedIsThere
<1>3. \/ \E kind : Answer(w, kind)
      \/ \E kind : Respond(w, kind)
      \/ /\ \E step \in {"checkout", "submitFound", "catchComplete", "reset",
                         "ackComplete", "abandonUpdate", "viewComplete"} :
              /\ Move(w, step)
              /\ step \in CompleteSteps => ~Absent(w)
              /\ step \in SubmitSteps => pc[w] \in LoadedSteps
         /\ UNCHANGED <<target, sales>>
  BY <1>2
     DEF SubmitFind, CatchFind, AckFind, AbandonFind, ViewFind, At,
         LoadedSteps, SubmitSteps, CompleteSteps
<1> QED
  BY <1>3, Endings, NeutralSteps
     DEF Proceeds, LoadedSteps, SubmitSteps, PrepareSteps, Absent

\* A checkout goes on to completion only with a committed sale.
LEMMA CheckoutServe ==
  ASSUME Typed, NEW w \in Workers,
         CheckoutCommit(w) \/ CheckoutReplay(w) \/ CheckoutReject(w) \/ CheckoutRetry(w)
  PROVE  Others(w) /\ (pc'[w] \in Neutral \/ Proceeds(w))
<1>1. pc[w] = "checkout" /\ pc[w] \in RowSteps /\ pc[w] \in LoadedSteps
  BY DEF CheckoutCommit, CheckoutReplay, CheckoutReject, CheckoutRetry, At,
         RowSteps, Steps, PrepareSteps, SubmitSteps, LoadSteps, LoadedSteps
<1>2. "catch" \notin CompleteSteps \cup PrepareSteps
  BY DEF CompleteSteps, PrepareSteps
<1>3. CASE CheckoutCommit(w)
  <2>1. /\ target[w] \in RequestIds /\ job[w] \in Job /\ rows[target[w]] \in Row
    BY <1>1, Found
  <2>2. [actor |-> job[w].actor, command |-> rows[target[w]].command] \in Source
    BY <2>1 DEF Source, Row, Job
  <2>3. sales'[target[w]] # None
    BY <1>3, <2>1, <2>2, NoneAssumption DEF CheckoutCommit, Typed, TypeOK
  <2> QED
    BY <1>1, <1>3, <2>3, Endings DEF CheckoutCommit, Proceeds, PrepareSteps
<1>4. CASE CheckoutReplay(w)
  BY <1>1, <1>2, <1>4, Endings DEF CheckoutReplay, Proceeds, Absent, PrepareSteps
<1>5. CASE CheckoutReject(w) \/ CheckoutRetry(w)
  BY <1>1, <1>2, <1>5, Endings DEF CheckoutReject, CheckoutRetry, Proceeds
<1> QED
  BY <1>3, <1>4, <1>5

\* After completing the row, acknowledge goes on with the sale in place.
LEMMA CompleteServe ==
  ASSUME Typed, NEW w \in Workers, CompleteRecord(w) \/ CompleteRefused(w)
  PROVE  Others(w) /\ (pc'[w] \in Neutral \/ Proceeds(w))
<1>1. /\ {"catch", "ackUpdate"} \cap (CompleteSteps \cup PrepareSteps) = {}
      /\ "ackUpdate" \notin LoadedSteps /\ "submitComplete" \in LoadedSteps
  BY DEF CompleteSteps, PrepareSteps, LoadedSteps, SubmitSteps
<1>2. CASE CompleteRecord(w)
  <2>1. \/ View(w, "COMPLETED") \/ Respond(w, "result") \/ Move(w, "ackUpdate")
    BY <1>2 DEF CompleteRecord, CompleteSteps
  <2> QED
    BY <1>1, <1>2, <2>1, Endings, NeutralSteps DEF CompleteRecord, Proceeds
<1>3. CASE CompleteRefused(w)
  BY <1>1, <1>3, Endings, NeutralSteps DEF CompleteRefused, Proceeds, At
<1> QED
  BY <1>2, <1>3

\* Whatever a served worker does, it is neutral after it, decides, or proceeds.
LEMMA ServeEnters ==
  ASSUME Typed, NEW w \in Workers, Serve(w)
  PROVE  Others(w) /\ (pc'[w] \in Neutral \/ Decides(w) \/ Proceeds(w))
BY NeutralServe, DecideServe, LoadServe, FindServe, CheckoutServe, CompleteServe
   DEF Serve

\* A new request starts at a neutral statement.
LEMMA StartEnters ==
  ASSUME Typed, NEW w \in Workers, Start(w)
  PROVE  Others(w) /\ pc'[w] \in Neutral
<1>1. \A j : \A step \in LoadSteps \cup {"prepareRead"} :
        Receive(w, j, step) => Others(w) /\ pc'[w] \in Neutral
  BY DEF Receive, Others, Goto, Neutral, PrepareSteps, Typed, TypeOK
<1>2. \A op \in DOMAIN FirstStep : FirstStep[op] \in LoadSteps
  BY DEF FirstStep, LoadSteps
<1> QED
  BY <1>1, <1>2 DEF Start, StartPrepare, StartOn

\* A failure ends the request or goes on with the row it has.
LEMMA FailEnters ==
  ASSUME Typed, NEW w \in Workers, Fail(w)
  PROVE  Others(w) /\ (pc'[w] \in Neutral \/ Proceeds(w))
<1>1. /\ {"checkout", "submitComplete"} \subseteq LoadedSteps
      /\ "catch" \notin CompleteSteps \cup PrepareSteps
  BY DEF LoadedSteps, SubmitSteps, CompleteSteps, PrepareSteps
<1> QED
  BY <1>1, Endings, NeutralSteps DEF Fail, Proceeds
\* No step moves the row another worker works on.
LEMMA TargetsStay ==
  ASSUME Typed, NEW w \in Workers, Start(w) \/ Serve(w) \/ Fail(w),
         NEW v \in Workers \ {w}
  PROVE  target'[v] = target[v]
<1>1. CASE Start(w)
  BY <1>1 DEF Start, StartPrepare, StartOn, Receive, Typed, TypeOK
<1>2. CASE Fail(w) \/ (Serve(w) /\ ~PrepareMerge(w) /\ ~ListLoad(w))
  BY <1>2
     DEF Fail, Serve, PrepareExisting, PrepareBlocked, PrepareDecide, PrepareInsert,
         PrepareConflict, PrepareNoBlocker, PrepareGiveUp, LoadMissing,
         SubmitLoad, SubmitMark, SubmitReload, AckLoad, AbandonLoad, GetLoad,
         FindForeign, SubmitFind, CatchFind, AckFind, AbandonFind, ViewFind,
         CheckoutCommit, CheckoutReplay, CheckoutReject, CheckoutRetry,
         CompleteRecord, CompleteRefused, Reset, AckUpdate, AbandonUpdate
<1>3. CASE PrepareMerge(w)
  BY <1>3 DEF PrepareMerge, Typed, TypeOK
<1>4. CASE ListLoad(w)
  BY <1>4 DEF ListLoad, Typed, TypeOK
<1> QED
  BY <1>1, <1>2, <1>3, <1>4

\* A step is taken by one worker, if any, and the others stay where they are;
\* a restart takes every worker to the beginning.
LEMMA OneWorker ==
  ASSUME Typed, [Next]_vars, NEW v \in Workers
  PROVE  \/ pc'[v] = "idle"
         \/ /\ pc'[v] = pc[v] /\ job'[v] = job[v]
            /\ seen'[v] = seen[v] /\ target'[v] = target[v]
         \/ pc'[v] \in Neutral \/ Decides(v) \/ Proceeds(v)
<1>1. CASE UNCHANGED vars
  BY <1>1 DEF vars
<1>2. CASE Crash
  BY <1>2 DEF Crash
<1>3. ASSUME NEW w \in Workers, Start(w) \/ Serve(w) \/ Fail(w), v # w
      PROVE  /\ pc'[v] = pc[v] /\ job'[v] = job[v]
             /\ seen'[v] = seen[v] /\ target'[v] = target[v]
  BY <1>3, TargetsStay, StartEnters, ServeEnters, FailEnters DEF Others
<1>4. CASE Start(v) \/ Serve(v) \/ Fail(v)
  BY <1>4, StartEnters, ServeEnters, FailEnters
<1> QED
  BY <1>1, <1>2, <1>3, <1>4 DEF Next

\* A committed sale is never changed or removed.
LEMMA SalesStay ==
  ASSUME Typed, [Next]_vars, NEW r \in RequestIds, sales[r] # None
  PROVE  sales'[r] = sales[r]
BY TableSteps DEF Inserts, Updates, Sells, Absent, Typed, TypeOK

-----------------------------------------------------------------------------
(* Completed rows have a sale. *)

\* A worker that is about to complete a row, or to insert a completed one, has
\* found the sale.
SourceFound ==
  \A w \in Workers :
    pc[w] \in CompleteSteps \/ (At(w, "prepareInsert") /\ seen[w] = "COMPLETED")
      => target[w] \in RequestIds /\ ~Absent(w)

\* Every step keeps: whoever is about to complete a row has its sale.
LEMMA SourceFoundStep ==
  ASSUME Typed, SourceFound, [Next]_vars
  PROVE  SourceFound'
<1> SUFFICES ASSUME NEW v \in Workers,
                    \/ pc'[v] \in CompleteSteps
                    \/ pc'[v] = "prepareInsert" /\ seen'[v] = "COMPLETED"
             PROVE  target'[v] \in RequestIds /\ sales'[target'[v]] # None
  BY DEF SourceFound, At, Absent
<1>1. pc'[v] \notin Neutral
  BY NeutralSteps
<1>2. target'[v] \in RequestIds
  BY StepTyped, NeutralSteps, <1>1 DEF Typed, WorkersTyped
<1>3. CASE /\ pc'[v] = pc[v] /\ job'[v] = job[v]
           /\ seen'[v] = seen[v] /\ target'[v] = target[v]
  BY <1>2, <1>3, SalesStay DEF SourceFound, At, Absent
<1>4. CASE Decides(v)
  <2>1. seen'[v] = "COMPLETED"
    BY <1>4 DEF Decides, CompleteSteps
  <2> QED
    BY <1>2, <1>4, <2>1 DEF Decides, Absent
<1>5. CASE Proceeds(v)
  BY <1>2, <1>5 DEF Proceeds, PrepareSteps
<1> QED
  BY <1>1, <1>3, <1>4, <1>5, OneWorker, NeutralSteps

\* Whoever is about to complete a row has found its sale.
LEMMA SourceFoundInvariant == Spec => []SourceFound
<1>1. Init => SourceFound
  BY DEF Init, SourceFound, At, CompleteSteps
<1> QED
  BY <1>1, SourceFoundStep, TypedInvariant, PTL DEF Spec

\* A record that shows a saved receipt has a committed sale behind it, in every
\* interleaving: each of the five ways to completeRecord has found the sale.
THEOREM CompletedRowsHaveSales == Spec => []ResolvedHasSource
<1>1. Init => ResolvedHasSource
  BY DEF Init, ResolvedHasSource, Exists
<1>2. ASSUME Typed, SourceFound, ResolvedHasSource, [Next]_vars
      PROVE  ResolvedHasSource'
  <2>1. CASE UNCHANGED <<rows, sales>>
    BY <1>2, <2>1 DEF ResolvedHasSource, Exists
  <2>2. ASSUME NEW w \in Workers, Inserts(w)
        PROVE  ResolvedHasSource'
    <3>1. target[w] \in RequestIds /\ NewRow(w) \in Row
      BY <1>2, <2>2, InsertedRow DEF Inserts, At
    <3>2. NewRow(w).completedAt => sales[target[w]] # None
      BY <1>2, <2>2 DEF Inserts, NewRow, SourceFound, Absent
    <3> QED
      BY <1>2, <2>2, <3>1, <3>2
         DEF Inserts, ResolvedHasSource, Exists, Typed, TypeOK
  <2>3. ASSUME NEW w \in Workers, Updates(w)
        PROVE  ResolvedHasSource'
    <3>1. /\ target[w] \in RequestIds /\ Exists(target[w])
          /\ rows[target[w]] \in Row
      BY <1>2, <2>3, Found DEF Updates
    <3>2. PICK new \in Row :
            Change(w, new) /\ rows' = [rows EXCEPT ![target[w]] = new]
      BY <2>3 DEF Updates
    <3>3. new.completedAt => sales[target[w]] # None
      <4>1. CASE pc[w] \in CompleteSteps
        BY <1>2, <4>1 DEF SourceFound, Absent
      <4>2. CASE pc[w] \notin CompleteSteps
        <5>1. new.completedAt => rows[target[w]].completedAt
          BY <3>1, <3>2, <4>2
             DEF Change, Marked, Abandoned, Reopened, Acknowledged, Row
        <5> QED
          BY <1>2, <3>1, <5>1 DEF ResolvedHasSource
      <4> QED
        BY <4>1, <4>2
    <3> QED
      BY <1>2, <2>3, <3>1, <3>2, <3>3
         DEF Updates, ResolvedHasSource, Exists, Typed, TypeOK
  <2>4. ASSUME NEW w \in Workers, Sells(w)
        PROVE  ResolvedHasSource'
    BY <1>2, <2>4, SalesStay DEF Sells, ResolvedHasSource, Exists
  <2> QED
    BY <1>2, <2>1, <2>2, <2>3, <2>4, TableSteps
<1> QED
  BY <1>1, <1>2, SourceFoundInvariant, TypedInvariant, PTL DEF Spec

-----------------------------------------------------------------------------
(* Outcomes belong to their command. *)

\* Past load() a submission works on the actor's own row, and a row about to be
\* inserted fits the sale under its request id, if there is one.
OwnedWork ==
  \A w \in Workers :
    /\ pc[w] \in LoadedSteps => rows[target[w]].actor = job[w].actor
    /\ At(w, "prepareInsert") /\ ~Exists(target[w]) =>
         \/ Absent(w)
         \/ sales[target[w]] = [actor |-> job[w].actor, command |-> job[w].command]

\* The actor and the command of a row never change.
LEMMA RowsKeepIdentity ==
  ASSUME Typed, [Next]_vars, NEW r \in RequestIds, Exists(r)
  PROVE  /\ Exists(r)'
         /\ rows'[r].actor = rows[r].actor /\ rows'[r].command = rows[r].command
<1>1. ASSUME NEW w \in Workers, Updates(w)
      PROVE  /\ Exists(r)'
             /\ rows'[r].actor = rows[r].actor /\ rows'[r].command = rows[r].command
  <2>1. target[w] \in RequestIds /\ rows[target[w]] \in Row
    BY <1>1, Found DEF Updates
  <2>2. PICK new \in Row :
          Change(w, new) /\ rows' = [rows EXCEPT ![target[w]] = new]
    BY <1>1 DEF Updates
  <2>3. /\ new.actor = rows[target[w]].actor
        /\ new.command = rows[target[w]].command
    BY <2>1, <2>2
       DEF Change, Marked, Abandoned, Reopened, Completed, Acknowledged, Row
  <2> QED
    BY <2>1, <2>2, <2>3, NoneAssumption DEF Exists, Typed, TypeOK
<1>2. ASSUME NEW w \in Workers, Inserts(w)
      PROVE  /\ Exists(r)' /\ rows'[r] = rows[r]
  BY <1>2 DEF Inserts, Exists, Typed, TypeOK
<1> QED
  BY <1>1, <1>2, TableSteps DEF Sells, Exists

\* No sale is committed under a request id that has no row.
LEMMA NoRowNoSale ==
  ASSUME Typed, [Next]_vars, NEW r \in RequestIds, ~Exists(r)
  PROVE  sales'[r] = sales[r]
<1>1. ASSUME NEW w \in Workers, Sells(w)
      PROVE  sales'[r] = sales[r]
  <2>1. pc[w] \in RowSteps
    BY <1>1 DEF Sells, At, RowSteps, Steps, PrepareSteps, SubmitSteps, LoadSteps
  <2> QED
    BY <1>1, <2>1, Found DEF Sells, Typed, TypeOK
<1> QED
  BY <1>1, TableSteps DEF Inserts, Updates

\* Every step keeps: whoever works on a row belongs to its actor.
LEMMA OwnedWorkStep ==
  ASSUME Typed, OwnedWork, [Next]_vars
  PROVE  OwnedWork'
<1> SUFFICES ASSUME NEW v \in Workers
             PROVE  /\ pc'[v] \in LoadedSteps =>
                         rows'[target'[v]].actor = job'[v].actor
                    /\ pc'[v] = "prepareInsert" /\ ~Exists(target[v])' =>
                         \/ sales'[target'[v]] = None
                         \/ sales'[target'[v]] =
                              [actor |-> job'[v].actor, command |-> job'[v].command]
  BY DEF OwnedWork, At, Absent
<1>0. LoadedSteps \subseteq RowSteps \cup {"prepareInsert"} /\ "prepareInsert" \notin LoadedSteps
  BY DEF LoadedSteps, SubmitSteps, RowSteps, Steps, PrepareSteps, LoadSteps
<1>1. CASE pc'[v] \in Neutral \cup {"idle"}
  BY <1>1, NeutralSteps
<1>2. CASE /\ pc'[v] = pc[v] /\ job'[v] = job[v]
           /\ seen'[v] = seen[v] /\ target'[v] = target[v]
  <2>1. CASE pc[v] \in LoadedSteps
    BY <1>0, <1>2, <2>1, Found, RowsKeepIdentity DEF OwnedWork
  <2>2. CASE pc[v] = "prepareInsert"
    <3>1. target[v] \in RequestIds
      BY <2>2, InsertedRow
    <3>2. ~Exists(target[v])' => ~Exists(target[v])
      BY <1>2, <3>1, RowsKeepIdentity DEF Exists
    <3> QED
      BY <1>0, <1>2, <2>2, <3>1, <3>2, NoRowNoSale DEF OwnedWork, At, Absent
  <2> QED
    BY <1>2, <2>1, <2>2
<1>3. CASE Decides(v)
  BY <1>0, <1>3 DEF Decides, Absent
<1>4. CASE Proceeds(v)
  <2>1. CASE pc'[v] \in LoadedSteps
    <3>1. CASE pc[v] \in LoadedSteps
      BY <1>0, <1>4, <2>1, <3>1, Found, RowsKeepIdentity DEF OwnedWork, Proceeds
    <3>2. CASE pc[v] = "submitLoad" /\ Loads(v)
      <4>1. target[v] \in RequestIds
        BY <3>2 DEF Typed, WorkersTyped
      <4> QED
        BY <1>0, <1>4, <3>2, <4>1, RowsKeepIdentity DEF Loads, Proceeds
    <3> QED
      BY <1>4, <2>1, <3>1, <3>2 DEF Proceeds
  <2>2. pc'[v] # "prepareInsert"
    BY <1>4 DEF Proceeds, PrepareSteps
  <2> QED
    BY <2>1, <2>2
<1> QED
  BY <1>1, <1>2, <1>3, <1>4, OneWorker

\* Whoever works on a row it has loaded belongs to its actor.
LEMMA OwnedWorkInvariant == Spec => []OwnedWork
<1>1. Init => OwnedWork
  BY DEF Init, OwnedWork, At, LoadedSteps, SubmitSteps
<1> QED
  BY <1>1, OwnedWorkStep, TypedInvariant, PTL DEF Spec

\* A row and the sale under its request id belong to one actor and hold one
\* command, whatever is merged, adopted or replayed.
THEOREM OutcomesAreOwn == Spec => []OutcomeIsOwn
<1>1. Init => OutcomeIsOwn
  BY DEF Init, OutcomeIsOwn, Exists
<1>2. ASSUME Typed, OwnedWork, OutcomeIsOwn, [Next]_vars
      PROVE  OutcomeIsOwn'
  <2>1. CASE UNCHANGED <<rows, sales>>
    BY <1>2, <2>1 DEF OutcomeIsOwn, Exists
  <2>2. ASSUME NEW w \in Workers, Inserts(w)
        PROVE  OutcomeIsOwn'
    <3>1. target[w] \in RequestIds
      BY <1>2, <2>2, InsertedRow DEF Inserts, At
    <3>2. NewRow(w).actor = job[w].actor /\ NewRow(w).command = job[w].command
      BY DEF NewRow
    <3> QED
      BY <1>2, <2>2, <3>1, <3>2
         DEF Inserts, OutcomeIsOwn, OwnedWork, Absent, Exists, Typed, TypeOK
  <2>3. ASSUME NEW w \in Workers, Updates(w)
        PROVE  OutcomeIsOwn'
    <3>1. /\ target[w] \in RequestIds /\ Exists(target[w])
      BY <1>2, <2>3, Found DEF Updates
    <3>2. \A r \in RequestIds \ {target[w]} : rows'[r] = rows[r]
      BY <1>2, <2>3, <3>1 DEF Updates, Typed, TypeOK
    <3> QED
      BY <1>2, <2>3, <3>1, <3>2, RowsKeepIdentity DEF Updates, OutcomeIsOwn, Exists
  <2>4. ASSUME NEW w \in Workers, Sells(w)
        PROVE  OutcomeIsOwn'
    <3>1. pc[w] \in RowSteps /\ pc[w] \in LoadedSteps
      BY <2>4 DEF Sells, At, RowSteps, Steps, PrepareSteps, SubmitSteps, LoadSteps,
                  LoadedSteps
    <3>2. target[w] \in RequestIds /\ rows[target[w]].actor = job[w].actor
      BY <1>2, <3>1, Found DEF OwnedWork
    <3> QED
      BY <1>2, <2>4, <3>2 DEF Sells, OutcomeIsOwn, Exists, Typed, TypeOK
  <2> QED
    BY <1>2, <2>1, <2>2, <2>3, <2>4, TableSteps
<1> QED
  BY <1>1, <1>2, OwnedWorkInvariant, TypedInvariant, PTL DEF Spec

-----------------------------------------------------------------------------
(* Answers show the command of their request. *)

\* The requests that send a command, and the row they are answered from.
Sends(w) == job[w].op \in {"prepare", "legacyPrepare", "legacySubmit"}
Fits(w) ==
  /\ target[w] \in RequestIds /\ Exists(target[w])
  /\ rows[target[w]].command = job[w].command

\* Past prepare, a request that sent a command works on a row that holds it, up
\* to its answer; completing the row from a view, it has found its own sale.
PathFits(w) ==
  pc[w] # "idle" /\ Sends(w) =>
    /\ pc[w] \in PrepareSteps \cup SubmitSteps \cup {"view", "viewComplete"}
    /\ pc[w] \in PrepareSteps => job[w].op # "legacySubmit"
    /\ pc[w] \in SubmitSteps => job[w].op = "legacySubmit"
    /\ pc[w] \notin PrepareSteps => Fits(w)
    /\ pc[w] = "viewComplete" => Owned(w)

AnswerFits(w) ==
  Answered(w) /\ job[w].op \in {"prepare", "legacySubmit"} =>
    /\ Fits(w)
    /\ job[w].op = "legacySubmit" =>
         /\ sales[target[w]] # None
         /\ sales[target[w]] = [actor |-> job[w].actor, command |-> job[w].command]

AnswersFit == \A w \in Workers : PathFits(w) /\ AnswerFits(w)

\* The endings of a statement, with the answer and the job they leave.
LEMMA EndingsInFull ==
  ASSUME Typed, NEW w \in Workers, pc[w] # "idle"
  PROVE  /\ \A kind : Answer(w, kind) =>
              pc'[w] = "idle" /\ reply'[w] = kind /\ UNCHANGED job
         /\ \A step : Move(w, step) => pc'[w] = step /\ UNCHANGED <<job, reply>>
         /\ \A class : Catch(w, class) => pc'[w] = "catch" /\ UNCHANGED <<job, reply>>
         /\ \A kind : Respond(w, kind) =>
              \/ /\ job[w].op = "legacyPrepare" /\ pc'[w] = "submitLoad"
                 /\ job'[w] = [job[w] EXCEPT !.op = "legacySubmit"]
              \/ /\ job[w].op # "legacyPrepare" /\ pc'[w] = "idle" /\ UNCHANGED job
                 /\ reply'[w] = IF job[w].op = "legacySubmit" /\ kind = "view"
                                THEN "unknown" ELSE kind
         /\ \A state : View(w, state) =>
              (pc'[w] = "view" /\ UNCHANGED <<job, reply>>) \/ Respond(w, "view")
BY DEF Answer, Respond, View, Move, Catch, Goto, Read, Typed, TypeOK

\* A worker that serves or fails is serving a request.
LEMMA BusyServes ==
  ASSUME NEW w \in Workers, Serve(w) \/ Fail(w)
  PROVE  pc[w] # "idle"
BY DEF Serve, Fail, PrepareExisting, PrepareBlocked, PrepareDecide, PrepareInsert,
       PrepareConflict, PrepareMerge, PrepareNoBlocker, PrepareGiveUp, LoadMissing,
       SubmitLoad, SubmitMark, SubmitReload, AckLoad, AbandonLoad, GetLoad,
       ListLoad, FindForeign, SubmitFind, CatchFind, AckFind, AbandonFind,
       ViewFind, CheckoutCommit, CheckoutReplay, CheckoutReject, CheckoutRetry,
       CompleteRecord, CompleteRefused, Reset, AckUpdate, AbandonUpdate, At,
       CompleteSteps

\* Every statement has one of these endings; only prepare's decision to insert
\* goes on without one.
LEMMA ServeEnds ==
  ASSUME Typed, NEW w \in Workers, Serve(w)
  PROVE  \/ \E kind : Answer(w, kind)
         \/ \E kind : Respond(w, kind)
         \/ \E state : View(w, state)
         \/ \E step : step # "submitLoad" /\ Move(w, step)
         \/ \E class : Catch(w, class)
         \/ pc'[w] = "prepareInsert" /\ UNCHANGED <<job, reply>>
<1>0. CASE PrepareDecide(w)
  BY <1>0 DEF PrepareDecide, Goto, Typed, TypeOK
<1>1. CASE \/ PrepareExisting(w) \/ PrepareBlocked(w)
           \/ PrepareInsert(w) \/ PrepareConflict(w) \/ PrepareMerge(w)
           \/ PrepareNoBlocker(w) \/ PrepareGiveUp(w)
  BY <1>1 DEF PrepareExisting, PrepareBlocked, PrepareInsert,
              PrepareConflict, PrepareMerge, PrepareNoBlocker, PrepareGiveUp
<1>2. CASE SubmitLoad(w)
  <2>1. rows[target[w]].state \in States
    BY <1>2 DEF SubmitLoad, At, Loads, Exists, Typed, TypeOK, WorkersTyped, Row
  <2> QED
    BY <1>2, <2>1 DEF SubmitLoad, States, ClosedStates, BlockingStates
<1>3. CASE \/ LoadMissing(w) \/ SubmitMark(w) \/ SubmitReload(w)
           \/ AckLoad(w) \/ AbandonLoad(w) \/ GetLoad(w) \/ ListLoad(w)
  BY <1>3 DEF LoadMissing, SubmitMark, SubmitReload, AckLoad, AbandonLoad,
              GetLoad, ListLoad
<1>4. CASE \/ FindForeign(w) \/ SubmitFind(w) \/ CatchFind(w) \/ AckFind(w)
           \/ AbandonFind(w) \/ ViewFind(w)
           \/ CheckoutCommit(w) \/ CheckoutReplay(w) \/ CheckoutReject(w)
           \/ CheckoutRetry(w)
  BY <1>4 DEF FindForeign, SubmitFind, CatchFind, AckFind, AbandonFind, ViewFind,
              CheckoutCommit, CheckoutReplay, CheckoutReject, CheckoutRetry
<1>5. CASE \/ CompleteRecord(w) \/ CompleteRefused(w) \/ Reset(w)
           \/ AckUpdate(w) \/ AbandonUpdate(w)
  BY <1>5 DEF CompleteRecord, CompleteRefused, Reset, AckUpdate, AbandonUpdate,
              CompleteSteps
<1> QED
  BY <1>0, <1>1, <1>2, <1>3, <1>4, <1>5 DEF Serve

\* No step answers another worker's request.
LEMMA RepliesStay ==
  ASSUME Typed, NEW w \in Workers, Start(w) \/ Serve(w) \/ Fail(w),
         NEW v \in Workers \ {w}
  PROVE  reply'[v] = reply[v]
<1>1. \A kind : Answer(w, kind) => reply'[v] = reply[v]
  BY DEF Answer, Typed, TypeOK
<1>2. \A kind : Respond(w, kind) => reply'[v] = reply[v]
  BY <1>1 DEF Respond
<1>3. CASE Start(w)
  BY <1>3 DEF Start, StartPrepare, StartOn, Receive, Typed, TypeOK
<1>4. CASE Fail(w)
  BY <1>1, <1>4 DEF Fail, Catch
<1>5. CASE Serve(w)
  BY <1>1, <1>2, <1>5, ServeEnds DEF View, Move, Catch
<1> QED
  BY <1>3, <1>4, <1>5

\* What a worker that does not move has found, and its answer, stay true.
LEMMA StandingFits ==
  ASSUME Typed, [Next]_vars, NEW v \in Workers, PathFits(v), AnswerFits(v),
         pc'[v] = pc[v], job'[v] = job[v], target'[v] = target[v],
         reply'[v] = reply[v]
  PROVE  PathFits(v)' /\ AnswerFits(v)'
<1>1. Fits(v) => Fits(v)'
  BY RowsKeepIdentity DEF Fits, Exists
<1>2. pc[v] = "viewComplete" /\ Owned(v) => Owned(v)'
  <2>1. ASSUME pc[v] = "viewComplete", Owned(v)
        PROVE  Owned(v)'
    <3>1. pc[v] \in RowSteps
      BY <2>1 DEF RowSteps, Steps, OtherSteps, PrepareSteps, LoadSteps
    <3>2. ~Absent(v) /\ target[v] \in RequestIds /\ Exists(target[v])
      BY <2>1, <3>1, OwnedIsThere, Found
    <3> QED
      BY <2>1, <3>2, SalesStay, RowsKeepIdentity DEF Owned, Absent
  <2> QED
    BY <2>1
<1>3. PathFits(v)'
  BY <1>1, <1>2 DEF PathFits, Sends
<1>4. AnswerFits(v)'
  BY <1>1, SalesStay DEF AnswerFits, Answered, At, Fits
<1> QED
  BY <1>3, <1>4

-----------------------------------------------------------------------------
(* One lemma per ending. *)

\* An answer that is neither a view nor a result says nothing of a row.
LEMMA QuitFits ==
  ASSUME Typed, NEW w \in Workers, pc[w] # "idle",
         NEW kind, kind \notin {"view", "result"}, Answer(w, kind)
  PROVE  PathFits(w)' /\ AnswerFits(w)'
BY EndingsInFull DEF PathFits, AnswerFits, Answered, At

\* A request that sent no command is never answered as one that did.
LEMMA SilentFits ==
  ASSUME Typed, NEW w \in Workers, pc[w] # "idle", ~Sends(w), UNCHANGED job
  PROVE  PathFits(w)' /\ AnswerFits(w)'
BY DEF PathFits, AnswerFits, Sends

\* The row a worker keeps still fits.
LEMMA KeepsFitting ==
  ASSUME Typed, [Next]_vars, NEW w \in Workers, Fits(w), target'[w] = target[w]
  PROVE  /\ target'[w] \in RequestIds /\ Exists(target[w])'
         /\ rows'[target'[w]].command = job[w].command
BY RowsKeepIdentity DEF Fits, Exists

\* A worker that goes on to its next statement, and is still on its way.
LEMMA GoesFits ==
  ASSUME Typed, [Next]_vars, NEW w \in Workers, pc[w] # "idle", PathFits(w),
         UNCHANGED job, target'[w] = target[w], pc'[w] # "idle",
         pc'[w] \in PrepareSteps \cup SubmitSteps \cup {"view", "viewComplete"},
         pc'[w] \in PrepareSteps <=> pc[w] \in PrepareSteps,
         pc'[w] \in SubmitSteps => pc[w] \in SubmitSteps,
         pc'[w] = "viewComplete" => Owned(w)'
  PROVE  PathFits(w)' /\ AnswerFits(w)'
<1>1. Fits(w) => Fits(w)'
  BY KeepsFitting DEF Fits
<1> QED
  BY <1>1 DEF PathFits, AnswerFits, Answered, At, Sends

\* A response built from a row that fits.
LEMMA RespondFits ==
  ASSUME Typed, NEW w \in Workers, pc[w] # "idle", NEW kind, Respond(w, kind),
         target'[w] \in RequestIds, Exists(target[w])',
         rows'[target'[w]].command = job[w].command,
         job[w].op = "legacySubmit" /\ kind # "view" =>
           /\ sales'[target'[w]] # None
           /\ sales'[target'[w]] = [actor |-> job[w].actor, command |-> job[w].command]
  PROVE  PathFits(w)' /\ AnswerFits(w)'
<1>1. job[w] \in Job
  BY DEF Typed, WorkersTyped
<1>2. /\ "submitLoad" \in SubmitSteps /\ "submitLoad" \notin PrepareSteps
  BY DEF SubmitSteps, PrepareSteps
<1>3. CASE job[w].op = "legacyPrepare"
  <2>1. /\ pc'[w] = "submitLoad"
        /\ job'[w].op = "legacySubmit" /\ job'[w].command = job[w].command
    BY <1>1, <1>3, EndingsInFull DEF Job
  <2> QED
    BY <1>2, <2>1 DEF PathFits, AnswerFits, Answered, At, Fits
<1>4. CASE job[w].op # "legacyPrepare"
  <2>1. /\ pc'[w] = "idle" /\ UNCHANGED job
        /\ reply'[w] = IF job[w].op = "legacySubmit" /\ kind = "view"
                       THEN "unknown" ELSE kind
    BY <1>4, EndingsInFull
  <2> QED
    BY <2>1 DEF PathFits, AnswerFits, Answered, At, Fits
<1> QED
  BY <1>3, <1>4

\* A view of a row that fits.
LEMMA ViewFits ==
  ASSUME Typed, NEW w \in Workers, pc[w] # "idle", NEW state, View(w, state),
         target'[w] \in RequestIds, Exists(target[w])',
         rows'[target'[w]].command = job[w].command
  PROVE  PathFits(w)' /\ AnswerFits(w)'
<1>1. "view" \notin PrepareSteps \cup SubmitSteps
  BY DEF PrepareSteps, SubmitSteps
<1>2. CASE pc'[w] = "view" /\ UNCHANGED <<job, reply>>
  BY <1>1, <1>2 DEF PathFits, AnswerFits, Answered, At, Fits
<1>3. CASE Respond(w, "view")
  BY <1>3, RespondFits
<1> QED
  BY <1>2, <1>3, EndingsInFull

-----------------------------------------------------------------------------
(* One lemma per group of statements. *)

\* A new request has no answer, and starts at prepare if it sends a command.
LEMMA StartFits ==
  ASSUME Typed, NEW w \in Workers, Start(w)
  PROVE  PathFits(w)' /\ AnswerFits(w)'
<1>1. CASE StartPrepare(w)
  <2>1. PICK a \in Actors, r \in RequestIds, c \in Commands,
             op \in {"prepare", "legacyPrepare"} :
               Receive(w, [op |-> op, actor |-> a, req |-> r, command |-> c],
                       "prepareRead")
    BY <1>1 DEF StartPrepare
  <2>2. pc'[w] = "prepareRead" /\ job'[w].op \in {"prepare", "legacyPrepare"}
    BY <2>1 DEF Receive, Goto, Typed, TypeOK
  <2>3. "prepareRead" \in PrepareSteps \ SubmitSteps
    BY DEF PrepareSteps, SubmitSteps
  <2> QED
    BY <2>2, <2>3 DEF PathFits, AnswerFits, Answered, At
<1>2. ASSUME NEW r \in RequestIds, NEW op \in DOMAIN FirstStep, StartOn(w, op, r)
      PROVE  PathFits(w)' /\ AnswerFits(w)'
  <2>1. op \notin {"prepare", "legacyPrepare", "legacySubmit"}
    BY DEF FirstStep
  <2>2. job'[w].op = op
    BY <1>2 DEF StartOn, Receive, Typed, TypeOK
  <2> QED
    BY <2>1, <2>2 DEF PathFits, AnswerFits, Sends
<1> QED
  BY <1>1, <1>2 DEF Start

\* A failing statement answers with an error, or goes on to handle it.
LEMMA FailFits ==
  ASSUME Typed, [Next]_vars, NEW w \in Workers, PathFits(w), Fail(w)
  PROVE  PathFits(w)' /\ AnswerFits(w)'
<1>1. CASE pc[w] \in {"checkout", "submitComplete"}
  <2>1. pc'[w] = "catch" /\ UNCHANGED <<job, target>>
    BY <1>1, EndingsInFull DEF Fail
  <2>2. /\ {"checkout", "submitComplete", "catch"} \subseteq SubmitSteps
        /\ SubmitSteps \cap PrepareSteps = {}
    BY DEF SubmitSteps, PrepareSteps
  <2> QED
    BY <1>1, <2>1, <2>2, GoesFits
<1>2. CASE pc[w] \notin {"checkout", "submitComplete"}
  BY <1>2, QuitFits DEF Fail
<1> QED
  BY <1>1, <1>2

\* prepare is answered from a row with its command, or refused.
LEMMA PrepareFits ==
  ASSUME Typed, [Next]_vars, NEW w \in Workers, PathFits(w), Sends(w),
         \/ PrepareExisting(w) \/ PrepareBlocked(w) \/ PrepareDecide(w)
         \/ PrepareInsert(w) \/ PrepareConflict(w) \/ PrepareMerge(w)
         \/ PrepareNoBlocker(w) \/ PrepareGiveUp(w)
  PROVE  PathFits(w)' /\ AnswerFits(w)'
<1>1. pc[w] \in PrepareSteps /\ pc[w] # "idle" /\ target[w] \in RequestIds
  BY DEF PrepareExisting, PrepareBlocked, PrepareDecide, PrepareInsert,
         PrepareConflict, PrepareMerge, PrepareNoBlocker, PrepareGiveUp, At,
         PrepareSteps, Typed, WorkersTyped
<1>2. PrepareSteps \cap (SubmitSteps \cup {"idle", "view", "viewComplete"}) = {}
  BY DEF PrepareSteps, SubmitSteps
<1>3. ASSUME UNCHANGED <<job, target>>, pc'[w] \in PrepareSteps
      PROVE  PathFits(w)' /\ AnswerFits(w)'
  BY <1>1, <1>2, <1>3, GoesFits
<1>4. CASE PrepareExisting(w)
  <2>1. Exists(target[w]) /\ UNCHANGED <<rows, target>>
    BY <1>4 DEF PrepareExisting
  <2> QED
    BY <1>1, <1>4, <2>1, QuitFits, ViewFits DEF PrepareExisting, Exists
<1>5. CASE PrepareBlocked(w) \/ PrepareGiveUp(w)
  BY <1>1, <1>5, QuitFits DEF PrepareBlocked, PrepareGiveUp
<1>6. CASE PrepareDecide(w)
  <2>1. CASE Answer(w, "conflict")
    BY <1>1, <2>1, QuitFits
  <2>2. CASE ~Answer(w, "conflict")
    BY <1>3, <1>6, <2>2 DEF PrepareDecide, Goto, PrepareSteps, Typed, TypeOK
  <2> QED
    BY <2>1, <2>2
<1>7. CASE PrepareInsert(w)
  <2>1. NewRow(w) # None /\ NewRow(w).command = job[w].command
    BY <1>7, InsertedRow DEF PrepareInsert, At, NewRow
  <2>2. rows'[target[w]] = NewRow(w) /\ target' = target
    BY <1>1, <1>7 DEF PrepareInsert, Typed, TypeOK
  <2>3. View(w, seen[w])
    BY <1>7 DEF PrepareInsert
  <2> QED
    BY <1>1, <2>1, <2>2, <2>3, ViewFits DEF Exists
<1>8. CASE PrepareConflict(w) \/ PrepareNoBlocker(w)
  BY <1>1, <1>3, <1>8, EndingsInFull DEF PrepareConflict, PrepareNoBlocker, PrepareSteps
<1>9. CASE PrepareMerge(w)
  <2>1. CASE Answer(w, "conflict")
    BY <1>1, <2>1, QuitFits
  <2>2. CASE ~Answer(w, "conflict")
    <3>1. PICK q \in RequestIds :
            /\ Blocks(q, job[w].actor) /\ rows[q].command = job[w].command
            /\ View(w, rows[q].state) /\ target' = [target EXCEPT ![w] = q]
      BY <1>9, <2>2 DEF PrepareMerge
    <3>2. target'[w] = q /\ Exists(q) /\ UNCHANGED rows
      BY <1>9, <3>1 DEF PrepareMerge, Blocks, InState, Typed, TypeOK
    <3> QED
      BY <1>1, <3>1, <3>2, ViewFits DEF Exists
  <2> QED
    BY <2>1, <2>2
<1> QED
  BY <1>4, <1>5, <1>6, <1>7, <1>8, <1>9

\* A worker that sent a command and is past prepare has its row, and keeps it.
LEMMA PastPrepare ==
  ASSUME Typed, [Next]_vars, NEW w \in Workers, PathFits(w), Sends(w), pc[w] # "idle",
         pc[w] \notin PrepareSteps, target'[w] = target[w]
  PROVE  /\ Fits(w)
         /\ target'[w] \in RequestIds /\ Exists(target[w])'
         /\ rows'[target'[w]].command = job[w].command
         /\ pc[w] \in SubmitSteps => job[w].op = "legacySubmit"
         /\ pc[w] \in SubmitSteps \cup {"view", "viewComplete"}
BY KeepsFitting DEF PathFits

\* The statements of a submission keep to the row, up to its result.
LEMMA SubmitFits ==
  ASSUME Typed, [Next]_vars, NEW w \in Workers, PathFits(w), Sends(w),
         pc[w] # "idle", pc[w] \notin PrepareSteps,
         \/ LoadMissing(w) \/ SubmitLoad(w) \/ SubmitMark(w) \/ SubmitReload(w)
         \/ FindForeign(w) \/ SubmitFind(w) \/ CatchFind(w)
         \/ CheckoutCommit(w) \/ CheckoutReplay(w) \/ CheckoutReject(w)
         \/ CheckoutRetry(w) \/ CompleteRefused(w) \/ Reset(w)
  PROVE  PathFits(w)' /\ AnswerFits(w)'
<1>0. UNCHANGED target
  BY DEF LoadMissing, SubmitLoad, SubmitMark, SubmitReload, FindForeign, SubmitFind,
         CatchFind, CheckoutCommit, CheckoutReplay, CheckoutReject, CheckoutRetry,
         CompleteRefused, Reset
<1>1. /\ target'[w] \in RequestIds /\ Exists(target[w])'
      /\ rows'[target'[w]].command = job[w].command
  BY <1>0, PastPrepare
<1>2. ASSUME NEW state, View(w, state)
      PROVE  PathFits(w)' /\ AnswerFits(w)'
  BY <1>1, <1>2, ViewFits
<1>3. ASSUME NEW step \in {"submitMark", "submitReload", "submitFind", "checkout",
                           "submitFound", "submitComplete", "catch",
                           "catchComplete", "reset"},
             pc'[w] = step, UNCHANGED job, pc[w] \in SubmitSteps
      PROVE  PathFits(w)' /\ AnswerFits(w)'
  <2>1. step \in SubmitSteps /\ step \notin PrepareSteps \cup {"idle", "viewComplete"}
    BY DEF SubmitSteps, PrepareSteps
  <2> QED
    BY <1>0, <1>3, <2>1, GoesFits
<1>4. CASE LoadMissing(w) \/ FindForeign(w) \/ Reset(w)
  BY <1>4, QuitFits DEF LoadMissing, FindForeign, Reset
<1>5. CASE SubmitLoad(w)
  <2>1. rows[target[w]].state \in States /\ pc[w] \in SubmitSteps
    BY <1>5 DEF SubmitLoad, At, Loads, Exists, Typed, TypeOK, WorkersTyped, Row,
                SubmitSteps
  <2>2. \/ Answer(w, "closed") \/ View(w, rows[target[w]].state)
        \/ Move(w, "submitMark") \/ Move(w, "submitFind")
    BY <1>5, <2>1 DEF SubmitLoad, States, ClosedStates, BlockingStates
  <2> QED
    BY <1>2, <1>3, <2>1, <2>2, QuitFits, EndingsInFull
<1>6. CASE SubmitReload(w)
  <2>1. pc[w] \in SubmitSteps
    BY <1>6 DEF SubmitReload, At, SubmitSteps
  <2>2. \/ Answer(w, "closed") \/ View(w, rows[target[w]].state)
        \/ Move(w, "submitFind")
    BY <1>6 DEF SubmitReload
  <2> QED
    BY <1>2, <1>3, <2>1, <2>2, QuitFits, EndingsInFull
<1>7. CASE CompleteRefused(w)
  BY <1>3, <1>7, QuitFits, EndingsInFull DEF CompleteRefused, At, SubmitSteps
<1>8. CASE \/ SubmitMark(w) \/ SubmitFind(w) \/ CatchFind(w)
           \/ CheckoutCommit(w) \/ CheckoutReplay(w) \/ CheckoutReject(w)
           \/ CheckoutRetry(w)
  <2>1. pc[w] \in SubmitSteps
    BY <1>8 DEF SubmitMark, SubmitFind, CatchFind, CheckoutCommit, CheckoutReplay,
                CheckoutReject, CheckoutRetry, At, SubmitSteps
  <2>2. \/ \E step \in {"submitReload", "checkout", "submitFound", "submitComplete",
                       "catchComplete", "reset"} : Move(w, step)
        \/ \E class : Catch(w, class)
        \/ Answer(w, "error")
    BY <1>8 DEF SubmitMark, SubmitFind, CatchFind, CheckoutCommit, CheckoutReplay,
                CheckoutReject, CheckoutRetry
  <2> QED
    BY <1>3, <2>1, <2>2, QuitFits, EndingsInFull
<1> QED
  BY <1>4, <1>5, <1>6, <1>7, <1>8

\* The sale a request found under its row is its own and holds its command.
LEMMA FoundResult ==
  ASSUME Typed, [Next]_vars, NEW w \in Workers, Fits(w), target'[w] = target[w],
         pc[w] \in RowSteps, Owned(w)
  PROVE  /\ sales'[target'[w]] # None
         /\ sales'[target'[w]] = [actor |-> job[w].actor, command |-> job[w].command]
<1>1. sales[target[w]] = [actor |-> job[w].actor, command |-> job[w].command]
  BY DEF Owned, Fits
<1>2. sales[target[w]] # None
  BY OwnedIsThere DEF Absent
<1> QED
  BY <1>1, <1>2, SalesStay DEF Fits

\* Reading the outcome, and completing the row, show the request's own sale.
LEMMA ResultFits ==
  ASSUME Typed, SourceFound, OwnedWork, OutcomeIsOwn, [Next]_vars,
         NEW w \in Workers, PathFits(w), Sends(w), pc[w] # "idle",
         pc[w] \notin PrepareSteps, ViewFind(w) \/ CompleteRecord(w)
  PROVE  PathFits(w)' /\ AnswerFits(w)'
<1>0. UNCHANGED target /\ pc[w] \in RowSteps
  BY DEF ViewFind, CompleteRecord, At, CompleteSteps, RowSteps, Steps, PrepareSteps,
         SubmitSteps, OtherSteps, LoadSteps
<1>1. /\ Fits(w)
      /\ target'[w] \in RequestIds /\ Exists(target[w])'
      /\ rows'[target'[w]].command = job[w].command
      /\ pc[w] \in SubmitSteps \cup {"view", "viewComplete"}
  BY <1>0, PastPrepare
<1>2. ASSUME Respond(w, "result"), Owned(w)
      PROVE  PathFits(w)' /\ AnswerFits(w)'
  <2>1. /\ sales'[target'[w]] # None
        /\ sales'[target'[w]] = [actor |-> job[w].actor, command |-> job[w].command]
    BY <1>0, <1>1, <1>2, FoundResult
  <2> QED
    BY <1>1, <1>2, <2>1, RespondFits
<1>3. CASE ViewFind(w)
  <2>1. \/ Respond(w, "view")
        \/ Owned(w) /\ Move(w, "viewComplete")
        \/ Owned(w) /\ Respond(w, "result")
    BY <1>3 DEF ViewFind
  <2>2. CASE Respond(w, "view")
    BY <1>1, <2>2, RespondFits
  <2>3. CASE Owned(w) /\ Move(w, "viewComplete")
    <3>1. pc'[w] = "viewComplete" /\ UNCHANGED job
      BY <2>3, EndingsInFull
    <3>2. "viewComplete" \notin PrepareSteps \cup SubmitSteps \cup {"idle"}
      BY DEF PrepareSteps, SubmitSteps
    <3>3. Owned(w)'
      BY <1>0, <1>3, <2>3, <3>1 DEF Owned, ViewFind
    <3> QED
      BY <1>0, <3>1, <3>2, <3>3, GoesFits
  <2> QED
    BY <1>2, <2>1, <2>2, <2>3
<1>4. CASE CompleteRecord(w)
  <2>1. pc[w] # "ackComplete"
    BY <1>1 DEF SubmitSteps
  <2>2. \/ View(w, "COMPLETED")
        \/ pc[w] \in {"submitComplete", "viewComplete"} /\ Respond(w, "result")
    BY <1>4, <2>1 DEF CompleteRecord, CompleteSteps
  <2>3. CASE View(w, "COMPLETED")
    BY <1>1, <2>3, ViewFits
  <2>4. CASE pc[w] = "viewComplete" /\ Respond(w, "result")
    BY <1>2, <2>4 DEF PathFits
  <2>5. CASE pc[w] = "submitComplete" /\ Respond(w, "result")
    <3>1. rows[target[w]].actor = job[w].actor
      BY <2>5 DEF OwnedWork, LoadedSteps, SubmitSteps
    <3>2. target[w] \in RequestIds /\ Exists(target[w]) /\ sales[target[w]] # None
      BY <1>0, <2>5, Found DEF SourceFound, CompleteSteps, Absent
    <3>3. Owned(w)
      BY <3>1, <3>2 DEF OutcomeIsOwn, Owned
    <3> QED
      BY <1>2, <2>5, <3>3
  <2> QED
    BY <2>2, <2>3, <2>4, <2>5
<1> QED
  BY <1>3, <1>4

\* Whatever is served, the answers fit.
LEMMA ServeFits ==
  ASSUME Typed, SourceFound, OwnedWork, OutcomeIsOwn, [Next]_vars,
         NEW w \in Workers, PathFits(w), Serve(w)
  PROVE  PathFits(w)' /\ AnswerFits(w)'
<1>1. pc[w] # "idle"
  BY BusyServes
<1>2. CASE ~Sends(w)
  <2>1. UNCHANGED job
    BY <1>1, <1>2, ServeEnds, EndingsInFull DEF Sends
  <2> QED
    BY <1>1, <1>2, <2>1, SilentFits
<1>3. CASE Sends(w)
  <2>1. pc[w] \in PrepareSteps \cup SubmitSteps \cup {"view", "viewComplete"}
    BY <1>1, <1>3 DEF PathFits
  <2>2. CASE \/ PrepareExisting(w) \/ PrepareBlocked(w) \/ PrepareDecide(w)
             \/ PrepareInsert(w) \/ PrepareConflict(w) \/ PrepareMerge(w)
             \/ PrepareNoBlocker(w) \/ PrepareGiveUp(w)
    BY <1>3, <2>2, PrepareFits
  <2>3. CASE \/ LoadMissing(w) \/ SubmitLoad(w) \/ SubmitMark(w) \/ SubmitReload(w)
             \/ FindForeign(w) \/ SubmitFind(w) \/ CatchFind(w)
             \/ CheckoutCommit(w) \/ CheckoutReplay(w) \/ CheckoutReject(w)
             \/ CheckoutRetry(w) \/ CompleteRefused(w) \/ Reset(w)
             \/ ViewFind(w) \/ CompleteRecord(w)
    <3>1. pc[w] \notin PrepareSteps
      BY <2>3
         DEF LoadMissing, SubmitLoad, SubmitMark, SubmitReload, FindForeign,
             SubmitFind, CatchFind, CheckoutCommit, CheckoutReplay, CheckoutReject,
             CheckoutRetry, CompleteRefused, Reset, ViewFind, CompleteRecord, At,
             CompleteSteps, PrepareSteps
    <3> QED
      BY <1>1, <1>3, <2>3, <3>1, SubmitFits, ResultFits
  <2>4. ~ \/ AckLoad(w) \/ AbandonLoad(w) \/ GetLoad(w) \/ ListLoad(w)
          \/ AckFind(w) \/ AbandonFind(w) \/ AckUpdate(w) \/ AbandonUpdate(w)
    BY <2>1 DEF AckLoad, AbandonLoad, GetLoad, ListLoad, AckFind, AbandonFind,
                AckUpdate, AbandonUpdate, At, PrepareSteps, SubmitSteps
  <2> QED
    BY <2>2, <2>3, <2>4 DEF Serve
<1> QED
  BY <1>2, <1>3

\* A restart answers no request, and leaves the answers that were given.
LEMMA CrashFits ==
  ASSUME Typed, AnswersFit, Crash
  PROVE  AnswersFit'
<1> SUFFICES ASSUME NEW v \in Workers
             PROVE  PathFits(v)' /\ AnswerFits(v)'
  BY DEF AnswersFit
<1>1. /\ pc'[v] = "idle" /\ UNCHANGED <<rows, sales, job, target>>
      /\ reply'[v] = IF At(v, "idle") THEN reply[v] ELSE "none"
  BY DEF Crash
<1>2. AnswerFits(v)
  BY DEF AnswersFit
<1> QED
  BY <1>1, <1>2 DEF PathFits, AnswerFits, Answered, At, Fits, Exists

\* Every step keeps the answers fitting.
LEMMA AnswersFitStep ==
  ASSUME Typed, SourceFound, OwnedWork, OutcomeIsOwn, AnswersFit, [Next]_vars
  PROVE  AnswersFit'
<1>1. CASE UNCHANGED vars
  BY <1>1 DEF vars, AnswersFit, PathFits, AnswerFits, Answered, At, Fits, Exists,
              Sends, Owned
<1>2. CASE Crash
  BY <1>2, CrashFits
<1>3. ASSUME NEW w \in Workers, Start(w) \/ Serve(w) \/ Fail(w), NEW v \in Workers
      PROVE  PathFits(v)' /\ AnswerFits(v)'
  <2>1. PathFits(v) /\ AnswerFits(v)
    BY DEF AnswersFit
  <2>2. CASE v = w
    BY <1>3, <2>1, <2>2, StartFits, ServeFits, FailFits
  <2>3. CASE v # w
    <3>1. pc'[v] = pc[v] /\ job'[v] = job[v]
      BY <1>3, <2>3, StartEnters, ServeEnters, FailEnters DEF Others
    <3>2. target'[v] = target[v] /\ reply'[v] = reply[v]
      BY <1>3, <2>3, TargetsStay, RepliesStay
    <3> QED
      BY <2>1, <3>1, <3>2, StandingFits
  <2> QED
    BY <2>2, <2>3
<1> QED
  BY <1>1, <1>2, <1>3 DEF Next, AnswersFit

\* A checkout or prepare request is only answered from a row that holds the
\* command it sent, and a checkout's result is the sale of that actor and that
\* command, whatever requests, retries and restarts come between.
THEOREM AnswersMatchRequests == Spec => []AnswerMatchesRequest
<1>1. Init => AnswersFit
  BY DEF Init, AnswersFit, PathFits, AnswerFits, Answered
<1>2. AnswersFit => AnswerMatchesRequest
  BY DEF AnswersFit, AnswerFits, AnswerMatchesRequest, Fits
<1> QED
  BY <1>1, <1>2, AnswersFitStep, TypedInvariant, SourceFoundInvariant,
     OwnedWorkInvariant, OutcomesAreOwn, PTL DEF Spec

-----------------------------------------------------------------------------
(* Prepared rows are unexecuted, while no actor overlaps two submissions. *)

Submits(w) ==
  pc[w] # "idle" /\ job[w].op \in {"submit", "legacyPrepare", "legacySubmit"}

OneSubmission ==
  \A v, w \in Workers : Submits(v) /\ Submits(w) /\ job[v].actor = job[w].actor => v = w

\* The statements between the last look at the row's state and the answer.
ExecutingSteps == LoadedSteps \ {"submitMark", "submitReload"}

\* A worker that executes a submission has seen its row submitted; one that
\* reopens the row, or is about to insert a prepared one, has seen no sale.
Fenced(w) ==
  /\ pc[w] \in SubmitSteps => job[w].op \in {"submit", "legacySubmit"}
  /\ pc[w] = "submitReload" => rows[target[w]].state # "PREPARED"
  /\ pc[w] \in ExecutingSteps => rows[target[w]].state \notin {"PREPARED", "ABANDONED"}
  /\ pc[w] = "reset" => Absent(w)
  /\ pc[w] = "prepareInsert" /\ ~Exists(target[w]) /\ seen[w] = "PREPARED" => Absent(w)

AllFenced == OneSubmission /\ \A w \in Workers : Fenced(w)

\* The statements of a submission by kind.
LEMMA SubmissionKinds ==
  /\ ExecutingSteps \subseteq LoadedSteps /\ LoadedSteps \subseteq SubmitSteps
  /\ LoadedSteps \subseteq RowSteps
  /\ {"submitReload", "reset", "checkout"} \subseteq LoadedSteps
  /\ {"idle", "view", "prepareInsert"} \cap SubmitSteps = {}
  /\ Neutral \cap SubmitSteps = {"submitLoad"}
BY DEF ExecutingSteps, LoadedSteps, SubmitSteps, RowSteps, Steps, PrepareSteps,
       LoadSteps, Neutral

\* A worker that serves or fails is a submission after it only if it was before.
LEMMA SubmitsKept ==
  ASSUME Typed, NEW w \in Workers, pc[w] # "idle", Serve(w) \/ Fail(w), Submits(w)'
  PROVE  Submits(w) /\ job'[w].actor = job[w].actor
<1>1. job[w] \in Job
  BY DEF Typed, WorkersTyped
<1>2. \/ UNCHANGED job
      \/ job[w].op = "legacyPrepare" /\ job'[w] = [job[w] EXCEPT !.op = "legacySubmit"]
  BY ServeEnds, EndingsInFull DEF Fail
<1> QED
  BY <1>1, <1>2 DEF Submits, Job

\* A submission starts only when its actor has no other.
LEMMA StartsAlone ==
  ASSUME Typed, ExclusiveSubmit, NEW w \in Workers, Start(w), Submits(w)',
         NEW v \in Workers \ {w}, Submits(v)
  PROVE  job'[w].actor # job[v].actor
<1>1. CASE StartPrepare(w)
  <2>1. PICK a \in Actors, r \in RequestIds, c \in Commands,
             op \in {"prepare", "legacyPrepare"} :
          /\ op = "legacyPrepare" => ~SubmissionInFlight(a)
          /\ Receive(w, [op |-> op, actor |-> a, req |-> r, command |-> c],
                     "prepareRead")
    BY <1>1 DEF StartPrepare
  <2>2. job'[w] = [op |-> op, actor |-> a, req |-> r, command |-> c]
    BY <2>1 DEF Receive, Typed, TypeOK
  <2> QED
    BY <2>1, <2>2 DEF Submits, SubmissionInFlight
<1>2. ASSUME NEW r \in RequestIds, NEW op \in DOMAIN FirstStep, StartOn(w, op, r)
      PROVE  job'[w].actor # job[v].actor
  <2>1. job'[w] = [op |-> op, actor |-> rows[r].actor, req |-> r,
                   command |-> rows[r].command]
    BY <1>2 DEF StartOn, Receive, Typed, TypeOK
  <2>2. op = "submit"
    BY <2>1 DEF Submits, FirstStep
  <2> QED
    BY <1>2, <2>1, <2>2 DEF StartOn, Submits, SubmissionInFlight
<1> QED
  BY <1>1, <1>2 DEF Start

\* Submissions of an actor stay alone.
LEMMA OneSubmissionStep ==
  ASSUME Typed, ExclusiveSubmit, OneSubmission, [Next]_vars
  PROVE  OneSubmission'
<1>1. CASE UNCHANGED vars
  BY <1>1 DEF vars, OneSubmission, Submits
<1>2. CASE Crash
  BY <1>2 DEF Crash, OneSubmission, Submits
<1>3. ASSUME NEW w \in Workers, Start(w) \/ Serve(w) \/ Fail(w)
      PROVE  OneSubmission'
  <2>1. \A v \in Workers \ {w} :
          /\ Submits(v)' <=> Submits(v)
          /\ job'[v] = job[v]
    BY <1>3, StartEnters, ServeEnters, FailEnters DEF Others, Submits
  <2>2. ASSUME NEW v \in Workers \ {w}, Submits(v), Submits(w)'
        PROVE  job'[w].actor # job[v].actor
    <3>1. CASE Start(w)
      BY <2>2, <3>1, StartsAlone
    <3>2. CASE Serve(w) \/ Fail(w)
      BY <2>2, <3>2, BusyServes, SubmitsKept DEF OneSubmission
    <3> QED
      BY <1>3, <3>1, <3>2
  <2> QED
    BY <2>1, <2>2 DEF OneSubmission
<1> QED
  BY <1>1, <1>2, <1>3 DEF Next

\* How a worker gets to a statement of a submission on a loaded row.
LEMMA LoadedEnters ==
  ASSUME Typed, NEW w \in Workers, Serve(w) \/ Fail(w), pc'[w] \in LoadedSteps
  PROVE  \/ pc'[w] = "submitMark"
         \/ pc'[w] = "submitReload" /\ rows'[target[w]].state # "PREPARED"
         \/ /\ pc'[w] = "submitFind" /\ UNCHANGED rows
            /\ \/ rows[target[w]].state = "SUBMITTED"
               \/ pc[w] = "submitReload" /\ rows[target[w]].state # "ABANDONED"
         \/ /\ pc'[w] \in ExecutingSteps /\ pc[w] \in ExecutingSteps
            /\ UNCHANGED rows
            /\ pc'[w] = "reset" => Absent(w) /\ UNCHANGED sales
<1>1. pc'[w] \notin Neutral /\ pc'[w] \notin {"idle", "view", "submitLoad"}
  BY NeutralSteps
<1>2. CASE SubmitLoad(w)
  <2>1. rows[target[w]].state \in States
    BY <1>2 DEF SubmitLoad, At, Loads, Exists, Typed, TypeOK, WorkersTyped, Row
  <2>2. \/ Answer(w, "closed") \/ View(w, rows[target[w]].state)
        \/ Move(w, "submitMark")
        \/ Move(w, "submitFind") /\ rows[target[w]].state = "SUBMITTED"
    BY <1>2, <2>1 DEF SubmitLoad, States, ClosedStates, BlockingStates
  <2> QED
    BY <1>1, <1>2, <2>2, Endings DEF SubmitLoad
<1>3. CASE SubmitMark(w)
  <2>1. pc[w] \in RowSteps
    BY <1>3 DEF SubmitMark, At, RowSteps, Steps, PrepareSteps, SubmitSteps, LoadSteps
  <2>2. target[w] \in RequestIds /\ rows[target[w]] \in Row
    BY <2>1, Found
  <2>3. rows'[target[w]].state # "PREPARED"
    BY <1>3, <2>2 DEF SubmitMark, Row, Typed, TypeOK
  <2> QED
    BY <1>3, <2>3, Endings DEF SubmitMark
<1>4. CASE SubmitReload(w)
  <2>1. \/ Answer(w, "closed") \/ View(w, rows[target[w]].state)
        \/ Move(w, "submitFind") /\ rows[target[w]].state # "ABANDONED"
    BY <1>4 DEF SubmitReload
  <2> QED
    BY <1>1, <1>4, <2>1, Endings DEF SubmitReload, At
<1>5. CASE \/ PrepareExisting(w) \/ PrepareBlocked(w) \/ PrepareInsert(w)
           \/ PrepareConflict(w) \/ PrepareMerge(w) \/ PrepareNoBlocker(w)
           \/ PrepareGiveUp(w) \/ LoadMissing(w) \/ GetLoad(w) \/ ListLoad(w)
           \/ FindForeign(w) \/ Reset(w) \/ AckUpdate(w) \/ AbandonUpdate(w)
  BY <1>1, <1>5, NeutralServe
<1>6. CASE PrepareDecide(w)
  BY <1>1, <1>6, DecideServe DEF Decides, LoadedSteps, SubmitSteps
<1>7. CASE AckLoad(w) \/ AbandonLoad(w) \/ AckFind(w) \/ AbandonFind(w) \/ ViewFind(w)
  <2>1. \/ \E kind : Answer(w, kind)
        \/ \E kind : Respond(w, kind)
        \/ \E step \in {"ackUpdate", "ackFind", "ackComplete", "abandonFind",
                        "abandonUpdate", "viewComplete"} : Move(w, step)
    BY <1>7 DEF AckLoad, AbandonLoad, AckFind, AbandonFind, ViewFind
  <2>2. LoadedSteps \cap {"ackUpdate", "ackFind", "ackComplete", "abandonFind",
                          "abandonUpdate", "viewComplete"} = {}
    BY DEF LoadedSteps, SubmitSteps
  <2> QED
    BY <1>1, <2>1, <2>2, Endings
<1>8. CASE SubmitFind(w) \/ CatchFind(w)
  <2>1. /\ pc[w] \in ExecutingSteps /\ pc[w] \in RowSteps
        /\ UNCHANGED <<rows, sales>>
    BY <1>8 DEF SubmitFind, CatchFind, At, ExecutingSteps, LoadedSteps, SubmitSteps,
                RowSteps, Steps, PrepareSteps, LoadSteps
  <2>2. Owned(w) => ~Absent(w)
    BY <2>1, OwnedIsThere
  <2>3. \/ Move(w, "checkout") \/ Move(w, "submitFound") \/ Move(w, "catchComplete")
        \/ Move(w, "reset") /\ Absent(w)
        \/ Answer(w, "error")
    BY <1>8, <2>2 DEF SubmitFind, CatchFind
  <2> QED
    BY <1>1, <2>1, <2>3, Endings DEF ExecutingSteps, LoadedSteps, SubmitSteps
<1>9. CASE \/ CheckoutCommit(w) \/ CheckoutReplay(w) \/ CheckoutReject(w)
           \/ CheckoutRetry(w) \/ CompleteRefused(w) \/ Fail(w)
  <2>1. /\ UNCHANGED rows
        /\ \/ Answer(w, "error")
           \/ /\ pc[w] \in {"checkout", "submitComplete"}
              /\ Move(w, "submitComplete") \/ \E class : Catch(w, class)
    BY <1>9 DEF CheckoutCommit, CheckoutReplay, CheckoutReject, CheckoutRetry,
                CompleteRefused, Fail, At
  <2> QED
    BY <1>1, <2>1, Endings DEF ExecutingSteps, LoadedSteps, SubmitSteps
<1>10. CASE CompleteRecord(w)
  <2>1. \/ View(w, "COMPLETED") \/ Respond(w, "result") \/ Move(w, "ackUpdate")
    BY <1>10 DEF CompleteRecord, CompleteSteps
  <2>2. "ackUpdate" \notin LoadedSteps
    BY DEF LoadedSteps, SubmitSteps
  <2> QED
    BY <1>1, <2>1, <2>2, Endings
<1> QED
  BY <1>2, <1>3, <1>4, <1>5, <1>6, <1>7, <1>8, <1>9, <1>10 DEF Serve

\* A worker only gets to a submission's statements on behalf of a submission.
LEMMA SubmissionEnters ==
  ASSUME Typed, NEW w \in Workers, Serve(w) \/ Fail(w), pc'[w] \in SubmitSteps,
         pc[w] \in SubmitSteps => job[w].op \in {"submit", "legacySubmit"}
  PROVE  job'[w].op \in {"submit", "legacySubmit"}
<1>1. pc[w] # "idle" /\ job[w] \in Job
  BY BusyServes DEF Typed, WorkersTyped
<1>2. CASE pc'[w] \in LoadedSteps
  <2>1. Proceeds(w)
    BY <1>2, ServeEnters, FailEnters, NeutralSteps, SubmissionKinds DEF Decides
  <2>2. pc[w] \in SubmitSteps /\ UNCHANGED job
    BY <1>2, <2>1, SubmissionKinds DEF Proceeds
  <2> QED
    BY <2>2
<1>3. CASE pc'[w] = "submitLoad"
  <2>1. \/ \E kind : Respond(w, kind)
        \/ \E state : View(w, state)
    BY <1>1, <1>3, ServeEnds, EndingsInFull DEF Fail
  <2>2. job'[w] = [job[w] EXCEPT !.op = "legacySubmit"]
    BY <1>1, <1>3, <2>1, EndingsInFull
  <2> QED
    BY <1>1, <2>2 DEF Job
<1> QED
  BY <1>2, <1>3 DEF LoadedSteps

\* The worker that serves keeps its part of the fence.
LEMMA FencedMoves ==
  ASSUME Typed, [Next]_vars, NEW w \in Workers, Fenced(w), Serve(w) \/ Fail(w)
  PROVE  Fenced(w)'
<1>0. pc'[w] \in LoadedSteps => UNCHANGED <<target, job>>
  BY ServeEnters, FailEnters, NeutralSteps, SubmissionKinds DEF Decides, Proceeds
<1>1. pc'[w] \in SubmitSteps => job'[w].op \in {"submit", "legacySubmit"}
  BY SubmissionEnters DEF Fenced
<1>2. pc'[w] = "submitReload" => rows'[target'[w]].state # "PREPARED"
  BY <1>0, LoadedEnters, SubmissionKinds DEF ExecutingSteps
<1>3. ASSUME pc'[w] \in ExecutingSteps
      PROVE  rows'[target'[w]].state \notin {"PREPARED", "ABANDONED"}
  <2>1. /\ UNCHANGED <<rows, target>>
        /\ \/ rows[target[w]].state = "SUBMITTED"
           \/ pc[w] = "submitReload" /\ rows[target[w]].state # "ABANDONED"
           \/ pc[w] \in ExecutingSteps
    BY <1>0, <1>3, LoadedEnters, SubmissionKinds DEF ExecutingSteps
  <2> QED
    BY <2>1 DEF Fenced
<1>4. pc'[w] = "reset" => Absent(w)'
  BY <1>0, LoadedEnters, SubmissionKinds DEF Absent
<1>5. ASSUME pc'[w] = "prepareInsert", seen'[w] = "PREPARED"
      PROVE  Absent(w)'
  <2>1. Decides(w)
    BY <1>5, ServeEnters, FailEnters, NeutralSteps DEF Proceeds, PrepareSteps
  <2> QED
    BY <1>5, <2>1 DEF Decides, Absent
<1> QED
  BY <1>1, <1>2, <1>3, <1>4, <1>5 DEF Fenced

\* A submission that is executing meets no other worker on its row.
LEMMA RowIsAlone ==
  ASSUME Typed, OwnedWork, AllFenced,
         NEW v \in Workers, pc[v] \in LoadedSteps,
         NEW w \in Workers, pc[w] \in LoadedSteps, target[w] = target[v]
  PROVE  v = w
<1>1. job[v].actor = job[w].actor
  BY DEF OwnedWork
<1>2. Submits(v) /\ Submits(w)
  BY SubmissionKinds DEF AllFenced, Fenced, Submits
<1> QED
  BY <1>1, <1>2 DEF AllFenced, OneSubmission

\* What the other workers have seen of their rows stays true.
LEMMA FencedStands ==
  ASSUME Typed, OwnedWork, AllFenced, [Next]_vars,
         NEW w \in Workers, Serve(w), NEW v \in Workers \ {w},
         pc'[v] = pc[v], job'[v] = job[v], seen'[v] = seen[v], target'[v] = target[v]
  PROVE  Fenced(v)'
<1>0. Fenced(v)
  BY DEF AllFenced
<1>1. pc[v] \in LoadedSteps => target[v] \in RequestIds /\ Exists(target[v])
  BY Found, SubmissionKinds
<1>2. pc[v] = "prepareInsert" /\ ~Exists(target[v])' =>
        ~Exists(target[v]) /\ sales'[target[v]] = sales[target[v]]
  BY InsertedRow, RowsKeepIdentity, NoRowNoSale DEF Exists
<1>3. CASE UNCHANGED <<rows, sales>>
  BY <1>0, <1>3 DEF Fenced, Absent, Exists
<1>4. CASE Inserts(w)
  <2>1. target[w] \in RequestIds
    BY <1>4, InsertedRow DEF Inserts, At
  <2>2. pc[v] \in LoadedSteps => rows'[target[v]] = rows[target[v]]
    BY <1>1, <1>4, <2>1 DEF Inserts, Typed, TypeOK
  <2> QED
    BY <1>0, <1>2, <1>4, <2>2, SubmissionKinds DEF Fenced, Absent, Inserts
<1>5. CASE Updates(w)
  <2>1. PICK new \in Row : Change(w, new) /\ rows' = [rows EXCEPT ![target[w]] = new]
    BY <1>5 DEF Updates
  <2>2. target[w] \in RequestIds /\ rows[target[w]] \in Row
    BY <1>5, Found DEF Updates
  <2>3. ASSUME pc[v] \in LoadedSteps, target[v] = target[w]
        PROVE  /\ new.state = "PREPARED" => rows[target[v]].state = "PREPARED"
               /\ new.state = "ABANDONED" =>
                    rows[target[v]].state \in {"PREPARED", "ABANDONED"}
    <3>1. pc[w] # "reset"
      BY <2>3, RowIsAlone, SubmissionKinds
    <3> QED
      BY <2>1, <2>2, <2>3, <3>1
         DEF Change, Marked, Abandoned, Reopened, Completed, Acknowledged, Row
  <2>4. pc[v] \in LoadedSteps =>
          rows'[target[v]] = IF target[v] = target[w] THEN new ELSE rows[target[v]]
    BY <1>1, <2>1, <2>2 DEF Typed, TypeOK
  <2> QED
    BY <1>0, <1>2, <1>5, <2>3, <2>4, SubmissionKinds DEF Fenced, Absent, Updates
<1>6. CASE Sells(w)
  <2>1. pc[w] \in LoadedSteps /\ target[w] \in RequestIds
    BY <1>6, Found, SubmissionKinds DEF Sells, At
  <2>2. pc[v] = "reset" => sales'[target[v]] = sales[target[v]]
    BY <1>1, <1>6, <2>1, RowIsAlone, SubmissionKinds DEF Sells, Typed, TypeOK
  <2> QED
    BY <1>0, <1>2, <1>6, <2>2 DEF Fenced, Absent, Sells
<1> QED
  BY <1>3, <1>4, <1>5, <1>6, ServeTables

\* Every step keeps the fence, while submissions do not overlap.
LEMMA AllFencedStep ==
  ASSUME Typed, ExclusiveSubmit, OwnedWork, AllFenced, [Next]_vars
  PROVE  AllFenced'
<1>1. OneSubmission'
  BY OneSubmissionStep DEF AllFenced
<1>2. ASSUME NEW v \in Workers
      PROVE  Fenced(v)'
  <2>0. Fenced(v)
    BY DEF AllFenced
  <2>1. CASE UNCHANGED vars
    BY <2>0, <2>1 DEF vars, Fenced, Absent, Exists
  <2>2. CASE Crash
    BY <2>2, SubmissionKinds DEF Crash, Fenced
  <2>3. CASE Start(v)
    <3>1. pc'[v] \in LoadSteps \cup {"prepareRead"}
      BY <2>3 DEF Start, StartPrepare, StartOn, Receive, Goto, FirstStep, LoadSteps,
                  Typed, TypeOK
    <3>2. pc'[v] = "submitLoad" => job'[v].op = "submit"
      BY <2>3 DEF Start, StartPrepare, StartOn, Receive, Goto, FirstStep, Typed, TypeOK
    <3>3. /\ (LoadSteps \cup {"prepareRead"}) \cap SubmitSteps = {"submitLoad"}
          /\ "prepareInsert" \notin LoadSteps
      BY DEF LoadSteps, SubmitSteps
    <3> QED
      BY <3>1, <3>2, <3>3, SubmissionKinds DEF Fenced, ExecutingSteps, LoadedSteps
  <2>4. CASE Serve(v) \/ Fail(v)
    BY <2>0, <2>4, FencedMoves
  <2>5. ASSUME NEW w \in Workers, Start(w) \/ Serve(w) \/ Fail(w), v # w
        PROVE  Fenced(v)'
    <3>1. /\ pc'[v] = pc[v] /\ job'[v] = job[v]
          /\ seen'[v] = seen[v] /\ target'[v] = target[v]
      BY <2>5, TargetsStay, StartEnters, ServeEnters, FailEnters DEF Others
    <3>2. CASE Serve(w)
      BY <2>5, <3>1, <3>2, FencedStands
    <3>3. CASE Start(w) \/ Fail(w)
      <4>1. UNCHANGED <<rows, sales>>
        BY <3>3 DEF Start, StartPrepare, StartOn, Receive, Fail
      <4> QED
        BY <2>0, <3>1, <4>1 DEF Fenced, Absent, Exists
    <3> QED
      BY <2>5, <3>2, <3>3
  <2> QED
    BY <2>1, <2>2, <2>3, <2>4, <2>5 DEF Next
<1> QED
  BY <1>1, <1>2 DEF AllFenced

\* While submissions do not overlap, whoever executes one has its row fenced.
LEMMA AllFencedInvariant ==
  ASSUME ExclusiveSubmit
  PROVE  Spec => []AllFenced
<1>1. Init => AllFenced
  BY SubmissionKinds DEF Init, AllFenced, OneSubmission, Submits, Fenced
<1> QED
  BY <1>1, AllFencedStep, TypedInvariant, OwnedWorkInvariant, PTL DEF Spec

\* Every step keeps: no prepared or abandoned row has a sale.
LEMMA UnexecutedStep ==
  ASSUME Typed, AllFenced, PreparedIsUnexecuted, [Next]_vars
  PROVE  PreparedIsUnexecuted'
<1>1. CASE UNCHANGED <<rows, sales>>
  BY <1>1 DEF PreparedIsUnexecuted, InState, Exists
<1>2. ASSUME NEW w \in Workers, Inserts(w)
      PROVE  PreparedIsUnexecuted'
  <2>1. target[w] \in RequestIds /\ NewRow(w).state = seen[w]
    BY <1>2, InsertedRow DEF Inserts, At, NewRow
  <2>2. seen[w] = "PREPARED" => sales[target[w]] = None
    BY <1>2 DEF AllFenced, Fenced, Inserts, At, Absent
  <2>3. seen[w] # "ABANDONED"
    BY <1>2 DEF Inserts, At, Typed, WorkersTyped
  <2> QED
    BY <1>2, <2>1, <2>2, <2>3
       DEF Inserts, PreparedIsUnexecuted, InState, Exists, Typed, TypeOK
<1>3. ASSUME NEW w \in Workers, Updates(w)
      PROVE  PreparedIsUnexecuted'
  <2>1. PICK new \in Row : Change(w, new) /\ rows' = [rows EXCEPT ![target[w]] = new]
    BY <1>3 DEF Updates
  <2>2. /\ target[w] \in RequestIds /\ rows[target[w]] \in Row
        /\ Exists(target[w])
    BY <1>3, Found DEF Updates
  <2>3. new.state \in {"PREPARED", "ABANDONED"} => sales[target[w]] = None
    <3>1. CASE pc[w] = "reset"
      BY <3>1 DEF AllFenced, Fenced, Absent
    <3>2. CASE pc[w] # "reset"
      <4>1. new.state \in {"PREPARED", "ABANDONED"} =>
              rows[target[w]].state \in {"PREPARED", "ABANDONED"}
        BY <2>1, <2>2, <3>2
           DEF Change, Marked, Abandoned, Completed, Acknowledged, Row
      <4> QED
        BY <2>2, <4>1 DEF PreparedIsUnexecuted, InState
    <3> QED
      BY <3>1, <3>2
  <2> QED
    BY <1>3, <2>1, <2>2, <2>3
       DEF Updates, PreparedIsUnexecuted, InState, Exists, Typed, TypeOK
<1>4. ASSUME NEW w \in Workers, Sells(w)
      PROVE  PreparedIsUnexecuted'
  <2>1. rows[target[w]].state \notin {"PREPARED", "ABANDONED"}
    BY <1>4 DEF Sells, At, AllFenced, Fenced, ExecutingSteps, LoadedSteps, SubmitSteps
  <2>2. target[w] \in RequestIds
    BY <1>4, Found, SubmissionKinds DEF Sells, At
  <2> QED
    BY <1>4, <2>1, <2>2
       DEF Sells, PreparedIsUnexecuted, InState, Exists, Typed, TypeOK
<1> QED
  BY <1>1, <1>2, <1>3, <1>4, TableSteps

\* A prepared command may be abandoned only before submission, and an abandoned
\* one is never executed: no such row has a sale, as long as an actor's clients
\* do not overlap two submissions (finding AbandonedIsFenced shows what happens
\* when they do).
THEOREM PreparedAreUnexecuted ==
  ASSUME ExclusiveSubmit
  PROVE  Spec => []PreparedIsUnexecuted
<1>1. Init => PreparedIsUnexecuted
  BY DEF Init, PreparedIsUnexecuted, InState, Exists
<1> QED
  BY <1>1, UnexecutedStep, TypedInvariant, AllFencedInvariant, PTL DEF Spec

-----------------------------------------------------------------------------
(* The service implements the envelope, while submissions do not overlap. *)

\* What CommandEnvelope sees of the tables.
OwnerOf == [r \in RequestIds |-> IF Exists(r) THEN rows[r].actor ELSE None]
StatusOf == [r \in RequestIds |-> Status(r)]
Executions == [r \in RequestIds |-> IF sales[r] = None THEN 0 ELSE 1]

EnvelopeInv ==
  Typed /\ AllFenced /\ PreparedIsUnexecuted /\ RowsLegal /\ ResolvedHasSource

\* Inserting a row prepares a command: its actor has no unresolved one.
LEMMA InsertPrepares ==
  ASSUME EnvelopeInv, NEW w \in Workers, Inserts(w)
  PROVE  Envelope!Next
<1>0. PICK r \in RequestIds, a \in Actors : r = target[w] /\ a = job[w].actor
  BY InsertedRow DEF EnvelopeInv, Inserts, At, Job
<1>1. /\ NewRow(w) \in Row /\ NewRow(w) # None
      /\ NewRow(w).actor = a /\ NewRow(w).state \in {"PREPARED", "COMPLETED"}
  BY <1>0, InsertedRow DEF EnvelopeInv, Inserts, At, NewRow, Typed, WorkersTyped
<1>2. rows' = [rows EXCEPT ![r] = NewRow(w)] /\ UNCHANGED sales /\ ~Exists(r)
  BY <1>0 DEF Inserts
<1>3. rows \in [RequestIds -> Row \cup {None}]
  BY DEF EnvelopeInv, Typed, TypeOK
<1>4. StatusOf[r] = "none"
  BY <1>1, <1>2 DEF StatusOf, Status
<1>5. ASSUME NEW q \in RequestIds, OwnerOf[q] = a
      PROVE  StatusOf[q] \notin {"open", "executed"}
  <2>1. CASE Exists(q)
    <3>1. rows[q] \in Row /\ rows[q].actor = a /\ rows[q].state \in States /\ q # r
      BY <1>2, <1>3, <1>5, <2>1 DEF Exists, OwnerOf, Row
    <3>2. ~Blocks(q, a)
      BY <1>0, <1>1, <3>1 DEF Inserts, Accepts, BlockingIndex, BlockingStates
    <3>3. rows[q].state \in {"ABANDONED", "ACKNOWLEDGED"}
      BY <2>1, <3>1, <3>2 DEF Blocks, InState, BlockingStates, States
    <3> QED
      BY <2>1, <3>3 DEF StatusOf, Status
  <2>2. CASE ~Exists(q)
    BY <2>2 DEF StatusOf, Status
  <2> QED
    BY <2>1, <2>2
<1>6. OwnerOf' = [OwnerOf EXCEPT ![r] = a]
  BY <1>1, <1>2, <1>3 DEF OwnerOf, Exists
<1>7. StatusOf' = [StatusOf EXCEPT ![r] = IF Executions[r] = 0 THEN "open" ELSE "executed"]
  <2>1. \A q \in RequestIds \ {r} : Status(q)' = Status(q)
    BY <1>1, <1>2, <1>3 DEF Status, Exists
  <2>2. Status(r)' = IF sales[r] = None THEN "open" ELSE "executed"
    BY <1>1, <1>2, <1>3 DEF Status, Exists
  <2>3. (Executions[r] = 0) <=> (sales[r] = None)
    BY <1>1 DEF Executions
  <2> QED
    BY <1>1, <2>1, <2>2, <2>3 DEF StatusOf
<1>8. UNCHANGED Executions
  BY <1>2 DEF Executions
<1> QED
  <2>1. Envelope!Prepare(a, r)
    BY <1>4, <1>5, <1>6, <1>7, <1>8
       DEF Envelope!Prepare, Envelope!Unresolved, OwnerOf, StatusOf, Executions
  <2> QED
    BY <2>1 DEF Envelope!Next

\* An update keeps who owns the row, and changes its status in at most one place.
LEMMA UpdateStatus ==
  ASSUME Typed, NEW w \in Workers, NEW new \in Row, pc[w] \in RowSteps,
         NEW r \in RequestIds, r = target[w],
         Change(w, new), rows' = [rows EXCEPT ![r] = new], UNCHANGED sales
  PROVE  /\ UNCHANGED <<OwnerOf, Executions>>
         /\ StatusOf' = [StatusOf EXCEPT ![r] = Status(r)']
<1>1. rows[r] \in Row /\ Exists(r)
  BY Found
<1>2. rows \in [RequestIds -> Row \cup {None}] /\ new # None
  BY NoneAssumption DEF Typed, TypeOK
<1>3. new.actor = rows[r].actor
  BY <1>1 DEF Change, Marked, Abandoned, Reopened, Completed, Acknowledged, Row
<1>4. UNCHANGED OwnerOf
  BY <1>1, <1>2, <1>3 DEF OwnerOf, Exists
<1>5. \A q \in RequestIds \ {r} : Status(q)' = Status(q)
  BY <1>1, <1>2 DEF Status, Exists
<1>6. StatusOf' = [StatusOf EXCEPT ![r] = Status(r)']
  BY <1>5 DEF StatusOf
<1>7. UNCHANGED Executions
  BY DEF Executions
<1> QED
  BY <1>4, <1>6, <1>7

\* Marking, reopening and completing a row are not visible; abandoning and
\* acknowledging it are the envelope's.
LEMMA UpdateResolves ==
  ASSUME EnvelopeInv, NEW w \in Workers, Updates(w)
  PROVE  UNCHANGED Envelope!envelope \/ Envelope!Next
<1>0. PICK r \in RequestIds : r = target[w]
  BY Found DEF EnvelopeInv, Updates
<1>1. PICK new \in Row : Change(w, new) /\ rows' = [rows EXCEPT ![r] = new]
  BY <1>0 DEF Updates
<1>2. /\ rows[r] \in Row /\ Exists(r) /\ pc[w] \in RowSteps
      /\ UNCHANGED sales
  BY <1>0, Found DEF EnvelopeInv, Updates
<1>3. /\ UNCHANGED <<OwnerOf, Executions>>
      /\ StatusOf' = [StatusOf EXCEPT ![r] = Status(r)']
  BY <1>0, <1>1, <1>2, UpdateStatus DEF EnvelopeInv
<1>4. rows'[r] = new /\ new # None
  BY <1>1, <1>2, NoneAssumption DEF EnvelopeInv, Typed, TypeOK
<1>5. /\ LifecycleCheck(rows[r])
      /\ rows[r].state = "SUBMITTED" => ~rows[r].completedAt
      /\ rows[r].completedAt => sales[r] # None
      /\ rows[r].state = "PREPARED" => sales[r] = None
  BY <1>2 DEF EnvelopeInv, RowsLegal, ResolvedHasSource, PreparedIsUnexecuted, InState
<1>6. StatusOf[r] = Status(r) /\ StatusOf \in [RequestIds -> {"none", "open", "executed", "abandoned", "acknowledged"}]
  BY <1>2 DEF StatusOf, Status
<1>7. CASE Status(r)' = Status(r)
  <2>1. UNCHANGED StatusOf
    BY <1>2, <1>3, <1>6, <1>7
  <2> QED
    BY <1>3, <2>1 DEF Envelope!envelope, OwnerOf, StatusOf, Executions
<1>8. CASE rows[r].state = "PREPARED" /\ new = Abandoned(rows[r])
  <2>1. Status(r) = "open"
    BY <1>2, <1>5, <1>8 DEF Status
  <2>2. Status(r)' = "abandoned"
    BY <1>2, <1>4, <1>8 DEF Status, Exists, Abandoned, Row
  <2>3. Envelope!Abandon(r)
    BY <1>2, <1>3, <1>6, <2>1, <2>2 DEF Envelope!Abandon, OwnerOf, StatusOf, Executions
  <2> QED
    BY <2>3 DEF Envelope!Next
<1>9. CASE rows[r].state = "COMPLETED" /\ new = Acknowledged(rows[r])
  <2>1. Status(r) = "executed"
    BY <1>2, <1>5, <1>9 DEF Status, LifecycleCheck
  <2>2. Status(r)' = "acknowledged"
    BY <1>2, <1>4, <1>9 DEF Status, Exists, Acknowledged, Row
  <2>3. Envelope!Acknowledge(r)
    BY <1>2, <1>3, <1>6, <2>1, <2>2 DEF Envelope!Acknowledge, OwnerOf, StatusOf, Executions
  <2> QED
    BY <2>3 DEF Envelope!Next
<1>10. \/ new.state \in BlockingStates /\ rows[r].state \in BlockingStates
       \/ new.state = rows[r].state
       \/ rows[r].state = "PREPARED" /\ new = Abandoned(rows[r])
       \/ rows[r].state = "COMPLETED" /\ new = Acknowledged(rows[r])
  <2>1. CASE new = Completed(rows[r]) /\ Accepts(r, new)
    BY <1>2, <1>5, <2>1 DEF Accepts, LifecycleCheck, Completed, Row, BlockingStates
  <2>2. CASE new = Acknowledged(rows[r]) /\ Accepts(r, new)
    BY <1>2, <1>5, <2>2 DEF Accepts, LifecycleCheck, Acknowledged, Row
  <2>3. CASE rows[r].state = "PREPARED" /\ new = Marked(rows[r])
    BY <1>2, <2>3 DEF Marked, Row, BlockingStates
  <2>4. CASE rows[r].state = "SUBMITTED" /\ new = Reopened(rows[r])
    BY <1>2, <2>4 DEF Reopened, Row, BlockingStates
  <2> QED
    BY <1>0, <1>1, <2>1, <2>2, <2>3, <2>4 DEF Change
<1>11. CASE \/ new.state \in BlockingStates /\ rows[r].state \in BlockingStates
            \/ new.state = rows[r].state
  <2>1. Status(r)' = Status(r)
    BY <1>2, <1>4, <1>11 DEF Status, Exists, BlockingStates
  <2> QED
    BY <1>7, <2>1
<1> QED
  BY <1>2, <1>8, <1>9, <1>10, <1>11

\* Committing a sale executes an open command, once.
LEMMA SaleExecutes ==
  ASSUME EnvelopeInv, NEW w \in Workers, Sells(w)
  PROVE  Envelope!Next
<1>1. pc[w] \in RowSteps /\ pc[w] \in ExecutingSteps
  BY DEF Sells, At, RowSteps, Steps, PrepareSteps, SubmitSteps, LoadSteps,
         ExecutingSteps, LoadedSteps
<1>0. PICK r \in RequestIds : r = target[w]
  BY <1>1, Found DEF EnvelopeInv
<1>2. Exists(r) /\ rows[r] \in Row /\ job[w] \in Job
  BY <1>0, <1>1, Found DEF EnvelopeInv
<1>3. /\ sales[r] = None /\ UNCHANGED rows
      /\ sales' = [sales EXCEPT ![r] = [actor |-> job[w].actor, command |-> rows[r].command]]
      /\ sales \in [RequestIds -> Source \cup {None}]
  BY <1>0 DEF Sells, Absent, EnvelopeInv, Typed, TypeOK
<1>4. [actor |-> job[w].actor, command |-> rows[r].command] # None
  <2>1. [actor |-> job[w].actor, command |-> rows[r].command] \in Source
    BY <1>2 DEF Source, Row, Job
  <2> QED
    BY <2>1, NoneAssumption
<1>5. rows[r].state = "SUBMITTED"
  <2>1. rows[r].state \notin {"PREPARED", "ABANDONED"}
    BY <1>0, <1>1 DEF EnvelopeInv, AllFenced, Fenced
  <2>2. ~rows[r].completedAt /\ LifecycleCheck(rows[r])
    BY <1>2, <1>3 DEF EnvelopeInv, ResolvedHasSource, RowsLegal
  <2> QED
    BY <1>2, <2>1, <2>2 DEF LifecycleCheck, Row, States
<1>6. Status(r) = "open" /\ Status(r)' = "executed"
  BY <1>2, <1>3, <1>4, <1>5 DEF Status, Exists
<1>7. /\ UNCHANGED OwnerOf
      /\ StatusOf' = [StatusOf EXCEPT ![r] = "executed"]
      /\ Executions' = [Executions EXCEPT ![r] = Executions[r] + 1]
  <2>1. UNCHANGED OwnerOf
    BY <1>3 DEF OwnerOf, Exists
  <2>2. \A q \in RequestIds \ {r} : Status(q)' = Status(q)
    BY <1>2, <1>3 DEF Status, Exists
  <2>3. StatusOf' = [StatusOf EXCEPT ![r] = "executed"]
    BY <1>2, <1>6, <2>2 DEF StatusOf
  <2>4. Executions' = [Executions EXCEPT ![r] = Executions[r] + 1]
    <3>1. sales'[r] # None /\ \A q \in RequestIds \ {r} : sales'[q] = sales[q]
      BY <1>3, <1>4
    <3>2. Executions[r] + 1 = 1
      BY <1>3 DEF Executions
    <3> QED
      BY <3>1, <3>2 DEF Executions
  <2> QED
    BY <2>1, <2>3, <2>4
<1>8. Envelope!Execute(r)
  BY <1>2, <1>6, <1>7 DEF Envelope!Execute, OwnerOf, StatusOf, Executions
<1> QED
  BY <1>8 DEF Envelope!Next

\* Every step of the service is a step of the envelope, or none.
LEMMA StepEnvelope ==
  ASSUME EnvelopeInv, [Next]_vars
  PROVE  [Envelope!Next]_(Envelope!envelope)
<1>1. CASE UNCHANGED <<rows, sales>>
  BY <1>1 DEF Envelope!envelope, Status, Exists
<1>2. ASSUME NEW w \in Workers, Inserts(w) \/ Updates(w) \/ Sells(w)
      PROVE  [Envelope!Next]_(Envelope!envelope)
  BY <1>2, InsertPrepares, UpdateResolves, SaleExecutes
<1> QED
  BY <1>1, <1>2, TableSteps DEF EnvelopeInv

\* The service implements CommandEnvelope, for every number of actors, requests
\* and workers, with lost connections and restarts, as long as an actor's clients
\* do not overlap two submissions: a command is executed at most once, only while
\* it is open, and blocks its owner until it is resolved.
THEOREM ServiceImplementsEnvelope ==
  ASSUME ExclusiveSubmit
  PROVE  Spec => ImplementsEnvelope
<1>1. Init => Envelope!Init
  <2> SUFFICES ASSUME Init PROVE Envelope!Init
    OBVIOUS
  <2>1. \A r \in RequestIds : ~Exists(r)
    BY DEF Init, Exists
  <2> QED
    BY <2>1 DEF Envelope!Init, Status
<1>2. EnvelopeInv /\ [Next]_vars => [Envelope!Next]_(Envelope!envelope)
  BY StepEnvelope
<1>3. Spec => []EnvelopeInv
  BY TypedInvariant, AllFencedInvariant, PreparedAreUnexecuted, RowsLegalInvariant,
     CompletedRowsHaveSales, PTL DEF EnvelopeInv
<1> QED
  BY <1>1, <1>2, <1>3, PTL DEF Spec, ImplementsEnvelope, Envelope!Spec

=============================================================================
