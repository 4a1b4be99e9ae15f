------------------------------ MODULE RefundScreen ------------------------------
(***************************************************************************)
(* Returns on the staff screens (frontend features/refunds: refund-        *)
(* dialog.tsx, refund-history.tsx, branch-refunds.tsx, refund-attempt.ts)  *)
(* against the command-recovery envelope of the server, for one member of  *)
(* staff in one branch.                                                    *)
(*                                                                         *)
(* The attempt survives the screens and decides which sale they show.  The *)
(* returnable quantities are read again whenever its state changes; while  *)
(* they are read there is no dialog, and the dialog that follows starts    *)
(* from the attempt there is then.                                         *)
(***************************************************************************)
EXTENDS Naturals, FiniteSets

CONSTANTS
  Sales,
  Units,       \* units sold by each sale
  MaxIds,      \* bound: request ids
  MaxFaults,   \* bound: lost calls, reloads, forced navigation, refused reads
  None

VARIABLES
  left,        \* units of each sale that were not returned
  content,     \* the sale and units of each request id that was issued
  rec,         \* the state of its recovery record, or None
  refunded,    \* the request ids with a refund
  faults,
  calls,       \* submissions under way, with the answer once there is one
  attempt,     \* the page's memory of a refund, or None
  place,       \* the sale the address names, or None
  loaded,      \* the sale of the page was read
  entry,       \* it was opened to return items, not to look at its history
  listing, saved,      \* the saved recoveries: being read, and as they were read
  reading, result,     \* the returnable units: being read, and as they were read
  open,        \* Return items was asked for
  dialog,      \* the dialog's own memory of a command, or None when not mounted
  told,        \* ids the staff was told were rejected, and did not submit since
  seen         \* ids shown as recorded

server == <<left, content, rec, refunded>>
view == <<place, loaded, entry, listing, saved, reading, result, open, dialog>>
vars == <<server, faults, calls, attempt, view, told, seen>>

-----------------------------------------------------------------------------
Ids == 1 .. MaxIds
RecordStates == {"PREPARED", "SUBMITTED", "COMPLETED", "ACKNOWLEDGED"}
Blocking == RecordStates \ {"ACKNOWLEDGED"}

Call == [id : Ids, recovery : Ids \cup {None}, sure : BOOLEAN, owner : {"dialog", "page", "nobody"},
         step : {"prepare", "submit", "answer"},
         answer : {"none", "prepared", "refund", "exceeded", "invalid", "blocked", "denied",
                   "retry", "lost"}]
Attempt == [id : Ids, recovery : Ids \cup {None}, state : {"pending", "unknown", "completed"}]
Dialog == [command : Ids \cup {None}, uncertain : BOOLEAN]
Content == [sale : Sales, units : 1 .. Units]
Saved == [id : Ids, done : BOOLEAN]

\* What the constants are assumed to be.
Bounds ==
  /\ Units \in Nat /\ MaxIds \in Nat /\ MaxFaults \in Nat
  /\ None \notin Sales /\ None \notin RecordStates /\ None \notin Ids \cup 0 .. Units
  /\ None \notin Attempt \cup Dialog \cup Content

\* The values the variables take: rows, requests and answers of the right shape.
TypeOK ==
  /\ left \in [Sales -> 0 .. Units]
  /\ content \in [Ids -> Content \cup {None}]
  /\ rec \in [Ids -> RecordStates \cup {None}] /\ refunded \subseteq Ids
  /\ faults \in 0 .. MaxFaults
  /\ calls \subseteq Call /\ attempt \in Attempt \cup {None}
  /\ place \in Sales \cup {None} /\ loaded \in BOOLEAN /\ entry \in BOOLEAN
  /\ listing \in BOOLEAN /\ saved \in SUBSET Saved
  /\ reading \in BOOLEAN /\ result \in 0 .. Units \cup {None} /\ open \in BOOLEAN
  /\ dialog \in Dialog \cup {None}
  /\ told \subseteq Ids /\ seen \subseteq Ids

Is(a, states) == a # None /\ a.state \in states
Unresolved(a) == Is(a, {"pending", "unknown"})
SaleOf(a) == content[a.id].sale
Busy == \E c \in calls : c.owner = "dialog"
Fault == faults < MaxFaults /\ faults' = faults + 1
Recovery == IF attempt = None THEN None ELSE attempt.recovery

-----------------------------------------------------------------------------
(* What the screens show. *)

\* Without an attempt, a recovery that was read becomes it.
Restored(a, list) ==
  IF a # None \/ list = {} THEN a
  ELSE LET s == CHOOSE s \in list : TRUE IN
       [id |-> s.id, recovery |-> s.id, state |-> IF s.done THEN "completed" ELSE "unknown"]

\* The sale that is shown: the one of the attempt before the one of the address.
At(a, p) == IF p # None /\ a # None THEN SaleOf(a) ELSE p

Belongs(a, s) == a # None /\ SaleOf(a) = s

\* showDialog.
Shows(a, s, units, asked, byEntry) ==
  LET recovering == Is(a, {"unknown"}) /\ Belongs(a, s) IN
  /\ s # None /\ units # None
  /\ ~Is(a, {"completed"}) /\ (a = None \/ Belongs(a, s))
  /\ asked \/ recovering
  /\ recovering \/ ~byEntry \/ units > 0

\* A dialog that opens takes over the attempt there is.
NewDialog(a) == [command |-> IF a = None THEN None ELSE a.id, uncertain |-> a # None]

StateOf(a) == IF a = None THEN "none" ELSE a.state
\* The units are read again when the attempt's state changed, not while it is pending.
Rereads(a) == StateOf(a) # StateOf(attempt) /\ ~Is(a, {"pending"})

\* The calls of a dialog that is gone go on.
Unmounted(these) == {[c EXCEPT !.owner = IF @ = "dialog" THEN "page" ELSE @] : c \in these}

Now == [attempt |-> attempt, saved |-> saved, listing |-> listing, place |-> place,
        units |-> result, open |-> open, dialog |-> dialog, calls |-> calls]

\* The page after what it knows became n, with what its effects make of that.  Another
\* sale is a new screen.
Becomes(n) ==
  LET a == Restored(n.attempt, IF loaded THEN n.saved ELSE {})
      at == At(a, n.place)
      moved == at # At(attempt, place)
      units == IF moved \/ Rereads(a) THEN None ELSE n.units
      shown == loaded /\ ~moved /\ Shows(a, at, units, n.open, entry)
  IN /\ attempt' = a /\ place' = n.place
     /\ loaded' = (loaded /\ ~moved) /\ entry' = (entry /\ at # None)
     /\ saved' = IF moved THEN {} ELSE n.saved
     /\ listing' = (n.listing /\ ~moved)
     /\ result' = units
     /\ reading' = (loaded' /\ ~Is(a, {"pending"}) /\ (reading \/ Rereads(a)))
     /\ open' = IF moved THEN entry' ELSE n.open
     /\ dialog' = IF ~shown THEN None ELSE IF dialog = None THEN NewDialog(a) ELSE n.dialog
     /\ calls' = IF shown THEN n.calls ELSE Unmounted(n.calls)
     /\ seen' = seen \cup IF loaded' /\ Is(a, {"completed"}) THEN {a.id} ELSE {}

-----------------------------------------------------------------------------
(* The page. *)

\* The navigation guard keeps an unresolved refund on its sale.
Visit(s, return) ==
  /\ place = None \/ ~Unresolved(attempt)
  /\ At(attempt, s) # At(attempt, place)
  /\ place' = s /\ loaded' = FALSE /\ entry' = return /\ open' = return
  /\ listing' = FALSE /\ saved' = {} /\ reading' = FALSE /\ result' = None /\ dialog' = None
  /\ calls' = Unmounted(calls)
  /\ UNCHANGED <<server, faults, attempt, told, seen>>

\* The sale arrives: the history is mounted, and reads.
SaleArrives ==
  /\ place # None /\ ~loaded
  /\ loaded' = TRUE /\ listing' = TRUE /\ saved' = {}
  /\ reading' = ~Is(attempt, {"pending"})
  /\ seen' = seen \cup IF Is(attempt, {"completed"}) THEN {attempt.id} ELSE {}
  /\ UNCHANGED <<server, faults, calls, attempt, place, entry, result, open, dialog, told>>

RecoveriesArrive ==
  /\ listing
  /\ LET opened == {i \in Ids : rec[i] \in Blocking} IN
     /\ rec' = [i \in Ids |-> IF i \in opened \cap refunded THEN "COMPLETED" ELSE rec[i]]
     /\ Becomes([Now EXCEPT !.listing = FALSE,
                            !.saved = {[id |-> i, done |-> i \in refunded] : i \in opened}])
  /\ UNCHANGED <<left, content, refunded, faults, told>>
RecoveriesFail ==
  /\ listing
  /\ Fault /\ listing' = FALSE /\ saved' = {}
  /\ UNCHANGED <<server, calls, attempt, place, loaded, entry, reading, result, open, dialog,
                 told, seen>>

\* Back in the browser's history, or a screen outside the branch.
Leave ==
  /\ place # None
  /\ IF Unresolved(attempt) THEN Fault ELSE UNCHANGED faults
  /\ place' = None /\ loaded' = FALSE /\ listing' = FALSE /\ saved' = {} /\ reading' = FALSE
  /\ result' = None /\ open' = FALSE /\ entry' = FALSE /\ dialog' = None
  /\ calls' = Unmounted(calls)
  /\ UNCHANGED <<server, attempt, told, seen>>

Reload ==
  /\ Fault
  /\ attempt' = None /\ loaded' = FALSE /\ listing' = FALSE /\ saved' = {} /\ reading' = FALSE
  /\ result' = None /\ open' = entry /\ dialog' = None
  /\ calls' = {[c EXCEPT !.owner = "nobody"] : c \in {x \in calls : x.step # "answer"}}
  /\ UNCHANGED <<server, place, entry, told, seen>>

\* The returnable units arrive; the dialog opens where it was asked for.
UnitsArrive ==
  /\ reading
  /\ reading' = FALSE
  /\ LET at == At(attempt, place) IN
     /\ result' = left[at]
     /\ dialog' = IF Shows(attempt, at, left[at], open, entry) THEN NewDialog(attempt) ELSE None
  /\ UNCHANGED <<server, faults, calls, attempt, place, loaded, entry, listing, saved, open,
                 told, seen>>
\* Refresh refunds, or retry after a read that failed.
Refresh ==
  /\ loaded /\ ~reading /\ ~Is(attempt, {"pending"})
  /\ (result # None => ~entry /\ ~Unresolved(attempt)) /\ dialog = None
  /\ reading' = TRUE /\ result' = None
  /\ UNCHANGED <<server, faults, calls, attempt, place, loaded, entry, listing, saved, open,
                 dialog, told, seen>>
UnitsFail ==
  /\ reading
  /\ Fault /\ reading' = FALSE
  /\ UNCHANGED <<server, calls, attempt, place, loaded, entry, listing, saved, result, open,
                 dialog, told, seen>>

\* The button of the history.
ReturnItems ==
  /\ loaded /\ ~entry /\ result # None /\ result > 0 /\ attempt = None /\ ~open
  /\ open' = TRUE /\ dialog' = NewDialog(attempt)
  /\ UNCHANGED <<server, faults, calls, attempt, place, loaded, entry, listing, saved, reading,
                 result, told, seen>>

\* Closing a dialog that was opened to return items leaves the sale.
ClosedEntry == IF entry THEN None ELSE place
Close ==
  /\ dialog # None /\ ~Busy /\ ~dialog.uncertain /\ ~Unresolved(attempt)
  /\ Becomes([Now EXCEPT !.open = FALSE, !.place = ClosedEntry])
  /\ UNCHANGED <<server, faults, told>>

-----------------------------------------------------------------------------
(* Submitting. *)

NextId == Cardinality({i \in Ids : content[i] # None}) + 1
\* The same content keeps its request id.
IdFor(units) ==
  IF dialog.command # None /\ content[dialog.command].units = units THEN dialog.command
  ELSE NextId

Submit(units) ==
  /\ dialog # None /\ ~Busy /\ ~Is(attempt, {"pending"})
  /\ LET id == IF dialog.uncertain THEN dialog.command ELSE IdFor(units) IN
     /\ IF dialog.uncertain THEN units = content[dialog.command].units
        ELSE result # None /\ units <= result /\ id \in Ids
     /\ content' = IF content[id] # None THEN content
                   ELSE [content EXCEPT ![id] = [sale |-> place, units |-> units]]
     /\ attempt' = [id |-> id, recovery |-> Recovery, state |-> "pending"]
     /\ dialog' = [dialog EXCEPT !.command = id]
     /\ calls' = calls \cup
          {[id |-> id, recovery |-> Recovery, sure |-> ~dialog.uncertain, owner |-> "dialog",
            step |-> IF Recovery = None THEN "prepare" ELSE "submit", answer |-> "none"]}
     /\ told' = told \ {id}
  /\ reading' = FALSE
  /\ UNCHANGED <<left, rec, refunded, faults, place, loaded, entry, listing, saved, result,
                 open, seen>>

Answered(c, kind) == calls' = (calls \ {c}) \cup {[c EXCEPT !.step = "answer", !.answer = kind]}

Blocked == \E i \in Ids : rec[i] \in Blocking

\* CommandRecoveryService.prepare.
Prepare(c) ==
  /\ c \in calls /\ c.step = "prepare"
  /\ IF rec[c.id] # None THEN Answered(c, "prepared") /\ UNCHANGED rec
     ELSE IF Blocked THEN Answered(c, "blocked") /\ UNCHANGED rec
     ELSE Answered(c, "prepared") /\ rec' = [rec EXCEPT ![c.id] = "PREPARED"]
  /\ UNCHANGED <<left, content, refunded, faults, attempt, view, told, seen>>

\* CommandRecoveryService.submit: too many units make the record PREPARED again; a refund
\* that was rolled back leaves it SUBMITTED.
Record(id, state) == rec' = [rec EXCEPT ![id] = state]
Returns(id) == left' = [left EXCEPT ![content[id].sale] = @ - content[id].units]
SubmitRecord(c) ==
  /\ c \in calls /\ c.step = "submit"
  /\ LET id == c.recovery
         wanted == content[id].units
         has == left[content[id].sale]
     IN \/ /\ rec[id] = "ACKNOWLEDGED" \/ id \in refunded
           /\ rec' = [rec EXCEPT ![id] = IF @ = "ACKNOWLEDGED" THEN @ ELSE "COMPLETED"]
           /\ Answered(c, IF rec[id] = "ACKNOWLEDGED" THEN "retry" ELSE "refund")
           /\ UNCHANGED <<left, refunded, faults>>
        \/ /\ rec[id] # "ACKNOWLEDGED" /\ id \notin refunded /\ wanted <= has
           /\ Returns(id) /\ refunded' = refunded \cup {id}
           /\ Record(id, "COMPLETED") /\ Answered(c, "refund") /\ UNCHANGED faults
        \/ /\ rec[id] # "ACKNOWLEDGED" /\ id \notin refunded /\ wanted > has
           /\ Record(id, "PREPARED") /\ Answered(c, "exceeded")
           /\ UNCHANGED <<left, refunded, faults>>
        \/ /\ rec[id] # "ACKNOWLEDGED" /\ id \notin refunded
           /\ Fault /\ Record(id, "SUBMITTED") /\ Answered(c, "retry")
           /\ UNCHANGED <<left, refunded>>
  /\ UNCHANGED <<content, attempt, view, told, seen>>

\* A call is refused before it has an effect: no access, or too many requests.
Refuse(c) ==
  /\ c \in calls /\ c.step # "answer"
  /\ Fault
  /\ \E kind \in {"denied", "invalid"} : Answered(c, kind)
  /\ UNCHANGED <<server, attempt, view, told, seen>>

\* The connection is lost: before the call reached the server, while the server goes on
\* with it, or with the answer.
Lose(c) ==
  /\ c \in calls /\ c.owner # "nobody" /\ c.answer # "lost"
  /\ Fault
  /\ LET lost == [c EXCEPT !.step = "answer", !.answer = "lost"] IN
     calls' \in {(calls \ {c}) \cup {lost}} \cup
       (IF c.step = "answer" THEN {}
        ELSE {(calls \ {c}) \cup {lost, [c EXCEPT !.owner = "nobody"]}})
  /\ UNCHANGED <<server, attempt, view, told, seen>>

\* Another member of staff returns a unit.
OtherReturns(s) ==
  /\ left[s] > 0
  /\ Fault /\ left' = [left EXCEPT ![s] = @ - 1]
  /\ UNCHANGED <<content, rec, refunded, calls, attempt, view, told, seen>>

-----------------------------------------------------------------------------
(* What an answer does to the page. *)

Rest(c) == calls \ {c}
Of(c, recovery, state) == [id |-> c.id, recovery |-> recovery, state |-> state]

Prepared(c) ==
  /\ c \in calls /\ c.answer = "prepared" /\ c.owner # "nobody"
  /\ Becomes([Now EXCEPT !.attempt = Of(c, c.id, "pending"),
       !.calls = Rest(c) \cup {[c EXCEPT !.recovery = c.id, !.step = "submit", !.answer = "none"]}])
  /\ UNCHANGED <<server, faults, told>>

\* The completed attempt does not keep the id of its record.  It keeps its sale shown.
Completed(c) ==
  /\ c \in calls /\ c.answer = "refund" /\ c.owner # "nobody"
  /\ Becomes([Now EXCEPT !.attempt = Of(c, None, "completed"), !.calls = Rest(c),
                         !.open = @ /\ c.owner # "dialog"])
  /\ UNCHANGED <<server, faults, told>>

\* Faulty variant: a rejection is believed even when the outcome was uncertain.
AlwaysKnown(c) == c.answer \in {"exceeded", "invalid", "blocked", "denied"}
KnownRejected(c) == c.sure /\ c.answer \in {"exceeded", "invalid", "blocked", "denied"}

\* onIssue() and onClose(), but for an invalid form.
Rejected(c) ==
  /\ c \in calls /\ c.step = "answer" /\ c.owner # "nobody" /\ KnownRejected(c)
  /\ LET closes == c.owner = "dialog" /\ c.answer # "invalid" IN
     Becomes([Now EXCEPT !.attempt = None, !.calls = Rest(c), !.open = @ /\ ~closes,
                         !.place = IF closes THEN ClosedEntry ELSE @])
  /\ told' = IF c.answer = "blocked" THEN told ELSE told \cup {c.id}
  /\ UNCHANGED <<server, faults>>

Uncertain(c) ==
  /\ c \in calls /\ c.step = "answer" /\ c.owner # "nobody" /\ ~KnownRejected(c)
  /\ c.answer \notin {"prepared", "refund"}
  /\ Becomes([Now EXCEPT !.attempt = Of(c, Recovery, "unknown"), !.calls = Rest(c)])
  /\ UNCHANGED <<server, faults, told>>

Dropped(c) ==
  /\ c \in calls /\ c.step = "answer" /\ c.owner = "nobody"
  /\ calls' = Rest(c)
  /\ UNCHANGED <<server, faults, attempt, view, told, seen>>

\* acknowledgeRecordedRefund: the record is acknowledged where its id is known, and the
\* recoveries are read again; without one only the page forgets.
Forget ==
  Becomes([Now EXCEPT !.attempt = None, !.listing = @ \/ Recovery # None,
                      !.place = ClosedEntry, !.open = @ /\ ~entry])
Acknowledge ==
  /\ Is(attempt, {"completed"}) /\ loaded
  /\ Forget
  /\ rec' = IF Recovery = None THEN rec ELSE [rec EXCEPT ![Recovery] = "ACKNOWLEDGED"]
  /\ UNCHANGED <<left, content, refunded, faults, told>>
\* The answer is lost: what is shown stays.
AcknowledgeLost ==
  /\ Is(attempt, {"completed"}) /\ loaded /\ Recovery # None
  /\ Fault
  /\ rec' \in {rec, [rec EXCEPT ![Recovery] = "ACKNOWLEDGED"]}
  /\ UNCHANGED <<left, content, refunded, calls, attempt, view, told, seen>>

-----------------------------------------------------------------------------
Init ==
  /\ left = [s \in Sales |-> Units] /\ content = [i \in Ids |-> None]
  /\ rec = [i \in Ids |-> None] /\ refunded = {} /\ faults = 0 /\ calls = {}
  /\ attempt = None /\ place = None /\ loaded = FALSE /\ entry = FALSE
  /\ listing = FALSE /\ saved = {} /\ reading = FALSE /\ result = None /\ open = FALSE
  /\ dialog = None /\ told = {} /\ seen = {}

Next ==
  \/ \E s \in Sales, return \in BOOLEAN : Visit(s, return)
  \/ \E s \in Sales : OtherReturns(s)
  \/ SaleArrives \/ RecoveriesArrive \/ RecoveriesFail \/ Leave \/ Reload
  \/ UnitsArrive \/ UnitsFail \/ Refresh \/ ReturnItems \/ Close
  \/ Acknowledge \/ AcknowledgeLost
  \/ \E units \in 1 .. Units : Submit(units)
  \/ \E c \in calls : \/ Prepare(c) \/ SubmitRecord(c) \/ Refuse(c) \/ Lose(c)
                      \/ Prepared(c) \/ Completed(c) \/ Rejected(c) \/ Uncertain(c) \/ Dropped(c)

Spec == Init /\ [][Next]_vars

-----------------------------------------------------------------------------
(* Properties. *)

\* No refund is recorded while the staff has not seen that an earlier one was.
AfterSeen == \A i \in refunded' \ refunded : refunded \subseteq seen
EarlierRefundsSeen == [][AfterSeen]_vars

\* A refund the staff was told was rejected is not recorded, and is not later unless it
\* is submitted again: money is not returned for it twice.
RejectedIsUnrecorded == told \cap refunded = {}

=============================================================================
