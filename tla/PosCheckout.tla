------------------------------ MODULE PosCheckout ------------------------------
(***************************************************************************)
(* Payment on the POS screen (frontend features/pos: branch-pos.tsx,       *)
(* payment-confirmation.tsx, checkout-attempt.ts; features/command-        *)
(* recovery) against the command-recovery envelope of the server, for one  *)
(* cashier in one branch.                                                  *)
(*                                                                         *)
(* Three things outlive each other.  The attempt is kept by the page's     *)
(* JavaScript and survives the screens.  A payment screen has its own      *)
(* memory of a command and of whether its outcome is uncertain, and a      *)
(* request goes on after its screen was unmounted.  A reload loses all of  *)
(* it; what the server recorded is read back once, when the page mounts.   *)
(*                                                                         *)
(* The server's operations are one step each here; CommandRecovery has     *)
(* their statements.                                                       *)
(***************************************************************************)
EXTENDS Naturals, FiniteSets

CONSTANTS
  Contents,    \* what a cart may hold: lines, prices and payment
  MaxIds,      \* bound: request ids
  MaxFaults,   \* bound: lost calls, crashes, reloads, forced navigations
  MaxOffers,   \* bound: changes of what the server accepts
  None

VARIABLES
  sellable,    \* the cart whose prices and stock are those of the server
  offers,
  content,     \* of each request id that was issued
  rec,         \* the state of its recovery record, or None
  sold,        \* the request ids with a sale
  faults,
  calls,       \* the submissions under way, with the answer once there is one
  attempt,     \* the page's memory of an unresolved checkout, or None
  page,        \* away, loading, ready or denied
  listing,     \* the saved recoveries are being read
  saved,       \* the recoveries as they were read
  cart, paying,
  screen,      \* the payment screen's own memory, or None when not mounted
  receipt,     \* the sale whose receipt is shown, or None
  told,        \* ids the cashier was told were rejected, and did not submit since
  receipts     \* ids the cashier saw the receipt of

server == <<sellable, offers, content, rec, sold>>
vars == <<server, faults, calls, attempt, page, listing, saved, cart, paying, screen,
          receipt, told, receipts>>

-----------------------------------------------------------------------------
Ids == 1 .. MaxIds
RecordStates == {"PREPARED", "SUBMITTED", "COMPLETED", "ACKNOWLEDGED"}
Blocking == RecordStates \ {"ACKNOWLEDGED"}

\* owner: the screen that waits, the page after that screen is gone, or nobody.
\* sure: the outcome was not uncertain when the call was made.
\* recovery: the record a call submits, or an attempt knows of.
Call == [id : Ids, recovery : Ids \cup {None}, sure : BOOLEAN, owner : {"screen", "page", "nobody"},
         step : {"prepare", "submit", "answer"},
         answer : {"none", "prepared", "sale", "conflict", "retry", "blocked", "denied",
                   "closed", "lost"}]
Attempt == [id : Ids, lines : Contents \cup {None}, recovery : Ids \cup {None},
            state : {"pending", "unknown", "completed"}]
Screen == [command : Ids \cup {None}, uncertain : BOOLEAN]
Saved == [id : Ids, done : BOOLEAN]

ASSUME NoneAssumption ==
  /\ None \notin Contents /\ None \notin Ids /\ None \notin RecordStates
  /\ None \notin Attempt \cup Screen
ASSUME BoundsAssumption ==
  MaxIds \in Nat /\ MaxFaults \in Nat /\ MaxOffers \in Nat

Is(a, states) == a # None /\ a.state \in states
\* The payment screen is there with the branch, and for every unresolved checkout.
Mounted(a, at) == at = "ready" \/ (at # "away" /\ Is(a, {"pending", "unknown"}))

\* The values the variables take: rows, requests and answers of the right shape.
TypeOK ==
  /\ sellable \in Contents /\ offers \in 0 .. MaxOffers
  /\ content \in [Ids -> Contents \cup {None}]
  /\ rec \in [Ids -> RecordStates \cup {None}]
  /\ sold \subseteq Ids /\ told \subseteq Ids /\ receipts \subseteq Ids
  /\ faults \in 0 .. MaxFaults
  /\ calls \subseteq Call /\ Cardinality({c \in calls : c.owner = "screen"}) <= 1
  /\ attempt \in Attempt \cup {None}
  /\ page \in {"away", "loading", "ready", "denied"}
  /\ listing \in BOOLEAN /\ saved \in SUBSET Saved
  /\ cart \in Contents \cup {None} /\ paying \in BOOLEAN
  /\ screen \in Screen \cup {None}
  /\ receipt \in Ids \cup {None}
  /\ (screen # None) = Mounted(attempt, page)

Unresolved == Is(attempt, {"pending", "unknown"})
\* The dialog is open for a review, and for every unresolved checkout.
Open == screen # None /\ (paying \/ Unresolved)
Lines == IF Unresolved THEN attempt.lines ELSE cart
Recovery == IF attempt = None THEN None ELSE attempt.recovery
Busy == \E c \in calls : c.owner = "screen"
Fault == faults < MaxFaults /\ faults' = faults + 1

-----------------------------------------------------------------------------
(* What the screens show. *)

\* The effect over the saved recoveries: without an attempt, one of them becomes it.
Restored(a, list) ==
  IF a # None \/ list = {} THEN a
  ELSE LET s == CHOOSE s \in list : TRUE IN
       [id |-> s.id, lines |-> None, recovery |-> s.id,
        state |-> IF s.done THEN "completed" ELSE "unknown"]

NewScreen(a) == [command |-> IF a = None THEN None ELSE a.id, uncertain |-> a # None]

Finishes(a, at) == Is(a, {"completed"}) /\ a # attempt /\ at # "away"
\* A completed attempt shows its receipt, and remounts the payment screen.
Shows(a, at, s) ==
  IF ~Mounted(a, at) THEN None
  ELSE IF s = None \/ Finishes(a, at) THEN NewScreen(a) ELSE s
\* Faulty variant: what a screen that is gone was waiting for is ignored.
Cancelled(these) == {[c EXCEPT !.owner = IF @ = "screen" THEN "nobody" ELSE @] : c \in these}
\* The calls of a screen that is gone go on.
Unmounted(these) == {[c EXCEPT !.owner = IF @ = "screen" THEN "page" ELSE @] : c \in these}

\* The page after attempt became a, where the calls are these, the screen would
\* otherwise be s and the review would be open or not.
Becomes(a, list, at, these, s, review) ==
  LET r == Restored(a, IF at = "away" THEN {} ELSE list)
      done == Finishes(r, at)
  IN /\ attempt' = r /\ saved' = list /\ page' = at
     /\ screen' = Shows(r, at, s)
     /\ calls' = IF Shows(r, at, s) = None \/ done THEN Unmounted(these) ELSE these
     /\ paying' = (review /\ ~done)
     /\ receipt' = IF done THEN r.recovery ELSE IF Is(r, {"completed"}) THEN receipt ELSE None
     /\ receipts' = receipts \cup IF done THEN {r.recovery} ELSE {}

Shown(list, at) == Becomes(attempt, list, at, calls, screen, paying)

-----------------------------------------------------------------------------
(* The page. *)

Enter ==
  /\ page = "away"
  /\ listing' = TRUE
  /\ attempt' = attempt /\ saved' = {} /\ page' = "loading"
  /\ screen' = Shows(attempt, "loading", None)
  /\ IF Is(attempt, {"completed"})
     THEN receipt' = attempt.recovery /\ receipts' = receipts \cup {attempt.recovery}
     ELSE UNCHANGED <<receipt, receipts>>
  /\ UNCHANGED <<server, faults, calls, cart, paying, told>>

BranchArrives ==
  /\ page = "loading"
  /\ Shown(saved, "ready")
  /\ UNCHANGED <<server, faults, listing, cart, told>>

\* list() of the service completes a submitted record that has a sale.
RecoveriesArrive ==
  /\ listing
  /\ listing' = FALSE
  /\ LET open == {i \in Ids : rec[i] \in Blocking} IN
     /\ rec' = [i \in Ids |-> IF i \in open \cap sold THEN "COMPLETED" ELSE rec[i]]
     /\ Shown({[id |-> i, done |-> i \in sold] : i \in open}, page)
  /\ UNCHANGED <<sellable, offers, content, sold, faults, cart, told>>
RecoveriesFail ==
  /\ listing
  /\ Fault /\ listing' = FALSE
  /\ UNCHANGED <<server, calls, attempt, page, saved, cart, paying, screen, receipt, told,
                 receipts>>

\* Links are blocked while a checkout is unresolved; the browser's history is not.
Leave ==
  /\ page # "away"
  /\ IF Unresolved THEN Fault ELSE UNCHANGED faults
  /\ page' = "away" /\ listing' = FALSE /\ saved' = {} /\ cart' = None /\ paying' = FALSE
  /\ screen' = None /\ receipt' = None /\ calls' = Unmounted(calls)
  /\ UNCHANGED <<server, attempt, told, receipts>>

\* The page's memory is lost; requests that were sent are not.
Reload ==
  /\ Fault
  /\ attempt' = None /\ page' = "loading" /\ listing' = TRUE /\ saved' = {}
  /\ cart' = None /\ paying' = FALSE /\ screen' = None /\ receipt' = None
  /\ calls' = {[c EXCEPT !.owner = "nobody"] : c \in {x \in calls : x.step # "answer"}}
  /\ UNCHANGED <<server, told, receipts>>

\* denyAccess(), from any read.
AccessDenied ==
  /\ page = "ready" /\ ~Unresolved /\ receipt = None
  /\ Fault
  /\ page' = "denied" /\ cart' = None /\ paying' = FALSE /\ screen' = None
  /\ UNCHANGED <<server, calls, attempt, listing, saved, receipt, told, receipts>>
RetryAccess ==
  /\ page = "denied"
  /\ page' = "loading"
  /\ UNCHANGED <<server, faults, calls, attempt, listing, saved, cart, paying, screen,
                 receipt, told, receipts>>

\* The cart, whose operations PosCart has.
Fill(c) ==
  /\ page = "ready" /\ ~paying /\ ~Unresolved /\ receipt = None /\ c # cart
  /\ cart' = c
  /\ UNCHANGED <<server, faults, calls, attempt, page, listing, saved, paying, screen,
                 receipt, told, receipts>>
Review ==
  /\ page = "ready" /\ ~paying /\ ~Unresolved /\ receipt = None /\ cart # None
  /\ paying' = TRUE
  /\ UNCHANGED <<server, faults, calls, attempt, page, listing, saved, cart, screen,
                 receipt, told, receipts>>
Close ==
  /\ Open /\ paying /\ ~Busy /\ ~screen.uncertain
  /\ paying' = FALSE
  /\ UNCHANGED <<server, faults, calls, attempt, page, listing, saved, cart, screen,
                 receipt, told, receipts>>

-----------------------------------------------------------------------------
(* Submitting. *)

Issued == {i \in Ids : content[i] # None}
NextId == Cardinality(Issued) + 1
\* The command of the screen is kept while its content is.
SameContent == screen.command # None /\ content[screen.command] = Lines

MaySubmit == Open /\ receipt = None /\ ~Busy /\ ~Is(attempt, {"pending"})

Submit ==
  /\ MaySubmit
  /\ \/ screen.uncertain \/ (Lines # None /\ (SameContent \/ NextId \in Ids))
  /\ LET same == screen.uncertain \/ SameContent
         id == IF same THEN screen.command ELSE NextId
     IN /\ content' = IF same THEN content ELSE [content EXCEPT ![id] = Lines]
        /\ attempt' = [id |-> id, lines |-> Lines, recovery |-> Recovery,
                       state |-> "pending"]
        /\ screen' = [screen EXCEPT !.command = id]
        /\ calls' = calls \cup
             {[id |-> id, recovery |-> Recovery, sure |-> ~screen.uncertain, owner |-> "screen",
               step |-> IF Recovery = None THEN "prepare" ELSE "submit", answer |-> "none"]}
        /\ told' = told \ {id, Recovery}
  /\ UNCHANGED <<sellable, offers, rec, sold, faults, page, listing, saved, cart, paying,
                 receipt, receipts>>

Answered(c, kind) == calls' = (calls \ {c}) \cup {[c EXCEPT !.step = "answer", !.answer = kind]}

\* Faulty variant: another command may be prepared at any time.
NeverBlocked == FALSE
Blocked == \E i \in Ids : rec[i] \in Blocking

\* CommandRecoveryService.prepare.
Prepare(c) ==
  /\ c \in calls /\ c.step = "prepare"
  /\ IF rec[c.id] # None THEN Answered(c, "prepared") /\ UNCHANGED rec
     ELSE IF Blocked THEN Answered(c, "blocked") /\ UNCHANGED rec
     ELSE Answered(c, "prepared") /\ rec' = [rec EXCEPT ![c.id] = "PREPARED"]
  /\ UNCHANGED <<sellable, offers, content, sold, faults, attempt, page, listing, saved,
                 cart, paying, screen, receipt, told, receipts>>

\* CommandRecoveryService.submit.  A conflict makes the record PREPARED again; a
\* checkout that was rolled back leaves it SUBMITTED.
Record(id, state) == rec' = [rec EXCEPT ![id] = state]
SubmitRecord(c) ==
  /\ c \in calls /\ c.step = "submit"
  /\ \/ rec[c.recovery] = "ACKNOWLEDGED" /\ Answered(c, "closed") /\ UNCHANGED <<rec, sold, faults>>
     \/ /\ rec[c.recovery] # "ACKNOWLEDGED" /\ c.recovery \in sold
        /\ Record(c.recovery, "COMPLETED") /\ Answered(c, "sale") /\ UNCHANGED <<sold, faults>>
     \/ /\ rec[c.recovery] # "ACKNOWLEDGED" /\ c.recovery \notin sold
        /\ \/ /\ content[c.recovery] = sellable
              /\ sold' = sold \cup {c.recovery}
              /\ Record(c.recovery, "COMPLETED") /\ Answered(c, "sale") /\ UNCHANGED faults
           \/ /\ content[c.recovery] # sellable
              /\ Record(c.recovery, "PREPARED") /\ Answered(c, "conflict")
              /\ UNCHANGED <<sold, faults>>
           \/ /\ Fault /\ Record(c.recovery, "SUBMITTED")
              /\ Answered(c, "retry") /\ UNCHANGED sold
  /\ UNCHANGED <<sellable, offers, content, attempt, page, listing, saved, cart, paying,
                 screen, receipt, told, receipts>>

\* Guards refuse a call before it has an effect.
Refuse(c) ==
  /\ c \in calls /\ c.step # "answer"
  /\ Fault /\ Answered(c, "denied")
  /\ UNCHANGED <<server, attempt, page, listing, saved, cart, paying, screen, receipt, told,
                 receipts>>

\* The connection is lost: before the call reached the server, while the server
\* goes on with it, or with the answer.
Lose(c) ==
  /\ c \in calls /\ c.owner # "nobody" /\ c.answer # "lost"
  /\ Fault
  /\ LET lost == [c EXCEPT !.step = "answer", !.answer = "lost"] IN
     calls' \in {(calls \ {c}) \cup {lost}} \cup
       (IF c.step = "answer" THEN {}
        ELSE {(calls \ {c}) \cup {lost, [c EXCEPT !.owner = "nobody"]}})
  /\ UNCHANGED <<server, attempt, page, listing, saved, cart, paying, screen, receipt, told,
                 receipts>>

\* The server stops in the middle of submit.
Crash(c) ==
  /\ c \in calls /\ c.step = "submit" /\ rec[c.recovery] \in {"PREPARED", "SUBMITTED"}
  /\ Fault /\ Record(c.recovery, "SUBMITTED")
  /\ sold' \in {sold, sold \cup (IF content[c.recovery] = sellable THEN {c.recovery} ELSE {})}
  /\ Answered(c, "lost")
  /\ UNCHANGED <<sellable, offers, content, attempt, page, listing, saved, cart, paying,
                 screen, receipt, told, receipts>>

-----------------------------------------------------------------------------
(* What an answer does to the page. *)

Rest(c) == calls \ {c}
\* setCheckoutAttempt() overwrites whatever there is.
Of(c, recovery, state) ==
  [id |-> c.id, lines |-> IF attempt # None THEN attempt.lines ELSE cart,
   recovery |-> recovery, state |-> state]

Prepared(c) ==
  /\ c \in calls /\ c.answer = "prepared" /\ c.owner # "nobody"
  /\ Becomes(Of(c, c.id, "pending"), saved, page,
             Rest(c) \cup {[c EXCEPT !.recovery = c.id, !.step = "submit", !.answer = "none"]}, screen, paying)
  /\ UNCHANGED <<server, faults, listing, cart, told>>

\* onCompleted() empties the cart of the screen that is still there.
Completed(c) ==
  /\ c \in calls /\ c.answer = "sale" /\ c.owner # "nobody"
  /\ Becomes(Of(c, c.recovery, "completed"), saved, page, Rest(c), screen, paying)
  /\ cart' = IF c.owner = "screen" THEN None ELSE cart
  /\ UNCHANGED <<server, faults, listing, told>>

\* Faulty variant: a rejection is believed even when the outcome was uncertain.
AlwaysKnown(c) == c.answer \in {"conflict", "retry", "blocked", "denied"}
KnownRejected(c) == c.sure /\ c.answer \in {"conflict", "retry", "blocked", "denied"}

Rejected(c) ==
  /\ c \in calls /\ c.step = "answer" /\ c.owner # "nobody" /\ KnownRejected(c)
  /\ LET here == c.owner = "screen"
         at == IF here /\ c.answer = "denied" THEN "denied" ELSE page
     IN /\ Becomes(None, saved, at, Rest(c), screen, paying /\ ~(here /\ c.answer # "retry"))
        /\ cart' = IF ~here THEN cart
                   ELSE CASE c.answer = "conflict" -> sellable
                          [] c.answer = "denied" -> None
                          [] OTHER -> cart
  /\ told' = IF c.answer = "blocked" THEN told ELSE told \cup ({c.id, c.recovery} \ {None})
  /\ UNCHANGED <<server, faults, listing>>

Uncertain(c) ==
  /\ c \in calls /\ c.step = "answer" /\ c.owner # "nobody" /\ ~KnownRejected(c)
  /\ c.answer \notin {"prepared", "sale"}
  /\ Becomes(Of(c, Recovery, "unknown"), saved, page, Rest(c),
             IF c.owner = "screen" THEN [screen EXCEPT !.uncertain = TRUE] ELSE screen, paying)
  /\ UNCHANGED <<server, faults, listing, cart, told>>

\* Nobody waits for the answer.
Dropped(c) ==
  /\ c \in calls /\ c.step = "answer" /\ c.owner = "nobody"
  /\ calls' = Rest(c)
  /\ UNCHANGED <<server, faults, attempt, page, listing, saved, cart, paying, screen,
                 receipt, told, receipts>>

\* closeCompletedSale() acknowledges the record, if the call gets through.
CloseReceipt ==
  /\ receipt # None /\ page = "ready"
  /\ rec' = IF attempt # None /\ attempt.recovery # None
            THEN [rec EXCEPT ![attempt.recovery] = "ACKNOWLEDGED"] ELSE rec
  /\ Becomes(None, saved, page, calls, screen, paying)
  /\ UNCHANGED <<sellable, offers, content, sold, faults, listing, cart, told>>

Offer(c) ==
  /\ offers < MaxOffers /\ c # sellable
  /\ sellable' = c /\ offers' = offers + 1
  /\ UNCHANGED <<content, rec, sold, faults, calls, attempt, page, listing, saved, cart,
                 paying, screen, receipt, told, receipts>>

-----------------------------------------------------------------------------
Init ==
  /\ sellable \in Contents /\ offers = 0 /\ content = [i \in Ids |-> None]
  /\ rec = [i \in Ids |-> None] /\ sold = {} /\ faults = 0 /\ calls = {}
  /\ attempt = None /\ page = "away" /\ listing = FALSE /\ saved = {} /\ cart = None
  /\ paying = FALSE /\ screen = None /\ receipt = None /\ told = {} /\ receipts = {}

Serve(c) == Prepare(c) \/ SubmitRecord(c)
Deliver(c) == Prepared(c) \/ Completed(c) \/ Rejected(c) \/ Uncertain(c)

Next ==
  \/ Enter \/ BranchArrives \/ RecoveriesArrive \/ RecoveriesFail \/ Leave \/ Reload
  \/ AccessDenied \/ RetryAccess \/ Review \/ Close \/ Submit \/ CloseReceipt
  \/ \E c \in Contents : Fill(c) \/ Offer(c)
  \/ \E c \in calls : Serve(c) \/ Deliver(c) \/ Refuse(c) \/ Lose(c) \/ Crash(c) \/ Dropped(c)

Spec == Init /\ [][Next]_vars
\* The server answers, and the page handles the answers.
FairSpec == Spec /\ WF_vars(\E c \in calls : Serve(c)) /\ WF_vars(\E c \in calls : Deliver(c))

-----------------------------------------------------------------------------
(* Properties. *)

\* No sale is recorded while the cashier has not seen the receipt of an earlier one.
EarlierSalesSeen ==
  [][\A i \in sold' \ sold : sold \subseteq receipts]_vars

\* A checkout the cashier was told was rejected has no sale, and gets none unless it
\* is submitted again.
RejectedIsUnsold == told \cap sold = {}

\* docs/modules/pos.md: "Preparation freezes the reviewed command": what a screen asks
\* to prepare are the lines that its dialog shows.
PreparedIsReviewed ==
  [][\A c \in calls' \ calls :
       c.owner = "screen" /\ c.step = "prepare" => content'[c.id] = Lines]_vars

\* A pending checkout ends.
PendingEnds == Is(attempt, {"pending"}) ~> ~Is(attempt, {"pending"})

=============================================================================
