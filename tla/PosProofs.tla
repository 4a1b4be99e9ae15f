------------------------------- MODULE PosProofs -------------------------------
(***************************************************************************)
(* Theorems about the screens that sell and refund: the payment            *)
(* (PosCheckout), the cart (PosCart) and the returns (RefundScreen).  The  *)
(* payment and the returns have an invariant each, which relates the       *)
(* records of the server, the calls that are under way, also those nobody  *)
(* waits for any more, and what the page knows of them.                    *)
(***************************************************************************)
EXTENDS PosCheckout, Sequences, FiniteSetTheorems, TLAPS

CONSTANTS
  Products, Queries, Codes, Results, Matches, MaxPrice, MaxStock, MaxLines, MaxGeneration,
  Sales, Units
VARIABLES
  offered, changes, access, tab, typed, q, reading, loading, shown, cursor, moreBusy, more,
  lookupBusy, lookups, choices, generation, lines, clearing, reviewing, cartReady, leaving,
  left, returns, records, refunded, refundFaults, refundCalls, refund, place, loaded, entry,
  recovering, recovered, unitsRead, result, open, dialog, rejected, seen

Cart == INSTANCE PosCart WITH offers <- changes, cart <- lines, paying <- reviewing
Refund == INSTANCE RefundScreen WITH
  content <- returns, rec <- records, faults <- refundFaults, calls <- refundCalls,
  attempt <- refund, listing <- recovering, saved <- recovered, reading <- unitsRead,
  told <- rejected

-----------------------------------------------------------------------------
(* The payment. *)

\* The values the variables take, one conjunct per variable.
CheckoutTypes ==
  /\ sellable \in Contents /\ offers \in 0 .. MaxOffers
  /\ content \in [Ids -> Contents \cup {None}]
  /\ rec \in [Ids -> RecordStates \cup {None}]
  /\ sold \in SUBSET Ids /\ told \in SUBSET Ids /\ receipts \in SUBSET Ids
  /\ faults \in 0 .. MaxFaults
  /\ calls \in SUBSET Call
  /\ attempt \in Attempt \cup {None}
  /\ page \in {"away", "loading", "ready", "denied"}
  /\ listing \in BOOLEAN /\ saved \in SUBSET Saved
  /\ cart \in Contents \cup {None} /\ paying \in BOOLEAN
  /\ screen \in Screen \cup {None}
  /\ receipt \in Ids \cup {None}

\* Somebody still waits for the answer.
Waited(c) == c.owner # "nobody"
\* A submission nobody waits for may still record a sale.
Stray(cs, i) == \E d \in cs : d.owner = "nobody" /\ d.step = "submit" /\ d.recovery = i

\* One open record at a time; a closed one was seen.
Ledger(rc, ct, sd, rs) ==
  /\ \A i, j \in Ids : rc[i] \in Blocking /\ rc[j] \in Blocking => i = j
  /\ \A i \in sd : rc[i] # None
  /\ \A i \in Ids : rc[i] = "ACKNOWLEDGED" => i \in rs
  /\ \A i \in Ids : rc[i] # None => ct[i] # None
\* How far a call is, and the record it is about.
Shaped(cs, rc, ct) ==
  \A c \in cs :
    /\ ct[c.id] # None
    /\ c.step = "answer" <=> c.answer # "none"
    /\ c.step = "submit" => c.recovery # None
    /\ c.step = "prepare" => c.recovery = None
    /\ c.recovery # None => rc[c.recovery] # None
    /\ c.answer = "prepared" => rc[c.id] # None
    /\ c.answer = "sale" => c.recovery # None
    /\ c.sure => c.recovery \in {None, c.id}
\* The attempt is that of the one call that is waited for; a screen that did not send
\* it is uncertain.  A call made while the outcome was not in doubt has no rival.
Waits(cs, a, s, td, sd) ==
  \A c \in cs : Waited(c) =>
    /\ \A d \in cs : Waited(d) => d = c
    /\ Is(a, {"pending"}) /\ a.id = c.id /\ a.recovery = c.recovery
    /\ c.owner = "screen" => s # None /\ s.command = c.id /\ c.sure = ~s.uncertain
    /\ c.owner = "page" /\ s # None => s.uncertain
    /\ c.id \notin td /\ c.recovery \notin td
    /\ c.sure => /\ c.answer # "lost" => ~Stray(cs, c.id)
                 /\ c.id \in sd => c.answer \in {"sale", "lost"}
\* What the page knows of was issued.
Knows(a, s, list, rc, ct) ==
  /\ \A x \in list : rc[x.id] # None
  /\ a # None => ct[a.id] # None
  /\ a # None /\ a.recovery # None => rc[a.recovery] # None
  /\ s # None /\ s.command # None => ct[s.command] # None
  /\ s # None /\ s.uncertain => s.command # None
\* What is mounted, and the receipt.
Sees(a, s, at, rcpt) ==
  /\ s # None <=> Mounted(a, at)
  /\ Is(a, {"completed"}) => a.recovery # None
  /\ rcpt = IF at # "away" /\ Is(a, {"completed"}) THEN a.recovery ELSE None
  /\ Is(a, {"unknown"}) /\ s # None => s.uncertain \/ a.lines = None
\* What was rejected cannot be sold any more.
Rejections(cs, td, sd) == \A i \in td : i \notin sd /\ ~Stray(cs, i)
\* Nor can the command of a screen that is certain, but by its own call.
Certain(cs, s, sd) ==
  s # None /\ ~s.uncertain /\ s.command # None =>
    \/ \E c \in cs : c.owner = "screen"
    \/ s.command \notin sd /\ ~Stray(cs, s.command)
\* Ids are issued in their order.
InOrder(ct) == \E k \in 0 .. MaxIds : \A i \in Ids : ct[i] # None <=> i <= k

CheckoutInv ==
  /\ CheckoutTypes
  /\ InOrder(content)
  /\ Ledger(rec, content, sold, receipts)
  /\ Shaped(calls, rec, content)
  /\ Waits(calls, attempt, screen, told, sold)
  /\ Knows(attempt, screen, saved, rec, content)
  /\ Sees(attempt, screen, page, receipt)
  /\ receipt # None => receipt \in receipts
  /\ Rejections(calls, told, sold)
  /\ Certain(calls, screen, sold)

\* None is not a state of a record.
LEMMA NoneIsNoState == None \notin RecordStates
  BY NoneAssumption

\* The calls of a screen that is gone are the same calls, waited for by the page.
LEMMA UnmountedCalls ==
  ASSUME NEW cs \in SUBSET Call
  PROVE  /\ Unmounted(cs) \in SUBSET Call
         /\ \A c \in Unmounted(cs) : \E d \in cs :
              /\ c.id = d.id /\ c.recovery = d.recovery /\ c.sure = d.sure
              /\ c.step = d.step /\ c.answer = d.answer
              /\ c.owner = IF d.owner = "screen" THEN "page" ELSE d.owner
              /\ d.owner = "nobody" => c = d
         /\ \A i \in Ids : Stray(Unmounted(cs), i) => Stray(cs, i)
         /\ \A c, d \in Unmounted(cs) :
              (\A x, y \in cs : Waited(x) /\ Waited(y) => x = y) /\ Waited(c) /\ Waited(d) => c = d
<1> DEFINE Left(d) == [d EXCEPT !.owner = IF d.owner = "screen" THEN "page" ELSE d.owner]
<1>1. ASSUME NEW d \in cs
      PROVE  /\ Left(d) \in Call
             /\ d.id = Left(d).id /\ d.recovery = Left(d).recovery /\ d.sure = Left(d).sure
             /\ d.step = Left(d).step /\ d.answer = Left(d).answer
             /\ Left(d).owner = IF d.owner = "screen" THEN "page" ELSE d.owner
             /\ d.owner = "nobody" => Left(d) = d
  BY DEF Call
<1>2. Unmounted(cs) = {Left(d) : d \in cs}
  BY DEF Unmounted
<1> HIDE DEF Left
<1>3. Unmounted(cs) \in SUBSET Call
  BY <1>1, <1>2
<1>4. ASSUME NEW c \in Unmounted(cs)
      PROVE  \E d \in cs :
              /\ c.id = d.id /\ c.recovery = d.recovery /\ c.sure = d.sure
              /\ c.step = d.step /\ c.answer = d.answer
              /\ c.owner = IF d.owner = "screen" THEN "page" ELSE d.owner
              /\ d.owner = "nobody" => c = d
  <2>1. PICK d \in cs : c = Left(d)
    BY <1>2
  <2> QED
    BY <1>1, <2>1
<1>5. \A i \in Ids : Stray(Unmounted(cs), i) => Stray(cs, i)
  BY <1>4 DEF Stray
<1>6. ASSUME NEW c \in Unmounted(cs), NEW d \in Unmounted(cs),
             \A x, y \in cs : Waited(x) /\ Waited(y) => x = y, Waited(c), Waited(d)
      PROVE  c = d
  <2>1. PICK x \in cs : c = Left(x)
    BY <1>2
  <2>2. PICK y \in cs : d = Left(y)
    BY <1>2
  <2>3. Waited(x) /\ Waited(y)
    BY <1>1, <1>6, <2>1, <2>2 DEF Waited
  <2> QED
    BY <1>6, <2>1, <2>2, <2>3
<1> QED
  BY <1>3, <1>4, <1>5, <1>6

\* What a new state of the page is made from, and what it is then, where the records,
\* the contents, the rejections and the sales are rc, ct, td and sd.
Fits(a, list, at, these, s, review, rc, ct, td, sd) ==
  /\ a \in Attempt \cup {None} /\ list \in SUBSET Saved
  /\ at \in {"away", "loading", "ready", "denied"} /\ these \in SUBSET Call
  /\ s \in Screen \cup {None} /\ review \in BOOLEAN /\ td \in SUBSET Ids
  /\ at = page \/ (page # "away" /\ at # "away")
  /\ \A i \in Ids : rc[i] # None => ct[i] # None
  /\ Shaped(these, rc, ct) /\ Waits(these, a, s, td, sd) /\ Knows(a, s, list, rc, ct)
  /\ Is(a, {"completed"}) => a.recovery # None
  /\ Is(a, {"unknown"}) /\ s # None => s.uncertain \/ a.lines = None
  /\ Rejections(these, td, sd)
  /\ Certain(these, s, sd) \/ (a # None /\ Finishes(a, at))
Became(rc, ct, td, sd) ==
  /\ attempt' \in Attempt \cup {None} /\ screen' \in Screen \cup {None}
  /\ calls' \in SUBSET Call /\ saved' \in SUBSET Saved /\ paying' \in BOOLEAN
  /\ page' \in {"away", "loading", "ready", "denied"}
  /\ receipt' \in Ids \cup {None} /\ receipts' \in SUBSET Ids
  /\ Shaped(calls', rc, ct) /\ Waits(calls', attempt', screen', td, sd)
  /\ Knows(attempt', screen', saved', rc, ct)
  /\ Sees(attempt', screen', page', receipt')
  /\ receipt' # None => receipt' \in receipts'
  /\ receipts \subseteq receipts'
  /\ Rejections(calls', td, sd) /\ Certain(calls', screen', sd)

\* A new payment screen takes the attempt that is stored, and is uncertain if there is one.
LEMMA NewScreens ==
  ASSUME NEW a \in Attempt \cup {None}
  PROVE  /\ NewScreen(a) \in Screen /\ NewScreen(a) # None
         /\ NewScreen(a).uncertain = (a # None)
         /\ NewScreen(a).command = IF a = None THEN None ELSE a.id
         /\ a # None => a.id # None
<1>1. NewScreen(a) \in Screen /\ (a # None => a.id \in Ids)
  BY DEF NewScreen, Screen, Attempt
<1> QED
  BY <1>1, NoneAssumption DEF NewScreen

\* The calls of a screen that is gone.
LEMMA Gone ==
  ASSUME NEW cs \in SUBSET Call, NEW rc, NEW ct, NEW a, NEW s, NEW td \in SUBSET Ids, NEW sd,
         Shaped(cs, rc, ct), Waits(cs, a, s, td, sd), Rejections(cs, td, sd)
  PROVE  /\ Unmounted(cs) \in SUBSET Call /\ Shaped(Unmounted(cs), rc, ct)
         /\ Waits(Unmounted(cs), a, None, td, sd) /\ Rejections(Unmounted(cs), td, sd)
<1>1. Shaped(Unmounted(cs), rc, ct) /\ Rejections(Unmounted(cs), td, sd)
  BY UnmountedCalls DEF Shaped, Rejections
<1>2. ASSUME NEW c \in Unmounted(cs), Waited(c)
      PROVE  /\ \A d \in Unmounted(cs) : Waited(d) => d = c
             /\ Is(a, {"pending"}) /\ a.id = c.id /\ a.recovery = c.recovery
             /\ c.owner # "screen" /\ c.id \notin td /\ c.recovery \notin td
             /\ c.sure => /\ c.answer # "lost" => ~Stray(Unmounted(cs), c.id)
                          /\ c.id \in sd => c.answer \in {"sale", "lost"}
  <2>1. PICK d \in cs :
          /\ c.id = d.id /\ c.recovery = d.recovery /\ c.sure = d.sure
          /\ c.step = d.step /\ c.answer = d.answer
          /\ c.owner = IF d.owner = "screen" THEN "page" ELSE d.owner
    BY UnmountedCalls
  <2>2. Waited(d) /\ c.owner # "screen" /\ d.id \in Ids
    BY <1>2, <2>1 DEF Waited, Call
  <2>3. \A x, y \in cs : Waited(x) /\ Waited(y) => x = y
    BY DEF Waits
  <2>4. \A x \in Unmounted(cs) : Waited(x) => x = c
    BY <1>2, <2>3, UnmountedCalls
  <2>5. Stray(Unmounted(cs), c.id) => Stray(cs, c.id)
    BY <2>1, <2>2, UnmountedCalls
  <2> QED
    BY <2>1, <2>2, <2>4, <2>5 DEF Waits
<1> QED
  BY <1>1, <1>2, UnmountedCalls DEF Waits

\* What the effects of the page make of a state that fits, keeps the invariant.
LEMMA Becoming ==
  ASSUME CheckoutTypes, Sees(attempt, screen, page, receipt),
         receipt # None => receipt \in receipts,
         NEW a, NEW list, NEW at, NEW these, NEW s, NEW review,
         NEW rc, NEW ct, NEW td, NEW sd,
         Fits(a, list, at, these, s, review, rc, ct, td, sd),
         Becomes(a, list, at, these, s, review)
  PROVE  Became(rc, ct, td, sd)
<1>0. /\ a \in Attempt \cup {None} /\ list \in SUBSET Saved
      /\ at \in {"away", "loading", "ready", "denied"} /\ these \in SUBSET Call
      /\ s \in Screen \cup {None} /\ review \in BOOLEAN /\ td \in SUBSET Ids
      /\ at = page \/ (page # "away" /\ at # "away")
      /\ \A i \in Ids : rc[i] # None => ct[i] # None
      /\ Shaped(these, rc, ct) /\ Waits(these, a, s, td, sd) /\ Knows(a, s, list, rc, ct)
      /\ Is(a, {"completed"}) => a.recovery # None
      /\ Is(a, {"unknown"}) /\ s # None => s.uncertain \/ a.lines = None
      /\ Rejections(these, td, sd)
      /\ Certain(these, s, sd) \/ (a # None /\ Finishes(a, at))
  BY DEF Fits
<1> DEFINE r == Restored(a, IF at = "away" THEN {} ELSE list)
           done == Finishes(r, at)
<1>1. /\ attempt' = r /\ saved' = list /\ page' = at
      /\ screen' = Shows(r, at, s)
      /\ calls' = IF Shows(r, at, s) = None \/ done THEN Unmounted(these) ELSE these
      /\ paying' = (review /\ ~done)
      /\ receipt' = IF done THEN r.recovery ELSE IF Is(r, {"completed"}) THEN receipt ELSE None
      /\ receipts' = receipts \cup IF done THEN {r.recovery} ELSE {}
  BY <1>0 DEF Becomes
<1>2. /\ a # None => r = a
      /\ a = None => r = None \/ \E x \in list :
           r = [id |-> x.id, lines |-> None, recovery |-> x.id,
                state |-> IF x.done THEN "completed" ELSE "unknown"]
  BY <1>0 DEF Restored
<1> HIDE DEF r
<1>3. r \in Attempt \cup {None}
  BY <1>0, <1>2 DEF Attempt, Saved
<1>4. r # a => /\ Is(r, {"completed", "unknown"}) /\ r.lines = None /\ r.recovery # None
               /\ rc[r.recovery] # None /\ r.id \in Ids /\ ct[r.id] # None /\ a = None
  BY <1>0, <1>2, NoneAssumption DEF Attempt, Saved, Is, Knows
<1>5. Is(r, {"completed"}) => r.recovery # None
  BY <1>0, <1>4
<1>6. done => Is(r, {"completed"}) /\ r \in Attempt /\ r.recovery \in Ids /\ at # "away"
  BY <1>0, <1>3, <1>5 DEF Finishes, Is, Attempt
<1>7. \A c \in these : Waited(c) => r = a /\ ~done /\ Is(r, {"pending"}) /\ ~Is(r, {"completed"})
  BY <1>0, <1>4, <1>6 DEF Waits, Is
<1>8. /\ NewScreen(r) \in Screen /\ NewScreen(r) # None
      /\ NewScreen(r).uncertain = (r # None)
      /\ NewScreen(r).command = IF r = None THEN None ELSE r.id
      /\ r # None => r.id # None
  BY <1>3, NewScreens
<1>9. /\ ~Mounted(r, at) => screen' = None
      /\ Mounted(r, at) /\ (s = None \/ done) => screen' = NewScreen(r)
      /\ Mounted(r, at) /\ s # None /\ ~done => screen' = s /\ calls' = these
      /\ screen' # None => Mounted(r, at)
      /\ screen' \in Screen \cup {None}
  BY <1>0, <1>1, <1>8, NoneAssumption DEF Shows
<1>10. calls' \in {these, Unmounted(these)} /\ (screen' = None => calls' = Unmounted(these))
  BY <1>0, <1>1
<1>11. calls' \in SUBSET Call
  BY <1>0, <1>10, UnmountedCalls
<1>12. receipt' \in Ids \cup {None} /\ receipts' \in SUBSET Ids /\ receipts \subseteq receipts'
       /\ (receipt' # None => receipt' \in receipts')
  BY <1>0, <1>1, <1>6 DEF CheckoutTypes
<1>13. Shaped(calls', rc, ct)
  BY <1>0, <1>10, UnmountedCalls DEF Shaped
<1>14. \A i \in Ids : Stray(calls', i) => Stray(these, i)
  BY <1>0, <1>10, UnmountedCalls
<1>15. Rejections(calls', td, sd)
  BY <1>0, <1>14 DEF Rejections
<1>16. Knows(attempt', screen', saved', rc, ct)
  BY <1>0, <1>1, <1>4, <1>8, <1>9 DEF Knows
<1>17. Sees(attempt', screen', page', receipt')
  <2>1. screen' # None <=> Mounted(r, at)
    BY <1>0, <1>8, <1>9, NoneAssumption
  <2>2. receipt' = IF at # "away" /\ Is(r, {"completed"}) THEN r.recovery ELSE None
    BY <1>0, <1>1, <1>6 DEF Finishes, Sees
  <2>3. Is(r, {"unknown"}) /\ screen' # None => screen'.uncertain \/ r.lines = None
    <3>1. CASE screen' = NewScreen(r)
      BY <1>0, <1>8, <3>1 DEF Is
    <3>2. CASE screen' = s
      BY <1>0, <1>4, <3>2
    <3> QED
      BY <1>0, <1>9, <3>1, <3>2
  <2> QED
    BY <1>0, <1>1, <1>5, <2>1, <2>2, <2>3 DEF Sees
<1>18. Certain(calls', screen', sd)
  <2>1. CASE screen' = NewScreen(r)
    BY <1>0, <1>8, <2>1 DEF Certain
  <2>2. CASE screen' = s /\ calls' = these /\ ~done
    BY <1>0, <1>2, <2>2 DEF Certain
  <2> QED
    BY <1>0, <1>9, <2>1, <2>2 DEF Certain
<1>19. Waits(calls', attempt', screen', td, sd)
  <2> SUFFICES ASSUME NEW c \in calls', Waited(c)
               PROVE  /\ \A d \in calls' : Waited(d) => d = c
                      /\ Is(attempt', {"pending"}) /\ attempt'.id = c.id
                      /\ attempt'.recovery = c.recovery
                      /\ c.owner = "screen" => screen' # None /\ screen'.command = c.id
                                               /\ c.sure = ~screen'.uncertain
                      /\ c.owner = "page" /\ screen' # None => screen'.uncertain
                      /\ c.id \notin td /\ c.recovery \notin td
                      /\ c.sure => /\ c.answer # "lost" => ~Stray(calls', c.id)
                                   /\ c.id \in sd => c.answer \in {"sale", "lost"}
    BY <1>0 DEF Waits
  <2>1. PICK d \in these :
          /\ c.id = d.id /\ c.recovery = d.recovery /\ c.sure = d.sure
          /\ c.step = d.step /\ c.answer = d.answer
          /\ c = d \/ (calls' = Unmounted(these) /\ c.owner = "page" /\ d.owner # "nobody")
    <3>1. CASE calls' = these
      BY <1>0, <3>1
    <3>2. CASE calls' = Unmounted(these)
      <4>1. PICK d \in these :
              /\ c.id = d.id /\ c.recovery = d.recovery /\ c.sure = d.sure
              /\ c.step = d.step /\ c.answer = d.answer
              /\ c.owner = IF d.owner = "screen" THEN "page" ELSE d.owner
        BY <1>0, <3>2, UnmountedCalls
      <4>2. c.owner = "page" /\ d.owner # "nobody"
        BY <1>0, <4>1 DEF Waited, Call
      <4> QED
        BY <1>0, <3>2, <4>1, <4>2
    <3> QED
      BY <1>0, <1>10, <3>1, <3>2
  <2>2. Waited(d) /\ d.id \in Ids
    BY <1>0, <2>1 DEF Waited, Call
  <2>3. \A x, y \in these : Waited(x) /\ Waited(y) => x = y
    BY <1>0 DEF Waits
  <2>4. \A x \in calls' : Waited(x) => x = c
    BY <1>0, <1>10, <2>3, UnmountedCalls
  <2>5. r = a /\ ~done /\ Is(a, {"pending"}) /\ a.id = d.id /\ a.recovery = d.recovery
        /\ d.id \notin td /\ d.recovery \notin td
        /\ (d.sure => /\ d.answer # "lost" => ~Stray(these, d.id)
                      /\ d.id \in sd => d.answer \in {"sale", "lost"})
    BY <1>0, <1>7, <2>2 DEF Waits
  <2>6. c.sure => /\ c.answer # "lost" => ~Stray(calls', c.id)
                  /\ c.id \in sd => c.answer \in {"sale", "lost"}
    BY <1>0, <1>14, <2>1, <2>2, <2>5
  <2>7. CASE screen' = None
    <3>1. calls' = Unmounted(these)
      BY <1>0, <1>10, <2>7
    <3>2. c.owner # "screen"
      BY <1>0, <3>1, UnmountedCalls
    <3> QED
      BY <1>0, <1>1, <2>1, <2>4, <2>5, <2>6, <2>7, <3>2
  <2>8. CASE screen' # None /\ s = None
    <3>1. screen' = NewScreen(r) /\ r # None
      BY <1>0, <1>9, <2>5, <2>8 DEF Is
    <3>2. d.owner # "screen"
      BY <1>0, <2>2, <2>8 DEF Waits
    <3>3. c.owner # "screen"
      BY <1>0, <2>1, <3>2
    <3> QED
      BY <1>0, <1>1, <1>8, <2>1, <2>4, <2>5, <2>6, <3>1, <3>3
  <2>9. CASE screen' # None /\ s # None
    <3>1. screen' = s /\ calls' = these
      BY <1>0, <1>9, <2>5, <2>9
    <3> QED
      BY <1>0, <1>1, <2>5, <3>1 DEF Waits
  <2> QED
    BY <1>0, <2>7, <2>8, <2>9
<1> QED
  BY <1>0, <1>1, <1>3, <1>9, <1>11, <1>12, <1>13, <1>15, <1>16, <1>17, <1>18, <1>19 DEF Became

Kinds == {"prepared", "sale", "conflict", "retry", "blocked", "denied", "closed", "lost"}

\* A call that is answered keeps what the invariant says of the calls.
LEMMA Answering ==
  ASSUME CheckoutTypes, NEW c \in calls, NEW kind \in Kinds, NEW rc, NEW sd,
         Shaped(calls, rc, content), Waits(calls, attempt, screen, told, sold),
         Rejections(calls, told, sold), Certain(calls, screen, sold),
         kind = "prepared" => rc[c.id] # None, kind = "sale" => c.recovery # None,
         sd = sold \/ (c.step = "submit" /\ sd = sold \cup {c.recovery}),
         Waited(c) /\ c.sure /\ c.id \in sd => kind \in {"sale", "lost"},
         c.step # "answer" \/ kind = "lost",
         Answered(c, kind)
  PROVE  /\ calls' \in SUBSET Call
         /\ Shaped(calls', rc, content) /\ Waits(calls', attempt, screen, told, sd)
         /\ Rejections(calls', told, sd) /\ Certain(calls', screen, sd)
<1> DEFINE e == [c EXCEPT !.step = "answer", !.answer = kind]
<1>1. calls' = (calls \ {c}) \cup {e}
  BY DEF Answered
<1>2. /\ e \in Call /\ e.id = c.id /\ e.recovery = c.recovery /\ e.sure = c.sure
      /\ e.owner = c.owner /\ e.step = "answer" /\ e.answer = kind /\ c \in Call
  BY DEF CheckoutTypes, Call, Kinds
<1> HIDE DEF e
<1>3. calls' \in SUBSET Call
  BY <1>1, <1>2 DEF CheckoutTypes
<1>4. Shaped(calls', rc, content)
  BY <1>1, <1>2 DEF Shaped, Kinds
<1>5. \A i \in Ids : Stray(calls', i) => Stray(calls, i)
  BY <1>1, <1>2 DEF Stray
<1>6. \A i \in sd : i \in sold \/ (i = c.recovery /\ c.step = "submit")
  OBVIOUS
<1>7. Rejections(calls', told, sd)
  <2> SUFFICES ASSUME NEW i \in told PROVE i \notin sd /\ ~Stray(calls', i)
    BY DEF Rejections
  <2>1. i \in Ids /\ i \notin sold /\ ~Stray(calls, i)
    BY DEF Rejections, CheckoutTypes
  <2>2. c.step = "submit" => c.recovery # i
    BY <2>1 DEF Waits, Waited, Stray
  <2> QED
    BY <1>5, <1>6, <2>1, <2>2
<1>8. Waits(calls', attempt, screen, told, sd)
  <2> SUFFICES ASSUME NEW d \in calls', Waited(d)
               PROVE  /\ \A x \in calls' : Waited(x) => x = d
                      /\ Is(attempt, {"pending"}) /\ attempt.id = d.id
                      /\ attempt.recovery = d.recovery
                      /\ d.owner = "screen" => screen # None /\ screen.command = d.id
                                               /\ d.sure = ~screen.uncertain
                      /\ d.owner = "page" /\ screen # None => screen.uncertain
                      /\ d.id \notin told /\ d.recovery \notin told
                      /\ d.sure => /\ d.answer # "lost" => ~Stray(calls', d.id)
                                   /\ d.id \in sd => d.answer \in {"sale", "lost"}
    BY DEF Waits
  <2>1. d.id \in Ids
    BY <1>3 DEF Call
  <2>2. CASE d = e
    <3>1. Waited(c)
      BY <1>2, <2>2 DEF Waited
    <3>2. c.sure /\ kind # "lost" => ~Stray(calls', c.id)
      <4>1. CASE c.answer # "lost"
        <5>1. c.sure => ~Stray(calls, c.id)
          BY <3>1, <4>1 DEF Waits
        <5>2. c.id \in Ids
          BY <1>2 DEF Call
        <5> QED
          BY <1>5, <5>1, <5>2
      <4>2. CASE c.answer = "lost"
        BY <4>2 DEF Shaped
      <4> QED
        BY <4>1, <4>2
    <3> QED
      BY <1>1, <1>2, <2>2, <3>1, <3>2 DEF Waits, Waited
  <2>3. CASE d # e
    <3>1. d \in calls /\ d # c
      BY <1>1, <2>3
    <3>2. ~Waited(c) /\ ~Waited(e)
      BY <1>2, <3>1 DEF Waits, Waited
    <3>3. d.sure /\ d.id \in sd => d.answer \in {"sale", "lost"}
      BY <1>6, <3>1, <3>2 DEF Waits, Waited, Stray
    <3> QED
      BY <1>1, <1>5, <2>1, <3>1, <3>2, <3>3 DEF Waits
  <2> QED
    BY <2>2, <2>3
<1>9. Certain(calls', screen, sd)
  <2> SUFFICES ASSUME screen # None, ~screen.uncertain, screen.command # None,
                      \A x \in calls' : x.owner # "screen"
               PROVE  screen.command \notin sd /\ ~Stray(calls', screen.command)
    BY DEF Certain
  <2>1. \A x \in calls : x.owner # "screen"
    BY <1>1, <1>2
  <2>2. screen.command \in Ids /\ screen.command \notin sold /\ ~Stray(calls, screen.command)
    BY <2>1 DEF Certain, CheckoutTypes, Screen
  <2>3. ~Waited(c)
    BY <1>2, <2>1 DEF Waits, Waited, Call
  <2> QED
    BY <1>5, <1>6, <2>2, <2>3 DEF Waited, Stray
<1> QED
  BY <1>3, <1>4, <1>7, <1>8, <1>9

\* A call that nobody waits for can be forgotten.
LEMMA Fewer ==
  ASSUME NEW c \in calls, ~Waited(c), NEW rc, NEW ct, NEW a, NEW s, NEW td, NEW sd,
         Shaped(calls, rc, ct), Waits(calls, a, s, td, sd), Rejections(calls, td, sd),
         Certain(calls, s, sd)
  PROVE  /\ Shaped(Rest(c), rc, ct) /\ Waits(Rest(c), a, s, td, sd)
         /\ Rejections(Rest(c), td, sd) /\ Certain(Rest(c), s, sd)
<1>1. Rest(c) \subseteq calls /\ \A x \in calls : Waited(x) => x \in Rest(c)
  BY DEF Rest
<1>2. \A i : Stray(Rest(c), i) => Stray(calls, i)
  BY <1>1 DEF Stray
<1> QED
  BY <1>1, <1>2 DEF Shaped, Waits, Rejections, Certain, Waited

\* Without the call that was waited for, nothing is.
LEMMA Rests ==
  ASSUME CheckoutInv, NEW c \in calls, Waited(c), NEW a, NEW s
  PROVE  /\ Rest(c) \in SUBSET Call /\ Shaped(Rest(c), rec, content)
         /\ Waits(Rest(c), a, s, told, sold) /\ Rejections(Rest(c), told, sold)
         /\ \A x \in Rest(c) : ~Waited(x)
         /\ Waits(Rest(c), a, s, told \cup {c.id}, sold)
         /\ \A i : Stray(Rest(c), i) => Stray(calls, i)
<1>1. Rest(c) \subseteq calls /\ \A x \in Rest(c) : ~Waited(x)
  BY DEF Rest, CheckoutInv, Waits
<1>2. \A i : Stray(Rest(c), i) => Stray(calls, i)
  BY <1>1 DEF Stray
<1> QED
  BY <1>1, <1>2 DEF CheckoutInv, CheckoutTypes, Shaped, Waits, Rejections

\* What a step of the server leaves.
LEMMA Served ==
  ASSUME CheckoutInv,
         UNCHANGED <<sellable, offers, content, attempt, page, listing, saved, cart, paying,
                     screen, receipt, told, receipts>>,
         faults' \in 0 .. MaxFaults, sold' \in SUBSET Ids,
         rec' \in [Ids -> RecordStates \cup {None}], calls' \in SUBSET Call,
         Ledger(rec', content, sold', receipts), Knows(attempt, screen, saved, rec', content),
         Shaped(calls', rec', content), Waits(calls', attempt, screen, told, sold'),
         Rejections(calls', told, sold'), Certain(calls', screen, sold')
  PROVE  CheckoutInv'
<1>1. CheckoutTypes'
  BY DEF CheckoutInv, CheckoutTypes
<1> QED
  BY <1>1 DEF CheckoutInv

\* An open record stays open, or becomes it again.
LEMMA Kept ==
  ASSUME CheckoutInv, NEW i \in Ids, NEW state \in Blocking, rec[i] \in Blocking,
         rec' = [rec EXCEPT ![i] = state], NEW sd, sd \in {sold, sold \cup {i}}
  PROVE  /\ rec' \in [Ids -> RecordStates \cup {None}]
         /\ Shaped(calls, rec', content) /\ Knows(attempt, screen, saved, rec', content)
         /\ Ledger(rec', content, sd, receipts) /\ sd \in SUBSET Ids
<1>1. /\ rec \in [Ids -> RecordStates \cup {None}]
      /\ \A x \in saved : x.id \in Ids
      /\ attempt # None => attempt.recovery \in Ids \cup {None}
      /\ sold \subseteq Ids
      /\ \A c \in calls : c.id \in Ids /\ c.recovery \in Ids \cup {None}
  BY DEF CheckoutInv, CheckoutTypes, Saved, Attempt, Call
<1>2. /\ rec' \in [Ids -> RecordStates \cup {None}]
      /\ \A j \in Ids : /\ rec'[j] # None <=> rec[j] # None
                        /\ rec'[j] \in Blocking <=> rec[j] \in Blocking
                        /\ rec'[j] = "ACKNOWLEDGED" => rec[j] = "ACKNOWLEDGED"
  BY <1>1, NoneIsNoState DEF Blocking, RecordStates
<1>3. rec[i] # None
  BY NoneIsNoState DEF Blocking
<1>4. Shaped(calls, rec', content)
  BY <1>1, <1>2 DEF Shaped, CheckoutInv
<1>5. Knows(attempt, screen, saved, rec', content)
  BY <1>1, <1>2 DEF Knows, CheckoutInv
<1>6. Ledger(rec', content, sd, receipts)
  BY <1>1, <1>2, <1>3 DEF Ledger, CheckoutInv
<1> QED
  BY <1>1, <1>2, <1>4, <1>5, <1>6

\* What the delivery of an answer leaves.
LEMMA Delivered ==
  ASSUME CheckoutInv, NEW a, NEW at, NEW these, NEW s, NEW review,
         Fits(a, saved, at, these, s, review, rec, content, told', sold),
         Becomes(a, saved, at, these, s, review),
         UNCHANGED <<server, faults, listing>>, cart' \in Contents \cup {None}
  PROVE  CheckoutInv'
<1>1. Became(rec, content, told', sold)
  BY Becoming DEF CheckoutInv
<1>2. told' \in SUBSET Ids
  BY DEF Fits
<1>3. UNCHANGED <<sellable, offers, content, rec, sold>>
  BY DEF server
<1>4. CheckoutTypes'
  BY <1>1, <1>2, <1>3 DEF CheckoutInv, CheckoutTypes, Became
<1>5. Ledger(rec, content, sold, receipts')
  BY <1>1 DEF CheckoutInv, Ledger, Became
<1> QED
  BY <1>1, <1>3, <1>4, <1>5 DEF CheckoutInv, Became

\* The call whose answer is delivered.
LEMMA Delivering ==
  ASSUME CheckoutInv, NEW c \in calls, c.owner # "nobody"
  PROVE  /\ Waited(c) /\ c \in Call /\ c.id \in Ids /\ c.recovery \in Ids \cup {None}
         /\ content[c.id] # None /\ Is(attempt, {"pending"}) /\ attempt # None
         /\ c.recovery = attempt.recovery /\ c.recovery = Recovery
         /\ c.recovery # None => rec[c.recovery] # None
         /\ c.id \notin told /\ c.recovery \notin told
         /\ c.owner = "screen" => screen # None /\ screen.command = c.id
                                  /\ c.sure = ~screen.uncertain
         /\ c.owner # "screen" => c.owner = "page"
         /\ c.owner = "page" /\ screen # None => screen.uncertain
         /\ screen # None => page # "away"
         /\ \A r \in Ids \cup {None}, st \in {"pending", "unknown", "completed"} :
              /\ Of(c, r, st) \in Attempt /\ Of(c, r, st) # None
              /\ Of(c, r, st).id = c.id /\ Of(c, r, st).recovery = r
              /\ Of(c, r, st).state = st
<1>1. /\ Waited(c) /\ c \in Call /\ c.id \in Ids /\ c.recovery \in Ids \cup {None}
      /\ c.owner # "screen" => c.owner = "page"
  BY DEF CheckoutInv, CheckoutTypes, Call, Waited
<1>2. /\ content[c.id] # None /\ (c.recovery # None => rec[c.recovery] # None)
  BY DEF CheckoutInv, Shaped
<1>3. /\ Is(attempt, {"pending"}) /\ c.recovery = attempt.recovery
      /\ c.id \notin told /\ c.recovery \notin told
      /\ c.owner = "screen" => screen # None /\ screen.command = c.id
                               /\ c.sure = ~screen.uncertain
      /\ c.owner = "page" /\ screen # None => screen.uncertain
  BY <1>1 DEF CheckoutInv, Waits
<1>4. attempt # None /\ attempt \in Attempt /\ cart \in Contents \cup {None}
  BY <1>3 DEF Is, CheckoutInv, CheckoutTypes
<1>5. screen # None => page # "away"
  BY DEF CheckoutInv, Sees, Mounted
<1>6. ASSUME NEW r \in Ids \cup {None}, NEW st \in {"pending", "unknown", "completed"}
      PROVE  /\ Of(c, r, st) \in Attempt /\ Of(c, r, st) # None
             /\ Of(c, r, st).id = c.id /\ Of(c, r, st).recovery = r
             /\ Of(c, r, st).state = st
  <2>1. Of(c, r, st) \in Attempt
    BY <1>1, <1>4 DEF Of, Attempt
  <2> QED
    BY <2>1, NoneAssumption DEF Of
<1> QED
  BY <1>1, <1>2, <1>3, <1>4, <1>5, <1>6 DEF Recovery

\* Every step of the payment keeps the invariant.
LEMMA StepCheckout == CheckoutInv /\ [Next]_vars => CheckoutInv'
<1> SUFFICES ASSUME CheckoutInv, [Next]_vars PROVE CheckoutInv'
  OBVIOUS
<1>0. /\ CheckoutTypes /\ InOrder(content) /\ Ledger(rec, content, sold, receipts)
      /\ Shaped(calls, rec, content) /\ Waits(calls, attempt, screen, told, sold)
      /\ Knows(attempt, screen, saved, rec, content) /\ Sees(attempt, screen, page, receipt)
      /\ receipt # None => receipt \in receipts
      /\ Rejections(calls, told, sold) /\ Certain(calls, screen, sold)
  BY DEF CheckoutInv
<1>a. Fault => faults' \in 0 .. MaxFaults
  BY <1>0, BoundsAssumption DEF Fault, CheckoutTypes
<1>b. /\ {} \in SUBSET Saved /\ None \in Screen \cup {None} /\ None \in Attempt \cup {None}
      /\ \A i \in Ids : rec[i] # None => content[i] # None
      /\ \A i \in Ids : i # None
      /\ Is(attempt, {"completed"}) => attempt.recovery # None
      /\ Is(attempt, {"unknown"}) /\ screen # None => screen.uncertain \/ attempt.lines = None
  BY <1>0, NoneAssumption DEF Ledger, Sees
<1>c. ASSUME NEW c \in calls PROVE c \in Call /\ c.id \in Ids /\ c.recovery \in Ids \cup {None}
  BY <1>0 DEF CheckoutTypes, Call
<1>1. CASE Enter
  <2>1. \A c \in calls : c.owner # "screen"
    <3>1. screen = None
      BY <1>0, <1>1 DEF Enter, Sees, Mounted
    <3> QED
      BY <1>0, <3>1 DEF Waits, Waited
  <2> DEFINE s == Shows(attempt, "loading", None)
  <2>2. s = None \/ (s \in Screen /\ s.uncertain /\ attempt # None /\ s.command = attempt.id)
    BY <1>0, NewScreens DEF Shows, Mounted, Is, CheckoutTypes
  <2>3. s # None <=> Mounted(attempt, "loading")
    BY <1>0, NewScreens DEF Shows, CheckoutTypes
  <2>4. screen' = s /\ UNCHANGED <<server, faults, calls, attempt, cart, paying, told>>
        /\ page' = "loading" /\ saved' = {} /\ listing' = TRUE
    BY <1>1 DEF Enter
  <2> HIDE DEF s
  <2>5. /\ receipt' = IF Is(attempt, {"completed"}) THEN attempt.recovery ELSE None
        /\ receipt' # None => receipt' \in receipts'
        /\ receipt' \in Ids \cup {None} /\ receipts' \in SUBSET Ids /\ receipts \subseteq receipts'
    <3>1. Is(attempt, {"completed"}) => attempt.recovery \in Ids
      BY <1>0, <1>b DEF Is, CheckoutTypes, Attempt
    <3>2. receipt = None
      BY <1>0, <1>1 DEF Enter, Sees
    <3> QED
      BY <1>0, <1>1, <3>1, <3>2 DEF Enter, CheckoutTypes
  <2>6. CheckoutTypes'
    BY <1>0, <1>b, <2>2, <2>4, <2>5 DEF CheckoutTypes, server
  <2>7. Waits(calls', attempt', screen', told', sold')
    BY <1>0, <2>1, <2>2, <2>4 DEF Waits, server
  <2>8. Knows(attempt', screen', saved', rec', content')
    BY <1>0, <2>2, <2>4, NewScreens DEF Knows, server, CheckoutTypes
  <2>9. Sees(attempt', screen', page', receipt')
    BY <1>b, <2>2, <2>3, <2>4, <2>5 DEF Sees
  <2>10. Certain(calls', screen', sold')
    BY <2>2, <2>4 DEF Certain
  <2> QED
    BY <1>0, <2>4, <2>5, <2>6, <2>7, <2>8, <2>9, <2>10 DEF CheckoutInv, server, Ledger
<1>2. CASE BranchArrives
  <2>1. Becomes(attempt, saved, "ready", calls, screen, paying)
        /\ UNCHANGED <<server, faults, listing, cart, told>> /\ page = "loading"
    BY <1>2 DEF BranchArrives, Shown
  <2>2. Fits(attempt, saved, "ready", calls, screen, paying, rec, content, told, sold)
    BY <1>0, <1>b, <2>1 DEF Fits, CheckoutTypes
  <2>3. Became(rec, content, told, sold)
    BY <1>0, <2>1, <2>2, Becoming
  <2> QED
    BY <1>0, <2>1, <2>3 DEF Became, CheckoutInv, CheckoutTypes, server, Ledger
<1>3. CASE RecoveriesArrive
  <2> DEFINE opened == {i \in Ids : rec[i] \in Blocking}
             list == {[id |-> i, done |-> i \in sold] : i \in opened}
  <2>1. /\ rec' = [i \in Ids |-> IF i \in opened \cap sold THEN "COMPLETED" ELSE rec[i]]
        /\ Becomes(attempt, list, page, calls, screen, paying)
        /\ UNCHANGED <<sellable, offers, content, sold, faults, cart, told>> /\ listing' = FALSE
    BY <1>3 DEF RecoveriesArrive, Shown
  <2>2. /\ rec' \in [Ids -> RecordStates \cup {None}]
        /\ \A i \in Ids : /\ rec'[i] # None <=> rec[i] # None
                          /\ rec'[i] \in Blocking <=> rec[i] \in Blocking
                          /\ rec'[i] = "ACKNOWLEDGED" <=> rec[i] = "ACKNOWLEDGED"
    <3>1. \A i \in opened : rec[i] # None /\ rec[i] # "ACKNOWLEDGED"
      BY <1>0, Zenon, NoneAssumption, NoneIsNoState DEF Blocking, RecordStates
    <3> QED
      BY <1>0, <2>1, <3>1, NoneIsNoState DEF Blocking, RecordStates, CheckoutTypes
  <2>3. list \in SUBSET Saved /\ \A x \in list : rec'[x.id] # None
    <3>1. \A i \in opened : i \in Ids /\ rec'[i] # None
      BY <2>2, NoneIsNoState DEF Blocking, RecordStates
    <3>2. \A i \in opened : [id |-> i, done |-> i \in sold] \in Saved
      BY <3>1 DEF Saved
    <3>3. \A x \in list : \E i \in opened : x.id = i
      OBVIOUS
    <3> QED
      BY <3>1, <3>2, <3>3
  <2> HIDE DEF list
  <2>4. /\ Shaped(calls, rec', content) /\ Knows(attempt, screen, list, rec', content)
        /\ Ledger(rec', content, sold, receipts)
    BY <1>0, <1>c, <2>2, <2>3 DEF Shaped, Knows, Ledger, CheckoutTypes, Attempt
  <2>5. \A i \in Ids : rec'[i] # None => content[i] # None
    BY <2>4 DEF Ledger
  <2>6. Fits(attempt, list, page, calls, screen, paying, rec', content, told, sold)
    BY <1>0, <1>b, <2>3, <2>4, <2>5 DEF Fits, CheckoutTypes
  <2>7. Became(rec', content, told, sold)
    BY <1>0, <2>1, <2>6, Becoming
  <2> QED
    BY <1>0, <2>1, <2>2, <2>4, <2>7 DEF Became, CheckoutInv, CheckoutTypes, Ledger
<1>4. CASE RecoveriesFail
  BY <1>0, <1>a, <1>4 DEF RecoveriesFail, CheckoutInv, CheckoutTypes, server, Ledger
<1>5. CASE Leave
  <2>1. /\ UNCHANGED <<server, attempt, told, receipts>> /\ page' = "away" /\ screen' = None
        /\ receipt' = None /\ calls' = Unmounted(calls) /\ saved' = {} /\ cart' = None
        /\ paying' = FALSE /\ listing' = FALSE /\ faults' \in 0 .. MaxFaults
    BY <1>0, <1>a, <1>5 DEF Leave, CheckoutTypes
  <2>2. /\ calls' \in SUBSET Call /\ Shaped(calls', rec, content)
        /\ Waits(calls', attempt, None, told, sold) /\ Rejections(calls', told, sold)
    BY <1>0, <2>1, Gone DEF CheckoutTypes
  <2>3. Sees(attempt, None, "away", None) /\ Knows(attempt, None, {}, rec, content)
        /\ Certain(calls', None, sold)
    BY <1>0, <1>b DEF Sees, Mounted, Knows, Certain
  <2> QED
    BY <1>0, <2>1, <2>2, <2>3 DEF CheckoutInv, CheckoutTypes, server, Ledger
<1>6. CASE Reload
  <2> DEFINE Off(c) == [c EXCEPT !.owner = "nobody"]
  <2>1. /\ UNCHANGED <<server, told, receipts>> /\ attempt' = None /\ page' = "loading"
        /\ screen' = None /\ receipt' = None /\ saved' = {} /\ cart' = None
        /\ paying' = FALSE /\ listing' = TRUE /\ faults' \in 0 .. MaxFaults
        /\ calls' = {Off(c) : c \in {x \in calls : x.step # "answer"}}
    BY <1>0, <1>a, <1>6 DEF Reload, CheckoutTypes
  <2>2. ASSUME NEW c \in calls
        PROVE  /\ Off(c) \in Call /\ Off(c).owner = "nobody" /\ Off(c).id = c.id
               /\ Off(c).recovery = c.recovery /\ Off(c).step = c.step
               /\ Off(c).answer = c.answer /\ Off(c).sure = c.sure
    BY <1>c DEF Call
  <2> HIDE DEF Off
  <2>3. \A d \in calls' : \E c \in calls : d = Off(c)
    BY <2>1
  <2>4. calls' \in SUBSET Call /\ Shaped(calls', rec, content)
        /\ Waits(calls', None, None, told, sold)
    BY <1>0, <2>2, <2>3 DEF Shaped, Waits, Waited
  <2>5. Rejections(calls', told, sold)
    <3> SUFFICES ASSUME NEW i \in told, NEW d \in calls', d.step = "submit", d.recovery = i
                 PROVE  FALSE
      BY <1>0 DEF Rejections, Stray
    <3>1. PICK c \in calls : c.step = "submit" /\ c.recovery = i
      BY <2>2, <2>3
    <3> QED
      BY <1>0, <3>1 DEF Rejections, Stray, Waits, Waited
  <2>6. Sees(None, None, "loading", None) /\ Knows(None, None, {}, rec, content)
        /\ Certain(calls', None, sold)
    BY DEF Sees, Mounted, Knows, Certain, Is
  <2> QED
    BY <1>0, <1>b, <2>1, <2>4, <2>5, <2>6 DEF CheckoutInv, CheckoutTypes, server, Ledger
<1>7. CASE AccessDenied
  <2>1. /\ UNCHANGED <<server, calls, attempt, listing, saved, receipt, told, receipts>>
        /\ page' = "denied" /\ cart' = None /\ paying' = FALSE /\ screen' = None
        /\ faults' \in 0 .. MaxFaults
        /\ receipt = None /\ page = "ready" /\ ~Is(attempt, {"pending", "unknown"})
    BY <1>a, <1>7 DEF AccessDenied, Unresolved
  <2>2. Waits(calls, attempt, None, told, sold)
    BY <1>0, <2>1 DEF Waits, Is
  <2>3. Sees(attempt, None, "denied", None) /\ Knows(attempt, None, saved, rec, content)
        /\ Certain(calls, None, sold)
    BY <1>0, <1>b, <2>1 DEF Sees, Mounted, Knows, Certain, Is
  <2> QED
    BY <1>0, <2>1, <2>2, <2>3 DEF CheckoutInv, CheckoutTypes, server, Ledger
<1>8. CASE RetryAccess
  <2>1. Sees(attempt, screen, "loading", receipt)
    BY <1>0, <1>8 DEF RetryAccess, Sees, Mounted
  <2> QED
    BY <1>0, <1>8, <2>1 DEF RetryAccess, CheckoutInv, CheckoutTypes, server, Ledger
<1>9. CASE Review
  BY <1>0, <1>9 DEF Review, CheckoutInv, CheckoutTypes, server, Ledger
<1>10. CASE Close
  BY <1>0, <1>10 DEF Close, CheckoutInv, CheckoutTypes, server, Ledger
<1>11. ASSUME NEW c \in Contents, Fill(c) PROVE CheckoutInv'
  BY <1>0, <1>11 DEF Fill, CheckoutInv, CheckoutTypes, server, Ledger
<1>12. ASSUME NEW c \in Contents, Offer(c) PROVE CheckoutInv'
  BY <1>0, <1>12, BoundsAssumption DEF Offer, CheckoutInv, CheckoutTypes, server, Ledger
<1>13. CASE Submit
  <2> DEFINE same == screen.uncertain \/ SameContent
             id == IF same THEN screen.command ELSE NextId
             n == [id |-> id, recovery |-> Recovery, sure |-> ~screen.uncertain,
                   owner |-> "screen", step |-> IF Recovery = None THEN "prepare" ELSE "submit",
                   answer |-> "none"]
             s == [screen EXCEPT !.command = id]
             a == [id |-> id, lines |-> Lines, recovery |-> Recovery, state |-> "pending"]
  <2>1. /\ MaySubmit
        /\ screen.uncertain \/ (Lines # None /\ (SameContent \/ NextId \in Ids))
        /\ content' = IF same THEN content ELSE [content EXCEPT ![id] = Lines]
        /\ attempt' = a /\ screen' = s /\ calls' = calls \cup {n}
        /\ told' = told \ {id, Recovery}
        /\ UNCHANGED <<sellable, offers, rec, sold, faults, page, listing, saved, cart, paying,
                       receipt, receipts>>
    BY <1>13 DEF Submit
  <2>2. screen \in Screen /\ screen # None /\ receipt = None /\ ~Is(attempt, {"pending"})
        /\ page # "away"
    <3>1. screen # None /\ receipt = None /\ ~Is(attempt, {"pending"})
      BY <2>1 DEF MaySubmit, Open
    <3>2. Mounted(attempt, page)
      BY <1>0, <3>1 DEF Sees
    <3> QED
      BY <1>0, <3>1, <3>2 DEF CheckoutTypes, Mounted
  <2>3. \A c \in calls : ~Waited(c)
    BY <1>0, <2>2 DEF Waits
  <2>4. ~Is(attempt, {"completed"})
    BY <1>0, <2>2 DEF Sees
  <2>5. Lines \in Contents \cup {None} /\ Recovery \in Ids \cup {None}
    BY <1>0 DEF Lines, Recovery, CheckoutTypes, Attempt, Unresolved, Is
  <2>6. ~screen.uncertain => attempt = None /\ Recovery = None
    <3>1. attempt = None \/ Is(attempt, {"unknown"})
      BY <1>0, <2>2, <2>4 DEF CheckoutTypes, Attempt, Is
    <3>2. Is(attempt, {"unknown"}) /\ ~screen.uncertain => Lines = None
      BY <1>b, <2>2 DEF Lines, Unresolved, Is
    <3> QED
      BY <2>1, <3>1, <3>2 DEF Recovery
  <2>7. same => id = screen.command /\ id \in Ids /\ content[id] # None
    <3>1. same => screen.command # None
      BY <1>0, <2>2 DEF SameContent, Knows
    <3> QED
      BY <1>0, <2>2, <3>1 DEF Knows, Screen
  <2>8. ~same => /\ id = NextId /\ id \in Ids /\ content[id] = None /\ Lines \in Contents
                 /\ \A i \in Ids : i < id => content[i] # None
                 /\ \A i \in Ids : i > id => content[i] = None
    <3>1. PICK k \in 0 .. MaxIds : \A i \in Ids : content[i] # None <=> i <= k
      BY <1>0 DEF InOrder
    <3>2. Issued = 1 .. k
      BY <3>1, BoundsAssumption DEF Issued, Ids
    <3>3. Cardinality(Issued) = k
      BY <3>2, FS_Interval, BoundsAssumption
    <3>4. NextId = k + 1
      BY <3>3 DEF NextId
    <3> QED
      BY <2>1, <2>5, <3>1, <3>4, BoundsAssumption DEF Ids
  <2> HIDE DEF same
  <2>9. id \in Ids
    BY <2>7, <2>8
  <2>10. ~screen.uncertain => id \notin sold /\ ~Stray(calls, id)
    <3>1. CASE same /\ ~screen.uncertain
      <4>1. \A c \in calls : c.owner # "screen"
        BY <2>3 DEF Waited
      <4> QED
        BY <1>0, <1>b, <2>2, <2>7, <3>1, <4>1 DEF Certain
    <3>2. CASE ~same
      <4>1. rec[id] = None
        BY <1>b, <2>8, <3>2
      <4>2. id \notin sold
        BY <1>0, <4>1 DEF Ledger
      <4>3. ~Stray(calls, id)
        BY <1>0, <1>b, <2>9, <4>1 DEF Stray, Shaped
      <4> QED
        BY <4>2, <4>3
    <3> QED
      BY <3>1, <3>2
  <2>11. /\ content' \in [Ids -> Contents \cup {None}] /\ content'[id] # None
         /\ \A i \in Ids : content[i] # None => content'[i] # None
    BY <1>0, <2>1, <2>7, <2>8, NoneAssumption DEF CheckoutTypes
  <2>12. InOrder(content')
    <3>1. CASE same
      BY <1>0, <2>1, <3>1
    <3>2. CASE ~same
      BY <2>1, <2>8, <2>11, <3>2, <1>0, BoundsAssumption DEF InOrder, Ids, CheckoutTypes
    <3> QED
      BY <3>1, <3>2
  <2> HIDE DEF id
  <2>13. n \in Call /\ s \in Screen /\ a \in Attempt /\ s # None /\ a # None
         /\ s.command = id /\ s.uncertain = screen.uncertain
    <3>1. n \in Call /\ s \in Screen /\ a \in Attempt
      BY <2>2, <2>5, <2>9 DEF Call, Screen, Attempt
    <3> QED
      BY <2>2, <3>1, NoneAssumption DEF Screen
  <2>14. /\ n.id = id /\ n.recovery = Recovery /\ n.sure = ~screen.uncertain
         /\ n.owner = "screen" /\ n.answer = "none"
         /\ n.step = IF Recovery = None THEN "prepare" ELSE "submit"
         /\ a.id = id /\ a.recovery = Recovery /\ a.state = "pending"
    OBVIOUS
  <2> HIDE DEF n, s, a
  <2>24. \A i \in Ids : Stray(calls', i) => Stray(calls, i)
    BY <2>1, <2>14 DEF Stray
  <2>15. Recovery # None => rec[Recovery] # None
    BY <1>0 DEF Knows, Recovery
  <2>16. Shaped(calls', rec, content')
    <3>1. \A c \in calls : content'[c.id] # None
      BY <1>0, <1>c, <2>11 DEF Shaped
    <3>2. /\ n.step = "answer" <=> n.answer # "none"
          /\ n.step = "submit" => n.recovery # None
          /\ n.step = "prepare" => n.recovery = None
          /\ n.recovery # None => rec[n.recovery] # None
          /\ n.answer # "prepared" /\ n.answer # "sale"
          /\ n.sure => n.recovery = None
      BY <2>6, <2>14, <2>15
    <3> QED
      BY <1>0, <2>1, <2>11, <2>14, <3>1, <3>2 DEF Shaped
  <2>17. Waits(calls', attempt', screen', told', sold)
    <3>1. \A c \in calls' : Waited(c) => c = n
      BY <2>1, <2>3
    <3>5. n.sure => n.recovery = None
      BY <2>6, <2>14
    <3>2. Recovery \notin told' /\ id \notin told'
      BY <2>1
    <3>3. ~screen.uncertain => ~Stray(calls', id) /\ id \notin sold
      BY <2>9, <2>10, <2>24
    <3>4. Is(a, {"pending"})
      BY <2>13, <2>14 DEF Is
    <3> QED
      BY <2>1, <2>13, <2>14, <3>1, <3>2, <3>3, <3>4 DEF Waits
  <2>18. Knows(attempt', screen', saved, rec, content')
    BY <1>0, <1>b, <2>1, <2>9, <2>11, <2>13, <2>14, <2>15 DEF Knows
  <2>19. Sees(attempt', screen', page, receipt)
    BY <2>1, <2>2, <2>13, <2>14 DEF Sees, Mounted, Is
  <2>20. Rejections(calls', told', sold)
    BY <1>0, <2>1, <2>24 DEF Rejections, CheckoutTypes
  <2>21. Certain(calls', screen', sold)
    BY <2>1, <2>14 DEF Certain
  <2>22. Ledger(rec, content', sold, receipts)
    BY <1>0, <2>11 DEF Ledger
  <2>23. CheckoutTypes'
    BY <1>0, <2>1, <2>11, <2>13 DEF CheckoutTypes
  <2> QED
    BY <1>0, <2>1, <2>12, <2>16, <2>17, <2>18, <2>19, <2>20, <2>21, <2>22, <2>23
    DEF CheckoutInv
<1>14. CASE CloseReceipt
  <2>1. /\ receipt # None /\ page = "ready"
        /\ Becomes(None, saved, page, calls, screen, paying)
        /\ UNCHANGED <<sellable, offers, content, sold, faults, listing, cart, told>>
    BY <1>14 DEF CloseReceipt
  <2>2. Is(attempt, {"completed"}) /\ attempt.recovery = receipt /\ receipt \in Ids
        /\ attempt # None /\ receipt \in receipts /\ rec[receipt] # None
    <3>1. Is(attempt, {"completed"}) /\ attempt.recovery = receipt /\ receipt \in receipts
      BY <1>0, <2>1 DEF Sees
    <3> QED
      BY <1>0, <2>1, <3>1 DEF Is, Knows, CheckoutTypes
  <2>3. rec' = [rec EXCEPT ![receipt] = "ACKNOWLEDGED"]
    BY <1>14, <2>1, <2>2 DEF CloseReceipt
  <2>4. /\ rec' \in [Ids -> RecordStates \cup {None}]
        /\ \A i \in Ids : /\ rec'[i] # None <=> rec[i] # None
                          /\ rec'[i] \in Blocking => rec[i] \in Blocking
                          /\ rec'[i] = "ACKNOWLEDGED" => rec[i] = "ACKNOWLEDGED" \/ i = receipt
    BY <1>0, <2>2, <2>3, NoneIsNoState DEF CheckoutTypes, RecordStates, Blocking
  <2>5. /\ Shaped(calls, rec', content) /\ Knows(None, screen, saved, rec', content)
        /\ Ledger(rec', content, sold, receipts)
    <3>1. \A x \in saved : x.id \in Ids
      BY <1>0 DEF CheckoutTypes, Saved
    <3>2. Shaped(calls, rec', content)
      BY <1>0, <1>c, <2>4 DEF Shaped
    <3>3. Knows(None, screen, saved, rec', content)
      BY <1>0, <2>4, <3>1 DEF Knows
    <3>4. \A i \in sold : rec'[i] # None
      BY <1>0, <2>4 DEF Ledger, CheckoutTypes
    <3>5. \A i \in Ids : rec'[i] = "ACKNOWLEDGED" => i \in receipts
      BY <1>0, <2>2, <2>4 DEF Ledger
    <3> QED
      BY <1>0, <2>4, <3>2, <3>3, <3>4, <3>5 DEF Ledger
  <2>6. \A c \in calls : ~Waited(c)
    BY <1>0, <2>2 DEF Waits, Is
  <2>7. Waits(calls, None, screen, told, sold)
    BY <2>6 DEF Waits
  <2>8. \A i \in Ids : rec'[i] # None => content[i] # None
    BY <1>b, <2>4
  <2>9. Fits(None, saved, page, calls, screen, paying, rec', content, told, sold)
    BY <1>0, <1>b, <2>1, <2>5, <2>7, <2>8 DEF Fits, CheckoutTypes, Is
  <2>10. Became(rec', content, told, sold)
    BY <1>0, <2>1, <2>9, Becoming
  <2>11. Ledger(rec', content, sold, receipts')
    BY <2>5, <2>10 DEF Became, Ledger
  <2> QED
    BY <1>0, <2>1, <2>4, <2>10, <2>11 DEF Became, CheckoutInv, CheckoutTypes
<1>15. ASSUME NEW c \in calls, Prepare(c) PROVE CheckoutInv'
  <2>1. c.step = "prepare" /\ c.recovery = None /\ c.step # "answer"
        /\ UNCHANGED <<sellable, offers, content, sold, faults, attempt, page, listing, saved,
                       cart, paying, screen, receipt, told, receipts>>
    BY <1>0, <1>15 DEF Prepare, Shaped
  <2>2. PICK kind \in {"prepared", "blocked"} :
          /\ Answered(c, kind)
          /\ \/ UNCHANGED rec /\ (kind = "prepared" => rec[c.id] # None)
             \/ kind = "prepared" /\ ~Blocked /\ rec[c.id] = None
                /\ rec' = [rec EXCEPT ![c.id] = "PREPARED"]
    BY <1>15 DEF Prepare
  <2>3. /\ rec' \in [Ids -> RecordStates \cup {None}]
        /\ rec'[c.id] # None \/ kind = "blocked"
        /\ \A i \in Ids : /\ rec[i] # None => rec'[i] # None
                          /\ rec'[i] = "ACKNOWLEDGED" => rec[i] = "ACKNOWLEDGED"
                          /\ rec'[i] # None => i = c.id \/ rec[i] # None
        /\ \A i, j \in Ids : rec'[i] \in Blocking /\ rec'[j] \in Blocking => i = j
    <3>1. CASE UNCHANGED rec
      <4>1. rec[c.id] # None \/ kind = "blocked"
        BY <1>0, <2>2, <3>1, <1>c, NoneIsNoState DEF RecordStates, CheckoutTypes
      <4> QED
        BY <1>0, <3>1, <4>1 DEF CheckoutTypes, Ledger
    <3>2. CASE ~Blocked /\ rec' = [rec EXCEPT ![c.id] = "PREPARED"]
      BY <1>0, <1>c, <3>2, NoneIsNoState DEF CheckoutTypes, Blocked, RecordStates
    <3> QED
      BY <2>2, <3>1, <3>2
  <2>4. content[c.id] # None
    BY <1>0 DEF Shaped
  <2>5. /\ Shaped(calls, rec', content) /\ Knows(attempt, screen, saved, rec', content)
        /\ Ledger(rec', content, sold, receipts)
    <3>1. /\ \A x \in saved : x.id \in Ids
          /\ attempt # None => attempt.recovery \in Ids \cup {None}
          /\ sold \subseteq Ids
      BY <1>0 DEF CheckoutTypes, Saved, Attempt
    <3>2. Ledger(rec', content, sold, receipts)
      BY <1>0, <2>3, <2>4, <3>1 DEF Ledger
    <3> QED
      BY <1>0, <1>c, <2>3, <3>1, <3>2 DEF Shaped, Knows
  <2>6. Waited(c) /\ c.sure => c.id \notin sold
    BY <1>0, <2>1 DEF Waits, Shaped
  <2>7. /\ calls' \in SUBSET Call
        /\ Shaped(calls', rec', content) /\ Waits(calls', attempt, screen, told, sold)
        /\ Rejections(calls', told, sold) /\ Certain(calls', screen, sold)
    BY <1>0, <2>1, <2>2, <2>3, <2>5, <2>6, Answering DEF Kinds
  <2>8. sold' \in SUBSET Ids /\ faults' \in 0 .. MaxFaults
    BY <1>0, <2>1 DEF CheckoutTypes
  <2> QED
    BY <2>1, <2>3, <2>5, <2>7, <2>8, Served
<1>d. ASSUME NEW c \in calls, Waited(c), c.sure, c.step # "answer" PROVE c.id \notin sold
  BY <1>0, <1>d DEF Waits, Shaped
<1>16. ASSUME NEW c \in calls, SubmitRecord(c) PROVE CheckoutInv'
  <2> DEFINE i == c.recovery
  <2>1. c.step = "submit" /\ c.step # "answer" /\ i \in Ids /\ rec[i] # None
        /\ UNCHANGED <<sellable, offers, content, attempt, page, listing, saved, cart, paying,
                       screen, receipt, told, receipts>>
    BY <1>0, <1>c, <1>16 DEF SubmitRecord, Shaped
  <2>2. PICK kind \in Kinds, state \in Blocking, sd \in {sold, sold \cup {i}} :
          /\ Answered(c, kind) /\ sold' = sd
          /\ kind \in {"closed", "sale", "conflict", "retry"}
          /\ sd = sold \/ kind = "sale"
          /\ \/ UNCHANGED rec /\ sd = sold
             \/ rec[i] # "ACKNOWLEDGED" /\ rec' = [rec EXCEPT ![i] = state]
    BY <1>16 DEF SubmitRecord, Record, Kinds, Blocking, RecordStates
  <2>3. faults' \in 0 .. MaxFaults
    BY <1>0, <1>a, <1>16 DEF SubmitRecord, CheckoutTypes
  <2>4. /\ rec' \in [Ids -> RecordStates \cup {None}]
        /\ Shaped(calls, rec', content) /\ Knows(attempt, screen, saved, rec', content)
        /\ Ledger(rec', content, sd, receipts) /\ sd \in SUBSET Ids
    <3>1. CASE UNCHANGED rec /\ sd = sold
      BY <1>0, <3>1 DEF CheckoutTypes
    <3>2. CASE rec[i] # "ACKNOWLEDGED" /\ rec' = [rec EXCEPT ![i] = state]
      <4>1. rec[i] \in Blocking
        BY <1>0, <2>1, <3>2 DEF CheckoutTypes, Blocking
      <4> QED
        BY <2>1, <3>2, <4>1, Kept
    <3> QED
      BY <2>2, <3>1, <3>2
  <2>5. Waited(c) /\ c.sure /\ c.id \in sd => kind \in {"sale", "lost"}
    BY <1>d, <2>1, <2>2
  <2>6. /\ calls' \in SUBSET Call
        /\ Shaped(calls', rec', content) /\ Waits(calls', attempt, screen, told, sd)
        /\ Rejections(calls', told, sd) /\ Certain(calls', screen, sd)
    <3>1. sd = sold \/ (c.step = "submit" /\ sd = sold \cup {c.recovery})
      BY <2>1
    <3>2. (kind = "prepared" => rec'[c.id] # None) /\ (kind = "sale" => c.recovery # None)
      BY <1>b, <2>1, <2>2
    <3> QED
      BY <1>0, <2>1, <2>2, <2>4, <2>5, <3>1, <3>2, Answering
  <2> QED
    BY <2>1, <2>2, <2>3, <2>4, <2>6, Served
<1>17. ASSUME NEW c \in calls, Refuse(c) PROVE CheckoutInv'
  <2>1. c.step # "answer" /\ Answered(c, "denied") /\ faults' \in 0 .. MaxFaults
        /\ UNCHANGED <<server, attempt, page, listing, saved, cart, paying, screen, receipt,
                       told, receipts>>
    BY <1>a, <1>17 DEF Refuse
  <2>2. /\ calls' \in SUBSET Call
        /\ Shaped(calls', rec, content) /\ Waits(calls', attempt, screen, told, sold)
        /\ Rejections(calls', told, sold) /\ Certain(calls', screen, sold)
    BY <1>0, <1>d, <2>1, Answering DEF Kinds
  <2>3. listing' = listing
    BY <1>17 DEF Refuse
  <2> QED
    BY <1>0, <2>1, <2>2, <2>3, Served DEF server, CheckoutTypes
<1>18. ASSUME NEW c \in calls, Crash(c) PROVE CheckoutInv'
  <2> DEFINE i == c.recovery
  <2>1. /\ c.step = "submit" /\ c.step # "answer" /\ i \in Ids
        /\ rec[i] \in Blocking /\ rec' = [rec EXCEPT ![i] = "SUBMITTED"]
        /\ sold' \in {sold, sold \cup {i}} /\ Answered(c, "lost") /\ faults' \in 0 .. MaxFaults
        /\ UNCHANGED <<sellable, offers, content, attempt, page, listing, saved, cart, paying,
                       screen, receipt, told, receipts>>
    BY <1>0, <1>a, <1>c, <1>18 DEF Crash, Record, Shaped, Blocking, RecordStates
  <2>2. /\ rec' \in [Ids -> RecordStates \cup {None}]
        /\ Shaped(calls, rec', content) /\ Knows(attempt, screen, saved, rec', content)
        /\ Ledger(rec', content, sold', receipts) /\ sold' \in SUBSET Ids
    <3>1. "SUBMITTED" \in Blocking
      BY DEF Blocking, RecordStates
    <3> HIDE DEF i
    <3> QED
      BY <2>1, <3>1, Kept
  <2>3. /\ calls' \in SUBSET Call
        /\ Shaped(calls', rec', content) /\ Waits(calls', attempt, screen, told, sold')
        /\ Rejections(calls', told, sold') /\ Certain(calls', screen, sold')
    <3>1. sold' = sold \/ (c.step = "submit" /\ sold' = sold \cup {c.recovery})
      BY <2>1
    <3> QED
      BY <1>0, <2>1, <2>2, <3>1, Answering DEF Kinds
  <2> QED
    BY <2>1, <2>2, <2>3, Served
<1>19. ASSUME NEW c \in calls, Lose(c) PROVE CheckoutInv'
  <2> DEFINE lost == [c EXCEPT !.step = "answer", !.answer = "lost"]
             copy == [c EXCEPT !.owner = "nobody"]
  <2>1. /\ c.owner # "nobody" /\ c.answer # "lost" /\ faults' \in 0 .. MaxFaults
        /\ \/ Answered(c, "lost")
           \/ c.step # "answer" /\ calls' = (calls \ {c}) \cup {lost, copy}
        /\ UNCHANGED <<sellable, offers, content, rec, sold, attempt, page, listing, saved, cart,
                       paying, screen, receipt, told, receipts>>
    BY <1>a, <1>19 DEF Lose, Answered, server
  <2>2. c \in Call /\ Waited(c) /\ c.recovery \notin told
        /\ (c.owner = "page" /\ screen # None => screen.uncertain)
        /\ (c.owner # "screen" => c.owner = "page")
    BY <2>1, Delivering
  <2>3. /\ calls' \in SUBSET Call
        /\ Shaped(calls', rec, content) /\ Waits(calls', attempt, screen, told, sold)
        /\ Rejections(calls', told, sold) /\ Certain(calls', screen, sold)
    <3>1. CASE Answered(c, "lost")
      BY <1>0, <3>1, Answering DEF Kinds
    <3>2. CASE c.step # "answer" /\ calls' = (calls \ {c}) \cup {lost, copy}
      <4>1. /\ lost \in Call /\ copy \in Call
            /\ lost.id = c.id /\ lost.recovery = c.recovery /\ lost.sure = c.sure
            /\ lost.owner = c.owner /\ lost.step = "answer" /\ lost.answer = "lost"
            /\ copy.id = c.id /\ copy.recovery = c.recovery /\ copy.sure = c.sure
            /\ copy.owner = "nobody" /\ copy.step = c.step /\ copy.answer = c.answer
        BY <2>2 DEF Call
      <4> HIDE DEF lost, copy
      <4>2. calls' \in SUBSET Call
        BY <1>0, <3>2, <4>1 DEF CheckoutTypes
      <4>3. Shaped(calls', rec, content)
        BY <1>0, <3>2, <4>1 DEF Shaped
      <4>4. \A d \in calls' : Waited(d) => d = lost
        BY <1>0, <2>2, <3>2, <4>1 DEF Waits, Waited
      <4>5. Waits(calls', attempt, screen, told, sold)
        BY <1>0, <2>2, <4>1, <4>4 DEF Waits
      <4>6. \A i \in Ids : Stray(calls', i) => Stray(calls, i) \/ i = c.recovery
        BY <3>2, <4>1 DEF Stray
      <4>7. Rejections(calls', told, sold)
        BY <1>0, <2>2, <4>6 DEF Rejections, CheckoutTypes
      <4>8. Certain(calls', screen, sold)
        BY <2>2, <3>2, <4>1 DEF Certain
      <4> QED
        BY <4>2, <4>3, <4>5, <4>7, <4>8
    <3> QED
      BY <2>1, <3>1, <3>2
  <2>4. sold \in SUBSET Ids /\ rec \in [Ids -> RecordStates \cup {None}]
    BY <1>0 DEF CheckoutTypes
  <2> QED
    BY <1>0, <2>1, <2>3, <2>4, Served
<1>20. ASSUME NEW c \in calls, Prepared(c) PROVE CheckoutInv'
  <2> DEFINE a == Of(c, c.id, "pending")
             n == [c EXCEPT !.recovery = c.id, !.step = "submit", !.answer = "none"]
             these == Rest(c) \cup {n}
  <2>1. /\ c.answer = "prepared" /\ c.owner # "nobody"
        /\ Becomes(a, saved, page, these, screen, paying)
        /\ UNCHANGED <<server, faults, listing, cart, told>>
    BY <1>20 DEF Prepared
  <2>2. /\ n \in Call /\ n.id = c.id /\ n.recovery = c.id /\ n.sure = c.sure
        /\ n.owner = c.owner /\ n.step = "submit" /\ n.answer = "none"
    BY <1>c DEF Call
  <2>3. a \in Attempt /\ a # None /\ a.id = c.id /\ a.recovery = c.id /\ a.state = "pending"
    BY <2>1, Delivering
  <2>4. rec[c.id] # None /\ content[c.id] # None /\ c.id # None
    BY <1>0, <1>b, <1>c, <2>1 DEF Shaped
  <2> HIDE DEF n, a
  <2>5. these \in SUBSET Call /\ Shaped(these, rec, content)
    <3>1. Rest(c) \in SUBSET Call /\ Shaped(Rest(c), rec, content)
      BY <2>1, Delivering, Rests
    <3> QED
      BY <2>2, <2>4, <3>1 DEF Shaped
  <2>6. \A i : Stray(these, i) => Stray(calls, i)
    BY <2>1, <2>2 DEF Stray, Rest
  <2>7. Waits(these, a, screen, told, sold)
    <3>1. \A d \in these : Waited(d) => d = n
      BY <2>1, Delivering, Rests
    <3>2. Is(a, {"pending"})
      BY <2>3 DEF Is
    <3>3. n.sure => ~Stray(these, n.id) /\ n.id \notin sold
      <4>1. c.sure => ~Stray(calls, c.id) /\ c.id \notin sold
        BY <1>0, <2>1, Delivering DEF Waits
      <4> QED
        BY <2>2, <2>6, <4>1
    <3>4. /\ n.id \notin told /\ n.recovery \notin told
          /\ n.owner = "screen" => screen # None /\ screen.command = n.id
                                   /\ n.sure = ~screen.uncertain
          /\ n.owner = "page" /\ screen # None => screen.uncertain
      BY <2>1, <2>2, Delivering
    <3> QED
      BY <2>2, <2>3, <3>1, <3>2, <3>3, <3>4 DEF Waits
  <2>8. Knows(a, screen, saved, rec, content)
    BY <1>0, <2>3, <2>4 DEF Knows
  <2>9. Rejections(these, told, sold)
    BY <1>0, <2>6 DEF Rejections
  <2>10. Certain(these, screen, sold)
    BY <2>1, <2>2, Delivering DEF Certain
  <2>11. ~Is(a, {"completed"}) /\ ~Is(a, {"unknown"})
    BY <2>3 DEF Is
  <2>12. Fits(a, saved, page, these, screen, paying, rec, content, told, sold)
    BY <1>0, <1>b, <2>3, <2>5, <2>7, <2>8, <2>9, <2>10, <2>11 DEF Fits, CheckoutTypes
  <2>13. told' = told /\ cart' \in Contents \cup {None}
    BY <1>0, <2>1 DEF CheckoutTypes
  <2> HIDE DEF these
  <2> QED
    BY <2>1, <2>12, <2>13, Delivered
<1>21. ASSUME NEW c \in calls, Completed(c) PROVE CheckoutInv'
  <2> DEFINE a == Of(c, c.recovery, "completed")
  <2>1. /\ c.answer = "sale" /\ c.owner # "nobody"
        /\ Becomes(a, saved, page, Rest(c), screen, paying)
        /\ UNCHANGED <<server, faults, listing, told>> /\ cart' \in {None, cart}
    BY <1>21 DEF Completed
  <2>2. a \in Attempt /\ a # None /\ a.id = c.id /\ a.recovery = c.recovery
        /\ a.state = "completed"
    BY <2>1, Delivering
  <2>3. c.recovery # None
    BY <1>0, <2>1 DEF Shaped
  <2> HIDE DEF a
  <2>4. /\ Rest(c) \in SUBSET Call /\ Shaped(Rest(c), rec, content)
        /\ Waits(Rest(c), a, screen, told, sold) /\ Rejections(Rest(c), told, sold)
    BY <2>1, Delivering, Rests
  <2>5. Knows(a, screen, saved, rec, content)
    BY <1>0, <2>1, <2>2, Delivering DEF Knows
  <2>6. Certain(Rest(c), screen, sold) \/ (a # None /\ Finishes(a, page))
    <3>1. Is(a, {"completed"}) /\ a # attempt
      BY <2>1, <2>2, Delivering DEF Is
    <3>2. page = "away" => screen = None
      BY <2>1, Delivering
    <3> QED
      BY <2>2, <3>1, <3>2 DEF Finishes, Certain
  <2>7. ~Is(a, {"unknown"})
    BY <2>2 DEF Is
  <2>8. Fits(a, saved, page, Rest(c), screen, paying, rec, content, told, sold)
    BY <1>0, <1>b, <2>2, <2>3, <2>4, <2>5, <2>6, <2>7 DEF Fits, CheckoutTypes
  <2>9. told' = told /\ cart' \in Contents \cup {None}
    BY <1>0, <2>1 DEF CheckoutTypes
  <2> QED
    BY <2>1, <2>8, <2>9, Delivered
<1>22. ASSUME NEW c \in calls, Rejected(c) PROVE CheckoutInv'
  <2> DEFINE here == c.owner = "screen"
             at == IF here /\ c.answer = "denied" THEN "denied" ELSE page
             review == paying /\ ~(here /\ c.answer # "retry")
  <2>1. /\ c.owner # "nobody" /\ c.sure /\ c.answer \in {"conflict", "retry", "blocked", "denied"}
        /\ Becomes(None, saved, at, Rest(c), screen, review)
        /\ UNCHANGED <<server, faults, listing>> /\ cart' \in {None, cart, sellable}
        /\ told' \in {told, told \cup ({c.id, c.recovery} \ {None})}
    BY <1>22 DEF Rejected, KnownRejected
  <2>2. told' \in {told, told \cup {c.id}}
    <3>1. c.recovery \in {None, c.id} /\ c.id # None
      BY <1>0, <1>b, <1>c, <2>1 DEF Shaped
    <3> QED
      BY <2>1, <3>1
  <2>3. ~Stray(calls, c.id) /\ c.id \notin sold
    BY <1>0, <2>1, Delivering DEF Waits
  <2>4. /\ Rest(c) \in SUBSET Call /\ Shaped(Rest(c), rec, content)
        /\ Waits(Rest(c), None, screen, told', sold) /\ Rejections(Rest(c), told', sold)
        /\ \A i : Stray(Rest(c), i) => Stray(calls, i)
    <3>1. /\ Rest(c) \in SUBSET Call /\ Shaped(Rest(c), rec, content)
          /\ Waits(Rest(c), None, screen, told, sold)
          /\ Waits(Rest(c), None, screen, told \cup {c.id}, sold)
          /\ Rejections(Rest(c), told, sold)
          /\ \A i : Stray(Rest(c), i) => Stray(calls, i)
      BY <2>1, Delivering, Rests
    <3> QED
      BY <2>2, <2>3, <3>1 DEF Rejections
  <2>5. Knows(None, screen, saved, rec, content)
    BY <1>0 DEF Knows
  <2>6. Certain(Rest(c), screen, sold)
    BY <2>1, <2>3, <2>4, Delivering DEF Certain
  <2>7. at = page \/ (page # "away" /\ at # "away")
    BY <2>1, Delivering
  <2>8. at \in {"away", "loading", "ready", "denied"} /\ review \in BOOLEAN
        /\ told' \in SUBSET Ids
    BY <1>0, <1>c, <2>2 DEF CheckoutTypes
  <2> HIDE DEF at, review
  <2>9. Fits(None, saved, at, Rest(c), screen, review, rec, content, told', sold)
    BY <1>0, <1>b, <2>4, <2>5, <2>6, <2>7, <2>8 DEF Fits, CheckoutTypes, Is
  <2>10. cart' \in Contents \cup {None}
    BY <1>0, <2>1 DEF CheckoutTypes
  <2> QED
    BY <2>1, <2>9, <2>10, Delivered
<1>23. ASSUME NEW c \in calls, Uncertain(c) PROVE CheckoutInv'
  <2> DEFINE a == Of(c, Recovery, "unknown")
             s == IF c.owner = "screen" THEN [screen EXCEPT !.uncertain = TRUE] ELSE screen
  <2>1. /\ c.owner # "nobody"
        /\ Becomes(a, saved, page, Rest(c), s, paying)
        /\ UNCHANGED <<server, faults, listing, cart, told>>
    BY <1>23 DEF Uncertain
  <2>2. a \in Attempt /\ a # None /\ a.id = c.id /\ a.recovery = c.recovery
        /\ a.state = "unknown"
    BY <2>1, Delivering
  <2>3. /\ s \in Screen \cup {None}
        /\ s # None => s.uncertain /\ s.command # None /\ content[s.command] # None
    <3>1. CASE c.owner = "screen"
      <4>1. screen \in Screen /\ screen.command = c.id /\ content[c.id] # None /\ c.id # None
        BY <1>0, <1>b, <1>c, <2>1, <3>1, Delivering DEF CheckoutTypes
      <4>2. s = [screen EXCEPT !.uncertain = TRUE]
        BY <3>1
      <4> QED
        BY <4>1, <4>2 DEF Screen
    <3>2. CASE c.owner # "screen"
      BY <1>0, <2>1, <3>2, Delivering DEF Knows, CheckoutTypes
    <3> QED
      BY <3>1, <3>2
  <2> HIDE DEF a, s
  <2>4. /\ Rest(c) \in SUBSET Call /\ Shaped(Rest(c), rec, content)
        /\ Waits(Rest(c), a, s, told, sold) /\ Rejections(Rest(c), told, sold)
    BY <2>1, Delivering, Rests
  <2>5. Knows(a, s, saved, rec, content)
    BY <1>0, <2>1, <2>2, <2>3, Delivering DEF Knows
  <2>6. Certain(Rest(c), s, sold)
    BY <2>3 DEF Certain
  <2>7. ~Is(a, {"completed"})
    BY <2>2 DEF Is
  <2>8. Fits(a, saved, page, Rest(c), s, paying, rec, content, told, sold)
    BY <1>0, <1>b, <2>2, <2>3, <2>4, <2>5, <2>6, <2>7 DEF Fits, CheckoutTypes
  <2>9. told' = told /\ cart' \in Contents \cup {None}
    BY <1>0, <2>1 DEF CheckoutTypes
  <2> QED
    BY <2>1, <2>8, <2>9, Delivered
<1>24. ASSUME NEW c \in calls, Dropped(c) PROVE CheckoutInv'
  <2>1. /\ c.owner = "nobody" /\ calls' = Rest(c)
        /\ UNCHANGED <<sellable, offers, content, rec, sold, faults, attempt, page, listing,
                       saved, cart, paying, screen, receipt, told, receipts>>
    BY <1>24 DEF Dropped, server
  <2>2. /\ Shaped(Rest(c), rec, content) /\ Waits(Rest(c), attempt, screen, told, sold)
        /\ Rejections(Rest(c), told, sold) /\ Certain(Rest(c), screen, sold)
    BY <1>0, <2>1, Fewer DEF Waited
  <2>3. /\ Rest(c) \in SUBSET Call /\ sold \in SUBSET Ids /\ faults \in 0 .. MaxFaults
        /\ rec \in [Ids -> RecordStates \cup {None}]
    BY <1>0 DEF Rest, CheckoutTypes
  <2> QED
    BY <1>0, <2>1, <2>2, <2>3, Served
<1>25. CASE UNCHANGED vars
  BY <1>0, <1>25 DEF vars, server, CheckoutInv, CheckoutTypes
<1> QED
  BY <1>1, <1>2, <1>3, <1>4, <1>5, <1>6, <1>7, <1>8, <1>9, <1>10, <1>11, <1>12, <1>13, <1>14,
     <1>15, <1>16, <1>17, <1>18, <1>19, <1>20, <1>21, <1>22, <1>23, <1>24, <1>25
  DEF Next, Serve, Deliver

\* The invariant holds before the first payment.
LEMMA InitCheckout == Init => CheckoutInv
<1> SUFFICES ASSUME Init PROVE CheckoutInv
  OBVIOUS
<1>1. CheckoutTypes
  <2>1. offers \in 0 .. MaxOffers /\ faults \in 0 .. MaxFaults
    BY BoundsAssumption DEF Init
  <2>2. {} \in SUBSET Ids /\ {} \in SUBSET Call /\ {} \in SUBSET Saved
    OBVIOUS
  <2>3. content \in [Ids -> Contents \cup {None}] /\ rec \in [Ids -> RecordStates \cup {None}]
    BY DEF Init
  <2> QED
    BY <2>1, <2>2, <2>3 DEF Init, CheckoutTypes
<1>2. InOrder(content)
  BY BoundsAssumption DEF Init, InOrder, Ids
<1>3. Ledger(rec, content, sold, receipts)
  BY NoneIsNoState DEF Init, Ledger, Blocking, RecordStates
<1> QED
  BY <1>1, <1>2, <1>3 DEF Init, CheckoutInv, Shaped, Waits, Knows, Sees, Mounted, Is, Rejections,
     Certain

\* The variables of the payment screen, its stored attempt, its calls and the recovery
\* records of the server keep their shapes, and one screen at most waits for an answer
\* (payment-confirmation.tsx, checkout-attempt.ts, command-recovery.service.ts).
THEOREM CheckoutIsTyped == Spec => []TypeOK
<1>1. CheckoutInv => TypeOK
  <2> SUFFICES ASSUME CheckoutInv PROVE TypeOK
    OBVIOUS
  <2> DEFINE own == {c \in calls : c.owner = "screen"}
  <2>1. \A c, d \in own : c = d
    BY DEF CheckoutInv, Waits, Waited
  <2>2. own = {} \/ \E c : own = {c}
    BY <2>1
  <2> HIDE DEF own
  <2>3. Cardinality(own) \in {0, 1}
    <3>1. CASE own = {}
      BY <3>1, FS_EmptySet
    <3>2. ASSUME NEW c, own = {c} PROVE Cardinality(own) \in {0, 1}
      BY <3>2, FS_Singleton
    <3> QED
      BY <2>2, <3>1, <3>2
  <2>4. screen # None <=> Mounted(attempt, page)
    BY DEF CheckoutInv, Sees
  <2>5. Mounted(attempt, page) \in BOOLEAN /\ (screen # None) \in BOOLEAN
    BY DEF Mounted, Is
  <2> QED
    BY <2>3, <2>4, <2>5 DEF TypeOK, CheckoutInv, CheckoutTypes, own
<1> QED
  BY <1>1, InitCheckout, StepCheckout, PTL DEF Spec

\* A checkout the cashier was told was rejected (knownRejected of submit() in
\* payment-confirmation.tsx) has no sale, and no request that is still under way can
\* make one, whatever calls were lost, repeated or abandoned before.
THEOREM RejectedStaysUnsold == Spec => []RejectedIsUnsold
<1>1. CheckoutInv => RejectedIsUnsold
  BY DEF CheckoutInv, Rejections, RejectedIsUnsold
<1> QED
  BY <1>1, InitCheckout, StepCheckout, PTL DEF Spec

\* A sale is recorded by a submission alone, for the one open record; every other sale
\* has a closed record, and a record is closed from its receipt.
LEMMA StepSeen ==
  CheckoutInv /\ [Next]_vars => [\A i \in sold' \ sold : sold \subseteq receipts]_vars
<1> SUFFICES ASSUME CheckoutInv, [Next]_vars, NEW i \in sold' \ sold, NEW j \in sold
             PROVE  j \in receipts
  OBVIOUS
<1>1. PICK c \in calls : SubmitRecord(c) \/ Crash(c)
  BY DEF Next, Serve, Deliver, Enter, BranchArrives, RecoveriesArrive, RecoveriesFail, Leave,
     Reload, AccessDenied, RetryAccess, Review, Close, Submit, CloseReceipt, Fill, Offer, Prepare,
     Prepared, Completed, Rejected, Uncertain, Refuse, Lose, Dropped, vars, server
<1>2. c.step = "submit" /\ i = c.recovery /\ rec[i] # "ACKNOWLEDGED"
  BY <1>1 DEF SubmitRecord, Crash
<1>3. i \in Ids /\ j \in Ids /\ rec[i] \in Blocking /\ rec[j] # None
  <2>1. c.recovery \in Ids \cup {None} /\ c.recovery # None /\ rec[c.recovery] # None
    BY <1>2 DEF CheckoutInv, CheckoutTypes, Shaped, Call
  <2>2. j \in Ids /\ rec[j] # None
    BY DEF CheckoutInv, CheckoutTypes, Ledger
  <2> QED
    BY <1>2, <2>1, <2>2 DEF CheckoutInv, CheckoutTypes, Blocking
<1>4. rec[j] \notin Blocking
  BY <1>3 DEF CheckoutInv, Ledger
<1>5. rec[j] = "ACKNOWLEDGED"
  BY <1>3, <1>4 DEF CheckoutInv, CheckoutTypes, Blocking
<1> QED
  BY <1>3, <1>5 DEF CheckoutInv, Ledger

\* No sale is recorded while the cashier has not seen the receipt of an earlier one
\* (the blocking records of prepare() in command-recovery.service.ts, and
\* closeCompletedSale of branch-pos.tsx).
THEOREM EarlierSalesWereSeen == Spec => EarlierSalesSeen
<1>1. CheckoutInv /\ [Next]_vars => [\A i \in sold' \ sold : sold \subseteq receipts]_vars
  BY StepSeen
<1> QED
  BY <1>1, InitCheckout, StepCheckout, PTL DEF Spec, EarlierSalesSeen

-----------------------------------------------------------------------------
(* The cart. *)

\* What was in flight when access was denied is of an earlier generation.
DeniedInv ==
  /\ generation \in Nat
  /\ \A sent \in more : sent.generation \in Nat /\ sent.generation <= generation
  /\ \A l \in lookups : l.generation \in Nat /\ l.generation <= generation
  /\ access = "denied" =>
       /\ lines = Cart!EmptyCart /\ shown = {} /\ cursor = None /\ choices = None
       /\ ~reviewing /\ ~reading
       /\ \A sent \in more : sent.generation < generation
       /\ \A l \in lookups : l.generation < generation

\* Nothing is denied or in flight at first.
LEMMA InitDenied == Cart!Init => DeniedInv
BY DEF Cart!Init, DeniedInv

\* Every step of the cart keeps it: denying access begins a generation.
LEMMA StepDenied == DeniedInv /\ [Cart!Next]_Cart!vars => DeniedInv'
<1> SUFFICES ASSUME DeniedInv, [Cart!Next]_Cart!vars PROVE DeniedInv'
  OBVIOUS
<1> USE DEF DeniedInv
<1>1. ASSUME NEW s \in Queries, Cart!Type(s) PROVE DeniedInv'
  BY <1>1 DEF Cart!Type, Cart!Effect, Cart!Search, Cart!Cancel, Cart!Searches, Cart!entry,
     Cart!catalog
<1>2. CASE Cart!Settle
  BY <1>2 DEF Cart!Settle, Cart!Effect, Cart!Search, Cart!Cancel, Cart!Searches, Cart!entry,
     Cart!catalog
<1>3. CASE Cart!SearchArrives
  BY <1>3 DEF Cart!SearchArrives, Cart!entry, Cart!catalog
<1>4. CASE Cart!SearchFails
  BY <1>4 DEF Cart!SearchFails, Cart!entry, Cart!catalog
<1>5. CASE Cart!RetrySearch
  BY <1>5 DEF Cart!RetrySearch, Cart!Effect, Cart!Search, Cart!Cancel, Cart!Searches,
     Cart!entry, Cart!catalog
<1>6. CASE Cart!LoadMore
  BY <1>6 DEF Cart!LoadMore, Cart!entry, Cart!catalog
<1>7. ASSUME NEW sent \in more, Cart!MoreArrives(sent) PROVE DeniedInv'
  BY <1>7 DEF Cart!MoreArrives, Cart!StillCurrent, Cart!entry, Cart!catalog
<1>8. ASSUME NEW s \in shown, Cart!AddShown(s) PROVE DeniedInv'
  BY <1>8 DEF Cart!AddShown, Cart!Locked, Cart!entry, Cart!catalog
<1>9. ASSUME NEW p \in Products, Cart!RemoveLine(p) PROVE DeniedInv'
  BY <1>9 DEF Cart!RemoveLine, Cart!Locked, Cart!entry, Cart!catalog
<1>10. ASSUME NEW p \in Products, NEW n \in 0 .. MaxStock, Cart!ChangeQuantity(p, n)
       PROVE  DeniedInv'
  BY <1>10 DEF Cart!ChangeQuantity, Cart!Locked, Cart!entry, Cart!catalog
<1>11. CASE Cart!AskClear
  BY <1>11 DEF Cart!AskClear, Cart!Locked, Cart!entry, Cart!catalog
<1>12. ASSUME NEW sure \in BOOLEAN, Cart!Clear(sure) PROVE DeniedInv'
  BY <1>12 DEF Cart!Clear, Cart!entry, Cart!catalog
<1>13. ASSUME NEW code \in Codes, Cart!Lookup(code) PROVE DeniedInv'
  BY <1>13 DEF Cart!Lookup, Cart!Locked, Cart!NewGeneration, Cart!entry, Cart!catalog
<1>14. ASSUME NEW l \in lookups, Cart!LookupArrives(l) PROVE DeniedInv'
  BY <1>14 DEF Cart!LookupArrives, Cart!entry, Cart!catalog
<1>15. ASSUME NEW l \in lookups, Cart!LookupFails(l) PROVE DeniedInv'
  BY <1>15 DEF Cart!LookupFails, Cart!entry, Cart!catalog
<1>16. ASSUME choices # None, NEW c \in choices, Cart!Choose(c) PROVE DeniedInv'
  BY <1>16 DEF Cart!Choose, Cart!entry, Cart!catalog
<1>17. CASE Cart!Dismiss
  BY <1>17 DEF Cart!Dismiss, Cart!entry, Cart!catalog
<1>18. CASE Cart!Review
  BY <1>18 DEF Cart!Review, Cart!Locked, Cart!Effect, Cart!Search, Cart!Cancel, Cart!Searches,
     Cart!entry, Cart!catalog
<1>19. CASE Cart!Return
  BY <1>19 DEF Cart!Return, Cart!ClosePayment, Cart!Effect, Cart!Search, Cart!Cancel,
     Cart!Searches, Cart!entry, Cart!catalog
<1>20. CASE Cart!Complete
  BY <1>20 DEF Cart!Complete, Cart!ClosePayment, Cart!Effect, Cart!Search, Cart!Cancel,
     Cart!Searches, Cart!entry, Cart!catalog
<1>21. CASE Cart!ParticipationIssue
  BY <1>21 DEF Cart!ParticipationIssue, Cart!ClosePayment, Cart!Effect, Cart!Search,
     Cart!Cancel, Cart!Searches, Cart!entry, Cart!catalog
<1>22. ASSUME NEW p \in Products, Cart!PriceIssue(p) PROVE DeniedInv'
  BY <1>22 DEF Cart!PriceIssue, Cart!ClosePayment, Cart!Effect, Cart!Search, Cart!Cancel,
     Cart!Searches, Cart!entry, Cart!catalog
<1>23. ASSUME NEW p \in Products, Cart!StockIssue(p) PROVE DeniedInv'
  BY <1>23 DEF Cart!StockIssue, Cart!ClosePayment, Cart!Effect, Cart!Search, Cart!Cancel,
     Cart!Searches, Cart!entry, Cart!catalog
<1>24. CASE Cart!AccessDenied
  BY <1>24 DEF Cart!AccessDenied, Cart!Deny, Cart!Forget, Cart!Invalidate, Cart!NewGeneration,
     Cart!entry, Cart!catalog
<1>25. CASE Cart!BranchArrives
  BY <1>25 DEF Cart!BranchArrives, Cart!Effect, Cart!Search, Cart!Cancel, Cart!Searches,
     Cart!entry, Cart!catalog
<1>26. CASE Cart!BranchFails
  BY <1>26 DEF Cart!BranchFails, Cart!entry, Cart!catalog
<1>27. CASE Cart!RetryBranch
  BY <1>27 DEF Cart!RetryBranch, Cart!entry, Cart!catalog
<1>28. CASE Cart!ToHistory
  BY <1>28 DEF Cart!ToHistory, Cart!Invalidate, Cart!NewGeneration
<1>29. CASE Cart!ToCart
  BY <1>29 DEF Cart!ToCart, Cart!Effect, Cart!Search, Cart!Cancel, Cart!Searches, Cart!entry,
     Cart!catalog
<1>30. CASE Cart!AskLeave
  BY <1>30 DEF Cart!AskLeave, Cart!entry, Cart!catalog
<1>31. CASE Cart!Stay
  BY <1>31 DEF Cart!Stay, Cart!entry, Cart!catalog
<1>32. CASE Cart!Leave
  BY <1>32 DEF Cart!Leave, Cart!Forget
<1>33. ASSUME NEW p \in Products, NEW o \in Cart!Placement, Cart!Offer(p, o) PROVE DeniedInv'
  BY <1>33 DEF Cart!Offer, Cart!entry, Cart!catalog
<1>34. CASE UNCHANGED Cart!vars
  BY <1>34 DEF Cart!vars
<1> QED
  BY <1>1, <1>2, <1>3, <1>4, <1>5, <1>6, <1>7, <1>8, <1>9, <1>10, <1>11, <1>12, <1>13, <1>14,
     <1>15, <1>16, <1>17, <1>18, <1>19, <1>20, <1>21, <1>22, <1>23, <1>24, <1>25, <1>26, <1>27,
     <1>28, <1>29, <1>30, <1>31, <1>32, <1>33, <1>34 DEF Cart!Next
-----------------------------------------------------------------------------
\* The sets the variables of the cart take their values from.
Offered == [Products -> Cart!Placement]
Carts == [Products -> Cart!Line \cup {None}]
Rows == SUBSET Cart!Shown
Cursors == Cart!Cursor \cup {None}
Continuations == SUBSET Cart!Sent
Choices == {None} \cup SUBSET [product : Products, placement : Cart!Placement]
Lookups == SUBSET [code : Codes, generation : 0 .. MaxGeneration]
Generations == 0 .. MaxGeneration
Offers == 0 .. MaxOffers

\* PosCart's TypeOK, one conjunct per variable.
CartTypes ==
  /\ offered \in Offered /\ changes \in Offers
  /\ access \in {"checking", "ready", "failed", "denied"}
  /\ tab \in {"cart", "history"}
  /\ typed \in Queries /\ q \in Queries
  /\ reading \in BOOLEAN /\ loading \in BOOLEAN /\ moreBusy \in BOOLEAN
  /\ lookupBusy \in BOOLEAN /\ clearing \in BOOLEAN /\ reviewing \in BOOLEAN
  /\ cartReady \in BOOLEAN /\ leaving \in BOOLEAN
  /\ shown \in Rows /\ cursor \in Cursors /\ more \in Continuations
  /\ lookups \in Lookups /\ choices \in Choices /\ generation \in Generations
  /\ lines \in Carts
  /\ reading => loading

\* The empty values of the cart have their types.
LEMMA EmptyTyped ==
  ASSUME Cart!Bounds
  PROVE  /\ {} \in Rows /\ {} \in Continuations /\ {} \in Lookups
         /\ None \in Cursors /\ None \in Choices /\ Cart!EmptyCart \in Carts
         /\ 0 \in Generations
         /\ (CHOOSE s \in Queries : TRUE) \in Queries
         /\ \A g \in Generations : g < MaxGeneration => g + 1 \in Generations
BY DEF Rows, Continuations, Lookups, Cursors, Choices, Carts, Generations, Cart!EmptyCart,
   Cart!Bounds

\* A page of results, and the cursor after it, have their types.
LEMMA PageTyped ==
  ASSUME Cart!Bounds, CartTypes, NEW s \in Queries, NEW n \in Nat \ {0}
  PROVE  /\ Cart!Page(s, n) \in Rows
         /\ Cart!CursorAfter(s, n) \in Cursors
<1>1. Results[s] \in Seq(Products) /\ Len(Results[s]) \in Nat
  BY DEF Cart!Bounds
<1>2. n <= Len(Results[s]) => Results[s][n] \in Products
  BY <1>1
<1> QED
  BY <1>1, <1>2 DEF CartTypes, Rows, Cursors, Offered, Cart!Page, Cart!CursorAfter, Cart!Shown,
     Cart!Cursor

\* A line is added at the price of the product it is added from, and to a line
\* that is there only at the price of that line.
LEMMA AddedTyped ==
  ASSUME Cart!Bounds, CartTypes, NEW p \in Products, NEW o \in Cart!Placement,
         Cart!Addable(p, o)
  PROVE  /\ Cart!Added(p, o) \in Carts
         /\ \A x \in Products : lines[x] # None => Cart!Added(p, o)[x].price = lines[x].price
<1> DEFINE n == IF lines[p] = None THEN 1 ELSE lines[p].quantity + 1
           line == [price |-> o.price, available |-> o.available,
                    eligible |-> o.eligible, quantity |-> n, input |-> n]
<1>1. lines \in [Products -> Cart!Line \cup {None}]
  BY DEF CartTypes, Carts
<1>2. o.price \in 1 .. MaxPrice /\ o.available \in 0 .. MaxStock /\ o.eligible \in BOOLEAN
  BY DEF Cart!Placement
<1>3. n \in 1 .. MaxStock
  <2>1. CASE lines[p] = None
    BY <2>1 DEF Cart!Bounds
  <2>2. CASE lines[p] # None
    <3>1. lines[p].quantity \in 1 .. MaxStock
      BY <1>1, <2>2 DEF Cart!Line
    <3> QED
      BY <1>2, <2>2, <3>1 DEF Cart!Addable, Cart!Bounds
  <2> QED
    BY <2>1, <2>2
<1>4. line \in Cart!Line
  <2> HIDE DEF n
  <2> QED
    BY <1>2, <1>3 DEF Cart!Line, Cart!Bounds
<1>5. Cart!Added(p, o) = [lines EXCEPT ![p] = line]
  BY DEF Cart!Added
<1> HIDE DEF line
<1>6. lines[p] # None => line.price = lines[p].price
  BY DEF line, Cart!Addable
<1> QED
  BY <1>1, <1>4, <1>5, <1>6 DEF Carts

\* Every step of the cart keeps the types.
LEMMA StepCartTypes ==
  ASSUME Cart!Bounds, CartTypes, [Cart!Next]_Cart!vars PROVE CartTypes'
<1> USE DEF CartTypes
<1>1. ASSUME NEW s \in Queries, Cart!Type(s) PROVE CartTypes'
  <2>1. s \in Queries /\ typed' = s
    BY <1>1 DEF Cart!Type
  <2> QED
    BY <1>1, <2>1, EmptyTyped DEF Cart!Type, Cart!Effect, Cart!Search, Cart!Cancel,
       Cart!Searches, Cart!entry, Cart!catalog
<1>2. CASE Cart!Settle
  BY <1>2, EmptyTyped DEF Cart!Settle, Cart!Effect, Cart!Search, Cart!Cancel, Cart!Searches,
     Cart!entry, Cart!catalog
<1>3. CASE Cart!SearchArrives
  <2>1. 1 \in Nat \ {0}
    OBVIOUS
  <2> QED
    BY <1>3, <2>1, PageTyped DEF Cart!SearchArrives, Cart!entry
<1>4. CASE Cart!SearchFails
  BY <1>4, EmptyTyped DEF Cart!SearchFails, Cart!entry, Cart!catalog
<1>5. CASE Cart!RetrySearch
  BY <1>5, EmptyTyped DEF Cart!RetrySearch, Cart!Effect, Cart!Search, Cart!Cancel,
     Cart!Searches, Cart!entry, Cart!catalog
<1>6. CASE Cart!LoadMore
  <2>1. more' \in Continuations
    BY <1>6 DEF Cart!LoadMore, Continuations, Cursors, Generations, Cart!Sent
  <2> QED
    BY <1>6, <2>1 DEF Cart!LoadMore, Cart!entry
<1>7. ASSUME NEW sent \in more, Cart!MoreArrives(sent) PROVE CartTypes'
  <2>1. sent \in Cart!Sent /\ sent.query \in Queries /\ sent.cursor.page \in Nat \ {0}
    BY <1>7 DEF Cart!MoreArrives, Cart!Sent, Cart!Cursor, Continuations
  <2>2. Cart!Appends(Cart!Page(sent.query, sent.cursor.page)) \in Rows
    BY <2>1, PageTyped DEF Cart!Appends, Rows
  <2>3. more' \in Continuations
    BY <1>7 DEF Cart!MoreArrives, Continuations
  <2> QED
    BY <1>7, <2>1, <2>2, <2>3, PageTyped DEF Cart!MoreArrives, Cart!entry
<1>8. ASSUME NEW s \in shown, Cart!AddShown(s) PROVE CartTypes'
  <2>1. s.product \in Products /\ s.placement \in Cart!Placement
    BY <1>8 DEF Cart!AddShown, Rows, Cart!Shown
  <2> QED
    BY <1>8, <2>1, AddedTyped DEF Cart!AddShown, Cart!catalog, Cart!entry
<1>9. ASSUME NEW p \in Products, Cart!RemoveLine(p) PROVE CartTypes'
  <2>1. lines' \in Carts
    BY <1>9 DEF Cart!RemoveLine, Carts
  <2> QED
    BY <1>9, <2>1 DEF Cart!RemoveLine, Cart!catalog, Cart!entry
<1>10. ASSUME NEW p \in Products, NEW n \in 0 .. MaxStock, Cart!ChangeQuantity(p, n)
       PROVE  CartTypes'
  <2> DEFINE quantity == IF n \in 1 .. lines[p].available THEN n ELSE lines[p].quantity
  <2>1. lines[p] \in Cart!Line
    BY <1>10 DEF Cart!ChangeQuantity, Carts
  <2>2. quantity \in 1 .. MaxStock
    BY <2>1 DEF Cart!Line, Cart!Bounds
  <2>3. lines' = [lines EXCEPT ![p].input = n, ![p].quantity = quantity]
    BY <1>10 DEF Cart!ChangeQuantity
  <2> HIDE DEF quantity
  <2>4. lines' \in Carts
    BY <2>1, <2>2, <2>3 DEF Carts, Cart!Line
  <2> QED
    BY <1>10, <2>4 DEF Cart!ChangeQuantity, Cart!catalog, Cart!entry
<1>11. CASE Cart!AskClear
  BY <1>11, EmptyTyped DEF Cart!AskClear, Cart!entry, Cart!catalog
<1>12. ASSUME NEW sure \in BOOLEAN, Cart!Clear(sure) PROVE CartTypes'
  BY <1>12, EmptyTyped DEF Cart!Clear, Cart!entry, Cart!catalog
<1>13. ASSUME NEW code \in Codes, Cart!Lookup(code) PROVE CartTypes'
  <2>1. generation + 1 \in Generations
    BY <1>13, EmptyTyped DEF Cart!Lookup
  <2>2. lookups' \in Lookups
    BY <1>13, <2>1 DEF Cart!Lookup, Lookups, Generations
  <2> QED
    BY <1>13, <2>1, <2>2 DEF Cart!Lookup, Cart!NewGeneration, Cart!catalog
<1>14. ASSUME NEW l \in lookups, Cart!LookupArrives(l) PROVE CartTypes'
  <2>1. l.code \in Codes /\ Matches[l.code] \subseteq Products
    BY <1>14 DEF Lookups, Cart!Bounds
  <2>2. ASSUME NEW p \in Products PROVE offered[p] \in Cart!Placement
    BY DEF Offered
  <2>3. lines' \in Carts
    BY <1>14, <2>1, <2>2, AddedTyped DEF Cart!LookupArrives
  <2>4. choices' \in Choices
    BY <1>14, <2>1, <2>2 DEF Cart!LookupArrives, Choices
  <2>5. lookups' \in Lookups
    BY <1>14 DEF Cart!LookupArrives, Lookups
  <2> QED
    BY <1>14, <2>3, <2>4, <2>5 DEF Cart!LookupArrives, Cart!catalog
<1>15. ASSUME NEW l \in lookups, Cart!LookupFails(l) PROVE CartTypes'
  <2>1. lookups' \in Lookups
    BY <1>15 DEF Cart!LookupFails, Lookups
  <2> QED
    BY <1>15, <2>1 DEF Cart!LookupFails, Cart!catalog
<1>16. ASSUME choices # None, NEW c \in choices, Cart!Choose(c) PROVE CartTypes'
  <2>1. c.product \in Products /\ c.placement \in Cart!Placement
    BY <1>16 DEF Choices
  <2>2. lines' \in Carts
    BY <1>16, <2>1, AddedTyped DEF Cart!Choose
  <2> QED
    BY <1>16, <2>2, EmptyTyped DEF Cart!Choose, Cart!catalog
<1>17. CASE Cart!Dismiss
  BY <1>17, EmptyTyped DEF Cart!Dismiss, Cart!entry, Cart!catalog
<1>18. CASE Cart!Review
  BY <1>18, EmptyTyped DEF Cart!Review, Cart!Effect, Cart!Search, Cart!Cancel, Cart!Searches,
     Cart!entry, Cart!catalog
<1>19. CASE Cart!Return
  BY <1>19, EmptyTyped DEF Cart!Return, Cart!Effect, Cart!Search, Cart!Cancel, Cart!Searches,
     Cart!entry, Cart!catalog, Cart!ClosePayment
<1>20. CASE Cart!Complete
  BY <1>20, EmptyTyped DEF Cart!Complete, Cart!Effect, Cart!Search, Cart!Cancel, Cart!Searches,
     Cart!entry, Cart!catalog, Cart!ClosePayment
<1>21. CASE Cart!ParticipationIssue
  <2>1. ASSUME NEW p \in Products, lines[p] # None
        PROVE  [lines[p] EXCEPT !.eligible = FALSE] \in Cart!Line
    BY <2>1 DEF Carts, Cart!Line
  <2>2. lines' \in Carts
    BY <1>21, <2>1 DEF Cart!ParticipationIssue, Cart!ClosePayment, Carts
  <2> QED
    BY <1>21, <2>2, EmptyTyped DEF Cart!ParticipationIssue, Cart!ClosePayment, Cart!Effect,
       Cart!Search, Cart!Cancel, Cart!Searches, Cart!entry
<1>22. ASSUME NEW p \in Products, Cart!PriceIssue(p) PROVE CartTypes'
  <2>1. lines[p] \in Cart!Line /\ offered[p].price \in 1 .. MaxPrice
    BY <1>22 DEF Cart!PriceIssue, Carts, Offered, Cart!Placement
  <2>2. [lines[p] EXCEPT !.price = offered[p].price] \in Cart!Line
    BY <2>1 DEF Cart!Line
  <2>3. lines' \in Carts
    BY <1>22, <2>2 DEF Cart!PriceIssue, Cart!ClosePayment, Carts
  <2> QED
    BY <1>22, <2>3, EmptyTyped DEF Cart!PriceIssue, Cart!ClosePayment, Cart!Effect,
       Cart!Search, Cart!Cancel, Cart!Searches, Cart!entry
<1>23. ASSUME NEW p \in Products, Cart!StockIssue(p) PROVE CartTypes'
  <2>1. lines[p] \in Cart!Line /\ offered[p].available \in 0 .. MaxStock
    BY <1>23 DEF Cart!StockIssue, Carts, Offered, Cart!Placement
  <2> DEFINE row == [lines[p] EXCEPT !.available = offered[p].available,
                                   !.eligible = offered[p].available > 0]
  <2>2. row \in Cart!Line
    <3>1. (offered[p].available > 0) \in BOOLEAN
      OBVIOUS
    <3> QED
      BY <2>1, <3>1 DEF Cart!Line
  <2>3. lines' = [lines EXCEPT ![p] = row]
    BY <1>23 DEF Cart!StockIssue, Cart!ClosePayment
  <2> HIDE DEF row
  <2>4. lines' \in Carts
    BY <2>2, <2>3 DEF Carts
  <2> QED
    BY <1>23, <2>4, EmptyTyped DEF Cart!StockIssue, Cart!ClosePayment, Cart!Effect,
       Cart!Search, Cart!Cancel, Cart!Searches, Cart!entry
<1>24. CASE Cart!AccessDenied
  <2>1. generation + 1 \in Generations
    BY <1>24, EmptyTyped DEF Cart!AccessDenied
  <2>2. loading' \in BOOLEAN
    BY <1>24 DEF Cart!AccessDenied, Cart!Deny
  <2> QED
    BY <1>24, <2>1, <2>2, EmptyTyped
    DEF Cart!AccessDenied, Cart!Deny, Cart!Forget, Cart!Invalidate, Cart!NewGeneration
<1>25. CASE Cart!BranchArrives
  BY <1>25, EmptyTyped DEF Cart!BranchArrives, Cart!Effect, Cart!Search, Cart!Cancel,
     Cart!Searches, Cart!entry, Cart!catalog
<1>26. CASE Cart!BranchFails
  BY <1>26, EmptyTyped DEF Cart!BranchFails, Cart!entry, Cart!catalog
<1>27. CASE Cart!RetryBranch
  BY <1>27, EmptyTyped DEF Cart!RetryBranch, Cart!entry, Cart!catalog
<1>28. CASE Cart!ToHistory
  BY <1>28, EmptyTyped DEF Cart!ToHistory, Cart!entry, Cart!catalog, Cart!Invalidate,
     Cart!NewGeneration
<1>29. CASE Cart!ToCart
  BY <1>29, EmptyTyped DEF Cart!ToCart, Cart!Effect, Cart!Search, Cart!Cancel, Cart!Searches,
     Cart!entry, Cart!catalog
<1>30. CASE Cart!AskLeave
  BY <1>30, EmptyTyped DEF Cart!AskLeave, Cart!entry, Cart!catalog
<1>31. CASE Cart!Stay
  BY <1>31, EmptyTyped DEF Cart!Stay, Cart!entry, Cart!catalog
<1>32. CASE Cart!Leave
  BY <1>32, EmptyTyped DEF Cart!Leave, Cart!entry, Cart!catalog, Cart!Forget
<1>33. ASSUME NEW p \in Products, NEW o \in Cart!Placement, Cart!Offer(p, o) PROVE CartTypes'
  <2>1. offered' \in Offered /\ changes' \in Offers
    BY <1>33 DEF Cart!Offer, Offered, Offers, Cart!Bounds
  <2> QED
    BY <1>33, <2>1 DEF Cart!Offer, Cart!catalog, Cart!entry
<1>34. CASE UNCHANGED Cart!vars
  BY <1>34 DEF Cart!vars
<1> QED
  BY <1>1, <1>2, <1>3, <1>4, <1>5, <1>6, <1>7, <1>8, <1>9, <1>10, <1>11, <1>12, <1>13, <1>14,
     <1>15, <1>16, <1>17, <1>18, <1>19, <1>20, <1>21, <1>22, <1>23, <1>24, <1>25, <1>26, <1>27,
     <1>28, <1>29, <1>30, <1>31, <1>32, <1>33, <1>34 DEF Cart!Next

\* The first state of the cart is typed.
LEMMA InitCartTypes == ASSUME Cart!Bounds, Cart!Init PROVE CartTypes
<1>1. offered \in Offered /\ changes \in Offers
  BY DEF Cart!Init, Cart!Bounds, Offered, Offers, Cart!Placement
<1> QED
  BY <1>1, EmptyTyped DEF Cart!Init, CartTypes

\* No step of the cart changes the price of a line but the issue the payment reported.
LEMMA StepReviewed ==
  ASSUME Cart!Bounds, CartTypes, [Cart!Next]_Cart!vars PROVE Cart!Reviewed
<1>1. ASSUME NEW s \in Queries, Cart!Type(s) PROVE Cart!Reviewed
  BY <1>1 DEF Cart!Type, Cart!Reviewed
<1>2. CASE Cart!Settle
  BY <1>2 DEF Cart!Settle, Cart!Reviewed
<1>3. CASE Cart!SearchArrives
  BY <1>3 DEF Cart!SearchArrives, Cart!Reviewed
<1>4. CASE Cart!SearchFails
  BY <1>4 DEF Cart!SearchFails, Cart!Reviewed
<1>5. CASE Cart!RetrySearch
  BY <1>5 DEF Cart!RetrySearch, Cart!Reviewed
<1>6. CASE Cart!LoadMore
  BY <1>6 DEF Cart!LoadMore, Cart!Reviewed
<1>7. ASSUME NEW sent \in more, Cart!MoreArrives(sent) PROVE Cart!Reviewed
  BY <1>7 DEF Cart!MoreArrives, Cart!Reviewed
<1>8. ASSUME NEW s \in shown, Cart!AddShown(s) PROVE Cart!Reviewed
  <2>1. s.product \in Products /\ s.placement \in Cart!Placement
    BY <1>8 DEF CartTypes, Cart!AddShown, Rows, Cart!Shown
  <2> QED
    BY <1>8, <2>1, AddedTyped DEF Cart!AddShown, Cart!Reviewed
<1>9. ASSUME NEW p \in Products, Cart!RemoveLine(p) PROVE Cart!Reviewed
  BY <1>9 DEF Cart!RemoveLine, Cart!Reviewed, CartTypes, Carts
<1>10. ASSUME NEW p \in Products, NEW n \in 0 .. MaxStock, Cart!ChangeQuantity(p, n)
       PROVE  Cart!Reviewed
  <2> DEFINE quantity == IF n \in 1 .. lines[p].available THEN n ELSE lines[p].quantity
  <2>1. lines[p] \in Cart!Line /\ lines \in Carts
    BY <1>10 DEF Cart!ChangeQuantity, CartTypes, Carts
  <2>2. lines' = [lines EXCEPT ![p].input = n, ![p].quantity = quantity]
    BY <1>10 DEF Cart!ChangeQuantity
  <2> HIDE DEF quantity
  <2> QED
    BY <2>1, <2>2 DEF Carts, Cart!Line, Cart!Reviewed
<1>11. CASE Cart!AskClear
  BY <1>11 DEF Cart!AskClear, Cart!Reviewed
<1>12. ASSUME NEW sure \in BOOLEAN, Cart!Clear(sure) PROVE Cart!Reviewed
  BY <1>12 DEF Cart!Clear, Cart!Reviewed, Cart!EmptyCart
<1>13. ASSUME NEW code \in Codes, Cart!Lookup(code) PROVE Cart!Reviewed
  BY <1>13 DEF Cart!Lookup, Cart!Reviewed
<1>14. ASSUME NEW l \in lookups, Cart!LookupArrives(l) PROVE Cart!Reviewed
  <2>1. Matches[l.code] \subseteq Products
    BY <1>14 DEF CartTypes, Lookups, Cart!Bounds
  <2>2. ASSUME NEW p \in Products PROVE offered[p] \in Cart!Placement
    BY DEF CartTypes, Offered
  <2> QED
    BY <1>14, <2>1, <2>2, AddedTyped DEF Cart!LookupArrives, Cart!Reviewed
<1>15. ASSUME NEW l \in lookups, Cart!LookupFails(l) PROVE Cart!Reviewed
  BY <1>15 DEF Cart!LookupFails, Cart!Reviewed
<1>16. ASSUME choices # None, NEW c \in choices, Cart!Choose(c) PROVE Cart!Reviewed
  <2>1. c.product \in Products /\ c.placement \in Cart!Placement
    BY <1>16 DEF CartTypes, Choices
  <2> QED
    BY <1>16, <2>1, AddedTyped DEF Cart!Choose, Cart!Reviewed
<1>17. CASE Cart!Dismiss
  BY <1>17 DEF Cart!Dismiss, Cart!Reviewed
<1>18. CASE Cart!Review
  BY <1>18 DEF Cart!Review, Cart!Reviewed
<1>19. CASE Cart!Return
  BY <1>19 DEF Cart!Return, Cart!Reviewed, Cart!ClosePayment
<1>20. CASE Cart!Complete
  BY <1>20 DEF Cart!Complete, Cart!Reviewed, Cart!EmptyCart, Cart!ClosePayment
<1>21. CASE Cart!ParticipationIssue
  BY <1>21 DEF Cart!ParticipationIssue, Cart!Reviewed, Cart!ClosePayment
<1>22. ASSUME NEW p \in Products, Cart!PriceIssue(p) PROVE Cart!Reviewed
  BY <1>22 DEF Cart!PriceIssue, Cart!Reviewed, Cart!ClosePayment
<1>23. ASSUME NEW p \in Products, Cart!StockIssue(p) PROVE Cart!Reviewed
  BY <1>23 DEF Cart!StockIssue, Cart!Reviewed, Cart!ClosePayment
<1>24. CASE Cart!AccessDenied
  BY <1>24 DEF Cart!AccessDenied, Cart!Reviewed, Cart!EmptyCart, Cart!Deny, Cart!Forget
<1>25. CASE Cart!BranchArrives
  BY <1>25 DEF Cart!BranchArrives, Cart!Reviewed
<1>26. CASE Cart!BranchFails
  BY <1>26 DEF Cart!BranchFails, Cart!Reviewed
<1>27. CASE Cart!RetryBranch
  BY <1>27 DEF Cart!RetryBranch, Cart!Reviewed
<1>28. CASE Cart!ToHistory
  BY <1>28 DEF Cart!ToHistory, Cart!Reviewed
<1>29. CASE Cart!ToCart
  BY <1>29 DEF Cart!ToCart, Cart!Reviewed
<1>30. CASE Cart!AskLeave
  BY <1>30 DEF Cart!AskLeave, Cart!Reviewed
<1>31. CASE Cart!Stay
  BY <1>31 DEF Cart!Stay, Cart!Reviewed
<1>32. CASE Cart!Leave
  BY <1>32 DEF Cart!Leave, Cart!Reviewed, Cart!EmptyCart, Cart!Forget
<1>33. ASSUME NEW p \in Products, NEW o \in Cart!Placement, Cart!Offer(p, o) PROVE Cart!Reviewed
  BY <1>33 DEF Cart!Offer, Cart!Reviewed
<1>34. CASE UNCHANGED Cart!vars
  BY <1>34 DEF Cart!vars, Cart!Reviewed
<1> QED
  BY <1>1, <1>2, <1>3, <1>4, <1>5, <1>6, <1>7, <1>8, <1>9, <1>10, <1>11, <1>12, <1>13, <1>14,
     <1>15, <1>16, <1>17, <1>18, <1>19, <1>20, <1>21, <1>22, <1>23, <1>24, <1>25, <1>26, <1>27,
     <1>28, <1>29, <1>30, <1>31, <1>32, <1>33, <1>34 DEF Cart!Next

\* The catalog, the lookups, the cart and what is in flight keep their shapes; a line
\* has a quantity that was available (branch-pos.tsx, pos-cart.ts).
THEOREM CartIsTyped == ASSUME Cart!Bounds PROVE Cart!Spec => []Cart!TypeOK
<1>1. CartTypes => Cart!TypeOK
  BY DEF CartTypes, Cart!TypeOK, Offered, Offers, Rows, Cursors, Continuations, Lookups,
         Choices, Generations, Carts
<1> QED
  BY <1>1, InitCartTypes, StepCartTypes, PTL DEF Cart!Spec

\* Once access is denied nothing of the cart or the catalog is left, and no search, page
\* or lookup that was in flight brings any of it back (denyAccess in branch-pos.tsx).
THEOREM DeniedHoldsNothing == Cart!Spec => []Cart!DeniedIsEmpty
<1>1. DeniedInv => Cart!DeniedIsEmpty
  BY DEF DeniedInv, Cart!DeniedIsEmpty
<1> QED
  BY <1>1, InitDenied, StepDenied, PTL DEF Cart!Spec

\* The price of a line changes only by the issue that the payment dialog reported,
\* however old the result or the lookup the product is added from (addPosProduct in
\* pos-cart.ts, checkoutIssue in branch-pos.tsx).
THEOREM CartPricesAreReviewed == ASSUME Cart!Bounds PROVE Cart!Spec => Cart!PricesAreReviewed
  BY InitCartTypes, StepCartTypes, StepReviewed, PTL DEF Cart!Spec, Cart!PricesAreReviewed

-----------------------------------------------------------------------------
(* The returns. *)

\* The values the variables take, one conjunct per variable.
RefundTypes ==
  /\ left \in [Sales -> 0 .. Units]
  /\ returns \in [Refund!Ids -> Refund!Content \cup {None}]
  /\ records \in [Refund!Ids -> Refund!RecordStates \cup {None}]
  /\ refunded \in SUBSET Refund!Ids
  /\ refundFaults \in 0 .. MaxFaults
  /\ refundCalls \in SUBSET Refund!Call /\ refund \in Refund!Attempt \cup {None}
  /\ place \in Sales \cup {None} /\ loaded \in BOOLEAN /\ entry \in BOOLEAN
  /\ recovering \in BOOLEAN /\ recovered \in SUBSET Refund!Saved
  /\ unitsRead \in BOOLEAN /\ result \in 0 .. Units \cup {None} /\ open \in BOOLEAN
  /\ dialog \in Refund!Dialog \cup {None}
  /\ rejected \in SUBSET Refund!Ids /\ seen \in SUBSET Refund!Ids

\* One open record at a time; a closed one was seen.
RefundLedger(rc, ct, rf, sn) ==
  /\ \A i, j \in Refund!Ids : rc[i] \in Refund!Blocking /\ rc[j] \in Refund!Blocking => i = j
  /\ \A i \in rf : rc[i] # None
  /\ \A i \in Refund!Ids : rc[i] = "ACKNOWLEDGED" => i \in sn
  /\ \A i \in Refund!Ids : rc[i] # None => ct[i] # None
\* How far a call is, and the record it is about: its own.
RefundShaped(cs, rc, ct) ==
  \A c \in cs :
    /\ ct[c.id] # None
    /\ c.step = "answer" <=> c.answer # "none"
    /\ c.step = "submit" => c.recovery # None
    /\ c.step = "prepare" => c.recovery = None
    /\ c.recovery # None => rc[c.recovery] # None
    /\ c.answer = "prepared" => rc[c.id] # None
    /\ c.recovery \in {None, c.id}
\* The attempt is that of the one call that is waited for.  A call made while the
\* outcome was not in doubt has no rival.
RefundWaits(cs, a, d, td, rf) ==
  \A c \in cs : Waited(c) =>
    /\ \A x \in cs : Waited(x) => x = c
    /\ Refund!Is(a, {"pending"}) /\ a.id = c.id /\ a.recovery = c.recovery
    /\ c.owner = "dialog" => d # None /\ c.sure = ~d.uncertain
    /\ c.id \notin td
    /\ c.sure => /\ c.answer # "lost" => ~Stray(cs, c.id)
                 /\ c.id \in rf => c.answer \in {"refund", "lost"}
\* What the page knows of was issued.
RefundKnows(a, list, rc, ct) ==
  /\ \A x \in list : rc[x.id] # None
  /\ a # None => /\ ct[a.id] # None /\ a.recovery \in {None, a.id}
                 /\ a.recovery # None => rc[a.recovery] # None
\* A dialog is that of the attempt, and in doubt unless it made it.
DialogSees(a, d, there, units) ==
  d # None => /\ units # None /\ there
              /\ ~Refund!Is(a, {"completed"})
              /\ d.command = IF a = None THEN None ELSE a.id
              /\ d.uncertain => a # None
              /\ ~d.uncertain => a = None \/ Refund!Is(a, {"pending"})
RefundSees(a, d, at, there, units, sn) ==
  /\ there => at # None
  /\ DialogSees(a, d, there, units)
  /\ Refund!Is(a, {"completed"}) /\ there => a.id \in sn
\* What was rejected cannot be recorded any more.
RefundRejections(cs, td, rf) == \A i \in td : i \notin rf /\ ~Stray(cs, i)
RefundsInOrder(ct) == \E k \in 0 .. MaxIds : \A i \in Refund!Ids : ct[i] # None <=> i <= k

RefundInv ==
  /\ RefundTypes
  /\ RefundsInOrder(returns)
  /\ RefundLedger(records, returns, refunded, seen)
  /\ RefundShaped(refundCalls, records, returns)
  /\ RefundWaits(refundCalls, refund, dialog, rejected, refunded)
  /\ RefundKnows(refund, recovered, records, returns)
  /\ RefundSees(refund, dialog, place, loaded, result, seen)
  /\ unitsRead => loaded /\ ~Refund!Is(refund, {"pending"})
  /\ RefundRejections(refundCalls, rejected, refunded)

\* None is not a state of a record.
LEMMA NoRefundState == ASSUME Refund!Bounds PROVE None \notin Refund!RecordStates
  BY DEF Refund!Bounds

\* The calls of a dialog that is gone are the same calls, waited for by the page.
LEMMA UnmountedReturns ==
  ASSUME NEW cs \in SUBSET Refund!Call
  PROVE  /\ Refund!Unmounted(cs) \in SUBSET Refund!Call
         /\ \A c \in Refund!Unmounted(cs) : \E d \in cs :
              /\ c.id = d.id /\ c.recovery = d.recovery /\ c.sure = d.sure
              /\ c.step = d.step /\ c.answer = d.answer
              /\ c.owner = IF d.owner = "dialog" THEN "page" ELSE d.owner
              /\ d.owner = "nobody" => c = d
         /\ \A i \in Refund!Ids : Stray(Refund!Unmounted(cs), i) => Stray(cs, i)
         /\ \A c, d \in Refund!Unmounted(cs) :
              (\A x, y \in cs : Waited(x) /\ Waited(y) => x = y) /\ Waited(c) /\ Waited(d) => c = d
<1> DEFINE Left(d) == [d EXCEPT !.owner = IF d.owner = "dialog" THEN "page" ELSE d.owner]
<1>1. ASSUME NEW d \in cs
      PROVE  /\ Left(d) \in Refund!Call
             /\ d.id = Left(d).id /\ d.recovery = Left(d).recovery /\ d.sure = Left(d).sure
             /\ d.step = Left(d).step /\ d.answer = Left(d).answer
             /\ Left(d).owner = IF d.owner = "dialog" THEN "page" ELSE d.owner
             /\ d.owner = "nobody" => Left(d) = d
  BY DEF Refund!Call
<1>2. Refund!Unmounted(cs) = {Left(d) : d \in cs}
  BY DEF Refund!Unmounted
<1> HIDE DEF Left
<1>3. Refund!Unmounted(cs) \in SUBSET Refund!Call
  BY <1>1, <1>2
<1>4. ASSUME NEW c \in Refund!Unmounted(cs)
      PROVE  \E d \in cs :
              /\ c.id = d.id /\ c.recovery = d.recovery /\ c.sure = d.sure
              /\ c.step = d.step /\ c.answer = d.answer
              /\ c.owner = IF d.owner = "dialog" THEN "page" ELSE d.owner
              /\ d.owner = "nobody" => c = d
  <2>1. PICK d \in cs : c = Left(d)
    BY <1>2
  <2> QED
    BY <1>1, <2>1
<1>5. \A i \in Refund!Ids : Stray(Refund!Unmounted(cs), i) => Stray(cs, i)
  BY <1>4 DEF Stray
<1>6. ASSUME NEW c \in Refund!Unmounted(cs), NEW d \in Refund!Unmounted(cs),
             \A x, y \in cs : Waited(x) /\ Waited(y) => x = y, Waited(c), Waited(d)
      PROVE  c = d
  <2>1. PICK x \in cs : c = Left(x)
    BY <1>2
  <2>2. PICK y \in cs : d = Left(y)
    BY <1>2
  <2>3. Waited(x) /\ Waited(y)
    BY <1>1, <1>6, <2>1, <2>2 DEF Waited
  <2> QED
    BY <1>6, <2>1, <2>2, <2>3
<1> QED
  BY <1>3, <1>4, <1>5, <1>6

\* A new dialog takes the attempt that is stored, and is in doubt if there is one.
LEMMA NewDialogs ==
  ASSUME Refund!Bounds, NEW a \in Refund!Attempt \cup {None}
  PROVE  /\ Refund!NewDialog(a) \in Refund!Dialog /\ Refund!NewDialog(a) # None
         /\ Refund!NewDialog(a).uncertain = (a # None)
         /\ Refund!NewDialog(a).command = IF a = None THEN None ELSE a.id
<1>1. Refund!NewDialog(a) \in Refund!Dialog
  BY DEF Refund!NewDialog, Refund!Dialog, Refund!Attempt
<1> QED
  BY <1>1 DEF Refund!NewDialog, Refund!Bounds

\* The calls of a dialog that is gone.
LEMMA DialogGone ==
  ASSUME NEW cs \in SUBSET Refund!Call, NEW rc, NEW ct, NEW a, NEW d, NEW e, NEW td \in SUBSET Refund!Ids, NEW rf,
         RefundShaped(cs, rc, ct), RefundWaits(cs, a, d, td, rf), RefundRejections(cs, td, rf)
  PROVE  /\ Refund!Unmounted(cs) \in SUBSET Refund!Call
         /\ RefundShaped(Refund!Unmounted(cs), rc, ct)
         /\ RefundWaits(Refund!Unmounted(cs), a, e, td, rf)
         /\ RefundRejections(Refund!Unmounted(cs), td, rf)
<1>1. RefundShaped(Refund!Unmounted(cs), rc, ct) /\ RefundRejections(Refund!Unmounted(cs), td, rf)
  BY UnmountedReturns DEF RefundShaped, RefundRejections
<1>2. ASSUME NEW c \in Refund!Unmounted(cs), Waited(c)
      PROVE  /\ \A x \in Refund!Unmounted(cs) : Waited(x) => x = c
             /\ Refund!Is(a, {"pending"}) /\ a.id = c.id /\ a.recovery = c.recovery
             /\ c.owner # "dialog" /\ c.id \notin td
             /\ c.sure => /\ c.answer # "lost" => ~Stray(Refund!Unmounted(cs), c.id)
                          /\ c.id \in rf => c.answer \in {"refund", "lost"}
  <2>1. PICK x \in cs :
          /\ c.id = x.id /\ c.recovery = x.recovery /\ c.sure = x.sure
          /\ c.step = x.step /\ c.answer = x.answer
          /\ c.owner = IF x.owner = "dialog" THEN "page" ELSE x.owner
    BY UnmountedReturns
  <2>2. Waited(x) /\ c.owner # "dialog" /\ x.id \in Refund!Ids
    BY <1>2, <2>1 DEF Waited, Refund!Call
  <2>3. \A x1, y1 \in cs : Waited(x1) /\ Waited(y1) => x1 = y1
    BY DEF RefundWaits
  <2>4. \A x1 \in Refund!Unmounted(cs) : Waited(x1) => x1 = c
    BY <1>2, <2>3, UnmountedReturns
  <2>5. Stray(Refund!Unmounted(cs), c.id) => Stray(cs, c.id)
    BY <2>1, <2>2, UnmountedReturns
  <2> QED
    BY <2>1, <2>2, <2>4, <2>5 DEF RefundWaits
<1> QED
  BY <1>1, <1>2, UnmountedReturns DEF RefundWaits

\* What a new state of the page is made from, and what it is then, where the records,
\* the rejections and the refunds are rc, td and rf.
RefundFits(n, rc, td, rf) ==
  /\ n.attempt \in Refund!Attempt \cup {None} /\ n.saved \in SUBSET Refund!Saved
  /\ n.calls \in SUBSET Refund!Call
  /\ n.place \in {place, None} /\ n.units = result /\ n.dialog = dialog
  /\ n.open \in BOOLEAN /\ n.listing \in BOOLEAN /\ td \in SUBSET Refund!Ids
  /\ \A i \in Refund!Ids : rc[i] # None => returns[i] # None
  /\ RefundShaped(n.calls, rc, returns)
  /\ RefundWaits(n.calls, n.attempt, dialog, td, rf)
  /\ RefundKnows(n.attempt, n.saved, rc, returns)
  /\ RefundRejections(n.calls, td, rf)
  /\ \/ n.attempt = refund
     \/ Refund!Is(refund, {"pending"}) /\ Refund!Is(n.attempt, {"pending"}) /\ n.attempt.id = refund.id
     \/ Refund!Is(refund, {"pending"}) /\ ~Refund!Is(n.attempt, {"pending"})
     \/ Refund!Is(refund, {"completed"}) /\ n.attempt = None
RefundBecame(rc, td, rf) ==
  /\ refund' \in Refund!Attempt \cup {None} /\ place' \in Sales \cup {None}
  /\ loaded' \in BOOLEAN
  /\ entry' \in BOOLEAN /\ recovered' \in SUBSET Refund!Saved /\ recovering' \in BOOLEAN
  /\ result' \in 0 .. Units \cup {None} /\ unitsRead' \in BOOLEAN /\ open' \in BOOLEAN
  /\ dialog' \in Refund!Dialog \cup {None} /\ refundCalls' \in SUBSET Refund!Call
  /\ seen' \in SUBSET Refund!Ids
  /\ RefundShaped(refundCalls', rc, returns)
  /\ RefundWaits(refundCalls', refund', dialog', td, rf)
  /\ RefundKnows(refund', recovered', rc, returns)
  /\ RefundSees(refund', dialog', place', loaded', result', seen')
  /\ unitsRead' => loaded' /\ ~Refund!Is(refund', {"pending"})
  /\ RefundRejections(refundCalls', td, rf) /\ seen \subseteq seen'

\* What the effects of the page make of a state that fits, keeps the invariant.
LEMMA PageBecomes ==
  ASSUME Refund!Bounds, RefundTypes, RefundSees(refund, dialog, place, loaded, result, seen),
         RefundKnows(refund, recovered, records, returns),
         NEW n, NEW rc, NEW td, NEW rf, RefundFits(n, rc, td, rf), Refund!Becomes(n)
  PROVE  RefundBecame(rc, td, rf)
<1>0. /\ n.attempt \in Refund!Attempt \cup {None} /\ n.saved \in SUBSET Refund!Saved
      /\ n.calls \in SUBSET Refund!Call
      /\ n.place \in {place, None} /\ n.units = result /\ n.dialog = dialog
      /\ n.open \in BOOLEAN /\ n.listing \in BOOLEAN /\ td \in SUBSET Refund!Ids
      /\ \A i \in Refund!Ids : rc[i] # None => returns[i] # None
      /\ RefundShaped(n.calls, rc, returns)
      /\ RefundWaits(n.calls, n.attempt, dialog, td, rf)
      /\ RefundKnows(n.attempt, n.saved, rc, returns)
      /\ RefundRejections(n.calls, td, rf)
      /\ \/ n.attempt = refund
         \/ Refund!Is(refund, {"pending"}) /\ Refund!Is(n.attempt, {"pending"}) /\ n.attempt.id = refund.id
         \/ Refund!Is(refund, {"pending"}) /\ ~Refund!Is(n.attempt, {"pending"})
         \/ Refund!Is(refund, {"completed"}) /\ n.attempt = None
  BY DEF RefundFits
<1> DEFINE a == Refund!Restored(n.attempt, IF loaded THEN n.saved ELSE {})
           at == Refund!At(a, n.place)
           moved == at # Refund!At(refund, place)
           units == IF moved \/ Refund!Rereads(a) THEN None ELSE n.units
           isShown == loaded /\ ~moved /\ Refund!Shows(a, at, units, n.open, entry)
<1>1. /\ refund' = a /\ place' = n.place
      /\ loaded' = (loaded /\ ~moved) /\ entry' = (entry /\ at # None)
      /\ recovered' = IF moved THEN {} ELSE n.saved
      /\ recovering' = (n.listing /\ ~moved)
      /\ result' = units
      /\ unitsRead' = (loaded' /\ ~Refund!Is(a, {"pending"}) /\ (unitsRead \/ Refund!Rereads(a)))
      /\ open' = IF moved THEN entry' ELSE n.open
      /\ dialog' = IF ~isShown THEN None ELSE IF dialog = None THEN Refund!NewDialog(a) ELSE n.dialog
      /\ refundCalls' = IF isShown THEN n.calls ELSE Refund!Unmounted(n.calls)
      /\ seen' = seen \cup IF loaded' /\ Refund!Is(a, {"completed"}) THEN {a.id} ELSE {}
  BY DEF Refund!Becomes
<1>2. /\ n.attempt # None => a = n.attempt
      /\ n.attempt = None => a = None \/ \E x \in n.saved :
           a = [id |-> x.id, recovery |-> x.id,
                state |-> IF x.done THEN "completed" ELSE "unknown"]
  BY <1>0 DEF Refund!Restored
<1>3. isShown => /\ loaded /\ ~moved /\ units # None /\ units = result /\ ~Refund!Rereads(a)
                 /\ ~Refund!Is(a, {"completed"})
  BY <1>0 DEF Refund!Shows
<1>4. n.place = None /\ loaded => moved
  <2>1. SUFFICES ASSUME n.place = None, loaded PROVE moved
    OBVIOUS
  <2>2. at = None
    BY <2>1 DEF Refund!At
  <2>3. place \in Sales
    BY <2>1 DEF RefundTypes, RefundSees
  <2>4. refund # None => Refund!SaleOf(refund) \in Sales
    BY DEF RefundTypes, RefundKnows, Refund!SaleOf, Refund!Attempt, Refund!Content
  <2>5. Refund!At(refund, place) \in Sales
    BY <2>3, <2>4 DEF Refund!At
  <2> QED
    BY <2>2, <2>5 DEF Refund!Bounds
<1>5. units \in 0 .. Units \cup {None}
  BY <1>0 DEF RefundTypes
<1>6. Refund!Rereads(a) <=> Refund!StateOf(a) # Refund!StateOf(refund) /\ ~Refund!Is(a, {"pending"})
  BY DEF Refund!Rereads
<1> HIDE DEF a, at, moved, units, isShown
<1>7. a \in Refund!Attempt \cup {None}
  BY <1>0, <1>2 DEF Refund!Attempt, Refund!Saved
<1>8. a # n.attempt => /\ n.attempt = None /\ a # None /\ Refund!Is(a, {"completed", "unknown"})
                       /\ rc[a.id] # None /\ returns[a.id] # None /\ a.recovery = a.id
  BY <1>0, <1>2, <1>7 DEF Refund!Attempt, Refund!Saved, Refund!Is, RefundKnows, Refund!Bounds
<1>9. /\ Refund!NewDialog(a) \in Refund!Dialog /\ Refund!NewDialog(a) # None
      /\ Refund!NewDialog(a).uncertain = (a # None)
      /\ Refund!NewDialog(a).command = IF a = None THEN None ELSE a.id
  BY <1>7, NewDialogs
<1>10. dialog' \in Refund!Dialog \cup {None} /\ (dialog' # None => isShown)
       /\ (isShown /\ dialog = None => dialog' = Refund!NewDialog(a))
       /\ (isShown /\ dialog # None => dialog' = dialog)
  BY <1>0, <1>1, <1>9 DEF RefundTypes
<1>11. isShown /\ dialog # None => a = refund \/
         (Refund!Is(refund, {"pending"}) /\ Refund!Is(a, {"pending"}) /\ a.id = refund.id)
  <2> SUFFICES ASSUME isShown, dialog # None, a # refund
               PROVE  Refund!Is(refund, {"pending"}) /\ Refund!Is(a, {"pending"})
                                                     /\ a.id = refund.id
    OBVIOUS
  <2>1. refund \in Refund!Attempt \cup {None}
    BY DEF RefundTypes
  <2>2. Refund!StateOf(a) = Refund!StateOf(refund) \/ Refund!Is(a, {"pending"})
    BY <1>3, <1>6
  <2>3. ~Refund!Is(a, {"completed"})
    BY <1>3
  <2> QED
    BY <1>0, <1>7, <1>8, <2>1, <2>2, <2>3 DEF Refund!StateOf, Refund!Is, Refund!Attempt
<1>12. DialogSees(a, dialog', loaded', result')
  <2> SUFFICES ASSUME dialog' # None PROVE DialogSees(a, dialog', loaded', result')
    BY DEF DialogSees
  <2>1. isShown /\ loaded' /\ result' # None /\ ~Refund!Is(a, {"completed"})
    BY <1>1, <1>3, <1>10
  <2>2. CASE dialog = None
    BY <1>9, <1>10, <2>1, <2>2 DEF DialogSees
  <2>3. CASE dialog # None
    <3>1. dialog' = dialog /\ DialogSees(refund, dialog, loaded, result)
      BY <1>10, <2>1, <2>3 DEF RefundSees
    <3> QED
      BY <1>11, <2>1, <2>3, <3>1 DEF DialogSees, Refund!Is
  <2> QED
    BY <2>2, <2>3
<1>13. RefundSees(a, dialog', place', loaded', result', seen')
  <2>1. loaded' => place' # None
    BY <1>0, <1>1, <1>4 DEF RefundSees
  <2>2. Refund!Is(a, {"completed"}) /\ loaded' => a.id \in seen'
    BY <1>1
  <2> QED
    BY <1>12, <2>1, <2>2 DEF RefundSees
<1>14. seen' \in SUBSET Refund!Ids /\ seen \subseteq seen'
  <2>1. Refund!Is(a, {"completed"}) => a.id \in Refund!Ids
    BY <1>7 DEF Refund!Is, Refund!Attempt
  <2> QED
    BY <1>1, <2>1 DEF RefundTypes
<1>15. RefundKnows(refund', recovered', rc, returns)
  BY <1>0, <1>1, <1>2, <1>8 DEF RefundKnows
<1>16. /\ refundCalls' \in SUBSET Refund!Call /\ RefundShaped(refundCalls', rc, returns)
       /\ RefundRejections(refundCalls', td, rf)
       /\ RefundWaits(refundCalls', a, dialog', td, rf)
  <2>1. RefundWaits(n.calls, a, dialog, td, rf)
    BY <1>0, <1>8 DEF RefundWaits, Refund!Is
  <2>2. CASE isShown
    <3>1. refundCalls' = n.calls
      BY <1>1, <2>2
    <3>2. dialog # None => dialog' = dialog
      BY <1>10, <2>2
    <3> QED
      BY <1>0, <2>1, <3>1, <3>2 DEF RefundWaits
  <2>3. CASE ~isShown
    <3>1. refundCalls' = Refund!Unmounted(n.calls)
      BY <1>1, <2>3
    <3> QED
      BY <1>0, <2>1, <3>1, DialogGone
  <2> QED
    BY <2>2, <2>3
<1>17. /\ place' \in Sales \cup {None} /\ loaded' \in BOOLEAN /\ entry' \in BOOLEAN
       /\ recovered' \in SUBSET Refund!Saved /\ recovering' \in BOOLEAN
       /\ result' \in 0 .. Units \cup {None} /\ unitsRead' \in BOOLEAN /\ open' \in BOOLEAN
  BY <1>0, <1>1, <1>5 DEF RefundTypes
<1>18. unitsRead' => loaded' /\ ~Refund!Is(refund', {"pending"})
  BY <1>1
<1> QED
  BY <1>1, <1>7, <1>10, <1>13, <1>14, <1>15, <1>16, <1>17, <1>18 DEF RefundBecame

RefundKinds == {"prepared", "refund", "exceeded", "invalid", "blocked", "denied", "retry", "lost"}

\* A call that is answered keeps what the invariant says of the calls.
LEMMA ReturnAnswered ==
  ASSUME RefundTypes, NEW c \in refundCalls, NEW kind \in RefundKinds, NEW rc, NEW rf,
         RefundShaped(refundCalls, rc, returns),
         RefundWaits(refundCalls, refund, dialog, rejected, refunded),
         RefundRejections(refundCalls, rejected, refunded),
         kind = "prepared" => rc[c.id] # None,
         rf = refunded \/ (c.step = "submit" /\ rf = refunded \cup {c.recovery}),
         Waited(c) /\ c.sure /\ c.id \in rf => kind \in {"refund", "lost"},
         c.step # "answer" \/ kind = "lost",
         Refund!Answered(c, kind)
  PROVE  /\ refundCalls' \in SUBSET Refund!Call
         /\ RefundShaped(refundCalls', rc, returns)
         /\ RefundWaits(refundCalls', refund, dialog, rejected, rf)
         /\ RefundRejections(refundCalls', rejected, rf)
<1> DEFINE e == [c EXCEPT !.step = "answer", !.answer = kind]
<1>1. refundCalls' = (refundCalls \ {c}) \cup {e}
  BY DEF Refund!Answered
<1>2. /\ e \in Refund!Call /\ e.id = c.id /\ e.recovery = c.recovery /\ e.sure = c.sure
      /\ e.owner = c.owner /\ e.step = "answer" /\ e.answer = kind /\ c \in Refund!Call
  BY DEF RefundTypes, Refund!Call, RefundKinds
<1> HIDE DEF e
<1>3. refundCalls' \in SUBSET Refund!Call
  BY <1>1, <1>2 DEF RefundTypes
<1>4. RefundShaped(refundCalls', rc, returns)
  BY <1>1, <1>2 DEF RefundShaped, RefundKinds
<1>5. \A i \in Refund!Ids : Stray(refundCalls', i) => Stray(refundCalls, i)
  BY <1>1, <1>2 DEF Stray
<1>6. \A i \in rf : i \in refunded \/ (i = c.recovery /\ c.step = "submit")
  OBVIOUS
<1>7. RefundRejections(refundCalls', rejected, rf)
  <2> SUFFICES ASSUME NEW i \in rejected PROVE i \notin rf /\ ~Stray(refundCalls', i)
    BY DEF RefundRejections
  <2>1. i \in Refund!Ids /\ i \notin refunded /\ ~Stray(refundCalls, i)
    BY DEF RefundRejections, RefundTypes
  <2>2. c.step = "submit" => c.recovery # i
    BY <2>1 DEF RefundWaits, RefundShaped, Waited, Stray
  <2> QED
    BY <1>5, <1>6, <2>1, <2>2
<1>8. RefundWaits(refundCalls', refund, dialog, rejected, rf)
  <2> SUFFICES ASSUME NEW d \in refundCalls', Waited(d)
               PROVE  /\ \A x \in refundCalls' : Waited(x) => x = d
                      /\ Refund!Is(refund, {"pending"}) /\ refund.id = d.id
                      /\ refund.recovery = d.recovery
                      /\ d.owner = "dialog" => dialog # None /\ d.sure = ~dialog.uncertain
                      /\ d.id \notin rejected
                      /\ d.sure => /\ d.answer # "lost" => ~Stray(refundCalls', d.id)
                                   /\ d.id \in rf => d.answer \in {"refund", "lost"}
    BY DEF RefundWaits
  <2>1. d.id \in Refund!Ids
    BY <1>3 DEF Refund!Call
  <2>2. CASE d = e
    <3>1. Waited(c)
      BY <1>2, <2>2 DEF Waited
    <3>2. c.sure /\ kind # "lost" => ~Stray(refundCalls', c.id)
      <4>1. CASE c.answer # "lost"
        <5>1. c.sure => ~Stray(refundCalls, c.id)
          BY <3>1, <4>1 DEF RefundWaits
        <5>2. c.id \in Refund!Ids
          BY <1>2 DEF Refund!Call
        <5> QED
          BY <1>5, <5>1, <5>2
      <4>2. CASE c.answer = "lost"
        BY <4>2 DEF RefundShaped
      <4> QED
        BY <4>1, <4>2
    <3> QED
      BY <1>1, <1>2, <2>2, <3>1, <3>2 DEF RefundWaits, Waited
  <2>3. CASE d # e
    <3>1. d \in refundCalls /\ d # c
      BY <1>1, <2>3
    <3>2. ~Waited(c) /\ ~Waited(e)
      BY <1>2, <3>1 DEF RefundWaits, Waited
    <3>3. d.sure /\ d.id \in rf => d.answer \in {"refund", "lost"}
      BY <1>6, <3>1, <3>2 DEF RefundWaits, Waited, Stray
    <3> QED
      BY <1>1, <1>5, <2>1, <3>1, <3>2, <3>3 DEF RefundWaits
  <2> QED
    BY <2>2, <2>3
<1> QED
  BY <1>3, <1>4, <1>7, <1>8

\* Without a call, and without the one that was waited for.
LEMMA ReturnRests ==
  ASSUME RefundInv, NEW c \in refundCalls
  PROVE  /\ Refund!Rest(c) \in SUBSET Refund!Call
         /\ RefundShaped(Refund!Rest(c), records, returns)
         /\ RefundRejections(Refund!Rest(c), rejected, refunded)
         /\ \A i : Stray(Refund!Rest(c), i) => Stray(refundCalls, i)
         /\ ~Waited(c) => RefundWaits(Refund!Rest(c), refund, dialog, rejected, refunded)
         /\ Waited(c) => \A x \in Refund!Rest(c) : ~Waited(x)
<1>1. Refund!Rest(c) \subseteq refundCalls
  BY DEF Refund!Rest
<1>2. \A i : Stray(Refund!Rest(c), i) => Stray(refundCalls, i)
  BY <1>1 DEF Stray
<1>3. ~Waited(c) => \A x \in refundCalls : Waited(x) => x \in Refund!Rest(c)
  BY DEF Refund!Rest
<1>4. Waited(c) => \A x \in Refund!Rest(c) : ~Waited(x)
  BY DEF Refund!Rest, RefundInv, RefundWaits
<1>5. ~Waited(c) => RefundWaits(Refund!Rest(c), refund, dialog, rejected, refunded)
  BY <1>1, <1>2, <1>3 DEF RefundInv, RefundWaits
<1> QED
  BY <1>1, <1>2, <1>4, <1>5 DEF RefundInv, RefundTypes, RefundShaped, RefundRejections

\* What a step of the server leaves.
LEMMA ReturnServed ==
  ASSUME RefundInv, UNCHANGED <<returns, refund, Refund!view, rejected, seen>>,
         left' \in [Sales -> 0 .. Units],
         refundFaults' \in 0 .. MaxFaults, refunded' \in SUBSET Refund!Ids,
         records' \in [Refund!Ids -> Refund!RecordStates \cup {None}], refundCalls' \in SUBSET Refund!Call,
         RefundLedger(records', returns, refunded', seen),
         RefundKnows(refund, recovered, records', returns),
         RefundShaped(refundCalls', records', returns),
         RefundWaits(refundCalls', refund, dialog, rejected, refunded'),
         RefundRejections(refundCalls', rejected, refunded')
  PROVE  RefundInv'
<1>1. UNCHANGED <<place, loaded, entry, recovering, recovered, unitsRead, result, open, dialog>>
  BY DEF Refund!view
<1>2. RefundTypes'
  BY <1>1 DEF RefundInv, RefundTypes
<1> QED
  BY <1>1, <1>2 DEF RefundInv

\* An open record stays open, or becomes it again.
LEMMA ReturnKept ==
  ASSUME Refund!Bounds, RefundInv, NEW i \in Refund!Ids, NEW state \in Refund!Blocking, records[i] \in Refund!Blocking,
         records' = [records EXCEPT ![i] = state], NEW rf, rf \in {refunded, refunded \cup {i}}
  PROVE  /\ records' \in [Refund!Ids -> Refund!RecordStates \cup {None}]
         /\ RefundShaped(refundCalls, records', returns)
         /\ RefundKnows(refund, recovered, records', returns)
         /\ RefundLedger(records', returns, rf, seen) /\ rf \in SUBSET Refund!Ids
<1>1. /\ records \in [Refund!Ids -> Refund!RecordStates \cup {None}]
      /\ \A x \in recovered : x.id \in Refund!Ids
      /\ refund # None => refund.recovery \in Refund!Ids \cup {None}
      /\ refunded \subseteq Refund!Ids
      /\ \A c \in refundCalls : c.id \in Refund!Ids /\ c.recovery \in Refund!Ids \cup {None}
  BY DEF RefundInv, RefundTypes, Refund!Saved, Refund!Attempt, Refund!Call
<1>2. /\ records' \in [Refund!Ids -> Refund!RecordStates \cup {None}]
      /\ \A j \in Refund!Ids : /\ records'[j] # None <=> records[j] # None
                               /\ records'[j] \in Refund!Blocking <=> records[j] \in Refund!Blocking
                               /\ records'[j] = "ACKNOWLEDGED" => records[j] = "ACKNOWLEDGED"
  BY <1>1, NoRefundState DEF Refund!Blocking, Refund!RecordStates
<1>3. records[i] # None
  BY NoRefundState DEF Refund!Blocking
<1>4. RefundShaped(refundCalls, records', returns)
  BY <1>1, <1>2 DEF RefundShaped, RefundInv
<1>5. RefundKnows(refund, recovered, records', returns)
  BY <1>1, <1>2 DEF RefundKnows, RefundInv
<1>6. RefundLedger(records', returns, rf, seen)
  BY <1>1, <1>2, <1>3 DEF RefundLedger, RefundInv
<1> QED
  BY <1>1, <1>2, <1>4, <1>5, <1>6

\* What a step of the page leaves.
LEMMA ReturnDelivered ==
  ASSUME Refund!Bounds, RefundInv, NEW n, RefundFits(n, records', rejected', refunded), Refund!Becomes(n),
         UNCHANGED <<left, returns, refunded, refundFaults>>,
         records' \in [Refund!Ids -> Refund!RecordStates \cup {None}],
         RefundLedger(records', returns, refunded, seen)
  PROVE  RefundInv'
<1>1. RefundBecame(records', rejected', refunded)
  BY PageBecomes DEF RefundInv
<1>2. rejected' \in SUBSET Refund!Ids
  BY DEF RefundFits
<1>3. RefundTypes'
  BY <1>1, <1>2 DEF RefundInv, RefundTypes, RefundBecame
<1>4. RefundLedger(records', returns, refunded, seen')
  BY <1>1 DEF RefundLedger, RefundBecame
<1> QED
  BY <1>1, <1>3, <1>4 DEF RefundInv, RefundBecame

\* The call whose answer is delivered.
LEMMA ReturnDelivering ==
  ASSUME Refund!Bounds, RefundInv, NEW c \in refundCalls, c.owner # "nobody"
  PROVE  /\ Waited(c) /\ c \in Refund!Call /\ c.id \in Refund!Ids /\ c.recovery \in {None, c.id}
         /\ returns[c.id] # None /\ Refund!Is(refund, {"pending"}) /\ refund # None
         /\ refund.id = c.id /\ c.recovery = Refund!Recovery
         /\ c.recovery # None => records[c.recovery] # None
         /\ c.id \notin rejected
         /\ c.owner = "dialog" => dialog # None /\ c.sure = ~dialog.uncertain
         /\ \A r \in {None, c.id}, st \in {"pending", "unknown", "completed"} :
              /\ Refund!Of(c, r, st) \in Refund!Attempt /\ Refund!Of(c, r, st) # None
              /\ Refund!Of(c, r, st).id = c.id /\ Refund!Of(c, r, st).recovery = r
              /\ Refund!Of(c, r, st).state = st
<1>1. /\ Waited(c) /\ c \in Refund!Call /\ c.id \in Refund!Ids
  BY DEF RefundInv, RefundTypes, Refund!Call, Waited
<1>2. /\ returns[c.id] # None /\ (c.recovery # None => records[c.recovery] # None)
      /\ c.recovery \in {None, c.id}
  BY DEF RefundInv, RefundShaped
<1>3. /\ Refund!Is(refund, {"pending"}) /\ c.recovery = refund.recovery /\ refund.id = c.id
      /\ c.id \notin rejected
      /\ c.owner = "dialog" => dialog # None /\ c.sure = ~dialog.uncertain
  BY <1>1 DEF RefundInv, RefundWaits
<1>4. refund # None
  BY <1>3 DEF Refund!Is
<1>6. ASSUME NEW r \in {None, c.id}, NEW st \in {"pending", "unknown", "completed"}
      PROVE  /\ Refund!Of(c, r, st) \in Refund!Attempt /\ Refund!Of(c, r, st) # None
             /\ Refund!Of(c, r, st).id = c.id /\ Refund!Of(c, r, st).recovery = r
             /\ Refund!Of(c, r, st).state = st
  <2>1. Refund!Of(c, r, st) \in Refund!Attempt
    BY <1>1, <1>4 DEF Refund!Of, Refund!Attempt
  <2> QED
    BY <2>1 DEF Refund!Of, Refund!Bounds
<1> QED
  BY <1>1, <1>2, <1>3, <1>4, <1>6 DEF Refund!Recovery

\* Every step of the returns keeps the invariant.
LEMMA StepRefund ==
  ASSUME Refund!Bounds
  PROVE  RefundInv /\ [Refund!Next]_Refund!vars => RefundInv'
<1> SUFFICES ASSUME RefundInv, [Refund!Next]_Refund!vars PROVE RefundInv'
  OBVIOUS
<1>0. /\ RefundTypes /\ RefundsInOrder(returns)
      /\ RefundLedger(records, returns, refunded, seen)
      /\ RefundShaped(refundCalls, records, returns)
      /\ RefundWaits(refundCalls, refund, dialog, rejected, refunded)
      /\ RefundKnows(refund, recovered, records, returns)
      /\ RefundSees(refund, dialog, place, loaded, result, seen)
      /\ unitsRead => loaded /\ ~Refund!Is(refund, {"pending"})
      /\ RefundRejections(refundCalls, rejected, refunded)
  BY DEF RefundInv
<1>a. Refund!Fault => refundFaults' \in 0 .. MaxFaults
  BY <1>0 DEF Refund!Fault, RefundTypes, Refund!Bounds
<1>b. /\ {} \in SUBSET Refund!Saved
      /\ \A i \in Refund!Ids : records[i] # None => returns[i] # None
      /\ \A i \in Refund!Ids : i # None
      /\ records \in [Refund!Ids -> Refund!RecordStates \cup {None}]
      /\ refunded \in SUBSET Refund!Ids
      /\ refundFaults \in 0 .. MaxFaults /\ left \in [Sales -> 0 .. Units]
  BY <1>0 DEF RefundLedger, RefundTypes, Refund!Bounds
<1>c. ASSUME NEW c \in refundCalls
      PROVE  c \in Refund!Call /\ c.id \in Refund!Ids /\ c.recovery \in Refund!Ids \cup {None}
  BY <1>0 DEF RefundTypes, Refund!Call
<1>d. ASSUME NEW c \in refundCalls, Waited(c), c.sure, c.step # "answer"
      PROVE  c.id \notin refunded
  BY <1>0, <1>d DEF RefundWaits, RefundShaped
<1>e. /\ refund \in Refund!Attempt \cup {None} /\ refundCalls \in SUBSET Refund!Call
      /\ recovered \in SUBSET Refund!Saved
      /\ rejected \in SUBSET Refund!Ids /\ open \in BOOLEAN /\ recovering \in BOOLEAN
      /\ entry \in BOOLEAN
      /\ Refund!Now.attempt = refund /\ Refund!Now.saved = recovered
      /\ Refund!Now.listing = recovering
      /\ Refund!Now.place = place /\ Refund!Now.units = result /\ Refund!Now.open = open
      /\ Refund!Now.dialog = dialog
      /\ Refund!Now.calls = refundCalls
  BY <1>0 DEF RefundTypes, Refund!Now
<1>1. ASSUME NEW s \in Sales, NEW return \in BOOLEAN, Refund!Visit(s, return) PROVE RefundInv'
  <2>1. /\ UNCHANGED <<left, returns, records, refunded, refundFaults, refund, rejected, seen>>
        /\ place' = s /\ loaded' = FALSE /\ entry' = return /\ open' = return
        /\ recovering' = FALSE /\ recovered' = {} /\ unitsRead' = FALSE /\ result' = None
        /\ dialog' = None /\ refundCalls' = Refund!Unmounted(refundCalls)
    BY <1>1 DEF Refund!Visit, Refund!server
  <2>2. /\ refundCalls' \in SUBSET Refund!Call /\ RefundShaped(refundCalls', records, returns)
        /\ RefundWaits(refundCalls', refund, None, rejected, refunded)
        /\ RefundRejections(refundCalls', rejected, refunded)
    BY <1>0, <1>e, <2>1, DialogGone
  <2>3. RefundTypes'
    BY <1>0, <1>b, <2>1, <2>2 DEF RefundTypes
  <2>4. /\ RefundSees(refund, None, s, FALSE, None, seen)
        /\ RefundKnows(refund, {}, records, returns)
    BY <1>0 DEF RefundSees, DialogSees, RefundKnows
  <2> QED
    BY <1>0, <2>1, <2>2, <2>3, <2>4 DEF RefundInv
<1>2. ASSUME NEW s \in Sales, Refund!OtherReturns(s) PROVE RefundInv'
  <2>1. /\ UNCHANGED <<returns, records, refunded, refundCalls, refund, Refund!view, rejected, seen>>
        /\ left[s] > 0 /\ left' = [left EXCEPT ![s] = left[s] - 1]
        /\ refundFaults' \in 0 .. MaxFaults
    BY <1>a, <1>2 DEF Refund!OtherReturns
  <2>2. left' \in [Sales -> 0 .. Units]
    BY <1>b, <2>1 DEF Refund!Bounds
  <2> QED
    BY <1>0, <1>b, <1>e, <2>1, <2>2, ReturnServed
<1>3. CASE Refund!SaleArrives
  <2>1. /\ UNCHANGED <<left, returns, records, refunded, refundFaults, refundCalls, refund, place, entry,
                       result, open, dialog, rejected>>
        /\ place # None /\ ~loaded /\ loaded' = TRUE /\ recovering' = TRUE /\ recovered' = {}
        /\ unitsRead' = ~Refund!Is(refund, {"pending"})
        /\ seen' = seen \cup IF Refund!Is(refund, {"completed"}) THEN {refund.id} ELSE {}
    BY <1>3 DEF Refund!SaleArrives, Refund!server
  <2>2. dialog = None
    BY <1>0, <2>1 DEF RefundSees, DialogSees
  <2>3. seen' \in SUBSET Refund!Ids /\ seen \subseteq seen'
    BY <1>0, <2>1 DEF RefundTypes, Refund!Attempt, Refund!Is
  <2>4. RefundTypes'
    BY <1>0, <1>b, <2>1, <2>3 DEF RefundTypes
  <2>5. /\ RefundSees(refund, dialog, place, TRUE, result, seen')
        /\ RefundKnows(refund, {}, records, returns)
        /\ RefundLedger(records, returns, refunded, seen')
    BY <1>0, <2>1, <2>2, <2>3 DEF RefundSees, DialogSees, RefundKnows, RefundLedger
  <2> QED
    BY <1>0, <2>1, <2>4, <2>5 DEF RefundInv
<1>4. CASE Refund!RecoveriesArrive
  <2> DEFINE opened == {i \in Refund!Ids : records[i] \in Refund!Blocking}
             list == {[id |-> i, done |-> i \in refunded] : i \in opened}
             n == [Refund!Now EXCEPT !.listing = FALSE, !.saved = list]
  <2>1. /\ records' = [i \in Refund!Ids |-> IF i \in opened \cap refunded THEN "COMPLETED" ELSE records[i]]
        /\ Refund!Becomes(n)
        /\ UNCHANGED <<left, returns, refunded, refundFaults, rejected>>
    BY <1>4 DEF Refund!RecoveriesArrive
  <2>2. /\ records' \in [Refund!Ids -> Refund!RecordStates \cup {None}]
        /\ \A i \in Refund!Ids : /\ records'[i] # None <=> records[i] # None
                                 /\ records'[i] \in Refund!Blocking <=> records[i] \in Refund!Blocking
                                 /\ records'[i] = "ACKNOWLEDGED" <=> records[i] = "ACKNOWLEDGED"
    <3>1. \A i \in opened : records[i] # None /\ records[i] # "ACKNOWLEDGED"
      BY NoRefundState DEF Refund!Blocking, Refund!RecordStates
    <3> QED
      BY <1>b, <2>1, <3>1, NoRefundState DEF Refund!Blocking, Refund!RecordStates
  <2>3. list \in SUBSET Refund!Saved /\ \A x \in list : records'[x.id] # None
    <3>1. \A i \in opened : i \in Refund!Ids /\ records'[i] # None
      BY <2>2, NoRefundState DEF Refund!Blocking, Refund!RecordStates
    <3>2. \A i \in opened : [id |-> i, done |-> i \in refunded] \in Refund!Saved
      BY <3>1 DEF Refund!Saved
    <3>3. \A x \in list : \E i \in opened : x.id = i
      OBVIOUS
    <3> QED
      BY <3>1, <3>2, <3>3
  <2>4. /\ n.attempt = refund /\ n.saved = list /\ n.calls = refundCalls /\ n.place = place
        /\ n.units = result /\ n.dialog = dialog /\ n.open = open /\ n.listing = FALSE
    BY <1>e DEF Refund!Now
  <2> HIDE DEF list, n
  <2>5. /\ RefundShaped(refundCalls, records', returns)
        /\ RefundKnows(refund, list, records', returns)
        /\ RefundLedger(records', returns, refunded, seen)
    <3>1. refund # None => refund.recovery \in Refund!Ids \cup {None}
      BY <1>e DEF Refund!Attempt
    <3> QED
      BY <1>0, <1>b, <1>c, <2>2, <2>3, <3>1 DEF RefundShaped, RefundKnows, RefundLedger
  <2>6. RefundFits(n, records', rejected', refunded)
    BY <1>0, <1>b, <1>e, <2>1, <2>2, <2>3, <2>4, <2>5 DEF RefundFits
  <2> QED
    BY <2>1, <2>2, <2>5, <2>6, ReturnDelivered
<1>5. CASE Refund!RecoveriesFail
  <2>1. /\ UNCHANGED <<left, returns, records, refunded, refundCalls, refund, place, loaded, entry,
                       unitsRead, result, open, dialog, rejected, seen>>
        /\ recovered' = {} /\ recovering' = FALSE /\ refundFaults' \in 0 .. MaxFaults
    BY <1>a, <1>5 DEF Refund!RecoveriesFail, Refund!server
  <2>2. RefundTypes'
    BY <1>0, <1>b, <2>1 DEF RefundTypes
  <2>3. RefundKnows(refund, {}, records, returns)
    BY <1>0 DEF RefundKnows
  <2> QED
    BY <1>0, <2>1, <2>2, <2>3 DEF RefundInv
<1>6. CASE Refund!Leave
  <2>1. /\ UNCHANGED <<left, returns, records, refunded, refund, rejected, seen>>
        /\ place' = None /\ loaded' = FALSE /\ entry' = FALSE /\ open' = FALSE
        /\ recovering' = FALSE /\ recovered' = {} /\ unitsRead' = FALSE /\ result' = None
        /\ dialog' = None /\ refundCalls' = Refund!Unmounted(refundCalls)
        /\ refundFaults' \in 0 .. MaxFaults
    BY <1>a, <1>b, <1>6 DEF Refund!Leave, Refund!server
  <2>2. /\ refundCalls' \in SUBSET Refund!Call /\ RefundShaped(refundCalls', records, returns)
        /\ RefundWaits(refundCalls', refund, None, rejected, refunded)
        /\ RefundRejections(refundCalls', rejected, refunded)
    BY <1>0, <1>e, <2>1, DialogGone
  <2>3. RefundTypes'
    BY <1>0, <1>b, <2>1, <2>2 DEF RefundTypes
  <2>4. /\ RefundSees(refund, None, None, FALSE, None, seen)
        /\ RefundKnows(refund, {}, records, returns)
    BY <1>0 DEF RefundSees, DialogSees, RefundKnows
  <2> QED
    BY <1>0, <2>1, <2>2, <2>3, <2>4 DEF RefundInv
<1>7. CASE Refund!Reload
  <2> DEFINE Off(c) == [c EXCEPT !.owner = "nobody"]
  <2>1. /\ UNCHANGED <<left, returns, records, refunded, place, entry, rejected, seen>>
        /\ refund' = None /\ loaded' = FALSE /\ open' = entry
        /\ recovering' = FALSE /\ recovered' = {} /\ unitsRead' = FALSE /\ result' = None
        /\ dialog' = None /\ refundFaults' \in 0 .. MaxFaults
        /\ refundCalls' = {Off(c) : c \in {x \in refundCalls : x.step # "answer"}}
    BY <1>a, <1>7 DEF Refund!Reload, Refund!server
  <2>2. ASSUME NEW c \in refundCalls
        PROVE  /\ Off(c) \in Refund!Call /\ Off(c).owner = "nobody" /\ Off(c).id = c.id
               /\ Off(c).recovery = c.recovery /\ Off(c).step = c.step
               /\ Off(c).answer = c.answer /\ Off(c).sure = c.sure
    BY <1>c DEF Refund!Call
  <2> HIDE DEF Off
  <2>3. \A d \in refundCalls' : \E c \in refundCalls : d = Off(c)
    BY <2>1
  <2>4. refundCalls' \in SUBSET Refund!Call /\ RefundShaped(refundCalls', records, returns)
        /\ RefundWaits(refundCalls', None, None, rejected, refunded)
    BY <1>0, <2>2, <2>3 DEF RefundShaped, RefundWaits, Waited
  <2>5. RefundRejections(refundCalls', rejected, refunded)
    <3> SUFFICES ASSUME NEW i \in rejected, NEW d \in refundCalls', d.step = "submit", d.recovery = i
                 PROVE  FALSE
      BY <1>0 DEF RefundRejections, Stray
    <3>1. PICK c \in refundCalls : c.step = "submit" /\ c.recovery = i
      BY <2>2, <2>3
    <3>2. i \in Refund!Ids /\ c.recovery = c.id
      BY <1>0, <1>b, <1>e, <3>1 DEF RefundShaped
    <3> QED
      BY <1>0, <3>1, <3>2 DEF RefundRejections, Stray, RefundWaits, Waited
  <2>6. /\ RefundSees(None, None, place, FALSE, None, seen)
        /\ RefundKnows(None, {}, records, returns)
    BY DEF RefundSees, DialogSees, RefundKnows, Refund!Is
  <2>7. RefundTypes'
    BY <1>0, <1>b, <1>e, <2>1, <2>4 DEF RefundTypes
  <2> QED
    BY <1>0, <2>1, <2>4, <2>5, <2>6, <2>7 DEF RefundInv
<1>8. CASE Refund!UnitsArrive
  <2> DEFINE at == Refund!At(refund, place)
  <2>1. /\ UNCHANGED <<left, returns, records, refunded, refundFaults, refundCalls, refund, place, loaded,
                       entry, recovering, recovered, open, rejected, seen>>
        /\ unitsRead /\ unitsRead' = FALSE /\ result' = left[at]
        /\ dialog' = IF Refund!Shows(refund, at, left[at], open, entry) THEN Refund!NewDialog(refund)
                     ELSE None
    BY <1>8 DEF Refund!UnitsArrive, Refund!server
  <2>2. loaded /\ ~Refund!Is(refund, {"pending"}) /\ place \in Sales
    BY <1>0, <2>1 DEF RefundSees, RefundTypes
  <2>3. at \in Sales
    <3>1. refund # None => Refund!SaleOf(refund) \in Sales
      BY <1>0 DEF RefundTypes, RefundKnows, Refund!SaleOf, Refund!Attempt, Refund!Content
    <3> QED
      BY <2>2, <3>1 DEF Refund!At
  <2>4. left[at] \in 0 .. Units /\ left[at] # None
    BY <1>b, <2>3 DEF Refund!Bounds
  <2> HIDE DEF at
  <2>5. /\ Refund!NewDialog(refund) \in Refund!Dialog /\ Refund!NewDialog(refund) # None
        /\ Refund!NewDialog(refund).uncertain = (refund # None)
        /\ Refund!NewDialog(refund).command = IF refund = None THEN None ELSE refund.id
    BY <1>e, NewDialogs
  <2>6. \A c \in refundCalls : ~Waited(c)
    BY <1>0, <2>2 DEF RefundWaits
  <2>7. RefundWaits(refundCalls, refund, dialog', rejected, refunded)
    BY <2>6 DEF RefundWaits
  <2>8. DialogSees(refund, dialog', loaded, result')
    BY <2>1, <2>2, <2>4, <2>5 DEF DialogSees, Refund!Shows
  <2>9. RefundSees(refund, dialog', place, loaded, result', seen)
    BY <1>0, <2>8 DEF RefundSees
  <2>10. RefundTypes'
    BY <1>0, <1>b, <1>e, <2>1, <2>4, <2>5 DEF RefundTypes
  <2> QED
    BY <1>0, <2>1, <2>7, <2>9, <2>10 DEF RefundInv
<1>9. CASE Refund!UnitsFail
  <2>1. /\ UNCHANGED <<left, returns, records, refunded, refundCalls, refund, place, loaded, entry,
                       recovering, recovered, result, open, dialog, rejected, seen>>
        /\ unitsRead' = FALSE /\ refundFaults' \in 0 .. MaxFaults
    BY <1>a, <1>9 DEF Refund!UnitsFail, Refund!server
  <2>2. RefundTypes'
    BY <1>0, <2>1 DEF RefundTypes
  <2> QED
    BY <1>0, <2>1, <2>2 DEF RefundInv
<1>10. CASE Refund!Refresh
  <2>1. /\ UNCHANGED <<left, returns, records, refunded, refundFaults, refundCalls, refund, place, loaded,
                       entry, recovering, recovered, open, dialog, rejected, seen>>
        /\ loaded /\ ~Refund!Is(refund, {"pending"}) /\ dialog = None
        /\ unitsRead' = TRUE /\ result' = None
    BY <1>10 DEF Refund!Refresh, Refund!server
  <2>2. RefundTypes'
    BY <1>0, <2>1 DEF RefundTypes
  <2>3. RefundSees(refund, dialog, place, loaded, None, seen)
    BY <1>0, <2>1 DEF RefundSees, DialogSees
  <2> QED
    BY <1>0, <2>1, <2>2, <2>3 DEF RefundInv
<1>11. CASE Refund!ReturnItems
  <2>1. /\ UNCHANGED <<left, returns, records, refunded, refundFaults, refundCalls, refund, place, loaded,
                       entry, recovering, recovered, unitsRead, result, rejected, seen>>
        /\ loaded /\ result # None /\ refund = None
        /\ open' = TRUE /\ dialog' = Refund!NewDialog(refund)
    BY <1>11 DEF Refund!ReturnItems, Refund!server
  <2>2. /\ Refund!NewDialog(refund) \in Refund!Dialog /\ Refund!NewDialog(refund) # None
        /\ ~Refund!NewDialog(refund).uncertain /\ Refund!NewDialog(refund).command = None
    BY <1>e, <2>1, NewDialogs
  <2>3. RefundTypes'
    BY <1>0, <2>1, <2>2 DEF RefundTypes
  <2>4. RefundWaits(refundCalls, refund, dialog', rejected, refunded)
    BY <1>0, <2>1 DEF RefundWaits, Refund!Is
  <2>5. RefundSees(refund, dialog', place, loaded, result, seen)
    BY <1>0, <2>1, <2>2 DEF RefundSees, DialogSees, Refund!Is
  <2> QED
    BY <1>0, <2>1, <2>3, <2>4, <2>5 DEF RefundInv
<1>12. CASE Refund!Close
  <2> DEFINE n == [Refund!Now EXCEPT !.open = FALSE, !.place = Refund!ClosedEntry]
  <2>1. Refund!Becomes(n) /\ UNCHANGED <<left, returns, records, refunded, refundFaults, rejected>>
    BY <1>12 DEF Refund!Close, Refund!server
  <2>2. /\ n.attempt = refund /\ n.saved = recovered /\ n.calls = refundCalls
        /\ n.place \in {place, None}
        /\ n.units = result /\ n.dialog = dialog /\ n.open = FALSE /\ n.listing = recovering
    BY DEF Refund!Now, Refund!ClosedEntry
  <2> HIDE DEF n
  <2>3. RefundFits(n, records', rejected', refunded)
    BY <1>0, <1>b, <1>e, <2>1, <2>2 DEF RefundFits
  <2> QED
    BY <1>0, <1>b, <2>1, <2>3, ReturnDelivered
<1>13. ASSUME Refund!Is(refund, {"completed"}), loaded, records' \in {records, [records EXCEPT ![Refund!Recovery] = "ACKNOWLEDGED"]},
              Refund!Recovery = None => records' = records
       PROVE  /\ records' \in [Refund!Ids -> Refund!RecordStates \cup {None}]
              /\ RefundShaped(refundCalls, records', returns)
              /\ RefundKnows(None, recovered, records', returns)
              /\ RefundKnows(refund, recovered, records', returns)
              /\ RefundLedger(records', returns, refunded, seen)
              /\ \A i \in Refund!Ids : records'[i] # None => returns[i] # None
  <2>1. refund \in Refund!Attempt /\ refund # None /\ refund.id \in seen
                                  /\ refund.id \in Refund!Ids
        /\ Refund!Recovery \in {None, refund.id}
        /\ (Refund!Recovery # None => records[Refund!Recovery] # None /\ Refund!Recovery \in Refund!Ids)
    BY <1>0, <1>e, <1>13 DEF Refund!Is, RefundSees, RefundKnows, Refund!Recovery, Refund!Attempt
  <2>2. /\ records' \in [Refund!Ids -> Refund!RecordStates \cup {None}]
        /\ \A i \in Refund!Ids : /\ records'[i] # None <=> records[i] # None
                                 /\ records'[i] \in Refund!Blocking => records[i] \in Refund!Blocking
                                 /\ records'[i] = "ACKNOWLEDGED" => records[i] = "ACKNOWLEDGED" \/ i \in seen
    BY <1>b, <1>13, <2>1, NoRefundState DEF Refund!RecordStates, Refund!Blocking
  <2>3. /\ \A x \in recovered : x.id \in Refund!Ids
        /\ refund.recovery \in Refund!Ids \cup {None}
    BY <1>e, <2>1 DEF Refund!Saved, Refund!Attempt
  <2>4. RefundShaped(refundCalls, records', returns)
    BY <1>0, <1>c, <2>2 DEF RefundShaped
  <2>5. RefundKnows(None, recovered, records', returns) /\ RefundKnows(refund, recovered, records', returns)
    BY <1>0, <2>2, <2>3 DEF RefundKnows
  <2>6. RefundLedger(records', returns, refunded, seen)
    BY <1>0, <1>b, <2>2 DEF RefundLedger
  <2> QED
    BY <1>b, <2>2, <2>4, <2>5, <2>6
<1>14. CASE Refund!Acknowledge
  <2> DEFINE n == [Refund!Now EXCEPT !.attempt = None, !.listing = recovering \/ Refund!Recovery # None,
                              !.place = Refund!ClosedEntry, !.open = open /\ ~entry]
  <2>1. /\ Refund!Is(refund, {"completed"}) /\ loaded /\ Refund!Becomes(n)
        /\ records' = IF Refund!Recovery = None THEN records ELSE [records EXCEPT ![Refund!Recovery] = "ACKNOWLEDGED"]
        /\ UNCHANGED <<left, returns, refunded, refundFaults, rejected>>
    BY <1>14 DEF Refund!Acknowledge, Refund!Forget, Refund!Now
  <2>2. /\ n.attempt = None /\ n.saved = recovered /\ n.calls = refundCalls
        /\ n.place \in {place, None}
        /\ n.units = result /\ n.dialog = dialog /\ n.open \in BOOLEAN /\ n.listing \in BOOLEAN
    BY <1>e DEF Refund!Now, Refund!ClosedEntry
  <2> HIDE DEF n
  <2>3. /\ records' \in [Refund!Ids -> Refund!RecordStates \cup {None}]
        /\ RefundShaped(refundCalls, records', returns)
        /\ RefundKnows(None, recovered, records', returns)
        /\ RefundLedger(records', returns, refunded, seen)
        /\ \A i \in Refund!Ids : records'[i] # None => returns[i] # None
    BY <1>13, <2>1
  <2>4. RefundWaits(refundCalls, None, dialog, rejected, refunded)
    BY <1>0, <2>1 DEF RefundWaits, Refund!Is
  <2>5. RefundFits(n, records', rejected', refunded)
    BY <1>0, <1>b, <1>e, <2>1, <2>2, <2>3, <2>4 DEF RefundFits
  <2> QED
    BY <2>1, <2>3, <2>5, ReturnDelivered
<1>15. CASE Refund!AcknowledgeLost
  <2>1. /\ Refund!Is(refund, {"completed"}) /\ loaded /\ Refund!Recovery # None
        /\ records' \in {records, [records EXCEPT ![Refund!Recovery] = "ACKNOWLEDGED"]}
        /\ UNCHANGED <<left, returns, refunded, refundCalls, refund, Refund!view, rejected, seen>>
        /\ refundFaults' \in 0 .. MaxFaults
    BY <1>a, <1>15 DEF Refund!AcknowledgeLost
  <2>2. /\ records' \in [Refund!Ids -> Refund!RecordStates \cup {None}]
        /\ RefundShaped(refundCalls, records', returns)
        /\ RefundKnows(refund, recovered, records', returns)
        /\ RefundLedger(records', returns, refunded, seen)
    BY <1>13, <2>1
  <2> QED
    BY <1>0, <1>b, <1>e, <2>1, <2>2, ReturnServed
<1>16. ASSUME NEW units \in 1 .. Units, Refund!Submit(units) PROVE RefundInv'
  <2> DEFINE id == IF dialog.uncertain THEN dialog.command ELSE Refund!IdFor(units)
             n == [id |-> id, recovery |-> Refund!Recovery, sure |-> ~dialog.uncertain,
                   owner |-> "dialog", step |-> IF Refund!Recovery = None THEN "prepare" ELSE "submit",
                   answer |-> "none"]
             d == [dialog EXCEPT !.command = id]
             a == [id |-> id, recovery |-> Refund!Recovery, state |-> "pending"]
             new == [sale |-> place, units |-> units]
  <2>1. /\ dialog # None /\ ~Refund!Is(refund, {"pending"})
        /\ dialog.uncertain \/ id \in Refund!Ids
        /\ returns' = IF returns[id] # None THEN returns ELSE [returns EXCEPT ![id] = new]
        /\ refund' = a /\ dialog' = d /\ refundCalls' = refundCalls \cup {n}
        /\ rejected' = rejected \ {id} /\ unitsRead' = FALSE
        /\ UNCHANGED <<left, records, refunded, refundFaults, place, loaded, entry, recovering, recovered,
                       result, open, seen>>
    BY <1>16 DEF Refund!Submit
  <2>2. /\ dialog \in Refund!Dialog /\ loaded /\ place \in Sales /\ result # None
        /\ ~Refund!Is(refund, {"completed"})
        /\ dialog.command = IF refund = None THEN None ELSE refund.id
        /\ dialog.uncertain => refund # None
        /\ ~dialog.uncertain => refund = None
    BY <1>0, <2>1 DEF RefundTypes, RefundSees, DialogSees
  <2>3. dialog.uncertain => /\ id = refund.id /\ id \in Refund!Ids /\ returns[id] # None
                            /\ Refund!Recovery \in {None, id}
                            /\ Refund!Recovery # None => records[Refund!Recovery] # None
    BY <1>0, <1>e, <2>2 DEF Refund!Attempt, RefundKnows, Refund!Recovery
  <2>4. ~dialog.uncertain => /\ id = Refund!NextId /\ id \in Refund!Ids /\ returns[id] = None
                             /\ Refund!Recovery = None
                             /\ \A i \in Refund!Ids : i < id => returns[i] # None
                             /\ \A i \in Refund!Ids : i > id => returns[i] = None
    <3>1. PICK k \in 0 .. MaxIds : \A i \in Refund!Ids : returns[i] # None <=> i <= k
      BY <1>0 DEF RefundsInOrder
    <3>2. {i \in Refund!Ids : returns[i] # None} = 1 .. k
      BY <3>1 DEF Refund!Ids, Refund!Bounds
    <3>6. MaxIds \in Nat /\ k \in Int
      BY DEF Refund!Bounds
    <3>3. Cardinality({i \in Refund!Ids : returns[i] # None}) = k
      <4> DEFINE issued == {i \in Refund!Ids : returns[i] # None}
      <4> HIDE DEF issued
      <4>1. issued = 1 .. k /\ k \in 0 .. MaxIds
        BY <3>2 DEF issued
      <4>2. Cardinality(1 .. k) = IF 1 > k THEN 0 ELSE k - 1 + 1
        BY <3>6, FS_Interval
      <4>3. Cardinality(issued) = k
        BY <3>6, <4>1, <4>2
      <4> QED
        BY <4>3 DEF issued
    <3>4. Refund!NextId = k + 1
      BY <3>3 DEF Refund!NextId, Refund!Cardinality, Cardinality
    <3>5. ~dialog.uncertain => id = Refund!NextId
      BY <2>2 DEF Refund!IdFor
    <3> QED
      BY <2>1, <2>2, <3>1, <3>4, <3>5 DEF Refund!Ids, Refund!Recovery, Refund!Bounds
  <2> HIDE DEF id
  <2>5. id \in Refund!Ids /\ Refund!Recovery \in {None, id} /\ (Refund!Recovery # None => records[Refund!Recovery] # None)
        /\ new \in Refund!Content
    BY <2>2, <2>3, <2>4 DEF Refund!Content
  <2> HIDE DEF new
  <2>6. \A c \in refundCalls : ~Waited(c)
    BY <1>0, <2>1 DEF RefundWaits
  <2>7. ~dialog.uncertain => id \notin refunded /\ ~Stray(refundCalls, id)
    <3> SUFFICES ASSUME ~dialog.uncertain PROVE id \notin refunded /\ ~Stray(refundCalls, id)
      OBVIOUS
    <3>1. records[id] = None /\ id # None
      BY <1>b, <2>4
    <3> QED
      BY <1>0, <3>1 DEF RefundLedger, Stray, RefundShaped
  <2>8. /\ returns' \in [Refund!Ids -> Refund!Content \cup {None}] /\ returns'[id] # None
        /\ \A i \in Refund!Ids : returns[i] # None => returns'[i] # None
        /\ \A i \in Refund!Ids : returns'[i] # None => i = id \/ returns[i] # None
    BY <1>0, <2>1, <2>5 DEF RefundTypes, Refund!Bounds
  <2>9. RefundsInOrder(returns')
    <3>1. CASE dialog.uncertain
      BY <1>0, <2>1, <2>3, <3>1
    <3>2. CASE ~dialog.uncertain
      <4>1. /\ id \in 0 .. MaxIds
            /\ \A i \in Refund!Ids : i <= id \/ i > id
        BY <2>5 DEF Refund!Ids, Refund!Bounds
      <4>2. \A i \in Refund!Ids : returns'[i] # None <=> i <= id
        BY <2>4, <2>8, <3>2 DEF Refund!Ids
      <4> QED
        BY <4>1, <4>2 DEF RefundsInOrder
    <3> QED
      BY <3>1, <3>2
  <2>10. n \in Refund!Call /\ d \in Refund!Dialog /\ a \in Refund!Attempt /\ d # None
                           /\ a # None
         /\ d.command = id /\ d.uncertain = dialog.uncertain
    <3>1. n \in Refund!Call /\ d \in Refund!Dialog /\ a \in Refund!Attempt
      BY <2>2, <2>5 DEF Refund!Call, Refund!Dialog, Refund!Attempt
    <3> QED
      BY <2>2, <3>1 DEF Refund!Dialog, Refund!Bounds
  <2>11. /\ n.id = id /\ n.recovery = Refund!Recovery /\ n.sure = ~dialog.uncertain
         /\ n.owner = "dialog" /\ n.answer = "none"
         /\ n.step = IF Refund!Recovery = None THEN "prepare" ELSE "submit"
         /\ a.id = id /\ a.recovery = Refund!Recovery /\ a.state = "pending"
    OBVIOUS
  <2> HIDE DEF n, d, a
  <2>12. \A i \in Refund!Ids : Stray(refundCalls', i) => Stray(refundCalls, i)
    BY <2>1, <2>11 DEF Stray
  <2>13. RefundShaped(refundCalls', records, returns')
    <3>1. \A c \in refundCalls : returns'[c.id] # None
      BY <1>0, <1>c, <2>8 DEF RefundShaped
    <3>2. /\ n.step = "answer" <=> n.answer # "none"
          /\ n.step = "submit" => n.recovery # None
          /\ n.step = "prepare" => n.recovery = None
          /\ n.recovery # None => records[n.recovery] # None
          /\ n.answer # "prepared" /\ n.recovery \in {None, n.id}
      BY <2>5, <2>11
    <3> QED
      BY <1>0, <2>1, <2>8, <2>11, <3>1, <3>2 DEF RefundShaped
  <2>14. RefundWaits(refundCalls', refund', dialog', rejected', refunded)
    <3>1. \A c \in refundCalls' : Waited(c) => c = n
      BY <2>1, <2>6
    <3>2. id \notin rejected'
      BY <2>1
    <3>3. ~dialog.uncertain => ~Stray(refundCalls', id) /\ id \notin refunded
      BY <2>5, <2>7, <2>12
    <3>4. Refund!Is(a, {"pending"})
      BY <2>10, <2>11 DEF Refund!Is
    <3> QED
      BY <2>1, <2>10, <2>11, <3>1, <3>2, <3>3, <3>4 DEF RefundWaits
  <2>15. RefundKnows(refund', recovered, records, returns')
    BY <1>0, <2>1, <2>5, <2>8, <2>10, <2>11 DEF RefundKnows
  <2>16. RefundSees(refund', dialog', place, loaded, result, seen)
    BY <2>1, <2>2, <2>10, <2>11, <1>0 DEF RefundSees, DialogSees, Refund!Is
  <2>17. RefundRejections(refundCalls', rejected', refunded)
    BY <1>0, <1>e, <2>1, <2>12 DEF RefundRejections
  <2>18. RefundLedger(records, returns', refunded, seen)
    BY <1>0, <2>8 DEF RefundLedger
  <2>19. RefundTypes'
    BY <1>0, <2>1, <2>8, <2>10 DEF RefundTypes
  <2> QED
    BY <1>0, <2>1, <2>9, <2>13, <2>14, <2>15, <2>16, <2>17, <2>18, <2>19 DEF RefundInv
<1>17. ASSUME NEW c \in refundCalls, Refund!Prepare(c) PROVE RefundInv'
  <2>1. c.step = "prepare" /\ c.recovery = None /\ c.step # "answer"
        /\ UNCHANGED <<left, returns, refunded, refundFaults, refund, Refund!view, rejected, seen>>
    BY <1>0, <1>17 DEF Refund!Prepare, RefundShaped
  <2>2. PICK kind \in {"prepared", "blocked"} :
          /\ Refund!Answered(c, kind)
          /\ \/ UNCHANGED records /\ (kind = "prepared" => records[c.id] # None)
             \/ kind = "prepared" /\ ~Refund!Blocked /\ records[c.id] = None
                /\ records' = [records EXCEPT ![c.id] = "PREPARED"]
    BY <1>17 DEF Refund!Prepare
  <2>3. /\ records' \in [Refund!Ids -> Refund!RecordStates \cup {None}]
        /\ records'[c.id] # None \/ kind = "blocked"
        /\ \A i \in Refund!Ids : /\ records[i] # None => records'[i] # None
                                 /\ records'[i] = "ACKNOWLEDGED" => records[i] = "ACKNOWLEDGED"
                                 /\ records'[i] # None => i = c.id \/ records[i] # None
        /\ \A i, j \in Refund!Ids : records'[i] \in Refund!Blocking /\ records'[j] \in Refund!Blocking => i = j
    <3>1. CASE UNCHANGED records
      <4>1. records[c.id] # None \/ kind = "blocked"
        BY <1>b, <2>2, <3>1, <1>c, NoRefundState DEF Refund!RecordStates
      <4> QED
        BY <1>0, <1>b, <3>1, <4>1 DEF RefundLedger
    <3>2. CASE ~Refund!Blocked /\ records' = [records EXCEPT ![c.id] = "PREPARED"]
      BY <1>b, <1>c, <3>2, NoRefundState DEF Refund!Blocked, Refund!RecordStates
    <3> QED
      BY <2>2, <3>1, <3>2
  <2>4. returns[c.id] # None
    BY <1>0 DEF RefundShaped
  <2>5. /\ RefundShaped(refundCalls, records', returns)
        /\ RefundKnows(refund, recovered, records', returns)
        /\ RefundLedger(records', returns, refunded, seen)
    <3>1. /\ \A x \in recovered : x.id \in Refund!Ids
          /\ refund # None => refund.recovery \in Refund!Ids \cup {None}
      BY <1>e DEF Refund!Saved, Refund!Attempt
    <3>2. RefundLedger(records', returns, refunded, seen)
      BY <1>0, <1>b, <2>3, <2>4, <3>1 DEF RefundLedger
    <3> QED
      BY <1>0, <1>c, <2>3, <3>1, <3>2 DEF RefundShaped, RefundKnows
  <2>6. Waited(c) /\ c.sure => c.id \notin refunded
    BY <1>d, <2>1
  <2>7. /\ refundCalls' \in SUBSET Refund!Call
        /\ RefundShaped(refundCalls', records', returns)
        /\ RefundWaits(refundCalls', refund, dialog, rejected, refunded)
        /\ RefundRejections(refundCalls', rejected, refunded)
    BY <1>0, <2>1, <2>2, <2>3, <2>5, <2>6, ReturnAnswered DEF RefundKinds
  <2> QED
    BY <1>b, <2>1, <2>3, <2>5, <2>7, ReturnServed
<1>18. ASSUME NEW c \in refundCalls, Refund!SubmitRecord(c) PROVE RefundInv'
  <2> DEFINE i == c.recovery
  <2>1. c.step = "submit" /\ c.step # "answer" /\ i \in Refund!Ids /\ records[i] # None
        /\ UNCHANGED <<returns, refund, Refund!view, rejected, seen>>
    BY <1>0, <1>c, <1>18 DEF Refund!SubmitRecord, RefundShaped
  <2>2. PICK kind \in RefundKinds, state \in Refund!Blocking, rf \in {refunded, refunded \cup {i}} :
          /\ Refund!Answered(c, kind) /\ refunded' = rf
          /\ kind \in {"refund", "exceeded", "retry"}
          /\ rf = refunded \/ kind = "refund"
          /\ \/ UNCHANGED records /\ rf = refunded
             \/ records[i] # "ACKNOWLEDGED" /\ records' = [records EXCEPT ![i] = state]
    <3>1. CASE records[i] = "ACKNOWLEDGED"
      <4>1. Refund!Answered(c, "retry") /\ refunded' = refunded /\ records' = records
        BY <1>b, <1>18, <3>1 DEF Refund!SubmitRecord
      <4> QED
        BY <4>1 DEF RefundKinds, Refund!Blocking, Refund!RecordStates
    <3>2. CASE records[i] # "ACKNOWLEDGED"
      <4>1. \/ /\ Refund!Answered(c, "refund") /\ refunded' \in {refunded, refunded \cup {i}}
               /\ records' = [records EXCEPT ![i] = "COMPLETED"]
            \/ /\ Refund!Answered(c, "exceeded") /\ refunded' = refunded
               /\ records' = [records EXCEPT ![i] = "PREPARED"]
            \/ /\ Refund!Answered(c, "retry") /\ refunded' = refunded
               /\ records' = [records EXCEPT ![i] = "SUBMITTED"]
        BY <1>18, <3>2 DEF Refund!SubmitRecord, Refund!Record
      <4> QED
        BY <3>2, <4>1 DEF RefundKinds, Refund!Blocking, Refund!RecordStates
    <3> QED
      BY <3>1, <3>2
  <2>3. refundFaults' \in 0 .. MaxFaults
    BY <1>a, <1>b, <1>18 DEF Refund!SubmitRecord
  <2>4. left' \in [Sales -> 0 .. Units]
    <3>1. CASE left' = left
      BY <1>b, <3>1
    <3>2. CASE Refund!Returns(i) /\ returns[i].units <= left[returns[i].sale]
      <4>1. returns[i] \in Refund!Content
        BY <1>0, <1>b, <2>1 DEF RefundTypes
      <4>2. returns[i].sale \in Sales /\ returns[i].units \in 1 .. Units
        BY <4>1 DEF Refund!Content
      <4>3. left[returns[i].sale] - returns[i].units \in 0 .. Units
        BY <1>b, <3>2, <4>2 DEF Refund!Bounds
      <4> QED
        BY <1>b, <3>2, <4>2, <4>3 DEF Refund!Returns
    <3> QED
      BY <1>18, <3>1, <3>2 DEF Refund!SubmitRecord
  <2>5. /\ records' \in [Refund!Ids -> Refund!RecordStates \cup {None}]
        /\ RefundShaped(refundCalls, records', returns)
        /\ RefundKnows(refund, recovered, records', returns)
        /\ RefundLedger(records', returns, rf, seen) /\ rf \in SUBSET Refund!Ids
    <3>1. CASE UNCHANGED records /\ rf = refunded
      BY <1>0, <1>b, <3>1
    <3>2. CASE records[i] # "ACKNOWLEDGED" /\ records' = [records EXCEPT ![i] = state]
      <4>1. records[i] \in Refund!Blocking
        BY <1>b, <2>1, <3>2 DEF Refund!Blocking
      <4> QED
        BY <2>1, <3>2, <4>1, ReturnKept
    <3> QED
      BY <2>2, <3>1, <3>2
  <2>6. Waited(c) /\ c.sure /\ c.id \in rf => kind \in {"refund", "lost"}
    BY <1>d, <2>1, <2>2
  <2>7. /\ refundCalls' \in SUBSET Refund!Call
        /\ RefundShaped(refundCalls', records', returns)
        /\ RefundWaits(refundCalls', refund, dialog, rejected, rf)
        /\ RefundRejections(refundCalls', rejected, rf)
    <3>1. rf = refunded \/ (c.step = "submit" /\ rf = refunded \cup {c.recovery})
      BY <2>1
    <3>2. kind = "prepared" => records'[c.id] # None
      BY <2>2
    <3> QED
      BY <1>0, <2>1, <2>2, <2>5, <2>6, <3>1, <3>2, ReturnAnswered
  <2> QED
    BY <2>1, <2>2, <2>3, <2>4, <2>5, <2>7, ReturnServed
<1>19. ASSUME NEW c \in refundCalls, Refund!Refuse(c) PROVE RefundInv'
  <2>1. PICK kind \in {"denied", "invalid"} : Refund!Answered(c, kind)
    BY <1>19 DEF Refund!Refuse
  <2>2. /\ c.step # "answer" /\ refundFaults' \in 0 .. MaxFaults
        /\ UNCHANGED <<left, returns, records, refunded, refund, Refund!view, rejected, seen>>
    BY <1>a, <1>19 DEF Refund!Refuse, Refund!server
  <2>3. /\ refundCalls' \in SUBSET Refund!Call
        /\ RefundShaped(refundCalls', records, returns)
        /\ RefundWaits(refundCalls', refund, dialog, rejected, refunded)
        /\ RefundRejections(refundCalls', rejected, refunded)
    BY <1>0, <1>d, <2>1, <2>2, ReturnAnswered DEF RefundKinds
  <2> QED
    BY <1>0, <1>b, <2>2, <2>3, ReturnServed
<1>20. ASSUME NEW c \in refundCalls, Refund!Lose(c) PROVE RefundInv'
  <2> DEFINE lost == [c EXCEPT !.step = "answer", !.answer = "lost"]
             copy == [c EXCEPT !.owner = "nobody"]
  <2>1. /\ c.owner # "nobody" /\ c.answer # "lost" /\ refundFaults' \in 0 .. MaxFaults
        /\ \/ Refund!Answered(c, "lost")
           \/ c.step # "answer" /\ refundCalls' = (refundCalls \ {c}) \cup {lost, copy}
        /\ UNCHANGED <<left, returns, records, refunded, refund, Refund!view, rejected, seen>>
    BY <1>a, <1>20 DEF Refund!Lose, Refund!Answered, Refund!server
  <2>2. c \in Refund!Call /\ Waited(c) /\ c.id \notin rejected /\ c.recovery \in {None, c.id}
                          /\ c.id \in Refund!Ids
    BY <2>1, ReturnDelivering
  <2>3. /\ refundCalls' \in SUBSET Refund!Call
        /\ RefundShaped(refundCalls', records, returns)
        /\ RefundWaits(refundCalls', refund, dialog, rejected, refunded)
        /\ RefundRejections(refundCalls', rejected, refunded)
    <3>1. CASE Refund!Answered(c, "lost")
      BY <1>0, <3>1, ReturnAnswered DEF RefundKinds
    <3>2. CASE c.step # "answer" /\ refundCalls' = (refundCalls \ {c}) \cup {lost, copy}
      <4>1. /\ lost \in Refund!Call /\ copy \in Refund!Call
            /\ lost.id = c.id /\ lost.recovery = c.recovery /\ lost.sure = c.sure
            /\ lost.owner = c.owner /\ lost.step = "answer" /\ lost.answer = "lost"
            /\ copy.id = c.id /\ copy.recovery = c.recovery /\ copy.sure = c.sure
            /\ copy.owner = "nobody" /\ copy.step = c.step /\ copy.answer = c.answer
        BY <2>2 DEF Refund!Call
      <4> HIDE DEF lost, copy
      <4>2. refundCalls' \in SUBSET Refund!Call
        BY <1>e, <3>2, <4>1
      <4>3. RefundShaped(refundCalls', records, returns)
        BY <1>0, <3>2, <4>1 DEF RefundShaped
      <4>4. \A x \in refundCalls' : Waited(x) => x = lost
        BY <1>0, <2>2, <3>2, <4>1 DEF RefundWaits, Waited
      <4>5. RefundWaits(refundCalls', refund, dialog, rejected, refunded)
        BY <1>0, <2>2, <4>1, <4>4 DEF RefundWaits
      <4>6. \A i \in Refund!Ids : Stray(refundCalls', i) => Stray(refundCalls, i) \/ i = c.id
        BY <1>b, <2>2, <3>2, <4>1 DEF Stray
      <4>7. RefundRejections(refundCalls', rejected, refunded)
        BY <1>0, <1>e, <2>2, <4>6 DEF RefundRejections
      <4> QED
        BY <4>2, <4>3, <4>5, <4>7
    <3> QED
      BY <2>1, <3>1, <3>2
  <2> QED
    BY <1>0, <1>b, <2>1, <2>3, ReturnServed
<1>21. ASSUME NEW c \in refundCalls, Refund!Prepared(c) PROVE RefundInv'
  <2> DEFINE a == Refund!Of(c, c.id, "pending")
             e == [c EXCEPT !.recovery = c.id, !.step = "submit", !.answer = "none"]
             these == Refund!Rest(c) \cup {e}
             n == [Refund!Now EXCEPT !.attempt = a, !.calls = these]
  <2>1. /\ c.answer = "prepared" /\ c.owner # "nobody" /\ Refund!Becomes(n)
        /\ UNCHANGED <<left, returns, records, refunded, refundFaults, rejected>>
    BY <1>21 DEF Refund!Prepared, Refund!server
  <2>2. /\ e \in Refund!Call /\ e.id = c.id /\ e.recovery = c.id /\ e.sure = c.sure
        /\ e.owner = c.owner /\ e.step = "submit" /\ e.answer = "none"
    BY <1>c DEF Refund!Call
  <2>3. a \in Refund!Attempt /\ a # None /\ a.id = c.id /\ a.recovery = c.id
                             /\ a.state = "pending"
    BY <2>1, ReturnDelivering
  <2>4. records[c.id] # None /\ returns[c.id] # None /\ c.id # None
    BY <1>0, <1>b, <1>c, <2>1 DEF RefundShaped
  <2>5. /\ n.attempt = a /\ n.saved = recovered /\ n.calls = these /\ n.place = place
        /\ n.units = result /\ n.dialog = dialog /\ n.open = open /\ n.listing = recovering
    BY DEF Refund!Now
  <2> HIDE DEF e, a, n
  <2>6. these \in SUBSET Refund!Call /\ RefundShaped(these, records, returns)
    <3>1. Refund!Rest(c) \in SUBSET Refund!Call /\ RefundShaped(Refund!Rest(c), records, returns)
      BY ReturnRests
    <3> QED
      BY <2>2, <2>4, <3>1 DEF RefundShaped
  <2>7. \A i : Stray(these, i) => Stray(refundCalls, i)
    BY <2>1, <2>2 DEF Stray, Refund!Rest
  <2>8. RefundWaits(these, a, dialog, rejected, refunded)
    <3>1. \A x \in these : Waited(x) => x = e
      BY <2>1, ReturnDelivering, ReturnRests
    <3>2. Refund!Is(a, {"pending"})
      BY <2>3 DEF Refund!Is
    <3>3. e.sure => ~Stray(these, e.id) /\ e.id \notin refunded
      <4>1. c.sure => ~Stray(refundCalls, c.id) /\ c.id \notin refunded
        BY <1>0, <2>1, ReturnDelivering DEF RefundWaits
      <4> QED
        BY <2>2, <2>7, <4>1
    <3>4. /\ e.id \notin rejected
          /\ e.owner = "dialog" => dialog # None /\ e.sure = ~dialog.uncertain
      BY <2>1, <2>2, ReturnDelivering
    <3> QED
      BY <2>2, <2>3, <3>1, <3>2, <3>3, <3>4 DEF RefundWaits
  <2>9. RefundKnows(a, recovered, records, returns)
    BY <1>0, <2>3, <2>4 DEF RefundKnows
  <2>10. RefundRejections(these, rejected, refunded)
    BY <1>0, <2>7 DEF RefundRejections
  <2>11. Refund!Is(refund, {"pending"}) /\ Refund!Is(a, {"pending"}) /\ a.id = refund.id
    <3>1. Refund!Is(refund, {"pending"}) /\ refund.id = c.id
      BY <2>1, ReturnDelivering
    <3> QED
      BY <2>3, <3>1 DEF Refund!Is
  <2> HIDE DEF these
  <2>12. RefundFits(n, records', rejected', refunded)
    BY <1>b, <1>e, <2>1, <2>3, <2>5, <2>6, <2>8, <2>9, <2>10, <2>11 DEF RefundFits
  <2> QED
    BY <1>0, <1>b, <2>1, <2>12, ReturnDelivered
<1>22. ASSUME NEW c \in refundCalls, Refund!Completed(c) PROVE RefundInv'
  <2> DEFINE a == Refund!Of(c, None, "completed")
             n == [Refund!Now EXCEPT !.attempt = a, !.calls = Refund!Rest(c),
                              !.open = open /\ c.owner # "dialog"]
  <2>1. /\ c.owner # "nobody" /\ Refund!Becomes(n)
        /\ UNCHANGED <<left, returns, records, refunded, refundFaults, rejected>>
    BY <1>22 DEF Refund!Completed, Refund!server, Refund!Now
  <2>2. a \in Refund!Attempt /\ a # None /\ a.id = c.id /\ a.recovery = None
                             /\ a.state = "completed"
    BY <2>1, ReturnDelivering
  <2>3. /\ n.attempt = a /\ n.saved = recovered /\ n.calls = Refund!Rest(c) /\ n.place = place
        /\ n.units = result /\ n.dialog = dialog /\ n.open \in BOOLEAN /\ n.listing = recovering
    BY <1>e DEF Refund!Now
  <2> HIDE DEF a, n
  <2>4. /\ Refund!Rest(c) \in SUBSET Refund!Call
        /\ RefundShaped(Refund!Rest(c), records, returns)
        /\ RefundRejections(Refund!Rest(c), rejected, refunded)
        /\ RefundWaits(Refund!Rest(c), a, dialog, rejected, refunded)
    BY <2>1, ReturnDelivering, ReturnRests DEF RefundWaits
  <2>5. RefundKnows(a, recovered, records, returns)
    BY <1>0, <2>1, <2>2, ReturnDelivering DEF RefundKnows
  <2>6. Refund!Is(refund, {"pending"}) /\ ~Refund!Is(a, {"pending"})
    BY <2>1, <2>2, ReturnDelivering DEF Refund!Is
  <2>7. RefundFits(n, records', rejected', refunded)
    BY <1>b, <1>e, <2>1, <2>2, <2>3, <2>4, <2>5, <2>6 DEF RefundFits
  <2> QED
    BY <1>0, <1>b, <2>1, <2>7, ReturnDelivered
<1>23. ASSUME NEW c \in refundCalls, Refund!Rejected(c) PROVE RefundInv'
  <2> DEFINE closes == c.owner = "dialog" /\ c.answer # "invalid"
             n == [Refund!Now EXCEPT !.attempt = None, !.calls = Refund!Rest(c), !.open = open /\ ~closes,
                              !.place = IF closes THEN Refund!ClosedEntry ELSE place]
  <2>1. /\ c.owner # "nobody" /\ c.sure /\ Refund!Becomes(n)
        /\ c.answer \in {"exceeded", "invalid", "blocked", "denied"}
        /\ rejected' \in {rejected, rejected \cup {c.id}}
        /\ UNCHANGED <<left, returns, records, refunded, refundFaults>>
    BY <1>23 DEF Refund!Rejected, Refund!KnownRejected, Refund!server, Refund!Now
  <2>2. ~Stray(refundCalls, c.id) /\ c.id \notin refunded
    BY <1>0, <2>1, ReturnDelivering DEF RefundWaits
  <2>3. /\ n.attempt = None /\ n.saved = recovered /\ n.calls = Refund!Rest(c)
        /\ n.place \in {place, None}
        /\ n.units = result /\ n.dialog = dialog /\ n.open \in BOOLEAN /\ n.listing = recovering
    BY <1>e DEF Refund!Now, Refund!ClosedEntry
  <2> HIDE DEF n
  <2>4. /\ Refund!Rest(c) \in SUBSET Refund!Call
        /\ RefundShaped(Refund!Rest(c), records, returns)
        /\ RefundRejections(Refund!Rest(c), rejected', refunded)
        /\ RefundWaits(Refund!Rest(c), None, dialog, rejected', refunded)
    <3>1. /\ Refund!Rest(c) \in SUBSET Refund!Call
          /\ RefundShaped(Refund!Rest(c), records, returns)
          /\ RefundRejections(Refund!Rest(c), rejected, refunded)
          /\ \A i : Stray(Refund!Rest(c), i) => Stray(refundCalls, i)
          /\ \A x \in Refund!Rest(c) : ~Waited(x)
      BY <2>1, ReturnDelivering, ReturnRests
    <3> QED
      BY <2>1, <2>2, <3>1 DEF RefundRejections, RefundWaits
  <2>5. RefundKnows(None, recovered, records, returns)
    BY <1>0 DEF RefundKnows
  <2>6. Refund!Is(refund, {"pending"}) /\ ~Refund!Is(None, {"pending"})
    BY <2>1, ReturnDelivering DEF Refund!Is
  <2>7. rejected' \in SUBSET Refund!Ids
    BY <1>c, <1>e, <2>1
  <2>8. RefundFits(n, records', rejected', refunded)
    BY <1>b, <1>e, <2>1, <2>3, <2>4, <2>5, <2>6, <2>7 DEF RefundFits
  <2> QED
    BY <1>0, <1>b, <2>1, <2>8, ReturnDelivered
<1>24. ASSUME NEW c \in refundCalls, Refund!Uncertain(c) PROVE RefundInv'
  <2> DEFINE a == Refund!Of(c, Refund!Recovery, "unknown")
             n == [Refund!Now EXCEPT !.attempt = a, !.calls = Refund!Rest(c)]
  <2>1. /\ c.owner # "nobody" /\ Refund!Becomes(n)
        /\ UNCHANGED <<left, returns, records, refunded, refundFaults, rejected>>
    BY <1>24 DEF Refund!Uncertain, Refund!server
  <2>2. a \in Refund!Attempt /\ a # None /\ a.id = c.id /\ a.recovery = c.recovery
        /\ a.state = "unknown"
    <3>1. c.recovery = Refund!Recovery /\ Refund!Recovery \in {None, c.id}
      BY <2>1, ReturnDelivering
    <3> QED
      BY <2>1, <3>1, ReturnDelivering
  <2>3. /\ n.attempt = a /\ n.saved = recovered /\ n.calls = Refund!Rest(c) /\ n.place = place
        /\ n.units = result /\ n.dialog = dialog /\ n.open = open /\ n.listing = recovering
    BY DEF Refund!Now
  <2> HIDE DEF a, n
  <2>4. /\ Refund!Rest(c) \in SUBSET Refund!Call
        /\ RefundShaped(Refund!Rest(c), records, returns)
        /\ RefundRejections(Refund!Rest(c), rejected, refunded)
        /\ RefundWaits(Refund!Rest(c), a, dialog, rejected, refunded)
    BY <2>1, ReturnDelivering, ReturnRests DEF RefundWaits
  <2>5. RefundKnows(a, recovered, records, returns)
    BY <1>0, <2>1, <2>2, ReturnDelivering DEF RefundKnows
  <2>6. Refund!Is(refund, {"pending"}) /\ ~Refund!Is(a, {"pending"})
    BY <2>1, <2>2, ReturnDelivering DEF Refund!Is
  <2>7. RefundFits(n, records', rejected', refunded)
    BY <1>b, <1>e, <2>1, <2>2, <2>3, <2>4, <2>5, <2>6 DEF RefundFits
  <2> QED
    BY <1>0, <1>b, <2>1, <2>7, ReturnDelivered
<1>25. ASSUME NEW c \in refundCalls, Refund!Dropped(c) PROVE RefundInv'
  <2>1. /\ c.owner = "nobody" /\ refundCalls' = Refund!Rest(c)
        /\ UNCHANGED <<left, returns, records, refunded, refundFaults, refund, Refund!view, rejected, seen>>
    BY <1>25 DEF Refund!Dropped, Refund!server
  <2>2. /\ Refund!Rest(c) \in SUBSET Refund!Call
        /\ RefundShaped(Refund!Rest(c), records, returns)
        /\ RefundRejections(Refund!Rest(c), rejected, refunded)
        /\ RefundWaits(Refund!Rest(c), refund, dialog, rejected, refunded)
    BY <2>1, ReturnRests DEF Waited
  <2> QED
    BY <1>0, <1>b, <2>1, <2>2, ReturnServed
<1>26. CASE UNCHANGED Refund!vars
  BY <1>0, <1>26 DEF Refund!vars, Refund!server, Refund!view, RefundInv, RefundTypes
<1> QED
  BY <1>1, <1>2, <1>3, <1>4, <1>5, <1>6, <1>7, <1>8, <1>9, <1>10, <1>11, <1>12, <1>14,
     <1>15, <1>16, <1>17, <1>18, <1>19, <1>20, <1>21, <1>22, <1>23, <1>24, <1>25, <1>26
  DEF Refund!Next

\* The invariant holds before the first refund.
LEMMA InitRefund == ASSUME Refund!Bounds PROVE Refund!Init => RefundInv
<1> SUFFICES ASSUME Refund!Init PROVE RefundInv
  OBVIOUS
<1>1. RefundTypes
  <2>1. left \in [Sales -> 0 .. Units] /\ refundFaults \in 0 .. MaxFaults
    BY DEF Refund!Init, Refund!Bounds
  <2>2. {} \in SUBSET Refund!Ids /\ {} \in SUBSET Refund!Call /\ {} \in SUBSET Refund!Saved
    OBVIOUS
  <2>3. returns \in [Refund!Ids -> Refund!Content \cup {None}] /\ records \in [Refund!Ids -> Refund!RecordStates \cup {None}]
    BY DEF Refund!Init
  <2> QED
    BY <2>1, <2>2, <2>3 DEF Refund!Init, RefundTypes
<1>2. RefundsInOrder(returns)
  BY DEF Refund!Init, RefundsInOrder, Refund!Ids, Refund!Bounds
<1>3. RefundLedger(records, returns, refunded, seen)
  BY NoRefundState DEF Refund!Init, RefundLedger, Refund!Blocking, Refund!RecordStates
<1> QED
  BY <1>1, <1>2, <1>3 DEF Refund!Init, RefundInv, RefundShaped, RefundWaits, RefundKnows,
     RefundSees, DialogSees, Refund!Is, RefundRejections

\* The variables of the refund screen, its stored attempt, its calls and the recovery
\* records of the server keep their shapes (refund-dialog.tsx, refund-attempt.ts).
THEOREM RefundIsTyped == ASSUME Refund!Bounds PROVE Refund!Spec => []Refund!TypeOK
<1>1. RefundInv => Refund!TypeOK
  BY DEF RefundInv, RefundTypes, Refund!TypeOK
<1> QED
  BY <1>1, InitRefund, StepRefund, PTL DEF Refund!Spec

\* A refund the staff was told was rejected is not recorded, and no request that is
\* still under way can record it.
THEOREM RejectedStaysUnrecorded ==
  ASSUME Refund!Bounds
  PROVE  Refund!Spec => []Refund!RejectedIsUnrecorded
<1>1. RefundInv => Refund!RejectedIsUnrecorded
  BY DEF RefundInv, RefundRejections, Refund!RejectedIsUnrecorded
<1> QED
  BY <1>1, InitRefund, StepRefund, PTL DEF Refund!Spec

\* A refund is recorded by a submission alone, for the one open record; every other one
\* has a closed record, and a record is closed by who has seen it.
LEMMA StepAfterSeen ==
  ASSUME Refund!Bounds
  PROVE  RefundInv /\ [Refund!Next]_Refund!vars => [Refund!AfterSeen]_Refund!vars
<1> SUFFICES ASSUME RefundInv, [Refund!Next]_Refund!vars, NEW i \in refunded' \ refunded, NEW j \in refunded
             PROVE  j \in seen
  BY DEF Refund!AfterSeen
<1>1. PICK c \in refundCalls : Refund!SubmitRecord(c)
  BY DEF Refund!Next, Refund!Visit, Refund!OtherReturns, Refund!SaleArrives,
     Refund!RecoveriesArrive, Refund!RecoveriesFail, Refund!Leave, Refund!Reload,
     Refund!UnitsArrive, Refund!UnitsFail, Refund!Refresh, Refund!ReturnItems, Refund!Close,
     Refund!Acknowledge, Refund!AcknowledgeLost, Refund!Submit,
     Refund!Prepare, Refund!Refuse, Refund!Lose, Refund!Prepared, Refund!Completed,
     Refund!Rejected, Refund!Uncertain, Refund!Dropped, Refund!vars, Refund!server
<1>2. c.step = "submit" /\ i = c.recovery /\ records[i] # "ACKNOWLEDGED"
  BY <1>1 DEF Refund!SubmitRecord
<1>3. i \in Refund!Ids /\ j \in Refund!Ids /\ records[i] \in Refund!Blocking
                       /\ records[j] # None
  <2>1. c.recovery \in Refund!Ids \cup {None} /\ c.recovery # None /\ records[c.recovery] # None
    BY <1>2 DEF RefundInv, RefundTypes, RefundShaped, Refund!Call
  <2>2. j \in Refund!Ids /\ records[j] # None
    BY DEF RefundInv, RefundTypes, RefundLedger
  <2> QED
    BY <1>2, <2>1, <2>2 DEF RefundInv, RefundTypes, Refund!Blocking
<1>4. records[j] = "ACKNOWLEDGED"
  BY <1>3 DEF RefundInv, RefundTypes, RefundLedger, Refund!Blocking
<1> QED
  BY <1>3, <1>4 DEF RefundInv, RefundLedger

\* No refund is recorded while the staff has not seen that an earlier one was.
THEOREM EarlierRefundsWereSeen ==
  ASSUME Refund!Bounds
  PROVE  Refund!Spec => Refund!EarlierRefundsSeen
  BY StepAfterSeen, InitRefund, StepRefund, PTL DEF Refund!Spec, Refund!EarlierRefundsSeen

=============================================================================
