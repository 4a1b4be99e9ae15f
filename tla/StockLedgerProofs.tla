-------------------------- MODULE StockLedgerProofs --------------------------
(***************************************************************************)
(* What the stock ledger keeps for every set of placements, commands and   *)
(* requests: the types of the tables, the chain of balances, an answer     *)
(* that is true, and the refinement of the stock book.                     *)
(*                                                                         *)
(* The refinement is the argument that the snapshot of a checkout or       *)
(* refund, taken before it waited for the organization lock, decides as    *)
(* the tables do when it commits:                                          *)
(*   - the rows it updates have not changed since (FirstUpdaterWins);      *)
(*   - a sale that was found stays as it is;                               *)
(*   - a refund of the same sale that came meanwhile read the returns of   *)
(*     the sale and wrote them, as this one does, and NoWriteSkew refuses  *)
(*     the later one.                                                      *)
(***************************************************************************)
EXTENDS StockLedger, FiniteSetTheorems, WellFoundedInduction, TLAPS

TablesTyped ==
  /\ rows \in [Items -> [quantity : Quantity, price : Prices]]
  /\ active \in [Items -> BOOLEAN] /\ gates \in [Gates -> BOOLEAN]
  /\ sales \in [SaleIds -> Checkouts \cup {None}]
  /\ refunds \in [RefundIds -> Refunds \cup {None}]

\* Whoever is not idle serves a command; an open one holds a snapshot.
Served ==
  \A w \in Workers :
    /\ pc[w] # "idle" => cmd[w] \in Commands
    /\ pc[w] = "open" => snap[w] \in Tables

Typed == TypeOK /\ Served

-----------------------------------------------------------------------------
(* Facts about commands. *)

\* A checkout names a sale, a cart of quantities and the prices it was shown.
LEMMA CheckoutFacts ==
  ASSUME NEW c \in Commands, c.op = "checkout"
  PROVE  /\ c \in Checkouts /\ c \in Checkout /\ c # None
         /\ c.id \in SaleIds /\ c.cart \in [Items -> Quantity]
         /\ c.price \in [Items -> Prices]
<1>1. c \in Checkouts
  BY CommandsAssumption DEF Commands, Refund, StockCommand
<1> QED
  BY <1>1, CommandsAssumption, NoneAssumption DEF Checkout

\* A refund names its sale and, per placement, units returned and restocked.
LEMMA RefundFacts ==
  ASSUME NEW c \in Commands, c.op = "refund"
  PROVE  /\ c \in Refunds /\ c \in Refund /\ c # None
         /\ c.id \in RefundIds /\ c.sale \in SaleIds
         /\ c.lines \in [Items -> Quantity] /\ c.restock \in [Items -> Quantity]
<1>1. c \in Refunds
  BY CommandsAssumption DEF Commands, Checkout, StockCommand
<1> QED
  BY <1>1, CommandsAssumption, NoneAssumption DEF Refund

\* A stock command names a placement and an amount.
LEMMA StockFacts ==
  ASSUME NEW c \in Commands, c.op \in StockOps
  PROVE  /\ c \in StockCommands /\ c \in StockCommand
         /\ c.id \in StockIds /\ c.item \in Items /\ c.amount \in Int
<1>1. c \in StockCommands
  BY CommandsAssumption DEF Commands, Checkout, Refund, StockOps
<1>2. c \in StockCommand
  BY <1>1, CommandsAssumption
<1>3. c.id \in StockIds /\ c.item \in Items
  BY <1>2 DEF StockCommand
<1>4. c.amount \in Int
  BY <1>2, LimitAssumption DEF StockCommand, Quantity
<1> QED
  BY <1>1, <1>2, <1>3, <1>4

\* The three kinds of commands are told apart by their operation.
LEMMA Kinds ==
  ASSUME NEW c \in Commands
  PROVE  c.op = "checkout" \/ c.op = "refund" \/ c.op \in StockOps
BY CommandsAssumption DEF Commands, Checkout, Refund, StockCommand, StockOps

\* A snapshot of well-typed tables is well typed.
LEMMA SnapshotTyped == Snapshot \in Tables <=> TablesTyped
BY DEF Snapshot, Tables, TablesTyped

\* What a checkout or refund reads and writes are objects.
LEMMA LogTyped ==
  ASSUME NEW c \in Commands, c.op \in {"checkout", "refund"}
  PROVE  [reads |-> ReadsOf(c), writes |-> WritesOf(c)] \in Transaction
<1>1. RowsOf(c) \subseteq Items
  BY DEF RowsOf, Units
<1>2. LocksOf(c) \subseteq Gates
  BY DEF LocksOf, Gates
<1>3. OwnKey(c) \in Objects
  BY CheckoutFacts, RefundFacts DEF OwnKey, Objects
<1>4. c.op = "refund" => c.sale \in SaleIds
  BY RefundFacts
<1>5. ReadsOf(c) \subseteq Objects
  BY <1>1, <1>2, <1>3, <1>4 DEF ReadsOf, Objects
<1>6. WritesOf(c) \subseteq Objects
  BY <1>1, <1>3, <1>4 DEF WritesOf, Objects
<1> QED
  BY <1>5, <1>6 DEF Transaction

\* What is logged for the open transactions stays a set of their accesses.
LEMMA SinceTyped ==
  ASSUME Typed, NEW w, NEW t \in Transaction, Log(w, t)
  PROVE  since' \in [Workers -> SUBSET Transaction]
BY DEF Log, Typed, TypeOK

-----------------------------------------------------------------------------
(* Types. *)

\* The initial states are well typed.
LEMMA InitTyped == Init => Typed
<1> SUFFICES ASSUME Init PROVE Typed
  OBVIOUS
<1>1. PICK stock \in OpeningStock, price \in [Items -> Prices] :
        rows = [i \in Items |-> [quantity |-> stock[i], price |-> price[i]]]
  BY DEF Init
<1>2. stock \in [Items -> Quantity]
  BY BoundsAssumption
<1>3. rows \in [Items -> [quantity : Quantity, price : Prices]]
  BY <1>1, <1>2
<1>4. TablesTyped
  BY <1>3 DEF Init, TablesTyped
<1>5. ASSUME NEW i \in Items PROVE ledger[i] \in Seq(Movement)
  <2>1. rows[i].quantity \in Quantity
    BY <1>3
  <2>2. [by |-> Opening, change |-> rows[i].quantity, after |-> rows[i].quantity] \in Movement
    BY <2>1, LimitAssumption DEF Movement, Quantity
  <2> QED
    BY <2>2 DEF Init
<1>6. ledger \in [Items -> Seq(Movement)]
  BY <1>5 DEF Init
<1> QED
  BY <1>4, <1>6, SnapshotTyped DEF Init, Typed, TypeOK, Served

\* Answering a request keeps everything well typed.
LEMMA AnswerTyped ==
  ASSUME Typed, NEW w \in Workers, NEW kind, Answer(w, kind),
         kind \in {"none", "done", "conflict", "rejected", "retry"},
         TablesTyped', ledger' \in [Items -> Seq(Movement)],
         since' \in [Workers -> SUBSET Transaction]
  PROVE  Typed'
BY SnapshotTyped DEF Answer, Typed, TypeOK, Served, Snapshot, Tables, TablesTyped

\* So does an answer that writes nothing.
LEMMA AnswerOnlyTyped ==
  ASSUME Typed, NEW w \in Workers, NEW kind, AnswerOnly(w, kind),
         kind \in {"none", "done", "conflict", "rejected", "retry"}
  PROVE  Typed'
<1>1. TablesTyped'
  BY SnapshotTyped DEF AnswerOnly, tables, Typed, TypeOK, TablesTyped
<1>2. /\ ledger' \in [Items -> Seq(Movement)]
      /\ since' \in [Workers -> SUBSET Transaction]
  BY DEF AnswerOnly, tables, Typed, TypeOK
<1> QED
  BY <1>1, <1>2, AnswerTyped DEF AnswerOnly

\* So does the second transaction that looks for the original.
LEMMA RecoverTyped ==
  ASSUME Typed, NEW w \in Workers, Recover(w), pc[w] # "idle"
  PROVE  Typed'
BY SnapshotTyped DEF Recover, tables, Typed, TypeOK, Served, Snapshot, Tables, TablesTyped

\* So does the start of a transaction, with its snapshot.
LEMMA BeginTyped ==
  ASSUME Typed, NEW w \in Workers, NEW c \in Commands, Begin(w, c)
  PROVE  Typed'
<1>1. UNCHANGED <<rows, ledger, sales, refunds, active, gates, since>>
  BY DEF Begin, tables
<1>2. Snapshot' = Snapshot /\ Snapshot \in Tables
  BY <1>1 DEF Snapshot, Typed, TypeOK
<1>3. /\ pc'[w] \in {"idle", "open"} /\ cmd'[w] = c
      /\ pc'[w] = "open" => snap'[w] = Snapshot
      /\ \A v \in Workers \ {w} : pc'[v] = pc[v] /\ cmd'[v] = cmd[v] /\ snap'[v] = snap[v]
  BY DEF Begin, Typed, TypeOK
<1>4. /\ pc' \in [Workers -> {"idle", "open", "recovering"}]
      /\ cmd' \in [Workers -> Commands \cup {None}]
      /\ reply' \in [Workers -> {"none", "done", "conflict", "rejected", "retry"}]
  BY DEF Begin, Typed, TypeOK
<1>5. snap' \in [Workers -> Tables \cup {None}]
  BY <1>2 DEF Begin, Typed, TypeOK
<1>6. TypeOK'
  BY <1>1, <1>2, <1>4, <1>5 DEF Typed, TypeOK
<1>7. Served'
  BY <1>2, <1>3 DEF Typed, Served
<1> QED
  BY <1>6, <1>7 DEF Typed

\* A checkout takes no more than there is.
LEMMA CheckoutCommitTyped ==
  ASSUME Typed, NEW w \in Workers, CheckoutCommit(w)
  PROVE  Typed'
<1> DEFINE c == cmd[w]
<1>1. c \in Commands /\ c.op = "checkout"
  BY DEF CheckoutCommit, IsOpen, Typed, Served
<1>2. TablesTyped /\ ledger \in [Items -> Seq(Movement)]
  BY SnapshotTyped DEF Typed, TypeOK
<1>3. ASSUME NEW i \in Items
      PROVE  /\ rows[i].quantity - c.cart[i] \in Quantity
             /\ [rows[i] EXCEPT !.quantity = @ - c.cart[i]] \in [quantity : Quantity, price : Prices]
  <2>1. rows[i].quantity >= c.cart[i]
    BY DEF CheckoutCommit
  <2>2. rows[i].quantity \in Quantity /\ c.cart[i] \in Quantity
    BY <1>1, <1>2, CheckoutFacts DEF TablesTyped
  <2>3. rows[i].quantity - c.cart[i] \in Quantity
    BY <2>1, <2>2, LimitAssumption DEF Quantity
  <2> QED
    BY <1>2, <2>3 DEF TablesTyped
<1>4. /\ rows' = [i \in Items |-> [rows[i] EXCEPT !.quantity = @ - c.cart[i]]]
      /\ rows' \in [Items -> [quantity : Quantity, price : Prices]]
  BY <1>3 DEF CheckoutCommit
<1>5. TablesTyped'
  BY <1>1, <1>2, <1>4, CheckoutFacts DEF CheckoutCommit, TablesTyped
<1>6. ASSUME NEW i \in Items PROVE ledger'[i] \in Seq(Movement)
  <2> DEFINE m == [by |-> c, change |-> -c.cart[i], after |-> rows'[i].quantity]
  <2>1. m \in Movement
    BY <1>1, <1>4, CheckoutFacts, LimitAssumption DEF Movement, Quantity
  <2>2. ledger'[i] = IF c.cart[i] = 0 THEN ledger[i] ELSE Append(ledger[i], m)
    BY DEF CheckoutCommit
  <2>3. ledger[i] \in Seq(Movement)
    BY <1>2
  <2> HIDE DEF m
  <2>4. Append(ledger[i], m) \in Seq(Movement)
    BY <2>1, <2>3
  <2> QED
    BY <2>2, <2>3, <2>4
<1>7. ledger' \in [Items -> Seq(Movement)]
  BY <1>6 DEF CheckoutCommit
<1>8. since' \in [Workers -> SUBSET Transaction]
  BY <1>1, LogTyped, SinceTyped DEF CheckoutCommit
<1> QED
  BY <1>5, <1>7, <1>8, AnswerTyped DEF CheckoutCommit

\* A refund restocks no more than the limit allows.
LEMMA RefundCommitTyped ==
  ASSUME Typed, NEW w \in Workers, RefundCommit(w)
  PROVE  Typed'
<1> DEFINE c == cmd[w]
<1>1. c \in Commands /\ c.op = "refund"
  BY DEF RefundCommit, IsOpen, Typed, Served
<1>2. TablesTyped /\ ledger \in [Items -> Seq(Movement)]
  BY SnapshotTyped DEF Typed, TypeOK
<1>3. ASSUME NEW i \in Items
      PROVE  /\ rows[i].quantity + c.restock[i] \in Quantity
             /\ [rows[i] EXCEPT !.quantity = @ + c.restock[i]] \in [quantity : Quantity, price : Prices]
  <2>1. rows[i].quantity <= MaxQuantity - c.restock[i]
    BY DEF RefundCommit, Restocks
  <2>2. rows[i].quantity \in Quantity /\ c.restock[i] \in Quantity
    BY <1>1, <1>2, RefundFacts DEF TablesTyped
  <2>3. rows[i].quantity + c.restock[i] \in Quantity
    BY <2>1, <2>2, LimitAssumption DEF Quantity
  <2> QED
    BY <1>2, <2>3 DEF TablesTyped
<1>4. /\ rows' = [i \in Items |-> [rows[i] EXCEPT !.quantity = @ + c.restock[i]]]
      /\ rows' \in [Items -> [quantity : Quantity, price : Prices]]
  BY <1>3 DEF RefundCommit
<1>5. TablesTyped'
  BY <1>1, <1>2, <1>4, RefundFacts DEF RefundCommit, TablesTyped
<1>6. ASSUME NEW i \in Items PROVE ledger'[i] \in Seq(Movement)
  <2> DEFINE m == [by |-> c, change |-> c.restock[i], after |-> rows'[i].quantity]
  <2>1. m \in Movement
    BY <1>1, <1>4, RefundFacts, LimitAssumption DEF Movement, Quantity
  <2>2. ledger'[i] = IF c.restock[i] = 0 THEN ledger[i] ELSE Append(ledger[i], m)
    BY DEF RefundCommit
  <2>3. ledger[i] \in Seq(Movement)
    BY <1>2
  <2> HIDE DEF m
  <2>4. Append(ledger[i], m) \in Seq(Movement)
    BY <2>1, <2>3
  <2> QED
    BY <2>2, <2>3, <2>4
<1>7. ledger' \in [Items -> Seq(Movement)]
  BY <1>6 DEF RefundCommit
<1>8. since' \in [Workers -> SUBSET Transaction]
  BY <1>1, LogTyped, SinceTyped DEF RefundCommit
<1> QED
  BY <1>5, <1>7, <1>8, AnswerTyped DEF RefundCommit

\* The update of a stock command stays within the limits, and the difference
\* of a count is computed from the quantity it finds.
LEMMA StockFitsFacts ==
  ASSUME Typed, NEW w \in Workers, pc[w] = "open", cmd[w].op \in StockOps, StockFits(w)
  PROVE  /\ cmd[w] \in Commands /\ cmd[w].item \in Items
         /\ Delta(w) \in Int /\ Balance(w) \in Quantity
         /\ Balance(w) = rows[cmd[w].item].quantity + Delta(w)
<1> DEFINE c == cmd[w]
<1>1. c \in Commands /\ c.item \in Items /\ c.amount \in Int
  BY StockFacts DEF Typed, Served
<1>2. snap[w].rows[c.item].quantity \in Quantity
  BY <1>1 DEF Typed, Served, Tables
<1>3. Delta(w) \in Int
  BY <1>1, <1>2, LimitAssumption DEF Delta, Quantity
<1> QED
  BY <1>1, <1>3 DEF StockFits, Balance

\* The bounded increment keeps a balance within the limit.
LEMMA StockCommitTyped ==
  ASSUME Typed, NEW w \in Workers, StockCommit(w)
  PROVE  Typed'
<1> DEFINE c == cmd[w]
<1>1. /\ c \in Commands /\ c.item \in Items /\ Delta(w) \in Int /\ Balance(w) \in Quantity
      /\ Balance(w) = rows[c.item].quantity + Delta(w)
  BY StockFitsFacts DEF StockCommit
<1>2. TablesTyped /\ ledger \in [Items -> Seq(Movement)]
  BY SnapshotTyped DEF Typed, TypeOK
<1>3. rows' \in [Items -> [quantity : Quantity, price : Prices]]
  BY <1>1, <1>2 DEF StockCommit, TablesTyped
<1>4. TablesTyped'
  BY <1>2, <1>3 DEF StockCommit, TablesTyped
<1>5. [by |-> c, change |-> Delta(w), after |-> Balance(w)] \in Movement
  BY <1>1 DEF Movement
<1>6. ledger' \in [Items -> Seq(Movement)]
  BY <1>1, <1>2, <1>5 DEF StockCommit
<1>7. [reads |-> {}, writes |-> {<<"row", c.item>>}] \in Transaction
  BY <1>1 DEF Transaction, Objects
<1>8. since' \in [Workers -> SUBSET Transaction]
  BY <1>7, SinceTyped DEF StockCommit
<1> QED
  BY <1>4, <1>6, <1>8, AnswerTyped DEF StockCommit

\* Prices and statuses change within their types.
LEMMA AdministerTyped ==
  ASSUME Typed, Administer
  PROVE  Typed'
<1>1. TablesTyped
  BY SnapshotTyped DEF Typed, TypeOK
<1>2. ASSUME NEW g \in Switches, SetGate(g) PROVE Typed'
  <2>1. g \in Gates
    BY BoundsAssumption
  <2>2. [reads |-> {<<"gate", g>>}, writes |-> {<<"gate", g>>}] \in Transaction
    BY <2>1 DEF Transaction, Objects
  <2>3. since' \in [Workers -> SUBSET Transaction]
    BY <1>2, <2>2, SinceTyped DEF SetGate
  <2>4. TablesTyped'
    BY <1>1, <1>2 DEF SetGate, TablesTyped
  <2> QED
    BY <1>2, <2>3, <2>4, SnapshotTyped DEF SetGate, Typed, TypeOK, Served, Snapshot, Tables, TablesTyped
<1>3. ASSUME NEW i \in Touched, SetStatus(i) PROVE Typed'
  <2>1. i \in Items
    BY BoundsAssumption
  <2>2. [reads |-> {<<"product", i>>}, writes |-> {<<"product", i>>}] \in Transaction
    BY <2>1 DEF Transaction, Objects
  <2>3. since' \in [Workers -> SUBSET Transaction]
    BY <1>3, <2>2, SinceTyped DEF SetStatus
  <2>4. TablesTyped'
    BY <1>1, <1>3 DEF SetStatus, TablesTyped
  <2> QED
    BY <1>3, <2>3, <2>4, SnapshotTyped DEF SetStatus, Typed, TypeOK, Served, Snapshot, Tables, TablesTyped
<1>4. ASSUME NEW i \in Touched, NEW price \in Prices, UpdatePrice(i, price) PROVE Typed'
  <2>1. i \in Items
    BY BoundsAssumption
  <2>2. [reads |-> {<<"row", i>>}, writes |-> {<<"row", i>>}] \in Transaction
    BY <2>1 DEF Transaction, Objects
  <2>3. since' \in [Workers -> SUBSET Transaction]
    BY <1>4, <2>2, SinceTyped DEF UpdatePrice
  <2>4. TablesTyped'
    BY <1>1, <1>4, <2>1 DEF UpdatePrice, TablesTyped
  <2> QED
    BY <1>4, <2>3, <2>4, SnapshotTyped DEF UpdatePrice, Typed, TypeOK, Served, Snapshot, Tables, TablesTyped
<1> QED
  BY <1>2, <1>3, <1>4 DEF Administer

\* Every step keeps everything well typed.
LEMMA StepTyped ==
  ASSUME Typed, [Next]_vars
  PROVE  Typed'
<1>1. ASSUME NEW w \in Workers, NEW c \in Commands, Begin(w, c) PROVE Typed'
  BY <1>1, BeginTyped
<1>2. ASSUME NEW w \in Workers, Drop(w) PROVE Typed'
  BY <1>2, AnswerOnlyTyped DEF Drop
<1>3. ASSUME NEW w \in Workers, Serve(w) PROVE Typed'
  <2>1. CASE CheckoutCommit(w)
    BY <2>1, CheckoutCommitTyped
  <2>2. CASE RefundCommit(w)
    BY <2>2, RefundCommitTyped
  <2>3. CASE StockCommit(w)
    BY <2>3, StockCommitTyped
  <2>4. CASE CheckoutReject(w) \/ RefundReject(w) \/ RecoverConflict(w)
    BY <2>4, AnswerOnlyTyped DEF CheckoutReject, RefundReject, RecoverConflict
  <2>5. CASE RecoverNothing(w) \/ RecoverOriginal(w)
    BY <2>5, AnswerOnlyTyped DEF RecoverNothing, RecoverOriginal, AnswerOriginal
  <2>6. CASE Conflict(w) \/ StockRefuse(w)
    <3>1. pc[w] # "idle" /\ (Recover(w) \/ AnswerOnly(w, "rejected"))
      BY <2>6 DEF Conflict, Serializable, StockRefuse
    <3> QED
      BY <3>1, RecoverTyped, AnswerOnlyTyped
  <2> QED
    BY <1>3, <2>1, <2>2, <2>3, <2>4, <2>5, <2>6 DEF Serve
<1>4. ASSUME Administer PROVE Typed'
  BY <1>4, AdministerTyped
<1>5. ASSUME UNCHANGED vars PROVE Typed'
  BY <1>5 DEF vars, Typed, TypeOK, Served, Snapshot
<1> QED
  BY <1>1, <1>2, <1>3, <1>4, <1>5 DEF Next

\* Well-typed states have well-typed tables.
LEMMA TypedTables ==
  ASSUME Typed, [Next]_vars
  PROVE  /\ TablesTyped /\ TablesTyped'
         /\ ledger' \in [Items -> Seq(Movement)]
<1>1. Typed'
  BY StepTyped
<1> QED
  BY <1>1 DEF Typed, TypeOK, Snapshot, Tables, TablesTyped

\* Every reachable state is well typed.
LEMMA TypedInvariant == Spec => []Typed
BY InitTyped, StepTyped, PTL DEF Spec

\* Quantities stay within 0 and the limit, and every table is well formed,
\* however sales, refunds and stock commands race.
THEOREM TypeCorrect == Spec => []TypeOK
<1>1. Typed => TypeOK
  BY DEF Typed
<1> QED
  BY <1>1, TypedInvariant, PTL

-----------------------------------------------------------------------------
(* The chain of balances. *)

Left(l, k) == IF k = 0 THEN 0 ELSE l[k].after
Chain(l, quantity) ==
  /\ quantity = Left(l, Len(l))
  /\ \A k \in DOMAIN l : Left(l, k) = Left(l, k - 1) + l[k].change

\* The chain property, one placement at a time.
LEMMA Chains == LedgerChain <=> \A i \in Items : Chain(ledger[i], rows[i].quantity)
BY DEF LedgerChain, Chain, Left

\* A chain goes on with a movement from the old balance to the new one.
LEMMA ChainAppend ==
  ASSUME NEW l \in Seq(Movement), NEW quantity \in Int, Chain(l, quantity),
         NEW m \in Movement, m.after = quantity + m.change
  PROVE  Chain(Append(l, m), quantity + m.change)
<1> DEFINE n == Append(l, m)
<1>1. /\ Len(l) \in Nat /\ Len(n) = Len(l) + 1 /\ DOMAIN n = 1 .. Len(l) + 1
      /\ DOMAIN l = 1 .. Len(l)
      /\ n[Len(l) + 1] = m /\ \A k \in 1 .. Len(l) : n[k] = l[k]
  OBVIOUS
<1> HIDE DEF n
<1>2. \A k \in 0 .. Len(l) : Left(n, k) = Left(l, k)
  BY <1>1 DEF Left
<1>3. Left(n, Len(l) + 1) = quantity + m.change
  BY <1>1 DEF Left
<1>4. ASSUME NEW k \in DOMAIN n PROVE Left(n, k) = Left(n, k - 1) + n[k].change
  <2>1. CASE k = Len(l) + 1
    <3>1. Left(n, k - 1) = quantity
      BY <1>1, <1>2, <2>1 DEF Chain
    <3> QED
      BY <1>1, <1>3, <2>1, <3>1
  <2>2. CASE k # Len(l) + 1
    <3>1. k \in 1 .. Len(l) /\ k - 1 \in 0 .. Len(l)
      BY <1>1, <2>2
    <3> QED
      BY <1>1, <1>2, <3>1 DEF Chain
  <2> QED
    BY <2>1, <2>2
<1> QED
  BY <1>1, <1>3, <1>4 DEF Chain, n

\* The opening movements are chains.
LEMMA InitChain == Init => LedgerChain
<1> SUFFICES ASSUME Init PROVE LedgerChain
  OBVIOUS
<1>1. SUFFICES ASSUME NEW i \in Items PROVE Chain(ledger[i], rows[i].quantity)
  BY Chains
<1>2. rows[i].quantity \in Int
  BY InitTyped, SnapshotTyped, LimitAssumption DEF Typed, TypeOK, TablesTyped, Quantity
<1>3. CASE rows[i].quantity = 0
  <2>1. ledger[i] = <<>>
    BY <1>3 DEF Init
  <2> QED
    BY <1>3, <2>1 DEF Chain, Left
<1>4. CASE rows[i].quantity # 0
  <2> DEFINE m == [by |-> Opening, change |-> rows[i].quantity, after |-> rows[i].quantity]
  <2>1. ledger[i] = <<m>>
    BY <1>4 DEF Init
  <2>2. Len(ledger[i]) = 1 /\ DOMAIN ledger[i] = {1} /\ ledger[i][1] = m
    BY <2>1
  <2> QED
    BY <1>2, <2>2 DEF Chain, Left
<1> QED
  BY <1>3, <1>4

\* A placement that stays, or moves with its movement, keeps its chain.
LEMMA MoveKeepsChain ==
  ASSUME Typed, LedgerChain, NEW i \in Items, NEW change \in Int, NEW by \in Commands,
         rows'[i].quantity = rows[i].quantity + change,
         rows'[i].quantity \in Quantity,
         \/ change = 0 /\ ledger'[i] = ledger[i]
         \/ ledger'[i] = Append(ledger[i],
                           [by |-> by, change |-> change, after |-> rows'[i].quantity])
  PROVE  Chain(ledger'[i], rows'[i].quantity)
<1>1. Chain(ledger[i], rows[i].quantity) /\ ledger[i] \in Seq(Movement)
  BY Chains DEF Typed, TypeOK
<1>2. rows[i].quantity \in Int
  BY SnapshotTyped, LimitAssumption DEF Typed, TypeOK, TablesTyped, Quantity
<1>3. CASE change = 0 /\ ledger'[i] = ledger[i]
  BY <1>1, <1>2, <1>3
<1>4. CASE ledger'[i] = Append(ledger[i],
                          [by |-> by, change |-> change, after |-> rows'[i].quantity])
  <2> DEFINE m == [by |-> by, change |-> change, after |-> rows'[i].quantity]
  <2>1. m \in Movement /\ m.after = rows[i].quantity + m.change /\ m.change = change
    BY DEF Movement
  <2>2. ledger'[i] = Append(ledger[i], m)
    BY <1>4
  <2> HIDE DEF m
  <2>3. Chain(Append(ledger[i], m), rows[i].quantity + m.change)
    BY <1>1, <1>2, <2>1, ChainAppend
  <2> QED
    BY <2>1, <2>2, <2>3
<1> QED
  BY <1>3, <1>4

\* Every movement is recorded with the balance its own update produced.
LEMMA StepChain ==
  ASSUME Typed, LedgerChain, [Next]_vars
  PROVE  LedgerChain'
<1>0. /\ TablesTyped /\ TablesTyped'
      /\ ledger \in [Items -> Seq(Movement)] /\ ledger' \in [Items -> Seq(Movement)]
  BY TypedTables DEF Typed, TypeOK
<1>1. ASSUME NEW w \in Workers, CheckoutCommit(w) PROVE LedgerChain'
  <2> DEFINE c == cmd[w]
  <2>1. c \in Commands /\ c.op = "checkout"
    BY <1>1 DEF CheckoutCommit, IsOpen, Typed, Served
  <2>2. ASSUME NEW i \in Items PROVE Chain(ledger'[i], rows'[i].quantity)
    <3>1. c.cart[i] \in Int /\ rows[i].quantity \in Int /\ rows'[i].quantity \in Quantity
      BY <1>0, <2>1, CheckoutFacts, LimitAssumption DEF Quantity, TablesTyped
    <3>2. rows'[i].quantity = rows[i].quantity - c.cart[i]
      BY <1>0, <1>1 DEF CheckoutCommit, TablesTyped
    <3>3. ledger'[i] = IF c.cart[i] = 0 THEN ledger[i]
                       ELSE Append(ledger[i], [by |-> c, change |-> -c.cart[i],
                                               after |-> rows'[i].quantity])
      BY <1>1 DEF CheckoutCommit
    <3>4. rows'[i].quantity = rows[i].quantity + (-c.cart[i]) /\ -c.cart[i] \in Int
      BY <3>1, <3>2
    <3>5. CASE c.cart[i] = 0
      <4>1. rows'[i].quantity = rows[i].quantity /\ ledger'[i] = ledger[i]
        BY <3>1, <3>2, <3>3, <3>5
      <4> QED
        BY <4>1, Chains
    <3>6. CASE c.cart[i] # 0
      <4>1. ledger'[i] = Append(ledger[i], [by |-> c, change |-> -c.cart[i],
                                            after |-> rows'[i].quantity])
        BY <3>3, <3>6
      <4> HIDE DEF c
      <4> QED
        BY <2>1, <3>1, <3>4, <4>1, MoveKeepsChain
    <3> QED
      BY <3>5, <3>6
  <2> QED
    BY <2>2 DEF LedgerChain, Chain, Left
<1>2. ASSUME NEW w \in Workers, RefundCommit(w) PROVE LedgerChain'
  <2> DEFINE c == cmd[w]
  <2>1. c \in Commands /\ c.op = "refund"
    BY <1>2 DEF RefundCommit, IsOpen, Typed, Served
  <2>2. ASSUME NEW i \in Items PROVE Chain(ledger'[i], rows'[i].quantity)
    <3>1. c.restock[i] \in Int /\ rows[i].quantity \in Int /\ rows'[i].quantity \in Quantity
      BY <1>0, <2>1, RefundFacts, LimitAssumption DEF Quantity, TablesTyped
    <3>2. rows'[i].quantity = rows[i].quantity + c.restock[i]
      BY <1>0, <1>2 DEF RefundCommit, TablesTyped
    <3>3. ledger'[i] = IF c.restock[i] = 0 THEN ledger[i]
                       ELSE Append(ledger[i], [by |-> c, change |-> c.restock[i],
                                               after |-> rows'[i].quantity])
      BY <1>2 DEF RefundCommit
    <3>4. CASE c.restock[i] = 0
      BY <2>1, <3>1, <3>2, <3>3, <3>4, MoveKeepsChain
    <3>5. CASE c.restock[i] # 0
      <4>1. ledger'[i] = Append(ledger[i], [by |-> c, change |-> c.restock[i],
                                            after |-> rows'[i].quantity])
        BY <3>3, <3>5
      <4> HIDE DEF c
      <4> QED
        BY <2>1, <3>1, <3>2, <4>1, MoveKeepsChain
    <3> QED
      BY <3>4, <3>5
  <2> QED
    BY <2>2 DEF LedgerChain, Chain, Left
<1>3. ASSUME NEW w \in Workers, StockCommit(w) PROVE LedgerChain'
  <2> DEFINE c == cmd[w]
  <2>1. /\ c \in Commands /\ c.item \in Items /\ Delta(w) \in Int
        /\ Balance(w) \in Quantity /\ Balance(w) = rows[c.item].quantity + Delta(w)
    BY <1>3, StockFitsFacts DEF StockCommit
  <2>2. rows'[c.item].quantity = Balance(w)
    BY <1>0, <1>3, <2>1 DEF StockCommit, TablesTyped
  <2>3. ledger'[c.item] = Append(ledger[c.item], [by |-> c, change |-> Delta(w),
                                                  after |-> rows'[c.item].quantity])
    BY <1>0, <1>3, <2>1, <2>2 DEF StockCommit
  <2>4. Chain(ledger'[c.item], rows'[c.item].quantity)
    <3> HIDE DEF c
    <3> QED
      BY <2>1, <2>2, <2>3, MoveKeepsChain
  <2>5. ASSUME NEW i \in Items \ {c.item} PROVE Chain(ledger'[i], rows'[i].quantity)
    BY <1>0, <1>3, <2>1, <2>5, Chains DEF StockCommit, TablesTyped
  <2>6. \A i \in Items : Chain(ledger'[i], rows'[i].quantity)
    BY <2>4, <2>5
  <2> QED
    BY <2>6 DEF LedgerChain, Chain, Left
<1>4. ASSUME NEW i \in Touched, NEW price \in Prices, UpdatePrice(i, price)
      PROVE  LedgerChain'
  <2>1. \A j \in Items : rows'[j].quantity = rows[j].quantity
    BY <1>0, <1>4 DEF UpdatePrice, TablesTyped
  <2> QED
    BY <1>4, <2>1 DEF UpdatePrice, LedgerChain
<1>5. ASSUME UNCHANGED <<rows, ledger>> PROVE LedgerChain'
  BY <1>5 DEF LedgerChain
<1>6. ASSUME NEW w \in Workers, Serve(w) PROVE LedgerChain'
  <2>1. CASE CheckoutReject(w) \/ RefundReject(w) \/ Conflict(w) \/ StockRefuse(w)
    BY <1>5, <2>1 DEF CheckoutReject, RefundReject, Conflict, StockRefuse, AnswerOnly,
       Recover, tables
  <2>2. CASE RecoverOriginal(w) \/ RecoverNothing(w) \/ RecoverConflict(w)
    BY <1>5, <2>2 DEF RecoverOriginal, RecoverNothing, RecoverConflict, AnswerOriginal,
       AnswerOnly, tables
  <2> QED
    BY <1>1, <1>2, <1>3, <1>6, <2>1, <2>2 DEF Serve
<1>7. ASSUME NEW w \in Workers, Drop(w) \/ \E c \in Commands : Begin(w, c) PROVE LedgerChain'
  BY <1>5, <1>7 DEF Drop, Begin, AnswerOnly, tables
<1>8. ASSUME Administer PROVE LedgerChain'
  BY <1>4, <1>5, <1>8 DEF Administer, SetGate, SetStatus
<1> QED
  BY <1>5, <1>6, <1>7, <1>8 DEF Next, vars

\* The movements of every placement account for its stock: each shows the balance
\* it left, and no interleaving of sales, refunds and stock commands breaks it.
THEOREM BalancesChain == Spec => []LedgerChain
BY InitChain, StepChain, TypedInvariant, PTL DEF Spec

-----------------------------------------------------------------------------
(* What a checkout or refund in progress knows of the tables. *)

Wrote(t, o) == o \in t.writes
\* A sale or refund that is recorded stays; what the snapshot misses was
\* written since.
Tracked(w) ==
  /\ \A i \in Items : snap[w].rows[i] # rows[i] =>
       \E t \in since[w] : Wrote(t, <<"row", i>>)
  /\ \A s \in SaleIds : snap[w].sales[s] # sales[s] =>
       /\ snap[w].sales[s] = None
       /\ \E t \in since[w] : Wrote(t, <<"sale", s>>)
  /\ \A f \in RefundIds : snap[w].refunds[f] # refunds[f] =>
       /\ snap[w].refunds[f] = None /\ refunds[f] # None
       /\ \E t \in since[w] :
            /\ Wrote(t, <<"refund", f>>) /\ Wrote(t, <<"returns", refunds[f].sale>>)
            /\ <<"returns", refunds[f].sale>> \in t.reads
\* Nothing was recorded under its request id when it began.
Fresh(w) ==
  /\ cmd[w].op = "checkout" => snap[w].sales[cmd[w].id] = None
  /\ cmd[w].op = "refund" => snap[w].refunds[cmd[w].id] = None

BookInv == Typed /\ \A w \in Workers : Serializable(w) => Tracked(w) /\ Fresh(w)

\* What is recorded under a request id is never replaced.
Recorded ==
  /\ \A s \in SaleIds : sales[s] # None => sales'[s] = sales[s]
  /\ \A f \in RefundIds : refunds[f] # None => refunds'[f] = refunds[f]

\* With no transaction open, no snapshot can be stale.
LEMMA InitBook == Init => BookInv
BY InitTyped DEF Init, BookInv, Serializable

\* The request id of a checkout or refund that commits is unused.
LEMMA IdUnused ==
  ASSUME BookInv, NEW w \in Workers, Serializable(w), Isolated(w, cmd[w])
  PROVE  /\ cmd[w].op = "checkout" => sales[cmd[w].id] = None
         /\ cmd[w].op = "refund" => refunds[cmd[w].id] = None
<1> DEFINE c == cmd[w]
<1>1. c \in Commands /\ Tracked(w) /\ Fresh(w)
  BY DEF Serializable, BookInv, Typed, Served
<1>2. \A t \in since[w] : OwnKey(c) \notin t.writes
  BY DEF Isolated, FirstUpdaterWins
<1>3. ASSUME c.op = "checkout" PROVE sales[c.id] = None
  <2>1. c.id \in SaleIds /\ OwnKey(c) = <<"sale", c.id>>
    BY <1>1, <1>3, CheckoutFacts DEF OwnKey
  <2> QED
    BY <1>1, <1>2, <1>3, <2>1 DEF Tracked, Fresh, Wrote
<1>4. ASSUME c.op = "refund" PROVE refunds[c.id] = None
  <2>1. c.id \in RefundIds /\ OwnKey(c) = <<"refund", c.id>>
    BY <1>1, <1>4, RefundFacts DEF OwnKey
  <2> QED
    BY <1>1, <1>2, <1>4, <2>1 DEF Tracked, Fresh, Wrote
<1> QED
  BY <1>3, <1>4

\* Rows that a commit updates are as its snapshot shows them.
LEMMA RowIsSeen ==
  ASSUME BookInv, NEW w \in Workers, Serializable(w), Isolated(w, cmd[w]),
         NEW i \in Items, i \in RowsOf(cmd[w])
  PROVE  snap[w].rows[i] = rows[i]
<1>1. \A t \in since[w] : <<"row", i>> \notin t.writes
  BY DEF Isolated, FirstUpdaterWins
<1> QED
  BY <1>1 DEF BookInv, Tracked, Wrote

\* So are the refunds of the sale that a refund commits to.
LEMMA ReturnsAreSeen ==
  ASSUME BookInv, NEW w \in Workers, Serializable(w), cmd[w].op = "refund",
         Isolated(w, cmd[w])
  PROVE  RefundsOf(refunds, cmd[w].sale) = RefundsOf(snap[w].refunds, cmd[w].sale)
<1> DEFINE c == cmd[w]
<1>1. Tracked(w)
  BY DEF BookInv
<1>2. <<"returns", c.sale>> \in ReadsOf(c) /\ <<"returns", c.sale>> \in WritesOf(c)
  BY DEF ReadsOf, WritesOf
<1>3. ASSUME NEW f \in RefundIds, refunds[f] # None, refunds[f].sale = c.sale
      PROVE  snap[w].refunds[f] = refunds[f]
  <2>1. SUFFICES ASSUME snap[w].refunds[f] # refunds[f] PROVE FALSE
    OBVIOUS
  <2>2. PICK t \in since[w] :
          <<"returns", refunds[f].sale>> \in t.writes /\ <<"returns", refunds[f].sale>> \in t.reads
    BY <1>1, <2>1 DEF Tracked, Wrote
  <2> QED
    BY <1>2, <1>3, <2>2 DEF Isolated, NoWriteSkew
<1>4. ASSUME NEW f \in RefundIds, snap[w].refunds[f] # None
      PROVE  snap[w].refunds[f] = refunds[f]
  BY <1>1, <1>4 DEF Tracked
<1> DEFINE A == RefundsOf(refunds, c.sale)
           B == RefundsOf(snap[w].refunds, c.sale)
<1>5. ASSUME NEW r \in A PROVE r \in B
  <2>1. r \in Refunds /\ r.sale = c.sale /\ \E f \in RefundIds : refunds[f] # None /\ r = refunds[f]
    BY DEF RefundsOf
  <2>2. PICK f \in RefundIds : refunds[f] # None /\ r = refunds[f]
    BY <2>1
  <2>3. snap[w].refunds[f] = r
    BY <1>3, <2>1, <2>2
  <2> QED
    BY <2>1, <2>2, <2>3 DEF RefundsOf
<1>6. ASSUME NEW r \in B PROVE r \in A
  <2>1. r \in Refunds /\ r.sale = c.sale
        /\ \E f \in RefundIds : snap[w].refunds[f] # None /\ r = snap[w].refunds[f]
    BY DEF RefundsOf
  <2>2. PICK f \in RefundIds : snap[w].refunds[f] # None /\ r = snap[w].refunds[f]
    BY <2>1
  <2>3. refunds[f] = r
    BY <1>4, <2>2
  <2> QED
    BY <2>1, <2>2, <2>3 DEF RefundsOf
<1> QED
  BY <1>5, <1>6

-----------------------------------------------------------------------------
(* Steps keep that knowledge. *)

\* A step that writes no table keeps what snapshots are related to.
LEMMA NothingWritten ==
  ASSUME BookInv, Typed', UNCHANGED <<rows, sales, refunds>>,
         \A w \in Workers : Serializable(w)' =>
           /\ \/ Serializable(w) /\ UNCHANGED <<snap[w], cmd[w]>> /\ since[w] \subseteq since'[w]
              \/ snap'[w] = Snapshot /\ Fresh(w)'
  PROVE  BookInv' /\ Recorded
<1>1. ASSUME NEW w \in Workers, Serializable(w)' PROVE Tracked(w)' /\ Fresh(w)'
  <2>1. CASE Serializable(w) /\ UNCHANGED <<snap[w], cmd[w]>> /\ since[w] \subseteq since'[w]
    BY <2>1 DEF BookInv, Tracked, Fresh
  <2>2. CASE snap'[w] = Snapshot /\ Fresh(w)'
    BY <2>2 DEF Tracked, Snapshot
  <2> QED
    BY <1>1, <2>1, <2>2
<1> QED
  BY <1>1 DEF BookInv, Recorded

\* A committed transaction t, which logs what it writes.
LEMMA LoggedStep ==
  ASSUME BookInv, Typed', NEW w, NEW t, Log(w, t), Recorded,
         \A v \in Workers \ {w} : pc'[v] = pc[v] /\ snap'[v] = snap[v] /\ cmd'[v] = cmd[v],
         w \in Workers => pc'[w] # "open",
         \A i \in Items : rows'[i] # rows[i] => <<"row", i>> \in t.writes,
         \A s \in SaleIds : sales'[s] # sales[s] => <<"sale", s>> \in t.writes,
         \A f \in RefundIds : refunds'[f] # refunds[f] =>
           /\ refunds'[f] # None /\ <<"refund", f>> \in t.writes
           /\ <<"returns", refunds'[f].sale>> \in t.writes
           /\ <<"returns", refunds'[f].sale>> \in t.reads
  PROVE  BookInv'
<1>1. ASSUME NEW v \in Workers, Serializable(v)' PROVE Tracked(v)' /\ Fresh(v)'
  <2>1. /\ v # w /\ Serializable(v) /\ snap'[v] = snap[v] /\ cmd'[v] = cmd[v]
        /\ since'[v] = since[v] \cup {t}
    BY <1>1 DEF Serializable, Log
  <2>2. Tracked(v) /\ Fresh(v)
    BY <2>1 DEF BookInv
  <2>3. ASSUME NEW i \in Items, snap'[v].rows[i] # rows'[i]
        PROVE  \E u \in since'[v] : Wrote(u, <<"row", i>>)
    <3>1. CASE snap[v].rows[i] # rows[i]
      BY <2>1, <2>2, <3>1 DEF Tracked
    <3>2. CASE snap[v].rows[i] = rows[i]
      BY <2>1, <2>3, <3>2 DEF Wrote
    <3> QED
      BY <3>1, <3>2
  <2>4. ASSUME NEW s \in SaleIds, snap'[v].sales[s] # sales'[s]
        PROVE  /\ snap'[v].sales[s] = None
               /\ \E u \in since'[v] : Wrote(u, <<"sale", s>>)
    <3>1. CASE snap[v].sales[s] # sales[s]
      BY <2>1, <2>2, <3>1 DEF Tracked
    <3>2. CASE snap[v].sales[s] = sales[s]
      BY <2>1, <2>4, <3>2 DEF Wrote, Recorded
    <3> QED
      BY <3>1, <3>2
  <2>5. ASSUME NEW f \in RefundIds, snap'[v].refunds[f] # refunds'[f]
        PROVE  /\ snap'[v].refunds[f] = None /\ refunds'[f] # None
               /\ \E u \in since'[v] :
                    /\ Wrote(u, <<"refund", f>>) /\ Wrote(u, <<"returns", refunds'[f].sale>>)
                    /\ <<"returns", refunds'[f].sale>> \in u.reads
    <3>1. CASE snap[v].refunds[f] # refunds[f]
      <4>1. /\ snap[v].refunds[f] = None /\ refunds[f] # None
            /\ \E u \in since[v] :
                 /\ Wrote(u, <<"refund", f>>) /\ Wrote(u, <<"returns", refunds[f].sale>>)
                 /\ <<"returns", refunds[f].sale>> \in u.reads
        BY <2>2, <3>1 DEF Tracked
      <4>2. refunds'[f] = refunds[f]
        BY <4>1 DEF Recorded
      <4> QED
        BY <2>1, <4>1, <4>2
    <3>2. CASE snap[v].refunds[f] = refunds[f]
      <4>1. refunds'[f] # refunds[f] /\ snap[v].refunds[f] = None
        BY <2>1, <2>5, <3>2 DEF Recorded
      <4> QED
        BY <2>1, <4>1 DEF Wrote
    <3> QED
      BY <3>1, <3>2
  <2>6. Fresh(v)'
    BY <2>1, <2>2 DEF Fresh
  <2> QED
    BY <2>3, <2>4, <2>5, <2>6 DEF Tracked
<1> QED
  BY <1>1 DEF BookInv

\* A commit is logged for every open snapshot it may have overtaken: checkouts,
LEMMA CheckoutBook ==
  ASSUME BookInv, Typed', NEW w \in Workers, CheckoutCommit(w)
  PROVE  BookInv' /\ Recorded
<1> DEFINE c == cmd[w]
           t == [reads |-> ReadsOf(c), writes |-> WritesOf(c)]
<1>1. c \in Commands /\ c.op = "checkout" /\ Serializable(w) /\ Isolated(w, c)
  BY DEF CheckoutCommit, IsOpen, Serializable, BookInv, Typed, Served
<1>2. c.id \in SaleIds /\ c.cart \in [Items -> Quantity] /\ sales[c.id] = None
  BY <1>1, CheckoutFacts, IdUnused
<1>3. /\ sales' = [sales EXCEPT ![c.id] = c] /\ UNCHANGED refunds
      /\ rows' = [i \in Items |-> [rows[i] EXCEPT !.quantity = @ - c.cart[i]]]
      /\ Log(w, t) /\ Answer(w, "done")
  BY DEF CheckoutCommit
<1>4. TablesTyped
  BY SnapshotTyped DEF BookInv, Typed, TypeOK
<1>5. Recorded
  BY <1>2, <1>3, <1>4 DEF Recorded, TablesTyped
<1>6. ASSUME NEW i \in Items, rows'[i] # rows[i] PROVE <<"row", i>> \in t.writes
  <2>1. c.cart[i] # 0
    <3>1. SUFFICES ASSUME c.cart[i] = 0 PROVE FALSE
      OBVIOUS
    <3>2. rows[i] \in [quantity : Quantity, price : Prices] /\ rows[i].quantity \in Int
      BY <1>4, LimitAssumption DEF TablesTyped, Quantity
    <3>3. rows'[i] = [rows[i] EXCEPT !.quantity = @ - 0]
      BY <1>3, <3>1
    <3> QED
      BY <1>6, <3>2, <3>3
  <2>2. i \in RowsOf(c)
    BY <1>1, <1>2, <2>1, LimitAssumption DEF RowsOf, Units, Quantity
  <2> QED
    BY <2>2 DEF WritesOf
<1>7. ASSUME NEW s \in SaleIds, sales'[s] # sales[s] PROVE <<"sale", s>> \in t.writes
  BY <1>1, <1>2, <1>3, <1>4, <1>7 DEF WritesOf, OwnKey, TablesTyped
<1>8. /\ \A v \in Workers \ {w} : pc'[v] = pc[v] /\ snap'[v] = snap[v] /\ cmd'[v] = cmd[v]
      /\ pc'[w] # "open"
  BY <1>3 DEF Answer, BookInv, Typed, TypeOK
<1> HIDE DEF t
<1> QED
  BY <1>3, <1>5, <1>6, <1>7, <1>8, LoggedStep

\* refunds,
LEMMA RefundBook ==
  ASSUME BookInv, Typed', NEW w \in Workers, RefundCommit(w)
  PROVE  BookInv' /\ Recorded
<1> DEFINE c == cmd[w]
           t == [reads |-> ReadsOf(c), writes |-> WritesOf(c)]
<1>1. c \in Commands /\ c.op = "refund" /\ Serializable(w) /\ Isolated(w, c)
  BY DEF RefundCommit, IsOpen, Serializable, BookInv, Typed, Served
<1>2. /\ c.id \in RefundIds /\ c.restock \in [Items -> Quantity] /\ refunds[c.id] = None
      /\ c # None
  BY <1>1, RefundFacts, IdUnused
<1>3. /\ refunds' = [refunds EXCEPT ![c.id] = c] /\ UNCHANGED sales
      /\ rows' = [i \in Items |-> [rows[i] EXCEPT !.quantity = @ + c.restock[i]]]
      /\ Log(w, t) /\ Answer(w, "done")
  BY DEF RefundCommit
<1>4. TablesTyped
  BY SnapshotTyped DEF BookInv, Typed, TypeOK
<1>5. Recorded
  BY <1>2, <1>3, <1>4 DEF Recorded, TablesTyped
<1>6. ASSUME NEW i \in Items, rows'[i] # rows[i] PROVE <<"row", i>> \in t.writes
  <2>1. c.restock[i] # 0
    <3>1. SUFFICES ASSUME c.restock[i] = 0 PROVE FALSE
      OBVIOUS
    <3>2. rows[i] \in [quantity : Quantity, price : Prices] /\ rows[i].quantity \in Int
      BY <1>4, LimitAssumption DEF TablesTyped, Quantity
    <3>3. rows'[i] = [rows[i] EXCEPT !.quantity = @ + 0]
      BY <1>3, <3>1
    <3> QED
      BY <1>6, <3>2, <3>3
  <2>2. i \in RowsOf(c)
    BY <1>1, <1>2, <2>1, LimitAssumption DEF RowsOf, Units, Quantity
  <2> QED
    BY <2>2 DEF WritesOf
<1>7. ASSUME NEW f \in RefundIds, refunds'[f] # refunds[f]
      PROVE  /\ refunds'[f] # None /\ <<"refund", f>> \in t.writes
             /\ <<"returns", refunds'[f].sale>> \in t.writes
             /\ <<"returns", refunds'[f].sale>> \in t.reads
  <2>1. f = c.id /\ refunds'[f] = c
    BY <1>2, <1>3, <1>4, <1>7 DEF TablesTyped
  <2> QED
    BY <1>1, <1>2, <2>1 DEF WritesOf, ReadsOf, OwnKey
<1>8. /\ \A v \in Workers \ {w} : pc'[v] = pc[v] /\ snap'[v] = snap[v] /\ cmd'[v] = cmd[v]
      /\ pc'[w] # "open"
  BY <1>3 DEF Answer, BookInv, Typed, TypeOK
<1> HIDE DEF t
<1> QED
  BY <1>3, <1>5, <1>6, <1>7, <1>8, LoggedStep

\* stock commands,
LEMMA StockBookStep ==
  ASSUME BookInv, Typed', NEW w \in Workers, StockCommit(w)
  PROVE  BookInv' /\ Recorded
<1> DEFINE t == [reads |-> {}, writes |-> {<<"row", cmd[w].item>>}]
<1>1. /\ rows' = [rows EXCEPT ![cmd[w].item].quantity = @ + Delta(w)]
      /\ UNCHANGED <<sales, refunds>> /\ Log(w, t) /\ Answer(w, "done")
  BY DEF StockCommit
<1>2. TablesTyped
  BY SnapshotTyped DEF BookInv, Typed, TypeOK
<1>3. \A i \in Items : rows'[i] # rows[i] => <<"row", i>> \in t.writes
  BY <1>1, <1>2 DEF TablesTyped
<1>4. /\ \A v \in Workers \ {w} : pc'[v] = pc[v] /\ snap'[v] = snap[v] /\ cmd'[v] = cmd[v]
      /\ pc'[w] # "open"
  BY <1>1 DEF Answer, BookInv, Typed, TypeOK
<1>5. Recorded
  BY <1>1 DEF Recorded
<1> HIDE DEF t
<1> QED
  BY <1>1, <1>3, <1>4, <1>5, LoggedStep

\* and changes of price and status.
LEMMA AdministerBook ==
  ASSUME BookInv, Typed', Administer
  PROVE  BookInv' /\ Recorded
<1>1. PICK t : /\ Log(None, t) /\ UNCHANGED <<sales, refunds, pc, snap, cmd>>
               /\ \A i \in Items : rows'[i] # rows[i] => <<"row", i>> \in t.writes
  <2>1. CASE \E g \in Switches : SetGate(g)
    BY <2>1 DEF SetGate
  <2>2. CASE \E i \in Touched : SetStatus(i)
    BY <2>2 DEF SetStatus
  <2>3. CASE \E i \in Touched : \E price \in Prices : UpdatePrice(i, price)
    <3>1. PICK i \in Touched, price \in Prices : UpdatePrice(i, price)
      BY <2>3
    <3>2. TablesTyped
      BY SnapshotTyped DEF BookInv, Typed, TypeOK
    <3>3. \A j \in Items : rows'[j] # rows[j] => j = i
      BY <3>1, <3>2 DEF UpdatePrice, TablesTyped
    <3> QED
      BY <3>1, <3>3 DEF UpdatePrice
  <2> QED
    BY <2>1, <2>2, <2>3 DEF Administer
<1>2. Recorded
  BY <1>1 DEF Recorded
<1>3. None \notin Workers
  BY NoneAssumption
<1> QED
  BY <1>1, <1>2, <1>3, LoggedStep

\* A new snapshot is current.
LEMMA BeginBook ==
  ASSUME BookInv, Typed', NEW w \in Workers, NEW c \in Commands, Begin(w, c)
  PROVE  BookInv' /\ Recorded
<1>1. UNCHANGED <<rows, sales, refunds>>
  BY DEF Begin, tables
<1>2. ASSUME NEW v \in Workers, Serializable(v)'
      PROVE  \/ Serializable(v) /\ UNCHANGED <<snap[v], cmd[v]>> /\ since[v] \subseteq since'[v]
             \/ snap'[v] = Snapshot /\ Fresh(v)'
  <2>1. CASE v # w
    BY <1>2, <2>1 DEF Begin, Serializable, BookInv, Typed, TypeOK
  <2>2. CASE v = w
    <3>1. Originals(c) = {}
      BY <1>2, <2>2 DEF Begin, Serializable, BookInv, Typed, TypeOK
    <3>2. snap'[w] = Snapshot /\ cmd'[w] = c
      BY <3>1 DEF Begin, BookInv, Typed, TypeOK
    <3>3. /\ c.op = "checkout" => sales[c.id] = None
          /\ c.op = "refund" => refunds[c.id] = None
      BY <3>1 DEF Originals
    <3>4. snap'[w].sales = sales /\ snap'[w].refunds = refunds
      BY <3>2 DEF Snapshot
    <3> QED
      BY <2>2, <3>2, <3>3, <3>4 DEF Fresh
  <2> QED
    BY <2>1, <2>2
<1> QED
  BY <1>1, <1>2, NothingWritten

\* Whatever only ends a request, or hands it to its error handler.
LEMMA EndBook ==
  ASSUME BookInv, Typed', UNCHANGED tables, UNCHANGED cmd, NEW w \in Workers,
         pc'[w] # "open",
         \A v \in Workers \ {w} : pc'[v] = pc[v] /\ snap'[v] = snap[v] /\ since'[v] = since[v]
  PROVE  BookInv' /\ Recorded
<1>1. UNCHANGED <<rows, sales, refunds>>
  BY DEF tables
<1>2. ASSUME NEW v \in Workers, Serializable(v)'
      PROVE  Serializable(v) /\ UNCHANGED <<snap[v], cmd[v]>> /\ since[v] \subseteq since'[v]
  BY <1>2 DEF Serializable
<1> QED
  BY <1>1, <1>2, NothingWritten

\* An answer ends a transaction and leaves the other snapshots alone.
LEMMA AnswerOnlyBook ==
  ASSUME BookInv, Typed', NEW w \in Workers, NEW kind, AnswerOnly(w, kind)
  PROVE  BookInv' /\ Recorded
<1>1. /\ UNCHANGED tables /\ UNCHANGED cmd /\ pc'[w] # "open"
      /\ \A v \in Workers \ {w} : pc'[v] = pc[v] /\ snap'[v] = snap[v] /\ since'[v] = since[v]
  BY DEF AnswerOnly, Answer, BookInv, Typed, TypeOK
<1> QED
  BY <1>1, EndBook

\* So does the second transaction.
LEMMA RecoverBook ==
  ASSUME BookInv, Typed', NEW w \in Workers, Recover(w)
  PROVE  BookInv' /\ Recorded
<1>1. /\ UNCHANGED tables /\ UNCHANGED cmd /\ pc'[w] # "open"
      /\ \A v \in Workers \ {w} : pc'[v] = pc[v] /\ snap'[v] = snap[v] /\ since'[v] = since[v]
  BY DEF Recover, BookInv, Typed, TypeOK
<1> QED
  BY <1>1, EndBook

\* The steps of a request other than its commit.
Ending(w) ==
  \/ \E kind \in {"none", "done", "conflict", "rejected", "retry"} : AnswerOnly(w, kind)
  \/ pc[w] # "idle" /\ Recover(w)

\* A step commits a command, changes a price or status, or writes no table.
LEMMA StepKinds ==
  ASSUME NEW w \in Workers, Drop(w) \/ Serve(w)
  PROVE  CheckoutCommit(w) \/ RefundCommit(w) \/ StockCommit(w) \/ Ending(w)
BY DEF Drop, Serve, CheckoutReject, RefundReject, Conflict, Serializable, StockRefuse,
   RecoverOriginal, AnswerOriginal, RecoverNothing, RecoverConflict, Ending

\* Every step keeps the relation of snapshots and log.
LEMMA StepBook ==
  ASSUME BookInv, [Next]_vars
  PROVE  BookInv' /\ Recorded
<1>0. Typed'
  BY StepTyped DEF BookInv
<1>1. ASSUME NEW w \in Workers, Drop(w) \/ Serve(w) PROVE BookInv' /\ Recorded
  BY <1>0, <1>1, StepKinds, CheckoutBook, RefundBook, StockBookStep, AnswerOnlyBook,
     RecoverBook DEF Ending
<1>2. ASSUME NEW w \in Workers, NEW c \in Commands, Begin(w, c) PROVE BookInv' /\ Recorded
  BY <1>0, <1>2, BeginBook
<1>3. ASSUME Administer PROVE BookInv' /\ Recorded
  BY <1>0, <1>3, AdministerBook
<1>4. ASSUME UNCHANGED vars PROVE BookInv' /\ Recorded
  BY <1>0, <1>4, NothingWritten DEF vars, Serializable
<1> QED
  BY <1>1, <1>2, <1>3, <1>4 DEF Next

-----------------------------------------------------------------------------
(* The stock book. *)

\* A sale that a snapshot shows is still there.
LEMMA SaleStays ==
  ASSUME BookInv, NEW w \in Workers, Serializable(w), NEW s \in SaleIds,
         snap[w].sales[s] # None
  PROVE  sales[s] = snap[w].sales[s]
BY DEF BookInv, Tracked

\* The initial tables are an initial book.
LEMMA InitBooked == Init => Book!Init
<1> SUFFICES ASSUME Init PROVE Book!Init
  OBVIOUS
<1>1. TablesTyped
  BY InitTyped, SnapshotTyped DEF Typed, TypeOK
<1> QED
  BY <1>1 DEF Init, Book!Init, TablesTyped, Quantity

\* A checkout that commits is a legal sale of the book as it is at that instant.
LEMMA CheckoutSells ==
  ASSUME BookInv, NEW w \in Workers, CheckoutCommit(w)
  PROVE  Book!Sell(cmd[w])
<1> DEFINE c == cmd[w]
<1>1. c \in Commands /\ c.op = "checkout" /\ Serializable(w) /\ Isolated(w, c)
  BY DEF CheckoutCommit, IsOpen, Serializable, BookInv, Typed, Served
<1>2. sales[c.id] = None
  BY <1>1, IdUnused
<1>3. ASSUME NEW i \in Items, c.cart[i] > 0
      PROVE  rows[i].quantity >= c.cart[i] /\ rows[i].price = c.price[i]
  <2>1. i \in Units(c.cart) /\ i \in RowsOf(c)
    BY <1>1, <1>3 DEF Units, RowsOf
  <2>2. snap[w].rows[i] = rows[i]
    BY <1>1, <2>1, RowIsSeen
  <2> QED
    BY <2>1, <2>2 DEF CheckoutCommit, Sellable
<1> QED
  BY <1>2, <1>3 DEF CheckoutCommit, Book!Sell

\* Both count the same returned units.
LEMMA SameReturns ==
  ASSUME NEW s, NEW i
  PROVE  Book!Returned(s, i) = Returned(RefundsOf(refunds, s), i)
BY DEF Book!Returned, Book!RefundsOf, Book!MapThenSumSet, Book!MapThenFoldSet,
       Returned, RefundsOf, MapThenSumSet, MapThenFoldSet

\* A refund that commits is a legal return of the book as it is at that instant.
LEMMA RefundReturns ==
  ASSUME BookInv, NEW w \in Workers, RefundCommit(w)
  PROVE  Book!Return(cmd[w])
<1> DEFINE c == cmd[w]
<1>1. c \in Commands /\ c.op = "refund" /\ Serializable(w) /\ Isolated(w, c)
  BY DEF RefundCommit, IsOpen, Serializable, BookInv, Typed, Served
<1>2. refunds[c.id] = None
  BY <1>1, IdUnused
<1>3. c.sale \in SaleIds /\ c.restock \in [Items -> Quantity]
  BY <1>1, RefundFacts
<1>4. Returnable(snap[w], c)
  BY DEF RefundCommit
<1>5. snap[w].sales[c.sale] # None /\ sales[c.sale] = snap[w].sales[c.sale]
  BY <1>1, <1>3, <1>4, SaleStays DEF Returnable
<1>6. ASSUME NEW i \in Items
      PROVE  Book!Returned(c.sale, i) + c.lines[i] <= sales[c.sale].cart[i]
  <2>1. Returned(RefundsOf(snap[w].refunds, c.sale), i) + c.lines[i]
          <= snap[w].sales[c.sale].cart[i]
    BY <1>4 DEF Returnable
  <2>2. Book!Returned(c.sale, i) = Returned(RefundsOf(snap[w].refunds, c.sale), i)
    BY <1>1, SameReturns, ReturnsAreSeen
  <2> QED
    BY <1>5, <2>1, <2>2
<1>7. ASSUME NEW i \in Items PROVE rows[i].quantity + c.restock[i] <= MaxQuantity
  <2>1. rows[i].quantity <= MaxQuantity - c.restock[i]
    BY DEF RefundCommit, Restocks
  <2>2. rows[i].quantity \in Int /\ c.restock[i] \in Int
    BY <1>3, SnapshotTyped, LimitAssumption DEF BookInv, Typed, TypeOK, TablesTyped, Quantity
  <2> QED
    BY <2>1, <2>2, LimitAssumption
<1> QED
  BY <1>2, <1>5, <1>6, <1>7 DEF RefundCommit, Book!Return

\* A stock command records a balance within the limits.
LEMMA StockRecords ==
  ASSUME BookInv, NEW w \in Workers, StockCommit(w)
  PROVE  Book!Record(cmd[w].item, Balance(w)) /\ cmd[w].item \in Items
           /\ Balance(w) \in 0 .. MaxQuantity
<1>1. cmd[w].item \in Items /\ Balance(w) \in 0 .. MaxQuantity
  BY StockFitsFacts DEF StockCommit, BookInv, Quantity
<1>2. rows' = [rows EXCEPT ![cmd[w].item].quantity = Balance(w)]
  BY DEF StockCommit, Balance
<1> QED
  BY <1>1, <1>2 DEF StockCommit, Book!Record

\* Every step is a step of the book or leaves it unchanged.
LEMMA StepBooked ==
  ASSUME BookInv, [Next]_vars
  PROVE  [Book!Next]_Book!bookVars
<1>1. ASSUME NEW w \in Workers, Drop(w) \/ Serve(w) PROVE [Book!Next]_Book!bookVars
  <2>1. CASE CheckoutCommit(w)
    <3>1. cmd[w] \in Checkouts
      BY <2>1, CheckoutFacts DEF CheckoutCommit, IsOpen, BookInv, Typed, Served
    <3> QED
      BY <2>1, <3>1, CheckoutSells DEF Book!Next
  <2>2. CASE RefundCommit(w)
    <3>1. cmd[w] \in Refunds
      BY <2>2, RefundFacts DEF RefundCommit, IsOpen, BookInv, Typed, Served
    <3> QED
      BY <2>2, <3>1, RefundReturns DEF Book!Next
  <2>3. CASE StockCommit(w)
    BY <2>3, StockRecords DEF Book!Next
  <2>4. CASE Ending(w)
    BY <2>4 DEF Ending, AnswerOnly, Recover, tables, Book!bookVars
  <2> QED
    BY <1>1, <2>1, <2>2, <2>3, <2>4, StepKinds
<1>2. ASSUME NEW w \in Workers, NEW c \in Commands, Begin(w, c)
      PROVE  [Book!Next]_Book!bookVars
  BY <1>2 DEF Begin, tables, Book!bookVars
<1>3. ASSUME Administer PROVE [Book!Next]_Book!bookVars
  <2>1. CASE \E i \in Touched : \E price \in Prices : UpdatePrice(i, price)
    BY <2>1, BoundsAssumption DEF UpdatePrice, Book!Reprice, Book!Next
  <2>2. CASE (\E g \in Switches : SetGate(g)) \/ \E i \in Touched : SetStatus(i)
    BY <2>2 DEF SetGate, SetStatus, Book!bookVars
  <2> QED
    BY <1>3, <2>1, <2>2 DEF Administer
<1>4. ASSUME UNCHANGED vars PROVE [Book!Next]_Book!bookVars
  BY <1>4 DEF vars, Book!bookVars
<1> QED
  BY <1>1, <1>2, <1>3, <1>4 DEF Next

\* The relation of snapshots and log holds in every reachable state.
LEMMA BookInvariant == Spec => []BookInv
<1>1. BookInv /\ [Next]_vars => BookInv'
  BY StepBook
<1> QED
  BY InitBook, <1>1, PTL DEF Spec

\* Every sale, refund and stock command takes effect as the stock book demands,
\* judged by the tables at the instant it commits, for any number of requests
\* that wait for each other, repeat and fail.
THEOREM ImplementsStockBook == Spec => ImplementsBook
<1>1. BookInv /\ [Next]_vars => [Book!Next]_Book!bookVars
  BY StepBooked
<1> QED
  BY InitBooked, BookInvariant, <1>1, PTL DEF Spec, ImplementsBook, Book!Spec

-----------------------------------------------------------------------------
(* True answers. *)

\* The caller was told that the command succeeded.
ToldDone(w) == pc[w] = "idle" /\ reply[w] = "done"
IsCommitted(c) == \E original \in Originals(c) : Replays(original, c)
AnswerInv ==
  BookInv /\ \A w \in Workers : ToldDone(w) => cmd[w] \in Commands /\ IsCommitted(cmd[w])

\* Movements are only ever added.
LedgerKept ==
  \A i \in Items : \A k \in DOMAIN ledger[i] :
    k \in DOMAIN ledger'[i] /\ ledger'[i][k] = ledger[i][k]

\* Appending keeps the entries there are and adds one at the end.
LEMMA AppendKeeps ==
  ASSUME NEW S, NEW l \in Seq(S), NEW m \in S
  PROVE  /\ \A k \in DOMAIN l : k \in DOMAIN Append(l, m) /\ Append(l, m)[k] = l[k]
         /\ Len(l) + 1 \in DOMAIN Append(l, m) /\ Append(l, m)[Len(l) + 1] = m
OBVIOUS

\* Movements are only ever added.
LEMMA StepKeepsLedger ==
  ASSUME Typed, [Next]_vars
  PROVE  LedgerKept
<1>0. ledger \in [Items -> Seq(Movement)] /\ ledger' \in [Items -> Seq(Movement)]
  BY TypedTables DEF Typed, TypeOK
<1>1. ASSUME UNCHANGED ledger PROVE LedgerKept
  BY <1>1 DEF LedgerKept
<1>2. ASSUME NEW i \in Items, NEW m, ledger'[i] = Append(ledger[i], m), m \in Movement
      PROVE  \A k \in DOMAIN ledger[i] : k \in DOMAIN ledger'[i] /\ ledger'[i][k] = ledger[i][k]
  <2>1. ledger[i] \in Seq(Movement)
    BY <1>0
  <2> QED
    BY <1>2, <2>1, AppendKeeps
<1>3. ASSUME NEW w \in Workers, CheckoutCommit(w) PROVE LedgerKept
  <2> DEFINE c == cmd[w]
             m(i) == [by |-> c, change |-> -c.cart[i], after |-> rows'[i].quantity]
  <2>1. c \in Commands /\ c.op = "checkout"
    BY <1>3 DEF CheckoutCommit, IsOpen, Typed, Served
  <2>2. ASSUME NEW i \in Items PROVE ledger'[i] = ledger[i] \/ ledger'[i] = Append(ledger[i], m(i))
    BY <1>3 DEF CheckoutCommit
  <2>3. ASSUME NEW i \in Items PROVE m(i) \in Movement
    <3>1. -c.cart[i] \in Int
      BY <2>1, CheckoutFacts, LimitAssumption DEF Quantity
    <3>2. rows'[i].quantity \in Quantity
      BY TypedTables DEF TablesTyped
    <3> QED
      BY <2>1, <3>1, <3>2 DEF Movement
  <2> HIDE DEF m
  <2> QED
    BY <1>2, <2>2, <2>3 DEF LedgerKept
<1>4. ASSUME NEW w \in Workers, RefundCommit(w) PROVE LedgerKept
  <2> DEFINE c == cmd[w]
             m(i) == [by |-> c, change |-> c.restock[i], after |-> rows'[i].quantity]
  <2>1. c \in Commands /\ c.op = "refund"
    BY <1>4 DEF RefundCommit, IsOpen, Typed, Served
  <2>2. ASSUME NEW i \in Items PROVE ledger'[i] = ledger[i] \/ ledger'[i] = Append(ledger[i], m(i))
    BY <1>4 DEF RefundCommit
  <2>3. ASSUME NEW i \in Items PROVE m(i) \in Movement
    <3>1. c.restock[i] \in Int
      BY <2>1, RefundFacts, LimitAssumption DEF Quantity
    <3>2. rows'[i].quantity \in Quantity
      BY TypedTables DEF TablesTyped
    <3> QED
      BY <2>1, <3>1, <3>2 DEF Movement
  <2> HIDE DEF m
  <2> QED
    BY <1>2, <2>2, <2>3 DEF LedgerKept
<1>5. ASSUME NEW w \in Workers, StockCommit(w) PROVE LedgerKept
  <2> DEFINE c == cmd[w]
             m == [by |-> c, change |-> Delta(w), after |-> Balance(w)]
  <2>1. c.item \in Items /\ m \in Movement
    BY <1>5, StockFitsFacts DEF StockCommit, Movement
  <2>2. ledger' = [ledger EXCEPT ![c.item] = Append(@, m)]
    BY <1>5 DEF StockCommit
  <2> HIDE DEF m
  <2> QED
    BY <1>0, <1>2, <2>1, <2>2 DEF LedgerKept
<1>6. ASSUME NEW w \in Workers, Ending(w) \/ \E c \in Commands : Begin(w, c) PROVE LedgerKept
  BY <1>1, <1>6 DEF Ending, AnswerOnly, Recover, Begin, tables
<1>7. ASSUME Administer PROVE LedgerKept
  BY <1>1, <1>7 DEF Administer, SetGate, SetStatus, UpdatePrice
<1> QED
  BY <1>1, <1>3, <1>4, <1>5, <1>6, <1>7, StepKinds DEF Next, vars

\* So what was committed under a request id is found again.
LEMMA CommittedStays ==
  ASSUME Recorded, LedgerKept, NEW c \in Commands, IsCommitted(c)
  PROVE  IsCommitted(c)'
<1>1. PICK o \in Originals(c) : Replays(o, c)
  BY DEF IsCommitted
<1>2. CASE c.op = "checkout"
  <2>1. o = sales[c.id] /\ sales[c.id] # None /\ c.id \in SaleIds
    BY <1>2, CheckoutFacts DEF Originals
  <2>2. o \in Originals(c)'
    BY <1>2, <2>1 DEF Originals, Recorded
  <2> QED
    BY <1>1, <2>2 DEF IsCommitted, Replays
<1>3. CASE c.op = "refund"
  <2>1. o = refunds[c.id] /\ refunds[c.id] # None /\ c.id \in RefundIds
    BY <1>3, RefundFacts DEF Originals
  <2>2. o \in Originals(c)'
    BY <1>3, <2>1 DEF Originals, Recorded
  <2> QED
    BY <1>1, <2>2 DEF IsCommitted, Replays
<1>4. CASE c.op \in StockOps
  <2>1. o \in StockMovements /\ o.by.op \in StockOps /\ o.by.id = c.id
    BY <1>4 DEF Originals, StockOps
  <2>2. PICK i \in Items : \E k \in DOMAIN ledger[i] : o = ledger[i][k]
    BY <2>1 DEF StockMovements
  <2>3. PICK k \in DOMAIN ledger[i] : o = ledger[i][k]
    BY <2>2
  <2>4. k \in DOMAIN ledger'[i] /\ ledger'[i][k] = o
    BY <2>3 DEF LedgerKept
  <2>5. o \in StockMovements'
    BY <2>4 DEF StockMovements
  <2>6. o \in Originals(c)'
    BY <1>4, <2>1, <2>5 DEF Originals, StockOps
  <2> QED
    BY <1>1, <2>6 DEF IsCommitted, Replays
<1> QED
  BY <1>2, <1>3, <1>4, Kinds

\* A commit that answers "done" recorded the command itself.
LEMMA CommitsItself ==
  ASSUME Typed, Typed', NEW w \in Workers, NEW c, c = cmd[w],
         CheckoutCommit(w) \/ RefundCommit(w) \/ StockCommit(w)
  PROVE  cmd'[w] = c /\ c \in Commands /\ IsCommitted(c)'
<1>0. cmd' = cmd
  BY DEF CheckoutCommit, RefundCommit, StockCommit, Answer
<1>1. CASE CheckoutCommit(w)
  <2>1. c \in Commands /\ c.op = "checkout"
    BY <1>1 DEF CheckoutCommit, IsOpen, Typed, Served
  <2>2. c.id \in SaleIds /\ c # None
    BY <2>1, CheckoutFacts
  <2>3. sales'[c.id] = c
    BY <1>1, <2>2, SnapshotTyped DEF CheckoutCommit, Typed, TypeOK, TablesTyped
  <2>4. c \in Originals(c)'
    BY <1>0, <2>1, <2>2, <2>3 DEF Originals
  <2> QED
    BY <1>0, <2>1, <2>4 DEF IsCommitted, Replays
<1>2. CASE RefundCommit(w)
  <2>1. c \in Commands /\ c.op = "refund"
    BY <1>2 DEF RefundCommit, IsOpen, Typed, Served
  <2>2. c.id \in RefundIds /\ c # None
    BY <2>1, RefundFacts
  <2>3. refunds'[c.id] = c
    BY <1>2, <2>2, SnapshotTyped DEF RefundCommit, Typed, TypeOK, TablesTyped
  <2>4. c \in Originals(c)'
    BY <1>0, <2>1, <2>2, <2>3 DEF Originals
  <2> QED
    BY <1>0, <2>1, <2>4 DEF IsCommitted, Replays
<1>3. CASE StockCommit(w)
  <2> DEFINE m == [by |-> c, change |-> Delta(w), after |-> Balance(w)]
  <2>1. /\ c \in Commands /\ c.item \in Items /\ Delta(w) \in Int /\ m \in Movement
        /\ c.op \in StockOps /\ Balance(w) = rows[c.item].quantity + Delta(w)
    BY <1>3, StockFitsFacts DEF StockCommit, Movement
  <2>2. c.amount \in Int /\ rows[c.item].quantity \in Int /\ snap[w].rows[c.item].quantity \in Int
    BY <1>3, <2>1, StockFacts, SnapshotTyped, LimitAssumption
       DEF StockCommit, Typed, TypeOK, Served, Tables, TablesTyped, Quantity
  <2>3. c.amount = IF c.op = "set" THEN m.after ELSE m.change
    <3>1. CASE c.op = "set"
      <4>1. rows[c.item].quantity = snap[w].rows[c.item].quantity
        BY <1>3, <3>1 DEF StockCommit, StockFits
      <4>2. Delta(w) = c.amount - snap[w].rows[c.item].quantity
        BY <3>1 DEF Delta
      <4>3. m.after = Balance(w)
        OBVIOUS
      <4>4. \A q, r, a \in Int : q = r => q + (a - r) = a
        OBVIOUS
      <4>5. c.amount = rows[c.item].quantity + (c.amount - snap[w].rows[c.item].quantity)
        BY <2>2, <4>1, <4>4
      <4>6. Balance(w) = c.amount
        BY <2>1, <4>2, <4>5
      <4> QED
        BY <3>1, <4>3, <4>6
    <3>2. CASE c.op # "set"
      <4>1. Delta(w) = c.amount
        BY <3>2 DEF Delta
      <4>2. m.change = Delta(w)
        OBVIOUS
      <4> QED
        BY <3>2, <4>1, <4>2
    <3> QED
      BY <3>1, <3>2
  <2>4. m.by = c
    OBVIOUS
  <2>5. ledger[c.item] \in Seq(Movement)
    BY <2>1 DEF Typed, TypeOK
  <2>6. ledger' = [ledger EXCEPT ![c.item] = Append(@, m)]
    BY <1>3 DEF StockCommit
  <2> HIDE DEF m
  <2>7. ledger'[c.item] = Append(ledger[c.item], m)
    BY <2>1, <2>6 DEF Typed, TypeOK
  <2>8. \E k \in DOMAIN ledger'[c.item] : ledger'[c.item][k] = m
    <3>1. /\ Len(ledger[c.item]) + 1 \in DOMAIN Append(ledger[c.item], m)
          /\ Append(ledger[c.item], m)[Len(ledger[c.item]) + 1] = m
      BY <2>1, <2>5, AppendKeeps
    <3> QED
      BY <2>7, <3>1
  <2>9. m \in StockMovements'
    BY <2>1, <2>8 DEF StockMovements
  <2>10. m \in Originals(c)'
    BY <1>0, <2>1, <2>4, <2>9 DEF Originals, StockOps
  <2>11. Replays(m, c)
    BY <2>1, <2>3, <2>4 DEF Replays, StockOps
  <2> QED
    BY <1>0, <2>1, <2>10, <2>11 DEF IsCommitted, Replays
<1> QED
  BY <1>0, <1>1, <1>2, <1>3

\* Any other end that answers "done" found the command.
LEMMA EndingIsTrue ==
  ASSUME Typed, NEW w \in Workers, Drop(w) \/ Serve(w), ToldDone(w)',
         ~(CheckoutCommit(w) \/ RefundCommit(w) \/ StockCommit(w))
  PROVE  cmd[w] \in Commands /\ IsCommitted(cmd[w])
<1>1. ASSUME NEW kind, AnswerOnly(w, kind) PROVE kind = "done"
  BY <1>1 DEF AnswerOnly, Answer, ToldDone, Typed, TypeOK
<1>2. ~Recover(w)
  BY DEF Recover, ToldDone, Typed, TypeOK
<1>3. RecoverOriginal(w)
  BY <1>1, <1>2 DEF Drop, Serve, CheckoutReject, RefundReject, Conflict, StockRefuse,
     RecoverNothing, RecoverConflict
<1>4. cmd[w] \in Commands
  BY <1>3 DEF RecoverOriginal, Typed, Served
<1>5. IsCommitted(cmd[w])
  BY <1>1, <1>3 DEF RecoverOriginal, AnswerOriginal, IsCommitted
<1> QED
  BY <1>4, <1>5

\* Every step keeps the answers that were given true.
LEMMA StepAnswers ==
  ASSUME AnswerInv, [Next]_vars
  PROVE  AnswerInv'
<1>1. BookInv' /\ Recorded /\ LedgerKept /\ Typed /\ Typed'
  BY StepBook, StepKeepsLedger DEF AnswerInv, BookInv
<1>2. ASSUME NEW v \in Workers, ToldDone(v)'
      PROVE  (cmd[v] \in Commands /\ IsCommitted(cmd[v]))'
  <2>1. ASSUME NEW c \in Commands, cmd'[v] = c, IsCommitted(c) \/ IsCommitted(c)'
        PROVE  (cmd[v] \in Commands /\ IsCommitted(cmd[v]))'
    <3>1. IsCommitted(c)'
      BY <1>1, <2>1, CommittedStays
    <3> QED
      BY <2>1, <3>1 DEF IsCommitted, Originals, Replays
  <2>2. CASE ToldDone(v) /\ cmd'[v] = cmd[v]
    <3>1. PICK c \in Commands : c = cmd[v]
      BY <2>2 DEF AnswerInv
    <3>2. IsCommitted(c)
      BY <2>2, <3>1 DEF AnswerInv
    <3> QED
      BY <2>1, <2>2, <3>1, <3>2
  <2>3. CASE Drop(v) \/ Serve(v)
    <3>1. CASE CheckoutCommit(v) \/ RefundCommit(v) \/ StockCommit(v)
      <4>1. PICK c : c = cmd[v]
        OBVIOUS
      <4>2. cmd'[v] = c /\ c \in Commands /\ IsCommitted(c)'
        BY <1>1, <3>1, <4>1, CommitsItself
      <4> QED
        BY <2>1, <4>2
    <3>2. CASE ~(CheckoutCommit(v) \/ RefundCommit(v) \/ StockCommit(v))
      <4>1. cmd[v] \in Commands /\ IsCommitted(cmd[v])
        BY <1>1, <1>2, <2>3, <3>2, EndingIsTrue
      <4>2. cmd' = cmd
        BY <2>3, <3>2, StepKinds DEF Ending, AnswerOnly, Answer, Recover
      <4>3. PICK c \in Commands : c = cmd[v]
        BY <4>1
      <4>4. IsCommitted(c)
        BY <4>1, <4>3
      <4> QED
        BY <2>1, <4>2, <4>3, <4>4
    <3> QED
      BY <3>1, <3>2
  <2>4. ASSUME NEW c \in Commands, Begin(v, c)
        PROVE  (cmd[v] \in Commands /\ IsCommitted(cmd[v]))'
    <3>1. cmd'[v] = c
      BY <1>1, <2>4 DEF Begin, Typed, TypeOK
    <3>2. pc'[v] = "idle" /\ reply'[v] = "done"
      BY <1>2 DEF ToldDone
    <3>3. Originals(c) # {}
      BY <1>1, <2>4, <3>2 DEF Begin, Typed, TypeOK
    <3>4. IsCommitted(c)
      BY <1>1, <2>4, <3>2, <3>3 DEF Begin, IsCommitted, Typed, TypeOK
    <3> QED
      BY <2>1, <3>1, <3>4
  <2>5. ASSUME NEW w \in Workers \ {v},
               Drop(w) \/ Serve(w) \/ \E c \in Commands : Begin(w, c)
        PROVE  ToldDone(v) /\ cmd'[v] = cmd[v]
    <3>1. pc'[v] = pc[v] /\ reply'[v] = reply[v] /\ cmd'[v] = cmd[v]
      <4>1. CASE CheckoutCommit(w) \/ RefundCommit(w) \/ StockCommit(w)
        BY <1>1, <2>5, <4>1 DEF CheckoutCommit, RefundCommit, StockCommit, Answer, Typed, TypeOK
      <4>2. CASE Ending(w)
        BY <1>1, <2>5, <4>2 DEF Ending, AnswerOnly, Answer, Recover, Typed, TypeOK
      <4>3. CASE \E c \in Commands : Begin(w, c)
        BY <1>1, <2>5, <4>3 DEF Begin, Typed, TypeOK
      <4> QED
        BY <2>5, <4>1, <4>2, <4>3, StepKinds
    <3> QED
      BY <1>2, <3>1 DEF ToldDone
  <2>6. CASE Administer \/ UNCHANGED vars
    <3>1. UNCHANGED <<pc, reply, cmd>>
      BY <2>6 DEF Administer, SetGate, SetStatus, UpdatePrice, vars
    <3>2. ToldDone(v) /\ cmd'[v] = cmd[v]
      BY <1>2, <3>1 DEF ToldDone
    <3> QED
      BY <2>2, <3>2
  <2> QED
    BY <2>2, <2>3, <2>4, <2>5, <2>6 DEF Next
<1> QED
  BY <1>1, <1>2 DEF AnswerInv

\* A request that is told it succeeded finds its own command committed, also when
\* it was a retry, lost a race for its request id, or conflicted and looked the
\* original up.
THEOREM AnswersAreTrue == Spec => []DoneIsCommitted
<1>1. Init => AnswerInv
  BY InitBook DEF Init, AnswerInv, ToldDone
<1>2. AnswerInv /\ [Next]_vars => AnswerInv'
  BY StepAnswers
<1>3. AnswerInv => DoneIsCommitted
  BY DEF AnswerInv, ToldDone, IsCommitted, DoneIsCommitted
<1> QED
  BY <1>1, <1>2, <1>3, PTL DEF Spec

-----------------------------------------------------------------------------
(* Closed gates. *)

\* A checkout or refund in progress is told of every gate that changed, and no
\* request is answered before it ends.
GatesTracked ==
  \A w \in Workers : Serializable(w) =>
    \A g \in Gates : snap[w].gates[g] # gates[g] =>
      \E t \in since[w] : Wrote(t, <<"gate", g>>)
Unanswered == \A w \in Workers : pc[w] # "idle" => reply[w] = "none"
GateInv == Typed /\ GatesTracked /\ Unanswered

\* What a step may do to the request of one worker.
Untouched(v) == pc'[v] = pc[v] /\ snap'[v] = snap[v] /\ cmd'[v] = cmd[v] /\ reply'[v] = reply[v]

\* A committed transaction is logged for whoever is still open.
LEMMA LogKeepsGates ==
  ASSUME GateInv, NEW w, NEW t, Log(w, t), NEW v \in Workers \ {w}, Untouched(v),
         \A g \in Gates : gates'[g] # gates[g] => <<"gate", g>> \in t.writes,
         Serializable(v)', NEW g \in Gates, snap'[v].gates[g] # gates'[g]
  PROVE  \E u \in since'[v] : Wrote(u, <<"gate", g>>)
<1>1. Serializable(v) /\ since'[v] = since[v] \cup {t}
  BY DEF Untouched, Serializable, Log
<1>2. CASE snap[v].gates[g] # gates[g]
  BY <1>1, <1>2 DEF GateInv, GatesTracked
<1>3. CASE snap[v].gates[g] = gates[g]
  BY <1>1, <1>3 DEF Untouched, Wrote
<1> QED
  BY <1>2, <1>3

\* A commit leaves its own worker idle, the others as they were.
LEMMA CommitGates ==
  ASSUME GateInv, Typed', NEW w \in Workers,
         CheckoutCommit(w) \/ RefundCommit(w) \/ StockCommit(w)
  PROVE  GateInv'
<1>1. PICK t : Log(w, t)
  BY DEF CheckoutCommit, RefundCommit, StockCommit
<1>2. /\ pc'[w] = "idle" /\ \A v \in Workers \ {w} : Untouched(v)
      /\ UNCHANGED gates
  BY DEF CheckoutCommit, RefundCommit, StockCommit, Answer, Untouched, GateInv, Typed, TypeOK
<1>3. ASSUME NEW v \in Workers, Serializable(v)' PROVE v # w
  BY <1>2, <1>3 DEF Serializable
<1>4. GatesTracked'
  BY <1>1, <1>2, <1>3, LogKeepsGates DEF GatesTracked
<1>5. Unanswered'
  BY <1>2 DEF GateInv, Unanswered, Untouched
<1> QED
  BY <1>4, <1>5 DEF GateInv

\* So does any other end of a request or of its first transaction.
LEMMA EndGates ==
  ASSUME GateInv, Typed', NEW w \in Workers, Ending(w)
  PROVE  GateInv'
<1>1. /\ pc'[w] # "open" /\ (pc'[w] # "idle" => reply'[w] = "none")
      /\ \A v \in Workers \ {w} : Untouched(v) /\ since'[v] = since[v]
      /\ UNCHANGED gates
  BY DEF Ending, AnswerOnly, Answer, Recover, tables, Untouched, GateInv, Unanswered, Typed, TypeOK
<1>2. GatesTracked'
  BY <1>1 DEF GatesTracked, GateInv, Serializable, Untouched
<1>3. Unanswered'
  BY <1>1 DEF GateInv, Unanswered, Untouched
<1> QED
  BY <1>2, <1>3 DEF GateInv

\* A request that begins sees the gates as they are.
LEMMA BeginGates ==
  ASSUME GateInv, Typed', NEW w \in Workers, NEW c \in Commands, Begin(w, c)
  PROVE  GateInv'
<1>1. /\ \A v \in Workers \ {w} : Untouched(v) /\ UNCHANGED <<since, gates>>
      /\ pc'[w] # "idle" => reply'[w] = "none" /\ snap'[w].gates = gates
  BY DEF Begin, Snapshot, tables, Untouched, GateInv, Typed, TypeOK
<1>2. UNCHANGED <<since, gates>>
  BY DEF Begin, tables
<1>3. GatesTracked'
  BY <1>1, <1>2 DEF GatesTracked, GateInv, Serializable, Untouched
<1>4. Unanswered'
  BY <1>1 DEF GateInv, Unanswered, Untouched
<1> QED
  BY <1>3, <1>4 DEF GateInv

\* A change of a gate is logged as a write of it.
LEMMA AdministerGates ==
  ASSUME GateInv, Typed', Administer
  PROVE  GateInv'
<1>1. /\ \A v \in Workers : Untouched(v)
      /\ \E t : Log(None, t) /\ \A g \in Gates : gates'[g] # gates[g] => <<"gate", g>> \in t.writes
  <2>1. ASSUME NEW g \in Switches, SetGate(g)
        PROVE  Log(None, [reads |-> {<<"gate", g>>}, writes |-> {<<"gate", g>>}])
                 /\ \A h \in Gates : gates'[h] # gates[h] => h = g
    BY <2>1 DEF SetGate, GateInv, Typed, TypeOK
  <2>2. CASE (\E i \in Touched : SetStatus(i)) \/ \E i \in Touched, price \in Prices : UpdatePrice(i, price)
    BY <2>2 DEF SetStatus, UpdatePrice, Untouched
  <2>3. CASE \E g \in Switches : SetGate(g)
    BY <2>1, <2>3 DEF SetGate, Untouched
  <2> QED
    BY <2>2, <2>3 DEF Administer
<1>2. None \notin Workers
  BY NoneAssumption
<1>3. GatesTracked'
  BY <1>1, <1>2, LogKeepsGates DEF GatesTracked
<1>4. Unanswered'
  BY <1>1 DEF GateInv, Unanswered, Untouched
<1> QED
  BY <1>3, <1>4 DEF GateInv

\* Every step keeps track of the gates.
LEMMA StepGates ==
  ASSUME GateInv, [Next]_vars
  PROVE  GateInv'
<1>0. Typed'
  BY StepTyped DEF GateInv
<1>1. ASSUME UNCHANGED vars PROVE GateInv'
  BY <1>0, <1>1 DEF vars, GateInv, GatesTracked, Unanswered, Serializable
<1> QED
  BY <1>0, <1>1, CommitGates, EndGates, BeginGates, AdministerGates, StepKinds DEF Next

\* What a request in its first transaction is told it did, it committed in that step.
LEMMA ToldByCommit ==
  ASSUME GateInv, [Next]_vars, NEW w \in Workers, pc[w] = "open", reply'[w] = "done"
  PROVE  CheckoutCommit(w) \/ RefundCommit(w) \/ StockCommit(w)
<1>1. reply[w] = "none"
  BY DEF GateInv, Unanswered
<1>2. ASSUME NEW v \in Workers, v # w,
             Drop(v) \/ Serve(v) \/ \E c \in Commands : Begin(v, c)
      PROVE  reply'[w] = reply[w]
  <2>1. CASE CheckoutCommit(v) \/ RefundCommit(v) \/ StockCommit(v)
    BY <1>2, <2>1 DEF CheckoutCommit, RefundCommit, StockCommit, Answer, GateInv, Typed, TypeOK
  <2>2. CASE Ending(v)
    BY <1>2, <2>2 DEF Ending, AnswerOnly, Answer, Recover, GateInv, Typed, TypeOK
  <2>3. CASE \E c \in Commands : Begin(v, c)
    BY <1>2, <2>3 DEF Begin, GateInv, Typed, TypeOK
  <2> QED
    BY <1>2, <2>1, <2>2, <2>3, StepKinds
<1>3. CASE Administer \/ UNCHANGED vars
  BY <1>1, <1>3 DEF Administer, SetGate, SetStatus, UpdatePrice, vars
<1>4. CASE \E c \in Commands : Begin(w, c)
  BY <1>4 DEF Begin
<1>5. ASSUME NEW kind, AnswerOnly(w, kind) PROVE kind = "done"
  BY <1>5 DEF AnswerOnly, Answer, GateInv, Typed, TypeOK
<1>6. ASSUME Recover(w) PROVE FALSE
  BY <1>1, <1>6 DEF Recover
<1>7. CASE Drop(w) \/ Serve(w)
  BY <1>5, <1>6, <1>7 DEF Drop, Serve, CheckoutReject, RefundReject, Conflict, StockRefuse,
     RecoverOriginal, AnswerOriginal, RecoverNothing, RecoverConflict
<1> QED
  BY <1>1, <1>2, <1>3, <1>4, <1>7 DEF Next

\* A gate that a commit needs, and locks, is as its snapshot shows it.
LEMMA NeededGatesAreOpen ==
  ASSUME GateInv, NEW w \in Workers,
         CheckoutCommit(w) \/ RefundCommit(w) \/ StockCommit(w), NEW g \in Needs(cmd[w])
  PROVE  gates[g]
<1>1. ASSUME Serializable(w), Allowed(snap[w], cmd[w]), Isolated(w, cmd[w]),
             g \in LocksOf(cmd[w]), g \in Gates
      PROVE  gates[g]
  <2>1. \A t \in since[w] : ~Wrote(t, <<"gate", g>>)
    BY <1>1 DEF Isolated, FirstUpdaterWins, Wrote
  <2>2. snap[w].gates[g] = gates[g]
    BY <1>1, <2>1 DEF GateInv, GatesTracked
  <2> QED
    BY <1>1, <2>2 DEF Allowed
<1>2. CASE CheckoutCommit(w)
  BY <1>1, <1>2 DEF CheckoutCommit, IsOpen, Serializable, Needs, LocksOf, Gates
<1>3. CASE RefundCommit(w)
  BY <1>1, <1>3 DEF RefundCommit, IsOpen, Serializable, Needs, LocksOf, Gates
<1>4. CASE StockCommit(w)
  BY <1>4 DEF StockCommit, StockAllowed, Allowed, Snapshot
<1> QED
  BY <1>2, <1>3, <1>4

\* Nothing is committed through a closed gate, however long ago the snapshot was
\* taken that found it open.
THEOREM GatesHold == Spec => NothingThroughClosedGates
<1>1. Init => GateInv
  BY InitTyped DEF Init, GateInv, GatesTracked, Unanswered, Serializable
<1>2. GateInv /\ [Next]_vars => GateInv'
  BY StepGates
<1>3. ASSUME GateInv, [Next]_vars, NEW w \in Workers, pc[w] = "open", reply'[w] = "done"
      PROVE  \A g \in Needs(cmd[w]) : gates[g]
  BY <1>3, ToldByCommit, NeededGatesAreOpen
<1>4. GateInv /\ [Next]_vars =>
        [\A w \in Workers : pc[w] = "open" /\ reply'[w] = "done" =>
           \A g \in Needs(cmd[w]) : gates[g]]_vars
  BY <1>3
<1> QED
  BY <1>1, <1>2, <1>4, PTL DEF Spec, NothingThroughClosedGates

-----------------------------------------------------------------------------
(* Every command is in the ledger once. *)

\* What two movements b and d, of placements i and j, may have in common.
Apart(b, i, d, j) ==
  CASE b.by.op = "opening" -> d.by.op # "opening" \/ i # j
    [] b.by.op \in StockOps -> d.by.op \in StockOps => b.by.id # d.by.id
    [] OTHER -> b.by = d.by => i # j
Recording(e) ==
  Entry(e).by.op \in {"checkout", "refund"} =>
    Entry(e).by \in Committed /\ Entry(e).change = Lines(Entry(e).by, e[1])
AllApart == \A e, f \in Entries : e # f => Apart(Entry(e), e[1], Entry(f), f[1])
AllMoved ==
  \A c \in Committed : \A i \in Items : Lines(c, i) # 0 =>
    \E k \in DOMAIN ledger[i] : ledger[i][k].by = c
\* Every sale and refund is kept under its own request id.
Keyed ==
  /\ \A s \in SaleIds : sales[s] # None => sales[s].id = s /\ sales[s].op = "checkout"
  /\ \A f \in RefundIds : refunds[f] # None => refunds[f].id = f /\ refunds[f].op = "refund"
AccountInv == BookInv /\ Keyed /\ (\A e \in Entries : Recording(e)) /\ AllApart /\ AllMoved

\* The parts of the property.
LEMMA AccountParts ==
  AccountedOnce <=> (\A e \in Entries : Recording(e)) /\ AllApart /\ AllMoved
BY DEF AccountedOnce, Recording, AllApart, AllMoved, Apart

\* An entry is a place in the ledger of a placement.
LEMMA EntryForm ==
  \A e : e \in Entries <=> \E i \in Items : \E k \in DOMAIN ledger[i] : e = <<i, k>>
BY DEF Entries

\* A command c is recorded by one new movement for each of some placements J.
AppendsOnce(c, J, mm) ==
  /\ J \subseteq Items /\ \A i \in J : mm[i] \in Movement /\ mm[i].by = c
  /\ \A i \in Items :
       ledger'[i] = IF i \in J THEN Append(ledger[i], mm[i]) ELSE ledger[i]

\* Its entries are those there were and the new ones.
LEMMA NewEntries ==
  ASSUME Typed, NEW c, NEW J, NEW mm, AppendsOnce(c, J, mm)
  PROVE  /\ \A e \in Entries : e \in Entries' /\ Entry(e)' = Entry(e)
         /\ \A e \in Entries' : e \notin Entries =>
              e[1] \in J /\ e = <<e[1], Len(ledger[e[1]]) + 1>> /\ Entry(e)' = mm[e[1]]
         /\ \A i \in J : \E k \in DOMAIN ledger'[i] : ledger'[i][k] = mm[i]
<1>1. ledger \in [Items -> Seq(Movement)]
  BY DEF Typed, TypeOK
<1>2. ASSUME NEW i \in J
      PROVE  /\ i \in Items /\ ledger'[i] = Append(ledger[i], mm[i])
             /\ DOMAIN ledger'[i] = DOMAIN ledger[i] \cup {Len(ledger[i]) + 1}
             /\ ledger'[i][Len(ledger[i]) + 1] = mm[i]
             /\ \A k \in DOMAIN ledger[i] : ledger'[i][k] = ledger[i][k]
  <2>1. i \in Items /\ ledger'[i] = Append(ledger[i], mm[i]) /\ mm[i] \in Movement
    BY <1>2 DEF AppendsOnce
  <2>2. ledger[i] \in Seq(Movement)
    BY <1>1, <2>1
  <2>3. DOMAIN Append(ledger[i], mm[i]) = DOMAIN ledger[i] \cup {Len(ledger[i]) + 1}
    BY <2>2
  <2>4. /\ Append(ledger[i], mm[i])[Len(ledger[i]) + 1] = mm[i]
        /\ \A k \in DOMAIN ledger[i] : Append(ledger[i], mm[i])[k] = ledger[i][k]
    BY <2>1, <2>2, AppendKeeps
  <2> QED
    BY <2>1, <2>3, <2>4
<1>3. ASSUME NEW e \in Entries PROVE e \in Entries' /\ Entry(e)' = Entry(e)
  <2>1. PICK i \in Items : \E k \in DOMAIN ledger[i] : e = <<i, k>>
    BY <1>3, EntryForm
  <2>2. PICK k \in DOMAIN ledger[i] : e = <<i, k>>
    BY <2>1
  <2>3. k \in DOMAIN ledger'[i] /\ ledger'[i][k] = ledger[i][k]
    BY <1>2, <2>1, <2>2 DEF AppendsOnce
  <2> QED
    BY <2>1, <2>2, <2>3 DEF Entries, Entry
<1>4. ASSUME NEW e \in Entries', e \notin Entries
      PROVE  e[1] \in J /\ e = <<e[1], Len(ledger[e[1]]) + 1>> /\ Entry(e)' = mm[e[1]]
  <2>1. PICK i \in Items : \E k \in DOMAIN ledger'[i] : e = <<i, k>>
    BY <1>4 DEF Entries
  <2>2. PICK k \in DOMAIN ledger'[i] : e = <<i, k>>
    BY <2>1
  <2>3. k \notin DOMAIN ledger[i]
    BY <1>4, <2>1, <2>2, EntryForm
  <2>4. i \in J
    BY <2>1, <2>2, <2>3 DEF AppendsOnce
  <2>5. k = Len(ledger[i]) + 1 /\ ledger'[i][k] = mm[i]
    BY <1>2, <2>2, <2>3, <2>4
  <2>6. e[1] = i /\ e[2] = k
    BY <2>2
  <2> QED
    BY <2>2, <2>4, <2>5, <2>6 DEF Entry
<1> QED
  BY <1>2, <1>3, <1>4

\* If the ledger holds nothing of the command yet, it holds it once afterwards.
LEMMA RecordedOnce ==
  ASSUME AccountInv, NEW c \in Commands, NEW J, NEW mm, AppendsOnce(c, J, mm),
         \A e \in Entries : Entry(e).by # c,
         c.op \in StockOps =>
           /\ \A e \in Entries : Entry(e).by.op \in StockOps => Entry(e).by.id # c.id
           /\ \A i, j \in J : i = j
           /\ Committed' = Committed,
         c.op \in {"checkout", "refund"} =>
           /\ Committed' = Committed \cup {c}
           /\ \A i \in J : mm[i].change = Lines(c, i)
           /\ \A i \in Items : Lines(c, i) # 0 => i \in J
  PROVE  ((\A e \in Entries : Recording(e)) /\ AllApart /\ AllMoved)'
<1>0. Typed
  BY DEF AccountInv, BookInv
<1>1. /\ \A e \in Entries : e \in Entries' /\ Entry(e)' = Entry(e)
      /\ \A e \in Entries' : e \notin Entries =>
           e[1] \in J /\ e = <<e[1], Len(ledger[e[1]]) + 1>> /\ Entry(e)' = mm[e[1]]
      /\ \A i \in J : \E k \in DOMAIN ledger'[i] : ledger'[i][k] = mm[i]
  BY <1>0, NewEntries
<1>2. \A i \in J : mm[i].by = c /\ i \in Items
  BY DEF AppendsOnce
<1>3. /\ c.op \in {"checkout", "refund"} \/ c.op \in StockOps
      /\ c.op # "opening"
      /\ c.op \in {"checkout", "refund"} => c.op \notin StockOps
  BY Kinds DEF StockOps
<1>4. Committed \subseteq Committed'
  BY <1>3
<1>5. ASSUME NEW e \in Entries' PROVE Recording(e)'
  <2>1. CASE e \in Entries
    BY <1>1, <1>4, <2>1 DEF AccountInv, Recording, Lines
  <2>2. CASE e \notin Entries
    <3>1. e[1] \in J /\ Entry(e)' = mm[e[1]] /\ mm[e[1]].by = c
      BY <1>1, <1>2, <2>2
    <3> QED
      BY <3>1 DEF Recording, Lines
  <2> QED
    BY <2>1, <2>2
<1>6. ASSUME NEW e \in Entries', NEW f \in Entries', e # f
      PROVE  Apart(Entry(e)', e[1], Entry(f)', f[1])
  <2>1. CASE e \in Entries /\ f \in Entries
    BY <1>1, <1>6, <2>1 DEF AccountInv, AllApart
  <2>2. CASE e \in Entries /\ f \notin Entries
    <3>1. Entry(e)' = Entry(e) /\ Entry(f)'.by = c
      BY <1>1, <1>2, <2>2
    <3> QED
      BY <1>3, <2>2, <3>1 DEF Apart
  <2>3. CASE e \notin Entries /\ f \in Entries
    <3>1. Entry(f)' = Entry(f) /\ Entry(e)'.by = c
      BY <1>1, <1>2, <2>3
    <3> QED
      BY <1>3, <2>3, <3>1 DEF Apart
  <2>4. CASE e \notin Entries /\ f \notin Entries
    <3>1. Entry(e)'.by = c /\ Entry(f)'.by = c /\ e[1] \in J /\ f[1] \in J
      BY <1>1, <1>2, <2>4
    <3>2. e[1] # f[1]
      BY <1>1, <1>6, <2>4
    <3> QED
      BY <1>3, <3>1, <3>2 DEF Apart
  <2> QED
    BY <2>1, <2>2, <2>3, <2>4
<1>7. ASSUME NEW d \in Committed', NEW i \in Items, Lines(d, i) # 0
      PROVE  \E k \in DOMAIN ledger'[i] : ledger'[i][k].by = d
  <2>1. CASE d \in Committed
    <3>1. PICK k \in DOMAIN ledger[i] : ledger[i][k].by = d
      BY <1>7, <2>1 DEF AccountInv, AllMoved
    <3>2. <<i, k>> \in Entries /\ Entry(<<i, k>>) = ledger[i][k]
      BY <3>1 DEF Entries, Entry
    <3>3. <<i, k>> \in Entries' /\ Entry(<<i, k>>)' = ledger[i][k]
      BY <1>1, <3>2
    <3>4. k \in DOMAIN ledger'[i] /\ ledger'[i][k] = ledger[i][k]
      BY <3>3 DEF Entries, Entry
    <3> QED
      BY <3>1, <3>4
  <2>2. CASE d \notin Committed
    <3>1. d = c /\ i \in J
      BY <1>3, <1>7, <2>2
    <3> QED
      BY <1>1, <1>2, <3>1
  <2> QED
    BY <2>1, <2>2
<1>8. (\A e \in Entries : Recording(e))'
  BY <1>5
<1>9. AllApart'
  BY <1>6 DEF AllApart
<1>10. AllMoved'
  BY <1>7 DEF AllMoved, Lines
<1> QED
  BY <1>8, <1>9, <1>10

\* No sale or refund of this request id means no movement of this command.
LEMMA NotYetRecorded ==
  ASSUME AccountInv, NEW c \in Commands,
         c.op = "checkout" => sales[c.id] = None,
         c.op = "refund" => refunds[c.id] = None,
         c.op \in StockOps => Originals(c) = {}
  PROVE  /\ c \notin Committed
         /\ \A e \in Entries : Entry(e).by # c
         /\ c.op \in StockOps =>
              \A e \in Entries : Entry(e).by.op \in StockOps => Entry(e).by.id # c.id
<1>1. c \notin Committed
  <2>1. SUFFICES ASSUME c \in Committed PROVE FALSE
    OBVIOUS
  <2>2. (\E s \in SaleIds : sales[s] = c) \/ (\E f \in RefundIds : refunds[f] = c)
    BY <2>1 DEF Committed
  <2>3. c # None
    BY <2>1 DEF Committed
  <2>4. CASE \E s \in SaleIds : sales[s] = c
    BY <2>3, <2>4 DEF AccountInv, Keyed
  <2>5. CASE \E f \in RefundIds : refunds[f] = c
    BY <2>3, <2>5 DEF AccountInv, Keyed
  <2> QED
    BY <2>2, <2>4, <2>5
<1>2. ASSUME c.op \in StockOps, NEW e \in Entries, Entry(e).by.op \in StockOps
      PROVE  Entry(e).by.id # c.id
  <2>1. PICK i \in Items : \E k \in DOMAIN ledger[i] : e = <<i, k>>
    BY <1>2, EntryForm
  <2>2. Entry(e) \in StockMovements
    BY <2>1 DEF Entry, StockMovements
  <2>3. Originals(c) = {m \in StockMovements : m.by.op \in StockOps /\ m.by.id = c.id}
    BY <1>2 DEF Originals, StockOps
  <2> QED
    BY <1>2, <2>2, <2>3
<1>3. ASSUME NEW e \in Entries PROVE Entry(e).by # c
  <2>1. CASE c.op \in {"checkout", "refund"}
    BY <1>1, <1>3, <2>1 DEF AccountInv, Recording
  <2>2. CASE c.op \in StockOps
    BY <1>2, <1>3, <2>2
  <2> QED
    BY <2>1, <2>2, Kinds
<1> QED
  BY <1>1, <1>2, <1>3

\* A checkout that commits is recorded once.
LEMMA CheckoutAccount ==
  ASSUME AccountInv, BookInv', NEW w \in Workers, CheckoutCommit(w)
  PROVE  AccountInv'
<1> DEFINE J == {i \in Items : cmd[w].cart[i] # 0}
           mm == [i \in Items |-> [by |-> cmd[w], change |-> -cmd[w].cart[i],
                                   after |-> rows'[i].quantity]]
<1>1. PICK c \in Commands : c = cmd[w] /\ c.op = "checkout"
  BY DEF CheckoutCommit, IsOpen, AccountInv, BookInv, Typed, Served
<1>2. /\ c.id \in SaleIds /\ c # None /\ c.cart \in [Items -> Quantity]
      /\ sales[c.id] = None /\ sales \in [SaleIds -> Checkouts \cup {None}]
  BY <1>1, CheckoutFacts, IdUnused, SnapshotTyped
     DEF CheckoutCommit, IsOpen, Serializable, AccountInv, BookInv, Typed, TypeOK, TablesTyped
<1>3. sales' = [sales EXCEPT ![c.id] = c] /\ UNCHANGED refunds
  BY <1>1 DEF CheckoutCommit
<1>4. Keyed'
  BY <1>1, <1>2, <1>3 DEF AccountInv, Keyed
<1>5. Committed' = Committed \cup {c}
  BY <1>2, <1>3 DEF Committed
<1>6. AppendsOnce(c, J, mm)
  <2>1. ASSUME NEW i \in Items PROVE mm[i] \in Movement /\ mm[i].by = c
    <3>1. rows'[i].quantity \in Quantity
      BY SnapshotTyped DEF CheckoutCommit, BookInv, Typed, TypeOK, Snapshot, Tables
    <3>2. -c.cart[i] \in Int
      BY <1>2, LimitAssumption DEF Quantity
    <3> QED
      BY <1>1, <3>1, <3>2 DEF Movement
  <2>2. ASSUME NEW i \in Items
        PROVE  ledger'[i] = IF i \in J THEN Append(ledger[i], mm[i]) ELSE ledger[i]
    BY DEF CheckoutCommit
  <2> QED
    BY <2>1, <2>2 DEF AppendsOnce
<1>7. \A i \in J : mm[i].change = Lines(c, i)
  BY <1>1 DEF Lines
<1>8. \A i \in Items : Lines(c, i) # 0 => i \in J
  BY <1>1, <1>2, LimitAssumption DEF Lines, Quantity
<1>9. \A e \in Entries : Entry(e).by # c
  BY <1>1, <1>2, NotYetRecorded DEF StockOps
<1> HIDE DEF J, mm
<1>10. ((\A e \in Entries : Recording(e)) /\ AllApart /\ AllMoved)'
  BY <1>1, <1>5, <1>6, <1>7, <1>8, <1>9, RecordedOnce DEF StockOps
<1> QED
  BY <1>4, <1>10 DEF AccountInv

\* The same for a refund,
LEMMA RefundAccount ==
  ASSUME AccountInv, BookInv', NEW w \in Workers, RefundCommit(w)
  PROVE  AccountInv'
<1> DEFINE J == {i \in Items : cmd[w].restock[i] # 0}
           mm == [i \in Items |-> [by |-> cmd[w], change |-> cmd[w].restock[i],
                                   after |-> rows'[i].quantity]]
<1>1. PICK c \in Commands : c = cmd[w] /\ c.op = "refund"
  BY DEF RefundCommit, IsOpen, AccountInv, BookInv, Typed, Served
<1>2. /\ c.id \in RefundIds /\ c # None /\ c.restock \in [Items -> Quantity]
      /\ refunds[c.id] = None /\ refunds \in [RefundIds -> Refunds \cup {None}]
  BY <1>1, RefundFacts, IdUnused, SnapshotTyped
     DEF RefundCommit, IsOpen, Serializable, AccountInv, BookInv, Typed, TypeOK, TablesTyped
<1>3. refunds' = [refunds EXCEPT ![c.id] = c] /\ UNCHANGED sales
  BY <1>1 DEF RefundCommit
<1>4. Keyed'
  BY <1>1, <1>2, <1>3 DEF AccountInv, Keyed
<1>5. Committed' = Committed \cup {c}
  BY <1>2, <1>3 DEF Committed
<1>6. AppendsOnce(c, J, mm)
  <2>1. ASSUME NEW i \in Items PROVE mm[i] \in Movement /\ mm[i].by = c
    <3>1. rows'[i].quantity \in Quantity
      BY SnapshotTyped DEF RefundCommit, BookInv, Typed, TypeOK, Snapshot, Tables
    <3>2. c.restock[i] \in Int
      BY <1>2, LimitAssumption DEF Quantity
    <3> QED
      BY <1>1, <3>1, <3>2 DEF Movement
  <2>2. ASSUME NEW i \in Items
        PROVE  ledger'[i] = IF i \in J THEN Append(ledger[i], mm[i]) ELSE ledger[i]
    BY DEF RefundCommit
  <2> QED
    BY <2>1, <2>2 DEF AppendsOnce
<1>7. \A i \in J : mm[i].change = Lines(c, i)
  BY <1>1 DEF Lines
<1>8. \A i \in Items : Lines(c, i) # 0 => i \in J
  BY <1>1 DEF Lines
<1>9. \A e \in Entries : Entry(e).by # c
  BY <1>1, <1>2, NotYetRecorded DEF StockOps
<1> HIDE DEF J, mm
<1>10. ((\A e \in Entries : Recording(e)) /\ AllApart /\ AllMoved)'
  BY <1>1, <1>5, <1>6, <1>7, <1>8, <1>9, RecordedOnce DEF StockOps
<1> QED
  BY <1>4, <1>10 DEF AccountInv

\* and for a stock command.
LEMMA StockAccount ==
  ASSUME AccountInv, BookInv', NEW w \in Workers, StockCommit(w)
  PROVE  AccountInv'
<1> DEFINE m == [by |-> cmd[w], change |-> Delta(w), after |-> Balance(w)]
           mm == [i \in Items |-> m]
<1>1. PICK c \in Commands : c = cmd[w] /\ c.op \in StockOps /\ c.item \in Items
  BY StockFitsFacts DEF StockCommit, AccountInv, BookInv
<1>2. m \in Movement
  BY StockFitsFacts DEF StockCommit, Movement, AccountInv, BookInv
<1>3. UNCHANGED <<sales, refunds>>
  BY DEF StockCommit
<1>4. Keyed' /\ Committed' = Committed
  BY <1>3 DEF AccountInv, Keyed, Committed
<1>5. AppendsOnce(c, {c.item}, mm)
  <2>1. ledger' = [ledger EXCEPT ![c.item] = Append(@, m)]
    BY <1>1 DEF StockCommit
  <2>2. ledger \in [Items -> Seq(Movement)]
    BY DEF AccountInv, BookInv, Typed, TypeOK
  <2>3. m.by = c
    BY <1>1
  <2> HIDE DEF m
  <2> QED
    BY <1>1, <1>2, <2>1, <2>2, <2>3 DEF AppendsOnce
<1>6. Originals(c) = {}
  BY <1>1 DEF StockCommit, RequestIdUnused
<1>7. /\ \A e \in Entries : Entry(e).by # c
      /\ \A e \in Entries : Entry(e).by.op \in StockOps => Entry(e).by.id # c.id
  BY <1>1, <1>6, NotYetRecorded DEF StockOps
<1> HIDE DEF mm
<1>8. ((\A e \in Entries : Recording(e)) /\ AllApart /\ AllMoved)'
  BY <1>1, <1>4, <1>5, <1>7, RecordedOnce DEF StockOps
<1> QED
  BY <1>4, <1>8 DEF AccountInv

\* At first there is nothing but the opening movements.
LEMMA InitAccount == Init => AccountInv
<1> SUFFICES ASSUME Init PROVE AccountInv
  OBVIOUS
<1>1. Keyed /\ Committed = {}
  BY DEF Init, Keyed, Committed
<1>2. ASSUME NEW e \in Entries PROVE e = <<e[1], 1>> /\ Entry(e).by = Opening
  <2>1. PICK i \in Items : \E k \in DOMAIN ledger[i] : e = <<i, k>>
    BY <1>2, EntryForm
  <2>2. PICK k \in DOMAIN ledger[i] : e = <<i, k>>
    BY <2>1
  <2>3. ledger[i] = <<>> \/ ledger[i] = <<[by |-> Opening, change |-> rows[i].quantity,
                                          after |-> rows[i].quantity]>>
    BY DEF Init
  <2>4. k = 1 /\ ledger[i][k].by = Opening
    BY <2>2, <2>3
  <2> QED
    BY <2>2, <2>4 DEF Entry
<1>3. \A e \in Entries : Recording(e)
  BY <1>2 DEF Recording, Opening
<1>4. ASSUME NEW e \in Entries, NEW f \in Entries, e # f
      PROVE  Apart(Entry(e), e[1], Entry(f), f[1])
  <2>1. e[1] # f[1]
    BY <1>2, <1>4
  <2>2. Entry(e).by.op = "opening" /\ Entry(f).by.op = "opening"
    BY <1>2 DEF Opening
  <2> QED
    BY <2>1, <2>2 DEF Apart, StockOps
<1>5. AllMoved
  BY <1>1 DEF AllMoved
<1> QED
  BY <1>1, <1>3, <1>4, <1>5, InitBook DEF AccountInv, AllApart

\* Every step keeps the account.
LEMMA StepAccount ==
  ASSUME AccountInv, [Next]_vars
  PROVE  AccountInv'
<1>1. BookInv'
  BY StepBook DEF AccountInv
<1>2. ASSUME UNCHANGED <<ledger, sales, refunds>> PROVE AccountInv'
  BY <1>1, <1>2 DEF AccountInv, Keyed, Entries, Entry, Recording, Committed, AllApart, AllMoved
<1>3. ASSUME NEW w \in Workers, Drop(w) \/ Serve(w) PROVE AccountInv'
  <2>1. CASE Ending(w)
    BY <1>2, <2>1 DEF Ending, AnswerOnly, Recover, tables
  <2> QED
    BY <1>1, <1>3, <2>1, StepKinds, CheckoutAccount, RefundAccount, StockAccount
<1>4. ASSUME NEW w \in Workers, NEW c \in Commands, Begin(w, c) PROVE AccountInv'
  BY <1>2, <1>4 DEF Begin, tables
<1>5. CASE Administer \/ UNCHANGED vars
  BY <1>2, <1>5 DEF Administer, SetGate, SetStatus, UpdatePrice, vars
<1> QED
  BY <1>3, <1>4, <1>5 DEF Next

\* Every committed command is in the ledger exactly once, with each of its lines,
\* however often it was sent, and nothing else is.
THEOREM LedgerAccounts == Spec => []AccountedOnce
<1>1. AccountInv /\ [Next]_vars => AccountInv'
  BY StepAccount
<1>2. AccountInv => AccountedOnce
  BY AccountParts DEF AccountInv
<1> QED
  BY InitAccount, <1>1, <1>2, PTL DEF Spec

-----------------------------------------------------------------------------
(* Nothing is returned twice.  The sum over the refunds of a sale is a     *)
(* recursive function on the subsets of a set, and what it is for one more *)
(* refund is shown by induction over the finite subsets: theorem WFMin,    *)
(* which speaks of sets, in the place of the induction theorems, which     *)
(* speak of operators.                                                     *)

\* A family of subsets of a finite set that has the empty one, and each one
\* that it has without any one of its elements, has all of them.
LEMMA AllSubsets ==
  ASSUME NEW S, IsFiniteSet(S), NEW G, {} \in G,
         \A T \in SUBSET S : T # {} /\ (\A x \in T : T \ {x} \in G) => T \in G
  PROVE  \A T \in SUBSET S : T \in G
<1> DEFINE R == StrictSubsetOrdering(S)
           Bad == {T \in SUBSET S : T \notin G}
<1>1. IsWellFoundedOn(R, SUBSET S)
  BY FS_StrictSubsetOrderingWellFounded, FS_FiniteSubsetsOfFinite
<1>2. SUFFICES ASSUME Bad # {} PROVE FALSE
  OBVIOUS
<1>3. PICK T \in Bad : \A U \in Bad : ~(<<U, T>> \in R)
  <2>1. Bad \subseteq SUBSET S
    OBVIOUS
  <2> HIDE DEF Bad, R
  <2> QED
    BY <1>1, <1>2, <2>1, WFMin
<1>4. ASSUME NEW x \in T PROVE T \ {x} \in G
  <2>1. T \ {x} \subseteq T /\ T \ {x} # T /\ T \in SUBSET S /\ T \ {x} \in SUBSET S
    BY <1>4
  <2>2. <<T \ {x}, T>> \in R
    BY <2>1 DEF StrictSubsetOrdering
  <2> QED
    BY <1>3, <2>1, <2>2
<1> QED
  BY <1>3, <1>4

\* The sum that Returned takes, one unit count after the other, as a function
\* of the subsets.
First(s) == CHOOSE x \in s : TRUE
Sums(g, S, i) ==
  g = [s \in SUBSET S |->
         IF s = {} THEN 0 ELSE First(s).lines[i] + g[s \ {First(s)}]]

LEMMA ReturnedIsSum ==
  ASSUME NEW returns, NEW i
  PROVE  Returned(returns, i) = (CHOOSE g : Sums(g, returns, i))[returns]
BY DEF Returned, MapThenSumSet, MapThenFoldSet, Sums, First

\* What such a function is for a subset.
LEMMA SumsOf ==
  ASSUME NEW S, NEW i, NEW g, Sums(g, S, i)
  PROVE  /\ g[{}] = 0
         /\ \A s \in SUBSET S : s # {} =>
              /\ First(s) \in s /\ s \ {First(s)} \in SUBSET S
              /\ g[s] = First(s).lines[i] + g[s \ {First(s)}]
<1>1. {} \in SUBSET S
  OBVIOUS
<1>2. \A s \in SUBSET S :
        g[s] = IF s = {} THEN 0 ELSE First(s).lines[i] + g[s \ {First(s)}]
  BY DEF Sums
<1>3. ASSUME NEW s \in SUBSET S, s # {} PROVE First(s) \in s
  BY <1>3 DEF First
<1> QED
  BY <1>1, <1>2, <1>3

\* It is a number.
LEMMA SumsTyped ==
  ASSUME NEW S, IsFiniteSet(S), NEW i, NEW g, Sums(g, S, i), \A x \in S : x.lines[i] \in Nat
  PROVE  \A s \in SUBSET S : g[s] \in Nat
<1> DEFINE G == {s \in SUBSET S : g[s] \in Nat}
<1>0. \A s \in SUBSET S : s # {} =>
        First(s) \in s /\ g[s] = First(s).lines[i] + g[s \ {First(s)}]
  BY SumsOf
<1>1. {} \in G
  BY SumsOf
<1>2. ASSUME NEW s \in SUBSET S, s # {}, \A x \in s : s \ {x} \in G PROVE s \in G
  <2>1. First(s) \in s /\ g[s] = First(s).lines[i] + g[s \ {First(s)}]
    BY <1>0, <1>2
  <2>2. g[s \ {First(s)}] \in Nat /\ First(s).lines[i] \in Nat
    BY <1>2, <2>1
  <2> QED
    BY <2>1, <2>2
<1> HIDE DEF G
<1>3. \A s \in SUBSET S : s \in G
  BY <1>1, <1>2, AllSubsets
<1> QED
  BY <1>3 DEF G

\* There is one for a subset: they agree on what both have.
LEMMA SumsAgree ==
  ASSUME NEW S, IsFiniteSet(S), NEW T, NEW i, NEW g, Sums(g, S, i), NEW h, Sums(h, T, i)
  PROVE  \A s \in SUBSET (S \cap T) : g[s] = h[s]
<1> DEFINE G == {s \in SUBSET S : s \subseteq T => g[s] = h[s]}
<1>1. {} \in G
  BY SumsOf
<1>2. ASSUME NEW s \in SUBSET S, s # {}, \A x \in s : s \ {x} \in G PROVE s \in G
  <2>1. SUFFICES ASSUME s \subseteq T PROVE g[s] = h[s]
    OBVIOUS
  <2>2. /\ First(s) \in s /\ g[s] = First(s).lines[i] + g[s \ {First(s)}]
        /\ h[s] = First(s).lines[i] + h[s \ {First(s)}]
    BY <1>2, <2>1, SumsOf
  <2>3. g[s \ {First(s)}] = h[s \ {First(s)}]
    BY <1>2, <2>1, <2>2
  <2> QED
    BY <2>2, <2>3
<1> HIDE DEF G
<1>3. \A s \in SUBSET S : s \in G
  BY <1>1, <1>2, AllSubsets
<1> QED
  BY <1>3 DEF G

\* There is one for every finite set.
LEMMA SumsExist ==
  ASSUME NEW S, IsFiniteSet(S), NEW i
  PROVE  \E g : Sums(g, S, i)
<1> DEFINE G == {T \in SUBSET S : \E g : Sums(g, T, i)}
<1>1. {} \in G
  <2>1. SUBSET {} = {{}}
    OBVIOUS
  <2>2. Sums([s \in SUBSET {} |-> 0], {}, i)
    BY <2>1 DEF Sums
  <2> QED
    BY <2>2
<1>2. ASSUME NEW T \in SUBSET S, T # {}, \A x \in T : T \ {x} \in G PROVE T \in G
  <2> DEFINE f(x) == CHOOSE g : Sums(g, T \ {x}, i)
             a(s) == CHOOSE x \in T : x \notin s
             h == [s \in SUBSET T |-> IF s = T THEN First(T).lines[i] + f(First(T))[T \ {First(T)}]
                                      ELSE f(a(s))[s]]
  <2>1. ASSUME NEW x \in T PROVE Sums(f(x), T \ {x}, i) /\ IsFiniteSet(T \ {x})
    <3>1. \E g : Sums(g, T \ {x}, i)
      BY <1>2
    <3>2. IsFiniteSet(T)
      BY FS_Subset
    <3> QED
      BY <3>1, <3>2, FS_RemoveElement
  <2> HIDE DEF f
  <2>6. ASSUME NEW x \in T, NEW y \in T, NEW s, s \in SUBSET (T \ {x}), s \in SUBSET (T \ {y})
        PROVE  f(x)[s] = f(y)[s]
    <3>1. PICK g : g = f(x) /\ Sums(g, T \ {x}, i) /\ IsFiniteSet(T \ {x})
      BY <2>1
    <3>2. PICK k : k = f(y) /\ Sums(k, T \ {y}, i)
      BY <2>1
    <3>3. \A u \in SUBSET ((T \ {x}) \cap (T \ {y})) : g[u] = k[u]
      BY <3>1, <3>2, SumsAgree
    <3> QED
      BY <2>6, <3>1, <3>2, <3>3
  <2>7. ASSUME NEW x \in T
        PROVE  /\ f(x)[{}] = 0
               /\ \A s \in SUBSET (T \ {x}) : s # {} =>
                    f(x)[s] = First(s).lines[i] + f(x)[s \ {First(s)}]
    <3>1. PICK g, U : g = f(x) /\ U = T \ {x} /\ Sums(g, U, i)
      BY <2>1
    <3>2. /\ g[{}] = 0
          /\ \A s \in SUBSET U : s # {} => g[s] = First(s).lines[i] + g[s \ {First(s)}]
      BY <3>1, SumsOf
    <3> QED
      BY <3>1, <3>2
  <2>2. ASSUME NEW x \in T, NEW s \in SUBSET (T \ {x}) PROVE h[s] = f(x)[s]
    <3>1. s \in SUBSET T /\ s # T /\ h[s] = f(a(s))[s]
      OBVIOUS
    <3>2. a(s) \in T /\ s \in SUBSET (T \ {a(s)})
      <4>1. \E y \in T : y \notin s
        OBVIOUS
      <4> QED
        BY <4>1, <3>1
    <3> HIDE DEF a, h
    <3> QED
      BY <2>6, <3>1, <3>2
  <2>3. First(T) \in T
    BY <1>2 DEF First
  <2>4. ASSUME NEW s \in SUBSET T
        PROVE  h[s] = IF s = {} THEN 0 ELSE First(s).lines[i] + h[s \ {First(s)}]
    <3>1. CASE s = T
      <4>1. h[T] = First(T).lines[i] + f(First(T))[T \ {First(T)}]
        OBVIOUS
      <4>2. h[T \ {First(T)}] = f(First(T))[T \ {First(T)}]
        BY <2>2, <2>3
      <4> HIDE DEF h
      <4> QED
        BY <1>2, <3>1, <4>1, <4>2
    <3>2. CASE s # T
      <4> HIDE DEF h
      <4>1. PICK x \in T : x \notin s
        BY <3>2
      <4>2. s \in SUBSET (T \ {x}) /\ h[s] = f(x)[s]
        BY <2>2, <4>1
      <4>3. CASE s = {}
        BY <2>7, <4>2, <4>3
      <4>4. CASE s # {}
        <5>1. /\ s \ {First(s)} \in SUBSET (T \ {x})
              /\ f(x)[s] = First(s).lines[i] + f(x)[s \ {First(s)}]
          BY <2>7, <4>2, <4>4
        <5>2. h[s \ {First(s)}] = f(x)[s \ {First(s)}]
          BY <2>2, <5>1
        <5> QED
          BY <4>2, <4>4, <5>1, <5>2
      <4> QED
        BY <4>3, <4>4
    <3> QED
      BY <3>1, <3>2
  <2>5. Sums(h, T, i)
    <3>1. h = [s \in SUBSET T |-> h[s]]
      OBVIOUS
    <3> HIDE DEF h
    <3> QED
      BY <2>4, <3>1 DEF Sums
  <2> HIDE DEF h
  <2> QED
    BY <2>5
<1> HIDE DEF G
<1>3. S \in G
  BY <1>1, <1>2, AllSubsets
<1> QED
  BY <1>3 DEF G

\* It does not matter which element is counted first.
LEMMA SumsAnyOrder ==
  ASSUME NEW S, IsFiniteSet(S), NEW i, NEW g, Sums(g, S, i), \A x \in S : x.lines[i] \in Nat
  PROVE  \A s \in SUBSET S : \A x \in s : g[s] = x.lines[i] + g[s \ {x}]
<1> DEFINE G == {s \in SUBSET S : \A x \in s : g[s] = x.lines[i] + g[s \ {x}]}
<1>0. \A s \in SUBSET S : g[s] \in Nat
  BY SumsTyped
<1>4. \A s \in SUBSET S : s # {} =>
        First(s) \in s /\ g[s] = First(s).lines[i] + g[s \ {First(s)}]
  BY SumsOf
<1>1. {} \in G
  OBVIOUS
<1>2. ASSUME NEW s \in SUBSET S, s # {}, \A x \in s : s \ {x} \in G PROVE s \in G
  <2>1. SUFFICES ASSUME NEW x \in s PROVE g[s] = x.lines[i] + g[s \ {x}]
    OBVIOUS
  <2> DEFINE y == First(s)
  <2>2. y \in s /\ g[s] = y.lines[i] + g[s \ {y}]
    BY <1>2, <1>4
  <2> HIDE DEF y
  <2>3. CASE x = y
    BY <2>2, <2>3
  <2>4. CASE x # y
    <3>1. g[s \ {y}] = x.lines[i] + g[(s \ {y}) \ {x}]
      BY <1>2, <2>2, <2>4
    <3>2. g[s \ {x}] = y.lines[i] + g[(s \ {x}) \ {y}]
      BY <1>2, <2>2, <2>4
    <3>3. (s \ {x}) \ {y} = (s \ {y}) \ {x}
      OBVIOUS
    <3>4. /\ x.lines[i] \in Nat /\ y.lines[i] \in Nat
          /\ g[s \ {x}] \in Nat /\ g[s \ {y}] \in Nat /\ g[(s \ {y}) \ {x}] \in Nat
      BY <1>0, <2>2
    <3>5. /\ g[s] = y.lines[i] + (x.lines[i] + g[(s \ {y}) \ {x}])
          /\ g[s \ {x}] = y.lines[i] + g[(s \ {y}) \ {x}]
      BY <2>2, <3>1, <3>2, <3>3
    <3> QED
      BY <3>4, <3>5
  <2> QED
    BY <2>3, <2>4
<1> HIDE DEF G
<1>3. \A s \in SUBSET S : s \in G
  BY <1>1, <1>2, AllSubsets
<1> QED
  BY <1>3 DEF G

\* Nothing is returned without a refund, and another refund adds its units.
LEMMA ReturnedAdds ==
  ASSUME NEW S, IsFiniteSet(S), NEW i, \A c \in S : c.lines[i] \in Nat
  PROVE  /\ Returned({}, i) = 0
         /\ Returned(S, i) \in Nat
         /\ \A c \in S : Returned(S, i) = Returned(S \ {c}, i) + c.lines[i]
<1> DEFINE f(T) == CHOOSE g : Sums(g, T, i)
<1>1. \A T : Returned(T, i) = f(T)[T]
  BY ReturnedIsSum
<1>2. ASSUME NEW T, IsFiniteSet(T) PROVE Sums(f(T), T, i)
  BY <1>2, SumsExist
<1> HIDE DEF f
<1>3. Returned({}, i) = 0
  BY <1>1, <1>2, SumsOf, FS_EmptySet
<1>4. Sums(f(S), S, i) /\ \A s \in SUBSET S : f(S)[s] \in Nat
  BY <1>2, SumsTyped
<1>5. ASSUME NEW c \in S PROVE Returned(S, i) = Returned(S \ {c}, i) + c.lines[i]
  <2>1. f(S)[S] = c.lines[i] + f(S)[S \ {c}]
    BY <1>4, SumsAnyOrder
  <2>2. Sums(f(S \ {c}), S \ {c}, i)
    BY <1>2, FS_RemoveElement
  <2>3. S \ {c} \in SUBSET (S \cap (S \ {c}))
    OBVIOUS
  <2>4. f(S)[S \ {c}] = f(S \ {c})[S \ {c}]
    <3>1. PICK g : g = f(S) /\ Sums(g, S, i)
      BY <1>4
    <3>2. PICK h : h = f(S \ {c}) /\ Sums(h, S \ {c}, i)
      BY <2>2
    <3>3. \A s \in SUBSET (S \cap (S \ {c})) : g[s] = h[s]
      BY <3>1, <3>2, SumsAgree
    <3> QED
      BY <2>3, <3>1, <3>2, <3>3
  <2>5. f(S)[S \ {c}] \in Nat /\ c.lines[i] \in Nat
    BY <1>4
  <2> QED
    BY <1>1, <2>1, <2>4, <2>5
<1> QED
  BY <1>1, <1>3, <1>4, <1>5

\* The inductive invariant: a sale that has refunds is recorded, and they are
\* finitely many.
ReturnInv ==
  /\ BookInv
  /\ NoOverReturn
  /\ \A f \in RefundIds : refunds[f] # None => sales[refunds[f].sale] # None
  /\ \A s \in SaleIds : IsFiniteSet(RefundsOf(refunds, s))

\* The refunds of a sale after one more is recorded.
LEMMA RefundsAfter ==
  ASSUME TablesTyped, NEW c \in Refunds, refunds[c.id] = None,
         refunds' = [refunds EXCEPT ![c.id] = c], NEW s
  PROVE  RefundsOf(refunds', s) =
           IF c.sale = s THEN RefundsOf(refunds, s) \cup {c} ELSE RefundsOf(refunds, s)
<1>1. c.id \in RefundIds /\ c # None
  BY CommandsAssumption, NoneAssumption DEF Refund
<1>2. \A f \in RefundIds : refunds'[f] = IF f = c.id THEN c ELSE refunds[f]
  BY DEF TablesTyped
<1> QED
  BY <1>1, <1>2 DEF RefundsOf

\* A refund returns at most what the earlier ones left.
LEMMA ReturnStaysWithin ==
  ASSUME ReturnInv, Typed', NEW c \in Refunds, Book!Return(c),
         NEW s \in SaleIds, sales[s] # None
  PROVE  /\ IsFiniteSet(RefundsOf(refunds', s))
         /\ \A i \in Items : Returned(RefundsOf(refunds', s), i) <= sales[s].cart[i]
<1>1. TablesTyped /\ refunds[c.id] = None /\ refunds' = [refunds EXCEPT ![c.id] = c]
  BY SnapshotTyped DEF ReturnInv, BookInv, Typed, TypeOK, Book!Return
<1> DEFINE R == RefundsOf(refunds, s)
<1>2. /\ IsFiniteSet(R) /\ \A i \in Items : Returned(R, i) <= sales[s].cart[i]
  BY DEF ReturnInv, NoOverReturn
<1>3. RefundsOf(refunds', s) = IF c.sale = s THEN R \cup {c} ELSE R
  BY <1>1, RefundsAfter
<1>4. \A d \in R \cup {c} : \A i \in Items : d.lines[i] \in Nat
  <2>1. R \cup {c} \subseteq Refunds
    BY DEF RefundsOf
  <2>2. \A d \in Refunds : d.lines \in [Items -> Quantity]
    BY CommandsAssumption DEF Refund
  <2> HIDE DEF R
  <2> QED
    BY <2>1, <2>2, LimitAssumption DEF Quantity
<1>5. ASSUME c.sale = s, NEW i \in Items
      PROVE  Returned(R, i) + c.lines[i] <= sales[s].cart[i]
  BY <1>5, SameReturns DEF Book!Return
<1> HIDE DEF R
<1>6. IsFiniteSet(R \cup {c})
  BY <1>2, FS_AddElement
<1>7. ASSUME c.sale = s, c \notin R, NEW i \in Items
      PROVE  Returned(R \cup {c}, i) <= sales[s].cart[i]
  <2>1. PICK Q : Q = R \cup {c} /\ IsFiniteSet(Q) /\ \A d \in Q : d.lines[i] \in Nat
    BY <1>4, <1>6
  <2>2. Returned(Q, i) = Returned(Q \ {c}, i) + c.lines[i]
    BY <2>1, ReturnedAdds
  <2>3. Q \ {c} = R
    BY <1>7, <2>1
  <2> QED
    BY <1>5, <1>7, <2>1, <2>2, <2>3
<1>8. CASE c.sale = s /\ c \notin R
  BY <1>3, <1>6, <1>7, <1>8
<1>9. CASE c.sale # s \/ c \in R
  <2>1. RefundsOf(refunds', s) = R
    BY <1>3, <1>9
  <2> QED
    BY <1>2, <2>1
<1> QED
  BY <1>8, <1>9

\* Every step of the book keeps it.
LEMMA StepReturns ==
  ASSUME ReturnInv, [Next]_vars
  PROVE  ReturnInv'
<1>1. BookInv' /\ Typed' /\ [Book!Next]_Book!bookVars /\ TablesTyped
  BY StepBook, StepBooked, SnapshotTyped DEF ReturnInv, BookInv, Typed, TypeOK
<1>2. CASE UNCHANGED <<sales, refunds>>
  BY <1>1, <1>2 DEF ReturnInv, NoOverReturn
<1>3. ASSUME NEW c \in Checkouts, Book!Sell(c) PROVE ReturnInv'
  <2>1. /\ c.id \in SaleIds /\ c # None /\ c.cart \in [Items -> Quantity]
        /\ sales[c.id] = None /\ refunds' = refunds
        /\ \A s \in SaleIds : sales'[s] = IF s = c.id THEN c ELSE sales[s]
    BY <1>1, <1>3, CommandsAssumption, NoneAssumption DEF Checkout, Book!Sell, TablesTyped
  <2>2. RefundsOf(refunds, c.id) = {}
    BY <2>1 DEF ReturnInv, RefundsOf
  <2>3. ASSUME NEW s \in SaleIds, NEW i \in Items, sales'[s] # None
        PROVE  Returned(RefundsOf(refunds, s), i) <= sales'[s].cart[i]
    <3>1. CASE s = c.id
      <4>1. Returned({}, i) = 0
        BY ReturnedAdds, FS_EmptySet
      <4>2. c.cart[i] \in Nat
        BY <2>1, LimitAssumption DEF Quantity
      <4> QED
        BY <2>1, <2>2, <3>1, <4>1, <4>2
    <3>2. CASE s # c.id
      BY <2>1, <2>3, <3>2 DEF ReturnInv, NoOverReturn
    <3> QED
      BY <3>1, <3>2
  <2>4. NoOverReturn'
    BY <2>1, <2>3 DEF NoOverReturn
  <2>5. \A f \in RefundIds : refunds'[f] # None => sales'[refunds'[f].sale] # None
    <3>1. \A f \in RefundIds : refunds[f] # None => refunds[f].sale \in SaleIds
      BY <1>1, CommandsAssumption DEF TablesTyped, Refund
    <3> QED
      BY <2>1, <3>1 DEF ReturnInv
  <2>6. \A s \in SaleIds : IsFiniteSet(RefundsOf(refunds', s))
    BY <2>1 DEF ReturnInv
  <2> QED
    BY <1>1, <2>4, <2>5, <2>6 DEF ReturnInv
<1>4. ASSUME NEW c \in Refunds, Book!Return(c) PROVE ReturnInv'
  <2>1. /\ sales' = sales /\ sales[c.sale] # None /\ c.id \in RefundIds
        /\ \A f \in RefundIds : refunds'[f] = IF f = c.id THEN c ELSE refunds[f]
    BY <1>1, <1>4, CommandsAssumption DEF Refund, Book!Return, TablesTyped
  <2>2. NoOverReturn'
    BY <1>1, <1>4, <2>1, ReturnStaysWithin DEF NoOverReturn
  <2>3. \A f \in RefundIds : refunds'[f] # None => sales'[refunds'[f].sale] # None
    BY <2>1 DEF ReturnInv
  <2>4. ASSUME NEW s \in SaleIds PROVE IsFiniteSet(RefundsOf(refunds', s))
    <3>1. RefundsOf(refunds', s) =
            IF c.sale = s THEN RefundsOf(refunds, s) \cup {c} ELSE RefundsOf(refunds, s)
      BY <1>1, <1>4, RefundsAfter DEF Book!Return
    <3>2. IsFiniteSet(RefundsOf(refunds, s))
      BY DEF ReturnInv
    <3> QED
      BY <3>1, <3>2, FS_AddElement
  <2> QED
    BY <1>1, <2>2, <2>3, <2>4 DEF ReturnInv
<1> QED
  BY <1>1, <1>2, <1>3, <1>4 DEF Book!Next, Book!bookVars, Book!Record, Book!Reprice

\* At first nothing is sold or returned.
LEMMA InitReturns == Init => ReturnInv
<1> SUFFICES ASSUME Init PROVE ReturnInv
  OBVIOUS
<1>1. BookInv
  BY InitBook
<1>2. NoOverReturn /\ \A f \in RefundIds : refunds[f] # None => sales[refunds[f].sale] # None
  BY DEF Init, NoOverReturn
<1>3. \A s \in SaleIds : IsFiniteSet(RefundsOf(refunds, s))
  <2>1. \A s \in SaleIds : RefundsOf(refunds, s) = {}
    BY DEF Init, RefundsOf
  <2> QED
    BY <2>1, FS_EmptySet
<1> QED
  BY <1>1, <1>2, <1>3 DEF ReturnInv

\* The refunds of a sale never return more units of a placement than it sold,
\* however many are sent, repeated or run at once (complete of
\* refunds.service.ts, which counts the refunds its snapshot shows).
THEOREM NoUnitReturnedTwice == Spec => []NoOverReturn
<1>1. ReturnInv => NoOverReturn
  BY DEF ReturnInv
<1> QED
  BY <1>1, InitReturns, StepReturns, PTL DEF Spec

=============================================================================
