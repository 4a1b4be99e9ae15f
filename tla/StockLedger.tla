----------------------------- MODULE StockLedger -----------------------------
(***************************************************************************)
(* Checkouts, refunds and stock commands on the placements of one branch   *)
(* (sales/checkout.service.ts, refunds/refunds.service.ts,                 *)
(* inventory/inventory-stock.service.ts) over the transactions PostgreSQL  *)
(* runs them in.                                                           *)
(*                                                                         *)
(* Every one of these transactions first reads (its caller, the original   *)
(* of its request id), then locks the Organization row, which every other  *)
(* writer locks too, and keeps it until it commits.  So a transaction is   *)
(* two steps here: what it reads before the lock, and all that follows.    *)
(* Checkouts and refunds are SERIALIZABLE: all they read comes from the    *)
(* snapshot of their first statement, taken before the lock.  Receipts and *)
(* adjustments are READ COMMITTED: only what they read before the lock can *)
(* be stale.  A request id stands for itself and its actor; a request      *)
(* that is repeated is a new request with the same command.                *)
(***************************************************************************)
EXTENDS Integers, Sequences, FiniteSetsExt

CONSTANTS
  Items,         \* placements (BranchInventory rows) of the branch
  SaleIds,       \* request ids of checkouts
  RefundIds,     \* request ids of refunds
  StockIds,      \* request ids of receipts and adjustments
  Checkouts,     \* checkouts the clients may send
  Refunds,       \* refunds they may send
  StockCommands, \* receipts and adjustments they may send
  Prices,        \* selling prices
  MaxQuantity,   \* the largest stock quantity, 2147483647
  Workers,       \* requests in progress at once
  OpeningStock,  \* bound: the quantities the placements start with
  Switches,      \* bound: the gates that are ever closed or opened
  Touched,       \* bound: the placements whose price or status ever changes
  None

VARIABLES
  rows,     \* BranchInventory: quantity and selling price
  ledger,   \* InventoryMovement of every placement, oldest first
  sales,    \* Sale by request id
  refunds,  \* Refund by request id
  active,   \* the product of a placement and its merchant are ACTIVE
  gates,    \* organization, branch, payment account and participation
  pc,       \* idle, open (holds a snapshot) or recovering
  cmd,      \* the command a worker serves, or served last
  snap,     \* what its transaction sees, or read before the lock
  since,    \* transactions committed since that snapshot
  reply

Snapshot == [rows |-> rows, active |-> active, gates |-> gates,
             sales |-> sales, refunds |-> refunds]
tables == <<rows, ledger, sales, refunds, active, gates>>
vars == <<rows, ledger, sales, refunds, active, gates, pc, cmd, snap, since, reply>>

-----------------------------------------------------------------------------
Gates == {"organization", "branch", "account", "participation"}
Quantity == 0 .. MaxQuantity
StockOps == {"receive", "adjust", "set"}

Checkout == [op : {"checkout"}, id : SaleIds, cart : [Items -> Quantity],
             price : [Items -> Prices]]
\* dto validation: lines are unique and restock at most what is returned.
Refund == {c \in [op : {"refund"}, id : RefundIds, sale : SaleIds,
                  lines : [Items -> Quantity], restock : [Items -> Quantity]] :
             \A i \in Items : c.restock[i] <= c.lines[i]}
\* amount is a received quantity, a signed change, or the new quantity.
StockCommand ==
  [op : {"receive"}, id : StockIds, item : Items, amount : 1 .. MaxQuantity]
    \cup [op : {"adjust"}, id : StockIds, item : Items,
          amount : (-MaxQuantity .. MaxQuantity) \ {0}]
    \cup [op : {"set"}, id : StockIds, item : Items, amount : Quantity]
ASSUME CommandsAssumption ==
  Checkouts \subseteq Checkout /\ Refunds \subseteq Refund
    /\ StockCommands \subseteq StockCommand
ASSUME LimitAssumption == MaxQuantity \in Nat
ASSUME BoundsAssumption ==
  /\ OpeningStock \subseteq [Items -> Quantity]
  /\ Switches \subseteq Gates /\ Touched \subseteq Items
ASSUME NoneAssumption == None \notin Checkouts \cup Refunds \cup Workers

Commands == Checkouts \cup Refunds \cup StockCommands
Opening == [op |-> "opening"]
\* A movement names the command it records: a sale or refund item, or the
\* request id of a stock command.
Movement == [by : Commands \cup {Opening}, change : Int, after : Quantity]
Tables == [rows : [Items -> [quantity : Quantity, price : Prices]],
           active : [Items -> BOOLEAN], gates : [Gates -> BOOLEAN],
           sales : [SaleIds -> Checkouts \cup {None}],
           refunds : [RefundIds -> Refunds \cup {None}]]

\* What a transaction may meet another one in.
Objects == ({"row", "product"} \X Items) \cup ({"gate"} \X Gates)
             \cup ({"sale", "returns"} \X SaleIds) \cup ({"refund"} \X RefundIds)
Transaction == [reads : SUBSET Objects, writes : SUBSET Objects]

\* The values the variables take: rows, requests and answers of the right shape.
TypeOK ==
  /\ Snapshot \in Tables
  /\ ledger \in [Items -> Seq(Movement)]
  /\ pc \in [Workers -> {"idle", "open", "recovering"}]
  /\ cmd \in [Workers -> Commands \cup {None}]
  /\ snap \in [Workers -> Tables \cup {None}]
  /\ since \in [Workers -> SUBSET Transaction]
  /\ reply \in [Workers -> {"none", "done", "conflict", "rejected", "retry"}]

-----------------------------------------------------------------------------
(* Transactions. *)

Serializable(w) == pc[w] = "open" /\ cmd[w].op \in {"checkout", "refund"}

\* Whoever is still open will meet this transaction.
Log(w, t) ==
  since' = [v \in Workers |->
              IF v = w THEN {}
              ELSE IF Serializable(v) THEN since[v] \cup {t} ELSE since[v]]

Units(lines) == {i \in Items : lines[i] > 0}
RowsOf(c) ==
  CASE c.op = "checkout" -> Units(c.cart)
    [] c.op = "refund" -> Units(c.restock)
    [] OTHER -> {c.item}

\* The gates a command must find open ...
Needs(c) ==
  CASE c.op = "checkout" -> Gates
    [] c.op = "refund" -> {"organization", "account"}
    [] c.op = "receive" -> {"organization", "branch", "participation"}
    [] OTHER -> {"organization"}
\* ... and those a serializable one locks on the way.
LocksOf(c) ==
  IF c.op = "checkout" THEN Gates ELSE {"organization", "branch", "account"}

OwnKey(c) == IF c.op = "checkout" THEN <<"sale", c.id>> ELSE <<"refund", c.id>>

ReadsOf(c) ==
  {OwnKey(c)} \cup ({"row"} \X RowsOf(c)) \cup ({"gate"} \X LocksOf(c)) \cup
    IF c.op = "checkout" THEN {"product"} \X RowsOf(c)
    ELSE {<<"sale", c.sale>>, <<"returns", c.sale>>}
WritesOf(c) ==
  {OwnKey(c)} \cup ({"row"} \X RowsOf(c)) \cup
    IF c.op = "checkout" THEN {} ELSE {<<"returns", c.sale>>}

\* A serializable transaction may not lock or update a row that was updated,
\* nor insert a request id that was inserted, after its snapshot.
FirstUpdaterWins(w, c) ==
  \A t \in since[w] :
    t.writes \cap ({OwnKey(c)} \cup ({"row"} \X RowsOf(c)) \cup ({"gate"} \X LocksOf(c)))
      = {}

\* Serializable snapshot isolation: two concurrent serializable transactions
\* never both miss what the other one wrote.
NoWriteSkew(w, c) ==
  \A t \in since[w] :
    t.writes \cap ReadsOf(c) = {} \/ t.reads \cap WritesOf(c) = {}

\* Faulty variant: REPEATABLE READ.
RepeatableRead(w, c) == FirstUpdaterWins(w, c)
\* Faulty variant: READ COMMITTED, with the reads before the lock.
NotIsolated(w, c) == \A t \in since[w] : OwnKey(c) \notin t.writes
\* Checkouts and refunds ask for SERIALIZABLE.
Isolated(w, c) == FirstUpdaterWins(w, c) /\ NoWriteSkew(w, c)

\* The request ends; its transaction committed or rolled back.
Answer(w, kind) ==
  /\ pc' = [pc EXCEPT ![w] = "idle"]
  /\ snap' = [snap EXCEPT ![w] = None]
  /\ reply' = [reply EXCEPT ![w] = kind]
  /\ UNCHANGED cmd

AnswerOnly(w, kind) ==
  /\ Answer(w, kind)
  /\ since' = [since EXCEPT ![w] = {}]
  /\ UNCHANGED tables

\* Rolled back; the error handler looks the original up.
Recover(w) ==
  /\ pc' = [pc EXCEPT ![w] = "recovering"]
  /\ snap' = [snap EXCEPT ![w] = None]
  /\ since' = [since EXCEPT ![w] = {}]
  /\ UNCHANGED tables /\ UNCHANGED <<cmd, reply>>

-----------------------------------------------------------------------------
(* Idempotency by request id. *)

StockMovements ==
  UNION {{ledger[i][k] : k \in DOMAIN ledger[i]} : i \in Items}

\* What a command's request id has committed.
Originals(c) ==
  CASE c.op = "checkout" -> {sales[c.id]} \ {None}
    [] c.op = "refund" -> {refunds[c.id]} \ {None}
    [] OTHER -> {m \in StockMovements : m.by.op \in StockOps /\ m.by.id = c.id}

\* replay() and resolveReplay().  A movement has a type, not a form: the two
\* forms of an adjustment are told apart by nothing but their numbers.
Replays(original, c) ==
  IF c.op \in {"checkout", "refund"} THEN original = c
  ELSE /\ original.by.item = c.item
       /\ original.by.op = "receive" <=> c.op = "receive"
       /\ c.amount = IF c.op = "set" THEN original.after ELSE original.change

AnswerOriginal(w, c) ==
  AnswerOnly(w, IF \E original \in Originals(c) : Replays(original, c)
                THEN "done" ELSE "conflict")

\* A request arrives and its first statements run.
Begin(w, c) ==
  /\ pc[w] = "idle"
  /\ cmd' = [cmd EXCEPT ![w] = c]
  /\ UNCHANGED tables
  /\ IF Originals(c) # {}
     THEN /\ reply' = [reply EXCEPT ![w] =
                IF \E original \in Originals(c) : Replays(original, c)
                THEN "done" ELSE "conflict"]
          /\ UNCHANGED <<pc, snap, since>>
     ELSE /\ pc' = [pc EXCEPT ![w] = "open"]
          /\ snap' = [snap EXCEPT ![w] = Snapshot]
          /\ reply' = [reply EXCEPT ![w] = "none"]
          /\ UNCHANGED since
-----------------------------------------------------------------------------
(* CheckoutService.complete, from the lock to the commit. *)

IsOpen(w, op) == pc[w] = "open" /\ cmd[w].op = op
Allowed(view, c) == \A g \in Needs(c) : view.gates[g]

\* Active products, the prices the cashier confirmed, and enough stock.
Sellable(view, c) ==
  \A i \in Units(c.cart) :
    /\ view.active[i]
    /\ view.rows[i].price = c.price[i]
    /\ view.rows[i].quantity >= c.cart[i]

CheckoutCommit(w) ==
  LET c == cmd[w] IN
  /\ IsOpen(w, "checkout")
  /\ Allowed(snap[w], c) /\ Sellable(snap[w], c)
  /\ Isolated(w, c)
  /\ \A i \in Items : rows[i].quantity >= c.cart[i]
  /\ sales' = [sales EXCEPT ![c.id] = c]
  /\ rows' = [i \in Items |-> [rows[i] EXCEPT !.quantity = @ - c.cart[i]]]
  /\ ledger' = [i \in Items |->
       IF c.cart[i] = 0 THEN ledger[i]
       ELSE Append(ledger[i], [by |-> c, change |-> -c.cart[i],
                               after |-> rows'[i].quantity])]
  /\ Log(w, [reads |-> ReadsOf(c), writes |-> WritesOf(c)])
  /\ Answer(w, "done")
  /\ UNCHANGED <<refunds, active, gates>>

CheckoutReject(w) ==
  /\ IsOpen(w, "checkout")
  /\ ~(Allowed(snap[w], cmd[w]) /\ Sellable(snap[w], cmd[w]))
  /\ AnswerOnly(w, "rejected")

-----------------------------------------------------------------------------
(* RefundsService.complete. *)

\* The refunds a transaction sees of a sale, and the units they returned.
RefundsOf(table, s) ==
  {table[f] : f \in {g \in RefundIds : table[g] # None}}
    \cap {c \in Refunds : c.sale = s}
Returned(returns, i) == MapThenSumSet(LAMBDA c : c.lines[i], returns)

\* Faulty variant: prior refunds are not counted.
ReturnableOnce(view, c) ==
  /\ view.sales[c.sale] # None
  /\ \A i \in Items : c.lines[i] <= view.sales[c.sale].cart[i]

Returnable(view, c) ==
  /\ view.sales[c.sale] # None
  /\ \A i \in Items :
       Returned(RefundsOf(view.refunds, c.sale), i) + c.lines[i]
         <= view.sales[c.sale].cart[i]

Restocks(stock, c) ==
  \A i \in Items : stock[i].quantity <= MaxQuantity - c.restock[i]

RefundCommit(w) ==
  LET c == cmd[w] IN
  /\ IsOpen(w, "refund")
  /\ Allowed(snap[w], c) /\ Returnable(snap[w], c) /\ Restocks(rows, c)
  /\ Isolated(w, c)
  /\ refunds' = [refunds EXCEPT ![c.id] = c]
  /\ rows' = [i \in Items |-> [rows[i] EXCEPT !.quantity = @ + c.restock[i]]]
  /\ ledger' = [i \in Items |->
       IF c.restock[i] = 0 THEN ledger[i]
       ELSE Append(ledger[i], [by |-> c, change |-> c.restock[i],
                               after |-> rows'[i].quantity])]
  /\ Log(w, [reads |-> ReadsOf(c), writes |-> WritesOf(c)])
  /\ Answer(w, "done")
  /\ UNCHANGED <<sales, active, gates>>

RefundReject(w) ==
  LET c == cmd[w] IN
  /\ IsOpen(w, "refund")
  /\ ~(/\ Allowed(snap[w], c) /\ Returnable(snap[w], c)
       /\ Restocks(snap[w].rows, c))
  /\ AnswerOnly(w, "rejected")

\* 40001, 40P01 or a taken request id.  Always possible: PostgreSQL may suspect
\* a conflict where there is none, and writers that are not modelled (a renamed
\* organization, a threshold) update the same rows.
Conflict(w) == Serializable(w) /\ Recover(w)

-----------------------------------------------------------------------------
(* InventoryStockService.execute. *)

Delta(w) ==
  LET c == cmd[w] IN
  IF c.op = "set" THEN c.amount - snap[w].rows[c.item].quantity ELSE c.amount

\* The condition of the update: a bounded increment, or the quantity the
\* difference was computed from.
StockFits(w) ==
  LET c == cmd[w]
      quantity == rows[c.item].quantity IN
  /\ Delta(w) # 0
  /\ c.op = "set" => quantity = snap[w].rows[c.item].quantity
  /\ quantity + Delta(w) \in Quantity

\* Faulty variant: no unique index on the request ids of movements.
RequestIdUnchecked(c) == TRUE
RequestIdUnused(c) == Originals(c) = {}

\* Faulty variant: the balance is computed from the quantity read at first.
StaleBalance(w) == snap[w].rows[cmd[w].item].quantity + Delta(w)
\* The balance is read back after the update.
Balance(w) == rows[cmd[w].item].quantity + Delta(w)

\* The lifecycle was read before the lock, the gates are read under it.
StockAllowed(w) ==
  LET c == cmd[w] IN
  /\ Allowed(Snapshot, c)
  /\ c.op = "receive" => snap[w].active[c.item]

StockCommit(w) ==
  LET c == cmd[w] IN
  /\ pc[w] = "open" /\ c.op \in StockOps
  /\ StockAllowed(w) /\ StockFits(w) /\ RequestIdUnused(c)
  /\ rows' = [rows EXCEPT ![c.item].quantity = @ + Delta(w)]
  /\ ledger' = [ledger EXCEPT ![c.item] =
       Append(@, [by |-> c, change |-> Delta(w), after |-> Balance(w)])]
  /\ Log(w, [reads |-> {}, writes |-> {<<"row", c.item>>}])
  /\ Answer(w, "done")
  /\ UNCHANGED <<sales, refunds, active, gates>>

\* ConflictException or P2002: look the original up.  An inactive organization
\* is a ForbiddenException, which is not looked into.
StockRefuse(w) ==
  LET c == cmd[w] IN
  /\ pc[w] = "open" /\ c.op \in StockOps
  /\ ~(StockAllowed(w) /\ StockFits(w) /\ RequestIdUnused(c))
  /\ IF gates["organization"] THEN Recover(w) ELSE AnswerOnly(w, "rejected")

-----------------------------------------------------------------------------
(* The error handlers: a new transaction looks for the original. *)

\* Faulty variant: whatever is found is the answer.
RecoverAny(w) ==
  /\ pc[w] = "recovering" /\ Originals(cmd[w]) # {}
  /\ AnswerOnly(w, "done")

RecoverOriginal(w) ==
  /\ pc[w] = "recovering" /\ Originals(cmd[w]) # {}
  /\ AnswerOriginal(w, cmd[w])

\* A stock command answers its first error, the others what they find now.
RecoverNothing(w) ==
  LET c == cmd[w]
      refused == \/ c.op \in StockOps
                 \/ ~gates["organization"]
                 \/ c.op = "checkout" /\ ~gates["branch"] IN
  /\ pc[w] = "recovering" /\ Originals(c) = {}
  /\ AnswerOnly(w, IF refused THEN "rejected" ELSE "retry")

\* The second transaction of a checkout or refund conflicts as well.
RecoverConflict(w) ==
  /\ pc[w] = "recovering" /\ cmd[w].op \notin StockOps
  /\ AnswerOnly(w, "retry")

\* The request is dropped (timeout, restart): its transaction rolls back.
Drop(w) ==
  /\ pc[w] # "idle"
  /\ AnswerOnly(w, "none")

-----------------------------------------------------------------------------
(* Administration: short transactions under the organization lock. *)

\* Status changes of the organization, the branch, a payment account, or the
\* merchant's participation, which no inactive branch resumes.
SetGate(g) ==
  /\ g = "organization" \/ gates["organization"]
  /\ g = "participation" /\ ~gates[g] => gates["branch"]
  /\ gates' = [gates EXCEPT ![g] = ~@]
  /\ Log(None, [reads |-> {<<"gate", g>>}, writes |-> {<<"gate", g>>}])
  /\ UNCHANGED <<rows, ledger, sales, refunds, active, pc, cmd, snap, reply>>

\* Status changes of a product or its merchant.
SetStatus(i) ==
  /\ gates["organization"]
  /\ active' = [active EXCEPT ![i] = ~@]
  /\ Log(None, [reads |-> {<<"product", i>>}, writes |-> {<<"product", i>>}])
  /\ UNCHANGED <<rows, ledger, sales, refunds, gates, pc, cmd, snap, reply>>

UpdatePrice(i, price) ==
  /\ gates["organization"] /\ gates["branch"]
  /\ rows' = [rows EXCEPT ![i].price = price]
  /\ Log(None, [reads |-> {<<"row", i>>}, writes |-> {<<"row", i>>}])
  /\ UNCHANGED <<ledger, sales, refunds, active, gates, pc, cmd, snap, reply>>

-----------------------------------------------------------------------------
\* Placements with their opening stock, if any, as a first receipt.
Init ==
  /\ \E stock \in OpeningStock : \E price \in [Items -> Prices] :
       rows = [i \in Items |-> [quantity |-> stock[i], price |-> price[i]]]
  /\ ledger = [i \in Items |->
       IF rows[i].quantity = 0 THEN <<>>
       ELSE <<[by |-> Opening, change |-> rows[i].quantity,
               after |-> rows[i].quantity]>>]
  /\ sales = [s \in SaleIds |-> None]
  /\ refunds = [f \in RefundIds |-> None]
  /\ active = [i \in Items |-> TRUE]
  /\ gates = [g \in Gates |-> TRUE]
  /\ pc = [w \in Workers |-> "idle"]
  /\ cmd = [w \in Workers |-> None]
  /\ snap = [w \in Workers |-> None]
  /\ since = [w \in Workers |-> {}]
  /\ reply = [w \in Workers |-> "none"]

Serve(w) ==
  \/ CheckoutCommit(w) \/ CheckoutReject(w)
  \/ RefundCommit(w) \/ RefundReject(w) \/ Conflict(w)
  \/ StockCommit(w) \/ StockRefuse(w)
  \/ RecoverOriginal(w) \/ RecoverNothing(w) \/ RecoverConflict(w)

Administer ==
  \/ \E g \in Switches : SetGate(g)
  \/ \E i \in Touched : SetStatus(i) \/ \E price \in Prices : UpdatePrice(i, price)

Next ==
  \/ \E w \in Workers : Drop(w) \/ Serve(w) \/ \E c \in Commands : Begin(w, c)
  \/ Administer

Spec == Init /\ [][Next]_vars

-----------------------------------------------------------------------------
\* Every movement shows the balance it left, and the last one the stock.
LedgerChain ==
  \A i \in Items :
    LET After(k) == IF k = 0 THEN 0 ELSE ledger[i][k].after IN
    /\ rows[i].quantity = After(Len(ledger[i]))
    /\ \A k \in DOMAIN ledger[i] :
         After(k) = After(k - 1) + ledger[i][k].change

\* No sale is returned beyond what it sold, however many refunds run at once
\* and even if none of them restocks anything.
NoOverReturn ==
  \A s \in SaleIds : \A i \in Items :
    sales[s] # None => Returned(RefundsOf(refunds, s), i) <= sales[s].cart[i]

\* The movements of the ledger, and what a command moves of a placement.
Entries == UNION {{<<i, k>> : k \in DOMAIN ledger[i]} : i \in Items}
Entry(e) == ledger[e[1]][e[2]]
Lines(c, i) ==
  CASE c.op = "checkout" -> -c.cart[i]
    [] c.op = "refund" -> c.restock[i]
    [] OTHER -> 0
Committed == ({sales[s] : s \in SaleIds} \cup {refunds[f] : f \in RefundIds}) \ {None}

\* Every committed command is in the ledger exactly once, with each of its
\* lines, and the ledger holds nothing else: no retry, replay or rolled-back
\* duplicate leaves a movement behind or loses one.
AccountedOnce ==
  /\ \A e \in Entries : Entry(e).by.op \in {"checkout", "refund"} =>
       /\ Entry(e).by \in Committed
       /\ Entry(e).change = Lines(Entry(e).by, e[1])
  /\ \A e, f \in Entries : e # f =>
       CASE Entry(e).by.op = "opening" -> Entry(f).by.op # "opening" \/ e[1] # f[1]
         [] Entry(e).by.op \in StockOps ->
              Entry(f).by.op \in StockOps => Entry(e).by.id # Entry(f).by.id
         [] OTHER -> Entry(e).by = Entry(f).by => e[1] # f[1]
  /\ \A c \in Committed : \A i \in Items : Lines(c, i) # 0 =>
       \E k \in DOMAIN ledger[i] : ledger[i][k].by = c

\* A request that is told it succeeded finds its own command committed, in
\* whichever transaction that was.
DoneIsCommitted ==
  \A w \in Workers : pc[w] = "idle" /\ reply[w] = "done" =>
    \E original \in Originals(cmd[w]) : Replays(original, cmd[w])

\* No sale, refund or stock movement is committed through a gate that is closed
\* at that time, although sales and refunds judge gates by an older snapshot.
NothingThroughClosedGates ==
  [][\A w \in Workers :
       pc[w] = "open" /\ reply'[w] = "done" =>
         \A g \in Needs(cmd[w]) : gates[g]]_vars

Book == INSTANCE StockBook

\* What commits is legal for the tables as they are at the commit, not only for
\* the snapshot it was computed from: stock, prices and returned units.
ImplementsBook == Book!Spec
=============================================================================
