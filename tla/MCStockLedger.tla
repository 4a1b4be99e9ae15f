--------------------------- MODULE MCStockLedger ---------------------------
(* Small instances of StockLedger: the commands the clients may send. *)
EXTENDS StockLedger, TLC

CONSTANTS i1, i2, s1, s2, f1, f2, k1, k2, w1, w2, w3

WorkerSymmetry == Permutations(Workers)

Both(m, n) == i1 :> m @@ i2 :> n
OneEach == {Both(1, 1)}
TwoAndOne == {Both(2, 1)}
MCSale(id, m, n, price) ==
  [op |-> "checkout", id |-> id, cart |-> Both(m, n), price |-> Both(price, 1)]
MCRefund(id, s, back, stocked) ==
  [op |-> "refund", id |-> id, sale |-> s, lines |-> back, restock |-> stocked]
MCStock(op, id, i, n) == [op |-> op, id |-> id, item |-> i, amount |-> n]

\* Carts that share a placement, at both of its prices, and one request id
\* that is used for two carts.
SaleCheckouts ==
  {MCSale(s1, 1, 1, 1), MCSale(s2, 2, 0, 1), MCSale(s2, 1, 0, 2)}
OneCheckout == {MCSale(s1, 1, 1, 1)}
\* Two refunds of one unit each of a sale of one, with and without restocking.
SaleRefunds == {MCRefund(f1, s1, Both(1, 0), Both(0, 0)),
                MCRefund(f2, s1, Both(1, 0), Both(1, 0)),
                MCRefund(f2, s1, Both(1, 1), Both(0, 1))}
OneRefund == {MCRefund(f1, s1, Both(1, 0), Both(1, 0))}
OneReceipt == {MCStock("receive", k1, i1, 1)}
\* Receipts and adjustments that reuse request ids, in both forms.
Corrections == {MCStock("receive", k1, i1, 1), MCStock("adjust", k1, i1, 1),
                MCStock("set", k1, i1, 2), MCStock("set", k2, i1, 1),
                MCStock("adjust", k2, i1, -2)}
MCCheckouts == SaleCheckouts \cup OneCheckout
MCRefunds == SaleRefunds \cup OneRefund
MCStockCommands == OneReceipt \cup Corrections
MCOpening == OneEach \cup TwoAndOne

(* Each run is one of five. *)
VARIABLE scene
mcVars == <<vars, scene>>

\* Sales against each other and against price changes.
SaleScene == INSTANCE StockLedger WITH
  Checkouts <- SaleCheckouts, Refunds <- {}, StockCommands <- {}, OpeningStock <- TwoAndOne,
  Switches <- {}, Touched <- {i1}
\* Refunds of one sale that together exceed it, against each other.
RefundScene == INSTANCE StockLedger WITH
  Checkouts <- OneCheckout, Refunds <- SaleRefunds, StockCommands <- {}, Prices <- {1},
  OpeningStock <- TwoAndOne, Switches <- {}, Touched <- {}
\* Receipts and adjustments that reuse request ids, against a sale and a refund.
StockScene == INSTANCE StockLedger WITH
  Checkouts <- OneCheckout, Refunds <- OneRefund, StockCommands <- Corrections,
  Prices <- {1}, OpeningStock <- OneEach, Switches <- {}, Touched <- {}
\* Status changes against commands that passed the same check earlier.
GateScene == INSTANCE StockLedger WITH
  Checkouts <- OneCheckout, Refunds <- OneRefund, StockCommands <- OneReceipt,
  Prices <- {1}, OpeningStock <- OneEach, Switches <- {"organization", "participation"},
  Touched <- {}
BranchScene == INSTANCE StockLedger WITH
  Checkouts <- OneCheckout, Refunds <- OneRefund, StockCommands <- OneReceipt,
  Prices <- {1}, OpeningStock <- OneEach, Switches <- {"branch", "account"}, Touched <- {}

MCInit ==
  \/ scene = "sales" /\ SaleScene!Init
  \/ scene = "refunds" /\ RefundScene!Init
  \/ scene = "stock" /\ StockScene!Init
  \/ scene = "gates" /\ GateScene!Init
  \/ scene = "branches" /\ BranchScene!Init
\* A third worker only takes part where refunds meet.
MCNext ==
  /\ UNCHANGED scene
  /\ \/ scene = "sales" /\ SaleScene!Next
     \/ scene = "refunds" /\ RefundScene!Next
     \/ scene = "stock" /\ StockScene!Next
     \/ scene = "gates" /\ GateScene!Next
     \/ scene = "branches" /\ BranchScene!Next
  /\ scene # "refunds" => pc'[w3] = "idle"
MCSpec == MCInit /\ [][MCNext]_mcVars
=============================================================================
