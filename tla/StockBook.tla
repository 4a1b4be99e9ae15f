------------------------------ MODULE StockBook ------------------------------
(***************************************************************************)
(* What the stock commands of a branch promise: each one that takes effect *)
(* does so at one instant, judged by what is recorded at that instant.     *)
(***************************************************************************)
EXTENDS Integers, FiniteSetsExt

CONSTANTS Items, SaleIds, RefundIds, Checkouts, Refunds, Prices, MaxQuantity, None

VARIABLES
  rows,    \* quantity and price of every placement
  sales,   \* the checkout under each request id
  refunds  \* the refund under each request id

bookVars == <<rows, sales, refunds>>

RefundsOf(s) == {refunds[f] : f \in {g \in RefundIds : refunds[g] # None}}
                  \cap {c \in Refunds : c.sale = s}
Returned(s, i) == MapThenSumSet(LAMBDA c : c.lines[i], RefundsOf(s))

\* A sale takes stock that is there, at the price of the placement.
Sell(c) ==
  /\ sales[c.id] = None
  /\ \A i \in Items : c.cart[i] > 0 =>
       rows[i].quantity >= c.cart[i] /\ rows[i].price = c.price[i]
  /\ sales' = [sales EXCEPT ![c.id] = c]
  /\ rows' = [i \in Items |->
                [rows[i] EXCEPT !.quantity = @ - c.cart[i]]]
  /\ UNCHANGED refunds

\* A refund returns units of the sale that no other refund has returned.
Return(c) ==
  /\ refunds[c.id] = None /\ sales[c.sale] # None
  /\ \A i \in Items :
       Returned(c.sale, i) + c.lines[i] <= sales[c.sale].cart[i]
  /\ \A i \in Items : rows[i].quantity + c.restock[i] <= MaxQuantity
  /\ refunds' = [refunds EXCEPT ![c.id] = c]
  /\ rows' = [i \in Items |->
                [rows[i] EXCEPT !.quantity = @ + c.restock[i]]]
  /\ UNCHANGED sales

\* Receipts and adjustments.
Record(i, quantity) ==
  /\ quantity \in 0 .. MaxQuantity
  /\ rows' = [rows EXCEPT ![i].quantity = quantity]
  /\ UNCHANGED <<sales, refunds>>

Reprice(i, price) ==
  /\ rows' = [rows EXCEPT ![i].price = price]
  /\ UNCHANGED <<sales, refunds>>

Init ==
  /\ rows \in [Items -> [quantity : 0 .. MaxQuantity, price : Prices]]
  /\ sales = [s \in SaleIds |-> None]
  /\ refunds = [f \in RefundIds |-> None]

Next ==
  \/ \E c \in Checkouts : Sell(c)
  \/ \E c \in Refunds : Return(c)
  \/ \E i \in Items :
       \/ \E quantity \in 0 .. MaxQuantity : Record(i, quantity)
       \/ \E price \in Prices : Reprice(i, price)

Spec == Init /\ [][Next]_bookVars
=============================================================================
