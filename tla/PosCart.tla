-------------------------------- MODULE PosCart --------------------------------
(***************************************************************************)
(* The cart tab of the POS screen (frontend features/pos: branch-pos.tsx,  *)
(* pos-product-browser.tsx, pos-cart-panel.tsx, pos-cart.ts) over the      *)
(* catalog of pos-catalog.service.ts: product search with continuation,    *)
(* code lookup, the cart, and what a late answer may still do after the    *)
(* user moved on.                                                          *)
(*                                                                         *)
(* A search is cancelled by its effect; a lookup and a continuation carry  *)
(* the generation of the screen when they were sent, and an answer of an   *)
(* earlier generation is dropped.  An answer acts on the values its        *)
(* request was sent with, so only the generation keeps it out.             *)
(***************************************************************************)
EXTENDS Naturals, Sequences, FiniteSets

CONSTANTS
  Products, Queries, Codes,
  Results,        \* the products a query finds, one per page
  Matches,        \* the products a code finds
  MaxPrice, MaxStock, MaxLines,
  MaxGeneration,  \* bound: lookups and other generations of the screen
  MaxOffers,      \* bound: changes of prices and stock meanwhile
  None

VARIABLES
  offered,      \* the placements of the branch, as the server has them
  offers,       \* how often they changed
  access,       \* of the branch: checking, ready, failed or denied
  tab,          \* cart or history
  typed, q,     \* the search as typed, and as debounced
  reading,      \* a search that is still wanted is in flight
  loading,      \* the skeleton of the results
  shown,        \* the results: products as they were read, with their query
  cursor,       \* where they continue, or None
  moreBusy,     \* "Loading more"
  more,         \* continuations in flight
  lookupBusy,   \* held from a lookup until its answer, or a choice, is dealt with
  lookups,      \* lookups in flight
  choices,      \* products of an ambiguous code, or None
  generation,
  cart,         \* a line per product, or None
  clearing,     \* the dialog that discards the cart
  paying,       \* the payment dialog
  cartReady,    \* the catalog was read since the cart was last returned to
  leaving       \* the dialog that asks before leaving with a cart

catalog == <<typed, q, reading, loading, shown, cursor, moreBusy, more>>
entry == <<lookupBusy, lookups, choices, generation>>
vars == <<offered, offers, access, tab, typed, q, reading, loading, shown, cursor,
          moreBusy, more, lookupBusy, lookups, choices, generation, cart, clearing,
          paying, cartReady, leaving>>

-----------------------------------------------------------------------------
\* A product as the catalog shows it.
Placement == {o \in [price : 1 .. MaxPrice, available : 0 .. MaxStock, eligible : BOOLEAN] :
                o.eligible => o.available > 0}
\* quantity is the last valid input; an input is valid up to what was available.
Line == [price : 1 .. MaxPrice, available : 0 .. MaxStock, eligible : BOOLEAN,
         quantity : 1 .. MaxStock, input : 0 .. MaxStock]
Shown == [query : Queries, product : Products, placement : Placement]
Cursor == [query : Queries, page : Nat \ {0}]
Sent == [query : Queries, cursor : Cursor, generation : 0 .. MaxGeneration]

\* What the constants are assumed to be.
Bounds ==
  /\ MaxPrice \in Nat \ {0} /\ MaxStock \in Nat \ {0} /\ MaxLines \in Nat \ {0}
  /\ MaxGeneration \in Nat /\ MaxOffers \in Nat
  /\ Queries # {}
  /\ Results \in [Queries -> Seq(Products)]
  /\ Matches \in [Codes -> SUBSET Products]
  /\ None \notin Line \cup Cursor

\* The values the variables take: rows, requests and answers of the right shape.
TypeOK ==
  /\ offered \in [Products -> Placement] /\ offers \in 0 .. MaxOffers
  /\ access \in {"checking", "ready", "failed", "denied"}
  /\ tab \in {"cart", "history"}
  /\ typed \in Queries /\ q \in Queries
  /\ {reading, loading, moreBusy, lookupBusy, clearing, paying, cartReady, leaving}
       \subseteq BOOLEAN
  /\ shown \in SUBSET Shown /\ cursor \in Cursor \cup {None}
  /\ more \subseteq Sent
  /\ lookups \subseteq [code : Codes, generation : 0 .. MaxGeneration]
  /\ choices \in {None} \cup SUBSET [product : Products, placement : Placement]
  /\ generation \in 0 .. MaxGeneration
  /\ cart \in [Products -> Line \cup {None}]
  /\ reading => loading

EmptyCart == [p \in Products |-> None]
Lines == {p \in Products : cart[p] # None}
Valid(line) == line.input \in 1 .. line.available
InvalidCart == \E p \in Lines : ~Valid(cart[p])

-----------------------------------------------------------------------------
(* Searching. *)

\* PosCatalogService.findAll: one page of a query, read now.
Page(query, n) ==
  IF n > Len(Results[query]) THEN {}
  ELSE {[query |-> query, product |-> Results[query][n],
         placement |-> offered[Results[query][n]]]}
CursorAfter(query, n) ==
  IF n < Len(Results[query]) THEN [query |-> query, page |-> n + 1] ELSE None

\* The effect that searches runs again when one of these changes.
Searches(t, a, search, debounced, pay) ==
  t = "cart" /\ a = "ready" /\ search = debounced /\ ~pay
\* It forgets the results and reads the first page.
Search ==
  /\ reading' = TRUE /\ loading' = TRUE /\ shown' = {} /\ cursor' = None
  /\ UNCHANGED <<moreBusy, more>>
\* An effect that is cancelled drops its answer and leaves the rest.
Cancel == reading' = FALSE /\ UNCHANGED <<loading, shown, cursor, moreBusy, more>>
\* What happens to the search when what it depends on has changed.
Effect(t, a, search, debounced, pay) ==
  IF Searches(t, a, search, debounced, pay) THEN Search ELSE Cancel

Type(s) ==
  /\ tab = "cart" /\ access = "ready" /\ s # typed
  /\ typed' = s
  /\ IF (typed = q) = (s = q) THEN UNCHANGED <<reading, loading, shown, cursor, moreBusy, more>>
     ELSE Effect(tab, access, s, q, paying)
  /\ UNCHANGED <<offered, offers, access, tab, q, entry, cart, clearing, paying,
                 cartReady, leaving>>

Settle ==
  /\ typed # q
  /\ q' = typed
  /\ Effect(tab, access, typed, typed, paying)
  /\ UNCHANGED <<offered, offers, access, tab, typed, entry, cart, clearing, paying,
                 cartReady, leaving>>

SearchArrives ==
  /\ reading
  /\ reading' = FALSE /\ loading' = FALSE
  /\ shown' = Page(q, 1) /\ cursor' = CursorAfter(q, 1)
  /\ cartReady' = TRUE
  /\ UNCHANGED <<offered, offers, access, tab, typed, q, moreBusy, more, entry, cart,
                 clearing, paying, leaving>>

\* Retried by the button, which searches again.
SearchFails ==
  /\ reading
  /\ reading' = FALSE /\ loading' = FALSE
  /\ UNCHANGED <<offered, offers, access, tab, typed, q, shown, cursor, moreBusy, more,
                 entry, cart, clearing, paying, cartReady, leaving>>
RetrySearch ==
  /\ ~reading /\ ~loading /\ shown = {} /\ Searches(tab, access, typed, q, paying)
  /\ Search
  /\ UNCHANGED <<offered, offers, access, tab, typed, q, entry, cart, clearing, paying,
                 cartReady, leaving>>

LoadMore ==
  /\ tab = "cart" /\ access = "ready" /\ ~paying
  /\ cursor # None /\ ~moreBusy /\ ~loading
  /\ moreBusy' = TRUE
  /\ more' = more \cup {[query |-> q, cursor |-> cursor, generation |-> generation]}
  /\ UNCHANGED <<offered, offers, access, tab, typed, q, reading, loading, shown, cursor,
                 entry, cart, clearing, paying, cartReady, leaving>>

\* The generation does not change when the search does.
StillCurrent(sent) == sent.generation = generation

\* Rows that are shown already are left out.
Appends(rows) ==
  shown \cup {r \in rows : \A s \in shown : s.product # r.product}

\* The server refuses a cursor of another query.
MoreArrives(sent) ==
  /\ sent \in more
  /\ more' = more \ {sent}
  /\ IF ~StillCurrent(sent) THEN UNCHANGED <<moreBusy, shown, cursor>>
     ELSE /\ moreBusy' = FALSE
          /\ IF sent.cursor.query # sent.query THEN UNCHANGED <<shown, cursor>>
             ELSE /\ shown' = Appends(Page(sent.query, sent.cursor.page))
                  /\ cursor' = CursorAfter(sent.query, sent.cursor.page)
  /\ UNCHANGED <<offered, offers, access, tab, typed, q, reading, loading, entry, cart,
                 clearing, paying, cartReady, leaving>>

-----------------------------------------------------------------------------
(* The cart. *)

\* Faulty variant: the newer price replaces the one that was reviewed.
AddableAnyway(p, o) ==
  /\ o.eligible /\ ~InvalidCart
  /\ IF cart[p] = None THEN Cardinality(Lines) < MaxLines
     ELSE cart[p].quantity < o.available
\* addPosProduct(): a product is not added at another price than the one in the
\* cart, nor beyond what is available.
Addable(p, o) ==
  /\ o.eligible /\ ~InvalidCart
  /\ IF cart[p] = None THEN Cardinality(Lines) < MaxLines
     ELSE cart[p].price = o.price /\ cart[p].quantity < o.available
Added(p, o) ==
  LET n == IF cart[p] = None THEN 1 ELSE cart[p].quantity + 1 IN
  [cart EXCEPT ![p] = [price |-> o.price, available |-> o.available,
                       eligible |-> o.eligible, quantity |-> n, input |-> n]]

Locked ==
  lookupBusy \/ choices # None \/ clearing \/ paying \/ access # "ready" \/ tab # "cart"

\* A product of the results, as it was read.
AddShown(s) ==
  /\ s \in shown /\ ~loading /\ typed = q /\ ~Locked
  /\ Addable(s.product, s.placement)
  /\ cart' = Added(s.product, s.placement)
  /\ UNCHANGED <<offered, offers, access, tab, catalog, entry, clearing, paying,
                 cartReady, leaving>>

ChangeQuantity(p, n) ==
  /\ ~Locked /\ cart[p] # None
  /\ LET quantity == IF n \in 1 .. cart[p].available THEN n ELSE cart[p].quantity IN
     cart' = [cart EXCEPT ![p].input = n, ![p].quantity = quantity]
  /\ UNCHANGED <<offered, offers, access, tab, catalog, entry, clearing, paying,
                 cartReady, leaving>>

RemoveLine(p) ==
  /\ ~Locked /\ cart[p] # None
  /\ cart' = [cart EXCEPT ![p] = None]
  /\ UNCHANGED <<offered, offers, access, tab, catalog, entry, clearing, paying,
                 cartReady, leaving>>

\* The dialog locks the cart while it is open.
AskClear ==
  /\ ~Locked /\ Lines # {}
  /\ clearing' = TRUE
  /\ UNCHANGED <<offered, offers, access, tab, catalog, entry, cart, paying, cartReady,
                 leaving>>
Clear(sure) ==
  /\ clearing
  /\ clearing' = FALSE
  /\ cart' = IF sure THEN EmptyCart ELSE cart
  /\ UNCHANGED <<offered, offers, access, tab, catalog, entry, paying, cartReady, leaving>>

-----------------------------------------------------------------------------
(* Looking up a code. *)

NewGeneration == generation' = generation + 1
\* Faulty variant: nothing in flight is invalidated.
SameGeneration == UNCHANGED generation
\* What denying access, leaving the cart and discarding it do.
Invalidate == NewGeneration

Lookup(code) ==
  /\ ~Locked /\ generation < MaxGeneration
  /\ lookupBusy' = TRUE
  /\ NewGeneration
  /\ lookups' = lookups \cup {[code |-> code, generation |-> generation + 1]}
  /\ UNCHANGED <<offered, offers, access, tab, catalog, choices, cart, clearing, paying,
                 cartReady, leaving>>

\* Two matches wait for a choice, which keeps the lookup busy.
LookupArrives(l) ==
  /\ l \in lookups
  /\ lookups' = lookups \ {l}
  /\ IF l.generation # generation THEN UNCHANGED <<lookupBusy, choices, cart>>
     ELSE IF Cardinality(Matches[l.code]) > 1
     THEN /\ choices' = {[product |-> p, placement |-> offered[p]] : p \in Matches[l.code]}
          /\ UNCHANGED <<lookupBusy, cart>>
     ELSE /\ lookupBusy' = FALSE
          /\ \/ \E p \in Matches[l.code] :
                  Addable(p, offered[p]) /\ cart' = Added(p, offered[p])
             \/ /\ \A p \in Matches[l.code] : ~Addable(p, offered[p])
                /\ UNCHANGED cart
          /\ UNCHANGED choices
  /\ UNCHANGED <<offered, offers, access, tab, catalog, generation, clearing, paying,
                 cartReady, leaving>>

LookupFails(l) ==
  /\ l \in lookups
  /\ lookups' = lookups \ {l}
  /\ lookupBusy' = IF l.generation = generation THEN FALSE ELSE lookupBusy
  /\ UNCHANGED <<offered, offers, access, tab, catalog, choices, generation, cart,
                 clearing, paying, cartReady, leaving>>

Choose(c) ==
  /\ c.placement.eligible
  /\ choices' = None /\ lookupBusy' = FALSE
  /\ cart' = IF Addable(c.product, c.placement) THEN Added(c.product, c.placement) ELSE cart
  /\ UNCHANGED <<offered, offers, access, tab, catalog, lookups, generation, clearing,
                 paying, cartReady, leaving>>
Dismiss ==
  /\ choices # None
  /\ choices' = None /\ lookupBusy' = FALSE
  /\ UNCHANGED <<offered, offers, access, tab, catalog, lookups, generation, cart,
                 clearing, paying, cartReady, leaving>>

-----------------------------------------------------------------------------
(* Payment. *)

Review ==
  /\ ~Locked /\ Lines # {} /\ ~InvalidCart /\ cartReady
  /\ paying' = TRUE
  /\ Effect(tab, access, typed, q, TRUE)
  /\ UNCHANGED <<offered, offers, access, tab, typed, q, entry, cart, clearing, cartReady,
                 leaving>>

\* The dialog is closed, or reports an issue with a line, or the sale is made;
\* the catalog is searched again.
ClosePayment(after) ==
  /\ paying
  /\ paying' = FALSE /\ cart' = after
  /\ Effect(tab, access, typed, q, FALSE)
  /\ UNCHANGED <<offered, offers, access, tab, typed, q, entry, clearing, cartReady,
                 leaving>>
Return == ClosePayment(cart)
Complete == ClosePayment(EmptyCart)
PriceIssue(p) ==
  /\ cart[p] # None /\ cart[p].price # offered[p].price
  /\ ClosePayment([cart EXCEPT ![p].price = offered[p].price])
StockIssue(p) ==
  /\ cart[p] # None /\ offered[p].available < cart[p].quantity
  /\ ClosePayment([cart EXCEPT ![p].available = offered[p].available,
                               ![p].eligible = offered[p].available > 0])
ParticipationIssue ==
  /\ \E p \in Lines : offered[p].available > 0 /\ ~offered[p].eligible
  /\ ClosePayment([p \in Products |->
       IF cart[p] = None THEN None ELSE [cart[p] EXCEPT !.eligible = FALSE]])

-----------------------------------------------------------------------------
(* Access and navigation. *)

\* denyAccess(): whatever read finds out that the branch is not accessible.
Forget == /\ cart' = EmptyCart /\ choices' = None /\ clearing' = FALSE /\ paying' = FALSE
          /\ lookupBusy' = FALSE
Deny ==
  /\ access' = "denied"
  /\ Invalidate /\ Forget
  /\ shown' = {} /\ cursor' = None /\ moreBusy' = FALSE /\ reading' = FALSE
  /\ loading' \in {loading, loading /\ ~reading}
  /\ UNCHANGED <<offered, offers, tab, typed, q, more, lookups, cartReady, leaving>>
AccessDenied ==
  /\ access # "denied" /\ generation < MaxGeneration
  /\ \/ access = "checking" \/ reading \/ paying
     \/ \E sent \in more : sent.generation = generation
     \/ \E l \in lookups : l.generation = generation
  /\ Deny

BranchArrives ==
  /\ access = "checking"
  /\ access' = "ready"
  /\ Effect(tab, "ready", typed, q, paying)
  /\ UNCHANGED <<offered, offers, tab, typed, q, entry, cart, clearing, paying, cartReady,
                 leaving>>
BranchFails ==
  /\ access = "checking"
  /\ access' = "failed"
  /\ UNCHANGED <<offered, offers, tab, catalog, entry, cart, clearing, paying, cartReady,
                 leaving>>
RetryBranch ==
  /\ access \in {"failed", "denied"}
  /\ access' = "checking"
  /\ UNCHANGED <<offered, offers, tab, catalog, entry, cart, clearing, paying, cartReady,
                 leaving>>

ToHistory ==
  /\ tab = "cart" /\ generation < MaxGeneration
  /\ tab' = "history" /\ access' = "checking"
  /\ Invalidate
  /\ lookupBusy' = FALSE /\ choices' = None /\ clearing' = FALSE
  /\ paying' = FALSE /\ cartReady' = FALSE
  /\ reading' = FALSE /\ loading' = TRUE /\ shown' = {}
  /\ UNCHANGED <<offered, offers, typed, q, cursor, moreBusy, more, lookups, cart, leaving>>
ToCart ==
  /\ tab = "history"
  /\ tab' = "cart" /\ access' = "checking"
  /\ Effect("cart", "checking", typed, q, paying)
  /\ UNCHANGED <<offered, offers, typed, q, entry, cart, clearing, paying, cartReady,
                 leaving>>

\* Leaving the screen asks first if there is a cart; elsewhere it starts anew.
AskLeave ==
  /\ ~leaving /\ ~paying /\ Lines # {}
  /\ leaving' = TRUE
  /\ UNCHANGED <<offered, offers, access, tab, catalog, entry, cart, clearing, paying,
                 cartReady>>
Stay ==
  /\ leaving
  /\ leaving' = FALSE
  /\ UNCHANGED <<offered, offers, access, tab, catalog, entry, cart, clearing, paying,
                 cartReady>>
Leave ==
  /\ leaving \/ (Lines = {} /\ ~paying)
  /\ access' = "checking" /\ tab' = "cart" /\ typed' = CHOOSE s \in Queries : TRUE
  /\ q' = typed' /\ reading' = FALSE /\ loading' = TRUE /\ shown' = {} /\ cursor' = None
  /\ moreBusy' = FALSE /\ more' = {} /\ lookups' = {} /\ generation' = 0
  /\ Forget /\ cartReady' = TRUE /\ leaving' = FALSE
  /\ UNCHANGED <<offered, offers>>

\* Sales, receipts and price changes elsewhere.
Offer(p, o) ==
  /\ offers < MaxOffers /\ o # offered[p]
  /\ offered' = [offered EXCEPT ![p] = o]
  /\ offers' = offers + 1
  /\ UNCHANGED <<access, tab, catalog, entry, cart, clearing, paying, cartReady, leaving>>

Init ==
  /\ offered = [p \in Products |-> [price |-> 1, available |-> MaxStock, eligible |-> TRUE]]
  /\ offers = 0 /\ access = "checking" /\ tab = "cart"
  /\ typed = CHOOSE s \in Queries : TRUE
  /\ q = typed /\ reading = FALSE /\ loading = TRUE /\ shown = {} /\ cursor = None
  /\ moreBusy = FALSE /\ more = {} /\ lookupBusy = FALSE /\ lookups = {} /\ choices = None
  /\ generation = 0 /\ cart = EmptyCart /\ clearing = FALSE /\ paying = FALSE
  /\ cartReady = TRUE /\ leaving = FALSE

Next ==
  \/ \E s \in Queries : Type(s)
  \/ Settle \/ SearchArrives \/ SearchFails \/ RetrySearch \/ LoadMore
  \/ \E sent \in more : MoreArrives(sent)
  \/ \E s \in shown : AddShown(s)
  \/ \E p \in Products : RemoveLine(p) \/ \E n \in 0 .. MaxStock : ChangeQuantity(p, n)
  \/ AskClear \/ \E sure \in BOOLEAN : Clear(sure)
  \/ \E code \in Codes : Lookup(code)
  \/ \E l \in lookups : LookupArrives(l) \/ LookupFails(l)
  \/ choices # None /\ \E c \in choices : Choose(c)
  \/ Dismiss
  \/ Review \/ Return \/ Complete \/ ParticipationIssue
  \/ \E p \in Products : PriceIssue(p) \/ StockIssue(p)
  \/ AccessDenied \/ BranchArrives \/ BranchFails \/ RetryBranch
  \/ ToHistory \/ ToCart \/ AskLeave \/ Stay \/ Leave
  \/ \E p \in Products, o \in Placement : Offer(p, o)

Spec == Init /\ [][Next]_vars

-----------------------------------------------------------------------------
(* Properties. *)

\* Once access is denied nothing of the cart or the catalog is left, and nothing
\* that was in flight brings it back.
DeniedIsEmpty ==
  access = "denied" =>
    cart = EmptyCart /\ shown = {} /\ cursor = None /\ choices = None /\ ~paying

\* The price of a line changes only by the issue the payment dialog reported,
\* however old the result or the lookup it was added from.
Reviewed ==
  \A p \in Products :
    cart[p] # None /\ cart'[p] # None /\ cart'[p].price # cart[p].price => paying
\* No line of the cart gets a price the cashier did not review.
PricesAreReviewed == [][Reviewed]_vars

=============================================================================
