-------------------------------- MODULE MCPos --------------------------------
(***************************************************************************)
(* Small instances of the point-of-sale screens: the cart (PosCart), the   *)
(* payment (PosCheckout) and the returns (RefundScreen).  Each has its own *)
(* variables here; a run is of one of them, in one of four scenes.         *)
(***************************************************************************)
EXTENDS PosCheckout, TLC

CONSTANTS old, new, p1, p2, qa, qb, ca, cb, s1, s2
VARIABLES
  scene,
  offered, changes, access, tab, typed, q, reading, loading, shown, cursor, moreBusy, more,
  lookupBusy, lookups, choices, generation, lines, clearing, reviewing, cartReady, leaving,
  left, returns, records, refunded, refundFaults, refundCalls, refund, place, loaded, entry,
  recovering, recovered, unitsRead, result, open, dialog, rejected, seen

cartVars == <<offered, changes, access, tab, typed, q, reading, loading, shown, cursor,
              moreBusy, more, lookupBusy, lookups, choices, generation, lines, clearing,
              reviewing, cartReady, leaving>>
refundVars == <<left, returns, records, refunded, refundFaults, refundCalls, refund, place,
                loaded, entry, recovering, recovered, unitsRead, result, open, dialog,
                rejected, seen>>
mcVars == <<scene, vars, cartVars, refundVars>>

Symmetry == Permutations(Contents) \cup Permutations({s1, s2})
Found == [s \in {qa, qb} |-> IF s = qa THEN <<p1, p2>> ELSE <<p2, p1>>]
Matching == [c \in {ca, cb} |-> IF c = ca THEN {p1} ELSE {p1, p2}]
OneResult == [s \in {qa} |-> <<p1, p2>>]
OneMatch == [c \in {ca} |-> {p1}]

\* Two searches; codes, access and tabs change while answers are under way.
AccessScene == INSTANCE PosCart WITH
  Products <- {p1, p2}, Queries <- {qa, qb}, Codes <- {ca, cb},
  Results <- Found, Matches <- Matching, MaxPrice <- 2, MaxStock <- 2, MaxLines <- 1,
  MaxGeneration <- 2, MaxOffers <- 0, offers <- changes, cart <- lines, paying <- reviewing
\* One search and one code; prices and stock change meanwhile.
PriceScene == INSTANCE PosCart WITH
  Products <- {p1, p2}, Queries <- {qa}, Codes <- {ca},
  Results <- OneResult, Matches <- OneMatch, MaxPrice <- 2, MaxStock <- 2, MaxLines <- 1,
  MaxGeneration <- 1, MaxOffers <- 1, offers <- changes, cart <- lines, paying <- reviewing
\* Returns for two sales.
RefundScene == INSTANCE RefundScreen WITH
  Sales <- {s1, s2}, Units <- 1, MaxIds <- 2, MaxFaults <- 2,
  content <- returns, rec <- records, faults <- refundFaults, calls <- refundCalls,
  attempt <- refund, listing <- recovering, saved <- recovered, reading <- unitsRead,
  told <- rejected

ASSUME CartBounds == AccessScene!Bounds /\ PriceScene!Bounds
ASSUME RefundBounds == RefundScene!Bounds

MCInit ==
  \/ scene = "payment" /\ Init /\ PriceScene!Init /\ RefundScene!Init
  \/ scene = "access" /\ Init /\ AccessScene!Init /\ RefundScene!Init
  \/ scene = "prices" /\ Init /\ PriceScene!Init /\ RefundScene!Init
  \/ scene = "refunds" /\ Init /\ PriceScene!Init /\ RefundScene!Init
MCNext ==
  /\ UNCHANGED scene
  /\ \/ scene = "payment" /\ Next /\ UNCHANGED <<cartVars, refundVars>>
     \/ scene = "access" /\ AccessScene!Next /\ UNCHANGED <<vars, refundVars>>
     \/ scene = "prices" /\ PriceScene!Next /\ UNCHANGED <<vars, refundVars>>
     \/ scene = "refunds" /\ RefundScene!Next /\ UNCHANGED <<vars, cartVars>>
MCSpec == MCInit /\ [][MCNext]_mcVars

\* The price of a line changes only by the issue the payment dialog reported,
\* however old the result or the lookup it was added from.
PricesAreReviewed == [][scene = "prices" => PriceScene!Reviewed]_mcVars
\* Once access is denied nothing of the cart or the catalog is left, and nothing
\* that was in flight brings it back.
DeniedIsEmpty == scene = "access" => AccessScene!DeniedIsEmpty
\* A refund the staff was told was rejected is not recorded later, and none is
\* recorded while the staff has not seen that an earlier one was.
RefundsAreKnown ==
  /\ [](scene = "refunds" => RefundScene!RejectedIsUnrecorded)
  /\ [][scene = "refunds" => RefundScene!AfterSeen]_mcVars
=============================================================================
