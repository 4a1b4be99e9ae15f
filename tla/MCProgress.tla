------------------------------ MODULE MCProgress ------------------------------
(***************************************************************************)
(* What must come to an end: a recovery record whose command was           *)
(* committed, a refresh that other tabs wait behind, a submission whose    *)
(* screen is gone.  A run is of one of the three components; the fairness  *)
(* of each is stated for all, and asks nothing of a component that is at   *)
(* rest.  No symmetry, for liveness.  The recovery service is that of      *)
(* actors whose submissions do not overlap; its envelope is checked too.   *)
(***************************************************************************)
EXTENDS CommandRecovery

CONSTANTS a1, old, new, t1, t2, s1, q1, q2
VARIABLES
  scene,
  sessions, hash, deleted, cookie, access, promise, lock, req, refreshes, lostRefreshes,
  sellable, offers, content, rec, sold, lostCalls, calls, attempt, page, listing, saved,
  cart, paying, screen, receipt, told, receipts

sessionVars == <<sessions, hash, deleted, cookie, access, promise, lock, req, refreshes,
                 lostRefreshes>>
checkoutVars == <<sellable, offers, content, rec, sold, lostCalls, calls, attempt, page,
                  listing, saved, cart, paying, screen, receipt, told, receipts>>
mcVars == <<scene, vars, sessionVars, checkoutVars>>

\* A tab is reloaded or loses an answer while others wait for the lock.
RefreshScene == INSTANCE Sessions WITH
  Tabs <- {t1, t2}, Ids <- {s1}, Requests <- {q1, q2}, Kinds <- {"restore", "login"},
  WebLocks <- TRUE, MaxRefreshes <- 3, MaxHash <- 0, MaxFaults <- 1,
  rows <- sessions, faults <- lostRefreshes
\* One checkout, one fault.
CheckoutScene == INSTANCE PosCheckout WITH
  Contents <- {old, new}, MaxIds <- 1, MaxFaults <- 1, MaxOffers <- 1, faults <- lostCalls

\* The bound of the recovery scene: a fault happens while only a1 is there, or
\* two actors meet on one request id without a fault.  A sale that is older
\* than the envelope is a1's: actors are interchangeable.
OlderIsFirst == \A r \in RequestIds : sales[r] # None => sales[r].actor = a1
OnlyFirst ==
  /\ OlderIsFirst
  /\ \A r \in RequestIds : rows[r] # None => rows[r].actor = a1
  /\ \A w \in Workers : job[w] # None => job[w].actor = a1

MCInit ==
  /\ scene \in {"recovery", "refresh", "checkout"}
  /\ Init /\ OlderIsFirst /\ RefreshScene!Init /\ CheckoutScene!Init
MCNext ==
  /\ UNCHANGED scene
  /\ \/ scene = "recovery" /\ Next /\ (faults' = 0 \/ OnlyFirst')
          /\ UNCHANGED <<sessionVars, checkoutVars>>
     \/ scene = "refresh" /\ RefreshScene!Next /\ UNCHANGED <<vars, checkoutVars>>
     \/ scene = "checkout" /\ CheckoutScene!Next /\ UNCHANGED <<vars, sessionVars>>
MCSpec ==
  /\ MCInit /\ [][MCNext]_mcVars
  /\ \A w \in Workers : WF_vars(Serve(w))
  /\ \A r \in RequestIds : SF_vars(Poll(r))
  /\ \A r \in {q1, q2} :
       /\ WF_sessionVars(RefreshScene!Proceeds(r))
       /\ SF_sessionVars(RefreshScene!SendRefresh(r))
  /\ WF_checkoutVars(\E c \in calls : CheckoutScene!Serve(c))
  /\ WF_checkoutVars(\E c \in calls : CheckoutScene!Deliver(c))

\* A tab never waits forever for a refresh, whichever tab is reloaded or loses
\* an answer while it holds the lock.
RefreshSettles == RefreshScene!RefreshSettles
\* A pending checkout ends, also when its screen is gone.
PendingEnds == CheckoutScene!PendingEnds
=============================================================================
