------------------------------ MODULE Sessions ------------------------------
(***************************************************************************)
(* Sign-in sessions of one account, from the rows to the browser: the      *)
(* session service and the account service of the backend (auth/sessions,  *)
(* auth.service.ts, auth.guard.ts), and the client of every browser tab    *)
(* (auth-client.ts), which share one cookie jar and, where the browser has *)
(* them, Web Locks.                                                        *)
(*                                                                         *)
(* A request of the pool goes through the statements of its handler, one   *)
(* action each, and its answer is another step: it may be lost, and the    *)
(* tab that waits for it may be reloaded.                                  *)
(***************************************************************************)
EXTENDS Naturals, FiniteSets

CONSTANTS
  Tabs,
  Ids,       \* ids of UserSession rows
  Requests,  \* requests in progress at once
  Kinds,     \* bound: what the tabs and mails ask for
  WebLocks,  \* whether the browser has navigator.locks
  MaxRefreshes, \* bound: refreshes that are started
  MaxHash,   \* bound: changes of the password
  MaxFaults, \* bound: lost requests and answers, reloads
  None

VARIABLES
  rows,    \* UserSession: state, current secret, password it was issued under
  hash,    \* User.passwordHash, counted
  deleted, \* User.deletedAt
  cookie,  \* the refresh token in the browser's jar
  access,  \* accessToken of each tab: the session it is bound to
  promise, \* refreshPromise of each tab: the refresh it awaits
  lock,    \* the refresh that holds the Web Lock
  req,
  refreshes, \* started so far
  faults

server == <<rows, hash, deleted>>
browser == <<cookie, access, promise, lock>>
vars == <<rows, hash, deleted, cookie, access, promise, lock, req, refreshes,
          faults>>

ASSUME BoundsAssumption ==
  /\ MaxRefreshes \in Nat /\ MaxHash \in Nat /\ MaxFaults \in Nat
  /\ WebLocks \in BOOLEAN /\ IsFiniteSet(Requests)
  /\ Kinds \subseteq {"restore", "login", "logout", "call", "end", "change",
                      "delete", "reset"}
ASSUME NoneAssumption == None \notin Tabs \cup Ids \cup Requests

-----------------------------------------------------------------------------
Token == [id : Ids, secret : Nat]
Row == [state : {"absent", "live", "revoked", "deleted"},
        secret : Nat, under : Nat]
Stages == {"idle", "queued", "sent", "matched", "reused", "compared", "running",
           "done", "denied", "waiting"}
Request ==
  [kind : {"none", "refresh", "login", "logout", "call", "end", "change",
           "delete", "reset"},
   tab : Tabs \cup {None},       \* who waits for the answer
   stage : Stages,
   token : Token \cup {None},    \* the cookie it carries
   answer : Token \cup {None},   \* the cookie its answer sets
   sid : Ids \cup {None},        \* the session of its access token
   target : Ids \cup {None},     \* the session it ends
   typed : Nat,                  \* the password entered or found
   again : BOOLEAN,              \* repeated after a refresh
   ran : Nat,                    \* how often its handler took effect
   snap : SUBSET Ids,            \* live sessions its transaction sees
   stale : BOOLEAN]              \* a row of its transaction was changed since

Idle == [kind |-> "none", tab |-> None, stage |-> "idle", token |-> None,
         answer |-> None, sid |-> None, target |-> None, typed |-> 0, again |-> FALSE,
         ran |-> 0, snap |-> {}, stale |-> FALSE]

Live == {s \in DOMAIN rows : rows[s].state = "live"}
Free(r) == req[r].stage = "idle"
At(r, kind, stage) == req[r].kind = kind /\ req[r].stage = stage

\* The values the variables take: rows, requests and answers of the right shape.
TypeOK ==
  /\ rows \in [Ids -> Row]
  /\ hash \in Nat /\ deleted \in BOOLEAN
  /\ cookie \in Token \cup {None}
  /\ access \in [Tabs -> Ids \cup {None}]
  /\ promise \in [Tabs -> Requests \cup {None}]
  /\ lock \in Requests \cup {None}
  /\ req \in [Requests -> Request]
  /\ refreshes \in Nat /\ faults \in Nat

\* The requests after r moves on to new and its transaction wrote the given
\* rows: a serializable transaction that wants one of them will conflict.
After(r, new, written) ==
  [q \in Requests |->
     IF q = r THEN new
     ELSE IF req[q].stage = "running" /\ written \cap ({"user"} \cup req[q].snap) # {}
          THEN [req[q] EXCEPT !.stale = TRUE]
     ELSE req[q]]
Goto(r, stage) == req' = [req EXCEPT ![r].stage = stage]
\* Nothing but the request itself changes.
bounds == <<refreshes, faults>>
Local == UNCHANGED server /\ UNCHANGED browser /\ UNCHANGED bounds

-----------------------------------------------------------------------------
(* Refreshing: AuthClient.refresh and SessionService.rotate. *)

NewRefresh(t) == [Idle EXCEPT !.kind = "refresh", !.tab = t, !.stage = "queued"]

\* A loaded page restores its session.
Restore(t, r) ==
  /\ "restore" \in Kinds /\ Free(r)
  /\ access[t] = None /\ promise[t] = None
  /\ refreshes < MaxRefreshes /\ refreshes' = refreshes + 1
  /\ req' = [req EXCEPT ![r] = NewRefresh(t)]
  /\ promise' = [promise EXCEPT ![t] = r]
  /\ UNCHANGED server /\ UNCHANGED <<cookie, access, lock, faults>>

\* Faulty variant: only the refreshes of one tab are kept apart.
Unlocked == TRUE
\* One refresh of all tabs at a time, in a browser with Web Locks.
MayRefresh == WebLocks => lock = None

\* performRefresh: the request leaves with the cookie of this moment.
SendRefresh(r) ==
  /\ At(r, "refresh", "queued") /\ MayRefresh
  /\ lock' = IF WebLocks THEN r ELSE lock
  /\ req' = [req EXCEPT ![r].stage = "sent", ![r].token = cookie]
  /\ UNCHANGED server /\ UNCHANGED <<cookie, access, promise>> /\ UNCHANGED bounds

\* rotate() finds the session, and whether the secret is its current one.
FindSession(r) ==
  LET t == req[r].token IN
  /\ At(r, "refresh", "sent")
  /\ IF t = None \/ deleted THEN Goto(r, "denied")
     ELSE IF rows[t.id].state # "live" THEN Goto(r, "denied")
     ELSE IF rows[t.id].secret # t.secret THEN Goto(r, "reused")
     ELSE Goto(r, "matched")
  /\ Local

\* Faulty variant: the update does not look at the secret again.
StillLive(t) == rows[t.id].state = "live"
StillCurrent(t) == rows[t.id].state = "live" /\ rows[t.id].secret = t.secret

Rotate(r) ==
  LET t == req[r].token
      next == [id |-> t.id, secret |-> rows[t.id].secret + 1] IN
  /\ At(r, "refresh", "matched")
  /\ IF StillCurrent(t)
     THEN /\ rows' = [rows EXCEPT ![t.id].secret = next.secret]
          /\ req' = After(r, [req[r] EXCEPT !.stage = "done", !.answer = next], {t.id})
     ELSE /\ Goto(r, "reused")
          /\ UNCHANGED rows
  /\ UNCHANGED <<hash, deleted, refreshes, faults>> /\ UNCHANGED browser

Revoked(ids) == [s \in Ids |-> IF s \in ids /\ rows[s].state = "live"
                               THEN [rows[s] EXCEPT !.state = "revoked"]
                               ELSE rows[s]]

\* A secret that is not the current one revokes the session.
RevokeReused(r) ==
  LET s == req[r].token.id IN
  /\ At(r, "refresh", "reused")
  /\ rows' = Revoked({s})
  /\ req' = After(r, [req[r] EXCEPT !.stage = "denied"], {s} \cap Live)
  /\ UNCHANGED <<hash, deleted, refreshes, faults>> /\ UNCHANGED browser

\* RefreshCookieService.write, and the browser that stores it.
CookieWritten(r) == req[r].answer
\* setSession: the session the answered access token is bound to.
SessionOf(r) == req[r].answer.id

\* The requests of tab t that await its refresh go on, or fail.
Waiting(q, t) == req[q].stage = "waiting" /\ req[q].tab = t
Resumed(r, t, sid) ==
  [q \in Requests |->
     IF q = r THEN Idle
     ELSE IF ~Waiting(q, t) THEN req[q]
     ELSE IF sid = None THEN Idle
     ELSE [req[q] EXCEPT !.stage = "sent", !.again = TRUE, !.sid = sid]]
\* Faulty variant: the promise of a failed refresh is kept.
Kept(t) == promise
Settled(t) == [promise EXCEPT ![t] = None]
Failed(t) == Settled(t)
Released(r) == IF lock = r THEN None ELSE lock

RefreshArrives(r) ==
  LET t == req[r].tab IN
  /\ At(r, "refresh", "done") /\ t # None
  /\ cookie' = CookieWritten(r)
  /\ access' = [access EXCEPT ![t] = SessionOf(r)]
  /\ req' = Resumed(r, t, SessionOf(r))
  /\ promise' = Settled(t) /\ lock' = Released(r)
  /\ UNCHANGED server /\ UNCHANGED bounds

RefreshDenied(r) ==
  LET t == req[r].tab IN
  /\ At(r, "refresh", "denied") /\ t # None
  /\ access' = [access EXCEPT ![t] = None]
  /\ req' = Resumed(r, t, None)
  /\ promise' = Settled(t) /\ lock' = Released(r)
  /\ UNCHANGED server /\ UNCHANGED cookie /\ UNCHANGED bounds

\* The request or the answer is lost, or the server fails: performRefresh
\* throws, and everyone who awaited it fails.
RefreshLost(r) ==
  LET t == req[r].tab IN
  /\ req[r].kind = "refresh" /\ req[r].stage # "queued" /\ t # None
  /\ faults < MaxFaults /\ faults' = faults + 1
  /\ req' = Resumed(r, t, None)
  /\ promise' = Failed(t) /\ lock' = Released(r)
  /\ UNCHANGED server /\ UNCHANGED <<cookie, access, refreshes>>

\* The page is loaded anew: its variables, its promises and its lock go, and
\* what it sent keeps running on the server.
Reload(t) ==
  /\ faults < MaxFaults /\ faults' = faults + 1
  /\ access' = [access EXCEPT ![t] = None]
  /\ promise' = [promise EXCEPT ![t] = None]
  /\ lock' = IF lock # None /\ req[lock].tab = t THEN None ELSE lock
  /\ req' = [q \in Requests |->
               IF req[q].tab # t THEN req[q]
               ELSE IF req[q].stage \in {"queued", "waiting", "denied"} THEN Idle
               ELSE [req[q] EXCEPT !.tab = None]]
  /\ UNCHANGED server /\ UNCHANGED <<cookie, refreshes>>

\* An answer nobody waits for; the browser may still keep its cookie.
Unclaimed(r) ==
  /\ req[r].stage \in {"done", "denied"} /\ req[r].tab = None
  /\ req' = [req EXCEPT ![r] = Idle]
  /\ cookie' \in IF req[r].kind \in {"refresh", "login"} /\ req[r].stage = "done"
                 THEN {cookie, req[r].answer} ELSE {cookie}
  /\ UNCHANGED server /\ UNCHANGED <<access, promise, lock>> /\ UNCHANGED bounds

-----------------------------------------------------------------------------
(* Signing in and out. *)

\* AuthService.login has found the user and compared the password.
Login(t, r) ==
  /\ "login" \in Kinds /\ Free(r) /\ ~deleted
  /\ req' = [req EXCEPT ![r] =
       [Idle EXCEPT !.kind = "login", !.tab = t, !.stage = "compared", !.typed = hash]]
  /\ Local

\* Faulty variant: the session is issued without touching the user's row.
LoginWritesSession(s) == {s}
LoginWrites(s) == {"user", s}
StillCredential(r) == ~deleted /\ hash = req[r].typed

IssueSession(r, s) ==
  /\ At(r, "login", "compared") /\ StillCredential(r)
  /\ rows[s].state = "absent"
  /\ rows' = [rows EXCEPT ![s] = [state |-> "live", secret |-> 0, under |-> req[r].typed]]
  /\ req' = After(r, [req[r] EXCEPT !.stage = "done",
                                    !.answer = [id |-> s, secret |-> 0]], LoginWrites(s))
  /\ UNCHANGED <<hash, deleted, refreshes, faults>> /\ UNCHANGED browser

LoginRefused(r) ==
  /\ At(r, "login", "compared") /\ ~StillCredential(r)
  /\ req' = [req EXCEPT ![r] = Idle] /\ Local

LoginArrives(r) ==
  /\ At(r, "login", "done") /\ req[r].tab # None
  /\ cookie' = req[r].answer
  /\ access' = [access EXCEPT ![req[r].tab] = SessionOf(r)]
  /\ req' = [req EXCEPT ![r] = Idle]
  /\ UNCHANGED server /\ UNCHANGED <<promise, lock>> /\ UNCHANGED bounds

Logout(t, r) ==
  /\ "logout" \in Kinds /\ Free(r) /\ access[t] # None
  /\ req' = [req EXCEPT ![r] =
       [Idle EXCEPT !.kind = "logout", !.tab = t, !.stage = "sent", !.token = cookie]]
  /\ Local

\* SessionService.revoke ends the session whose current token was presented.
RevokePresented(r) ==
  LET t == req[r].token
      ids == IF t # None /\ (\E s \in Live : s = t.id /\ rows[s].secret = t.secret)
             THEN {t.id} ELSE {} IN
  /\ At(r, "logout", "sent")
  /\ rows' = Revoked(ids)
  /\ req' = After(r, [req[r] EXCEPT !.stage = "done"], ids)
  /\ UNCHANGED <<hash, deleted, refreshes, faults>> /\ UNCHANGED browser

\* The answer to a request that signs out clears the cookie, and the tab
\* forgets its token.
SignsOut(r) ==
  \/ req[r].kind \in {"logout", "change", "delete"}
  \/ req[r].kind = "end" /\ req[r].target = req[r].sid

Answered(r) ==
  LET t == req[r].tab IN
  /\ req[r].kind \in {"logout", "call", "end", "change", "delete"}
  /\ req[r].stage = "done" /\ t # None
  /\ cookie' = IF SignsOut(r) THEN None ELSE cookie
  /\ access' = IF SignsOut(r) THEN [access EXCEPT ![t] = None] ELSE access
  /\ req' = [req EXCEPT ![r] = Idle]
  /\ UNCHANGED server /\ UNCHANGED <<promise, lock>> /\ UNCHANGED bounds

\* logout() forgets the token even if the request failed; nothing is repeated.
Dropped(r) == Idle

RequestLost(r) ==
  /\ req[r].kind \notin {"none", "refresh", "reset"}
  /\ req[r].stage # "waiting" /\ req[r].tab # None
  /\ faults < MaxFaults /\ faults' = faults + 1
  /\ access' = IF req[r].kind = "logout"
               THEN [access EXCEPT ![req[r].tab] = None] ELSE access
  /\ req' = [req EXCEPT ![r] = Dropped(r)]
  /\ UNCHANGED server /\ UNCHANGED <<cookie, promise, lock, refreshes>>

-----------------------------------------------------------------------------
(* Authorized requests: AuthClient.request, AuthGuard and their handlers. *)

Authorized == {"call", "end", "change", "delete"}

Ask(t, r, kind, target) ==
  /\ kind \in Authorized \cap Kinds /\ Free(r) /\ access[t] # None
  /\ (kind = "end") <=> (target # None)
  /\ kind = "change" => hash < MaxHash
  /\ req' = [req EXCEPT ![r] =
       [Idle EXCEPT !.kind = kind, !.tab = t, !.stage = "sent", !.sid = access[t],
                    !.target = target, !.typed = hash]]
  /\ Local

\* The session of the access token is live and its user is not deleted.
Admitted(r) == req[r].kind \in Authorized /\ req[r].stage = "sent"
               /\ req[r].sid \in Live /\ ~deleted

\* A 401: the access token has expired, its session ended, or the password
\* entered is not the current one.
Deny(r) ==
  /\ \/ req[r].kind \in Authorized /\ req[r].stage = "sent"
     \/ At(r, "change", "compared") /\ ~StillCredential(r)
  /\ Goto(r, "denied") /\ Local

Run(r) ==
  /\ Admitted(r) /\ req[r].kind = "call"
  /\ req' = [req EXCEPT ![r].stage = "done", ![r].ran = @ + 1]
  /\ Local

\* SessionService.revokeOwned.
EndSession(r) ==
  LET s == req[r].target IN
  /\ Admitted(r) /\ req[r].kind = "end" /\ rows[s].state # "absent"
  /\ rows' = Revoked({s})
  /\ req' = After(r, [req[r] EXCEPT !.stage = "done"], {s})
  /\ UNCHANGED <<hash, deleted, refreshes, faults>> /\ UNCHANGED browser

\* The current password is read and compared before the transaction.
Compare(r) ==
  /\ Admitted(r) /\ req[r].kind \in {"change", "delete"} /\ req[r].typed = hash
  /\ Goto(r, "compared") /\ Local

\* Every live session of the user is ended with the password.
Ended(r) == Live

ChangePassword(r) ==
  /\ At(r, "change", "compared") /\ StillCredential(r)
  /\ hash' = hash + 1
  /\ rows' = Revoked(Ended(r))
  /\ req' = After(r, [req[r] EXCEPT !.stage = "done"], {"user"} \cup Live)
  /\ UNCHANGED <<deleted, refreshes, faults>> /\ UNCHANGED browser

\* AuthClient.request: a 401 is answered by one refresh, shared by the
\* requests of the tab, and one repetition.
Retry(r) ==
  LET t == req[r].tab IN
  /\ req[r].kind \in Authorized /\ req[r].stage = "denied" /\ t # None
  /\ ~req[r].again /\ access[t] # None
  /\ IF promise[t] # None
     THEN Goto(r, "waiting") /\ UNCHANGED <<promise, refreshes>>
     ELSE /\ refreshes < MaxRefreshes /\ refreshes' = refreshes + 1
          /\ \E q \in Requests :
               /\ Free(q)
               /\ req' = [req EXCEPT ![r].stage = "waiting", ![q] = NewRefresh(t)]
               /\ promise' = [promise EXCEPT ![t] = q]
  /\ UNCHANGED server /\ UNCHANGED <<cookie, access, lock, faults>>

GiveUp(r) ==
  /\ req[r].kind \in Authorized /\ req[r].stage = "denied" /\ req[r].tab # None
  /\ req[r].again \/ access[req[r].tab] = None
  /\ req' = [req EXCEPT ![r] = Idle] /\ Local

-----------------------------------------------------------------------------
(* Password reset by mail, and deletion: SERIALIZABLE transactions. *)

StartReset(r) ==
  /\ "reset" \in Kinds /\ Free(r) /\ ~deleted /\ hash < MaxHash
  /\ req' = [req EXCEPT ![r] =
       [Idle EXCEPT !.kind = "reset", !.stage = "running", !.snap = Live]]
  /\ Local

StartDeletion(r) ==
  /\ At(r, "delete", "compared")
  /\ req' = [req EXCEPT ![r].stage = "running", ![r].snap = Live]
  /\ Local

ConfirmReset(r) ==
  /\ At(r, "reset", "running") /\ ~req[r].stale
  /\ hash' = hash + 1
  /\ rows' = Revoked(req[r].snap)
  /\ req' = After(r, [req[r] EXCEPT !.stage = "done"], {"user"} \cup req[r].snap)
  /\ UNCHANGED <<deleted, refreshes, faults>> /\ UNCHANGED browser

\* AuthService.deleteCurrentUser, for a user who is not the only owner.
DeleteUser(r) ==
  /\ At(r, "delete", "running") /\ ~req[r].stale
  /\ deleted' = TRUE
  /\ rows' = [s \in Ids |-> IF s \in req[r].snap
                            THEN [rows[s] EXCEPT !.state = "deleted"] ELSE rows[s]]
  /\ req' = After(r, [req[r] EXCEPT !.stage = "done"], {"user"} \cup req[r].snap)
  /\ UNCHANGED <<hash, refreshes, faults>> /\ UNCHANGED browser

\* A conflict, or a refusal; nothing is written.
Abort(r) ==
  /\ req[r].stage = "running"
  /\ req' = [req EXCEPT ![r] = Idle] /\ Local

-----------------------------------------------------------------------------
Init ==
  /\ rows = [s \in Ids |-> [state |-> "absent", secret |-> 0, under |-> 0]]
  /\ hash = 0 /\ deleted = FALSE
  /\ cookie = None
  /\ access = [t \in Tabs |-> None]
  /\ promise = [t \in Tabs |-> None]
  /\ lock = None
  /\ req = [r \in Requests |-> Idle]
  /\ refreshes = 0 /\ faults = 0

Next ==
  \/ \E t \in Tabs : Reload(t)
  \/ \E t \in Tabs, r \in Requests :
       \/ Restore(t, r) \/ Login(t, r) \/ Logout(t, r)
       \/ \E kind \in Authorized, s \in Ids \cup {None} : Ask(t, r, kind, s)
  \/ \E r \in Requests :
       \/ SendRefresh(r) \/ FindSession(r) \/ Rotate(r) \/ RevokeReused(r)
       \/ RefreshArrives(r) \/ RefreshDenied(r) \/ RefreshLost(r)
       \/ Unclaimed(r) \/ RequestLost(r) \/ Answered(r)
       \/ \E s \in Ids : IssueSession(r, s)
       \/ LoginRefused(r) \/ LoginArrives(r) \/ RevokePresented(r)
       \/ Deny(r) \/ Run(r) \/ EndSession(r) \/ Compare(r) \/ ChangePassword(r)
       \/ Retry(r) \/ GiveUp(r)
       \/ StartReset(r) \/ StartDeletion(r) \/ ConfirmReset(r) \/ DeleteUser(r)
       \/ Abort(r)

Spec == Init /\ [][Next]_vars

\* A handler goes on, fetch answers, and the lock is granted in turn.
Proceeds(r) ==
  \/ FindSession(r) \/ Rotate(r) \/ RevokeReused(r)
  \/ RefreshArrives(r) \/ RefreshDenied(r)
FairSpec == Spec /\ \A r \in Requests : WF_vars(Proceeds(r)) /\ SF_vars(SendRefresh(r))

-----------------------------------------------------------------------------
(* Properties. *)

\* A session that still works was opened with the password of today, however
\* sign-ins overlap changes, resets and deletions.
LiveUnderCurrentPassword ==
  \A s \in Live : rows[s].under = hash /\ ~deleted

\* A refresh token is exchanged once: two refreshes that are both answered
\* with a new token did not present the same one.
ExchangedOnce ==
  \A q, r \in Requests :
    /\ At(q, "refresh", "done") /\ At(r, "refresh", "done") /\ q # r
    => req[q].token # req[r].token

\* Tabs that share Web Locks, and lose no answer, are never taken for someone
\* who replays an old token: no refresh ends a session.
Undisturbed == \A r \in Requests : RevokeReused(r) => rows' = rows

\* A tab never waits forever for a refresh, whichever tab is reloaded or loses
\* an answer while it holds the lock.
RefreshSettles == \A t \in Tabs : promise[t] # None ~> promise[t] = None

=============================================================================
