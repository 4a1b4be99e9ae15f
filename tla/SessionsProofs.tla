---------------------------- MODULE SessionsProofs ----------------------------
(***************************************************************************)
(* Whatever sign-ins, refreshes, changes and resets of the password, and   *)
(* the deletion of the account overlap, a session that still works was     *)
(* opened with the password of today, and a refresh token is exchanged     *)
(* once: for every set of tabs, sessions and requests, with or without Web *)
(* Locks.  Two facts carry it:                                             *)
(*   - a transaction that was not overtaken sees every session that lives, *)
(*     so the reset or deletion that commits ends them all;                *)
(*   - a refresh that was answered presented a secret older than the one   *)
(*     of its row, and the secret of a row only grows, so no later refresh *)
(*     finds that secret current.                                          *)
(* In a browser with Web Locks that loses no request, answer or page, no   *)
(* refresh ends a session either: the refresh that holds the lock has the  *)
(* current token of its session, and the cookie is behind its row only     *)
(* while that refresh is on its way.                                       *)
(***************************************************************************)
EXTENDS Sessions, TLAPS

\* A request that was answered with a new refresh token.
IssuesToken(q) == q.kind \in {"refresh", "login"} /\ q.stage = "done"
\* A refresh that has read the token the browser presented.
Presented(q) == q.kind = "refresh" /\ q.stage \in {"matched", "reused", "done"}

\* What a request knows of the tokens and sessions it deals with.
GoodRequest(q) ==
  /\ q \in Request
  /\ IssuesToken(q) => q.answer \in Token
  /\ Presented(q) => q.token \in Token
  /\ q.stage = "running" /\ ~q.stale => Live \subseteq q.snap
  /\ q.kind = "refresh" /\ q.stage = "done" =>
       rows[q.token.id].state # "absent" /\ rows[q.token.id].secret > q.token.secret

\* The inductive invariant.
SessionsInv ==
  /\ TypeOK
  /\ \A r \in Requests : GoodRequest(req[r])
  /\ LiveUnderCurrentPassword
  /\ ExchangedOnce

\* A request that is not in progress knows nothing.
LEMMA IdleIsGood == GoodRequest(Idle) /\ Idle \in Request
BY DEF GoodRequest, Idle, Request, Stages, IssuesToken, Presented

\* A request stays one when the handlers change its fields.
LEMMA RequestFields ==
  ASSUME NEW q \in Request
  PROVE  /\ \A s \in Stages : [q EXCEPT !.stage = s] \in Request
         /\ \A s \in Stages, t \in Token \cup {None} : [q EXCEPT !.stage = s, !.token = t] \in Request
         /\ \A s \in Stages, t \in Token \cup {None} : [q EXCEPT !.stage = s, !.answer = t] \in Request
         /\ [q EXCEPT !.tab = None] \in Request
         /\ [q EXCEPT !.stale = TRUE] \in Request
         /\ \A s \in Stages, ids \in SUBSET Ids : [q EXCEPT !.stage = s, !.snap = ids] \in Request
         /\ \A s \in Stages, i \in Ids : [q EXCEPT !.stage = s, !.again = TRUE, !.sid = i] \in Request
         /\ \A s \in Stages : [q EXCEPT !.stage = s, !.ran = @ + 1] \in Request
<1>1. \A s \in Stages : [q EXCEPT !.stage = s] \in Request
  BY DEF Request
<1>2. \A s \in Stages, t \in Token \cup {None} : [q EXCEPT !.stage = s, !.token = t] \in Request
  BY DEF Request
<1>3. \A s \in Stages, t \in Token \cup {None} : [q EXCEPT !.stage = s, !.answer = t] \in Request
  BY DEF Request
<1>4. [q EXCEPT !.tab = None] \in Request
  BY DEF Request
<1>5. [q EXCEPT !.stale = TRUE] \in Request
  BY DEF Request
<1>6. \A s \in Stages, ids \in SUBSET Ids : [q EXCEPT !.stage = s, !.snap = ids] \in Request
  BY DEF Request
<1>7. \A s \in Stages, i \in Ids : [q EXCEPT !.stage = s, !.again = TRUE, !.sid = i] \in Request
  BY DEF Request
<1>8. \A s \in Stages : [q EXCEPT !.stage = s, !.ran = @ + 1] \in Request
  <2>1. q.ran + 1 \in Nat
    BY DEF Request
  <2>2. \A n \in Nat, s \in Stages : [q EXCEPT !.stage = s, !.ran = n] \in Request
    BY DEF Request
  <2> QED
    BY <2>1, <2>2
<1> QED
  BY <1>1, <1>2, <1>3, <1>4, <1>5, <1>6, <1>7, <1>8
-----------------------------------------------------------------------------
(* Steps that leave the rows of the server alone. *)

\* A request goes on without being answered with a new token.
Moves(old, new) ==
  /\ GoodRequest(new)
  /\ new.kind = "refresh" /\ new.stage = "done" =>
       old.kind = "refresh" /\ old.stage = "done" /\ new.token = old.token

\* A request that is left alone moves.
LEMMA StandsStill == ASSUME NEW q, GoodRequest(q) PROVE Moves(q, q)
BY DEF Moves

\* So does one that is over,
LEMMA BecomesIdle == ASSUME NEW q PROVE Moves(q, Idle)
BY IdleIsGood DEF Moves, Idle

\* one that reaches a stage without an answer or a snapshot,
LEMMA GoesTo ==
  ASSUME NEW q, GoodRequest(q), NEW s \in Stages \ {"done", "running"},
         q.kind = "refresh" /\ s \in {"matched", "reused"} => q.token \in Token
  PROVE  Moves(q, [q EXCEPT !.stage = s])
<1> DEFINE n == [q EXCEPT !.stage = s]
<1>1. q \in Request
  BY DEF GoodRequest
<1>2. n \in Request
  BY <1>1, RequestFields
<1>3. n.stage = s /\ n.kind = q.kind /\ n.token = q.token
  BY <1>1 DEF Request
<1>4. Moves(q, n)
  <2> HIDE DEF n
  <2> QED
    BY <1>2, <1>3 DEF Moves, GoodRequest, IssuesToken, Presented
<1> QED
  BY <1>4

\* and one that is sent.
LEMMA NewIsGood ==
  ASSUME NEW q \in Request,
         q.stage \in {"queued", "compared", "sent", "waiting", "denied"},
         NEW old
  PROVE  Moves(old, q)
BY DEF Moves, GoodRequest, IssuesToken, Presented

\* A step that writes no row, and lets every request move, keeps the invariant.
LEMMA QuietKeeps ==
  ASSUME SessionsInv, UNCHANGED server,
         req' = [r \in Requests |-> req'[r]],
         \A r \in Requests : Moves(req[r], req'[r]),
         cookie' \in Token \cup {None},
         access' \in [Tabs -> Ids \cup {None}],
         promise' \in [Tabs -> Requests \cup {None}],
         lock' \in Requests \cup {None},
         refreshes' \in Nat, faults' \in Nat
  PROVE  SessionsInv'
<1>0. rows' = rows /\ hash' = hash /\ deleted' = deleted
  BY DEF server
<1>1. \A r \in Requests : GoodRequest(req[r])'
  BY <1>0 DEF Moves, GoodRequest, IssuesToken, Presented, Live
<1>2. \A r \in Requests : req'[r] \in Request
  BY DEF Moves, GoodRequest
<1>3. TypeOK'
  BY <1>0, <1>2 DEF TypeOK, SessionsInv
<1>4. LiveUnderCurrentPassword'
  BY <1>0 DEF LiveUnderCurrentPassword, Live, SessionsInv
<1>5. ExchangedOnce'
  BY DEF ExchangedOnce, At, SessionsInv, Moves
<1> QED
  BY <1>1, <1>3, <1>4, <1>5 DEF SessionsInv

\* A step of one request, within the server.
LEMMA LocalKeeps ==
  ASSUME SessionsInv, Local, NEW r \in Requests, NEW new, Moves(req[r], new),
         req' = [req EXCEPT ![r] = new]
  PROVE  SessionsInv'
<1>1. \A q \in Requests : Moves(req[q], req'[q])
  BY StandsStill DEF SessionsInv, TypeOK
<1> QED
  BY <1>1, QuietKeeps DEF Local, browser, bounds, SessionsInv, TypeOK

-----------------------------------------------------------------------------
(* Steps that write rows. *)

\* A step of one request that writes rows keeps the invariant when the rows
\* keep their secrets or grow them, sessions live under the hash of that step,
\* and every transaction that could not see a change is marked as overtaken.
LEMMA ServerKeeps ==
  ASSUME SessionsInv, NEW r \in Requests, NEW new, NEW written,
         req' = After(r, new, written),
         UNCHANGED browser, UNCHANGED bounds,
         rows' \in [Ids -> Row], hash' \in Nat, deleted' \in BOOLEAN,
         \A s \in Ids : rows[s].state # "absent" =>
           rows'[s].state # "absent" /\ rows'[s].secret >= rows[s].secret,
         \A s \in Ids : rows'[s].state = "live" =>
           rows[s].state = "live" \/ "user" \in written,
         new \in Request, IssuesToken(new) => new.answer \in Token,
         Presented(new) => new.token \in Token, new.stage # "running",
         new.kind = "refresh" /\ new.stage = "done" =>
           /\ rows'[new.token.id].state # "absent"
           /\ rows'[new.token.id].secret > new.token.secret
           /\ \A q \in Requests \ {r} : At(q, "refresh", "done") => req[q].token # new.token,
         LiveUnderCurrentPassword'
  PROVE  SessionsInv'
<1>1. req'[r] = new
  BY DEF After
<1>2. ASSUME NEW q \in Requests, q # r
      PROVE  \/ req'[q] = req[q] /\ (req[q].stage = "running" => "user" \notin written)
             \/ req'[q] = [req[q] EXCEPT !.stale = TRUE]
  BY <1>2 DEF After
<1>3. ASSUME NEW q \in Requests, q # r
      PROVE  /\ req'[q] \in Request /\ req'[q].kind = req[q].kind /\ req'[q].stage = req[q].stage
             /\ req'[q].token = req[q].token /\ req'[q].answer = req[q].answer
             /\ req'[q].snap = req[q].snap
             /\ req[q].stage = "running" /\ ~req'[q].stale => ~req[q].stale /\ "user" \notin written
  <2>1. req[q] \in Request
    BY DEF SessionsInv, TypeOK
  <2>2. CASE req'[q] = req[q] /\ (req[q].stage = "running" => "user" \notin written)
    BY <2>1, <2>2
  <2>3. CASE req'[q] = [req[q] EXCEPT !.stale = TRUE]
    <3>1. req'[q] \in Request
      BY <2>1, <2>3, RequestFields
    <3> QED
      BY <2>1, <2>3, <3>1 DEF Request
  <2> QED
    BY <1>2, <1>3, <2>2, <2>3
<1>4. \A s \in Ids : rows[s] \in Row /\ rows'[s] \in Row
  BY DEF SessionsInv, TypeOK
<1>5. ASSUME NEW q \in Requests PROVE GoodRequest(req[q])'
  <2>1. CASE q = r
    BY <1>1, <2>1 DEF GoodRequest, IssuesToken, Presented
  <2>2. CASE q # r
    <3>1. GoodRequest(req[q])
      BY DEF SessionsInv
    <3>2. req'[q].stage = "running" /\ ~req'[q].stale => Live' \subseteq req'[q].snap
      <4>1. SUFFICES ASSUME req'[q].stage = "running", ~req'[q].stale, NEW s \in Live'
                     PROVE  s \in req'[q].snap
        OBVIOUS
      <4>2. s \in Ids /\ rows'[s].state = "live"
        BY DEF Live
      <4>3. "user" \notin written /\ ~req[q].stale /\ req[q].stage = "running"
        BY <1>3, <2>2, <4>1
      <4>4. s \in Live
        BY <4>2, <4>3 DEF Live, SessionsInv, TypeOK
      <4> QED
        BY <1>3, <2>2, <3>1, <4>3, <4>4 DEF GoodRequest
    <3>3. ASSUME req'[q].kind = "refresh", req'[q].stage = "done"
          PROVE  /\ rows'[req'[q].token.id].state # "absent"
                 /\ rows'[req'[q].token.id].secret > req'[q].token.secret
      <4>1. req[q].kind = "refresh" /\ req[q].stage = "done" /\ req'[q].token = req[q].token
        BY <1>3, <2>2, <3>3
      <4>2. PICK t \in Token : t = req[q].token
        BY <3>1, <4>1 DEF GoodRequest, Presented
      <4>3. t.id \in Ids /\ t.secret \in Nat
        BY DEF Token
      <4>4. rows[t.id].state # "absent" /\ rows[t.id].secret > t.secret
        BY <3>1, <4>1, <4>2 DEF GoodRequest
      <4>5. rows'[t.id].state # "absent" /\ rows'[t.id].secret >= rows[t.id].secret
        BY <4>3, <4>4
      <4>6. rows'[t.id].secret \in Nat /\ rows[t.id].secret \in Nat
        BY <1>4, <4>3 DEF Row
      <4>7. rows'[t.id].secret > t.secret
        BY <4>3, <4>4, <4>5, <4>6
      <4> QED
        BY <4>1, <4>2, <4>5, <4>7
    <3> QED
      BY <1>3, <2>2, <3>1, <3>2, <3>3 DEF GoodRequest, IssuesToken, Presented
  <2> QED
    BY <2>1, <2>2
<1>6. TypeOK'
  <2>1. req' \in [Requests -> Request]
    BY <1>1, <1>3 DEF After
  <2> QED
    BY <2>1 DEF TypeOK, SessionsInv, browser, bounds
<1>7. ExchangedOnce'
  <2>1. \A q \in Requests : q # r /\ At(q, "refresh", "done")' => At(q, "refresh", "done")
    BY <1>3 DEF At
  <2>2. ASSUME NEW p \in Requests, NEW q \in Requests, p # q,
               At(p, "refresh", "done")', At(q, "refresh", "done")'
        PROVE  req'[p].token # req'[q].token
    <3>1. CASE p # r /\ q # r
      BY <1>3, <2>1, <2>2, <3>1 DEF SessionsInv, ExchangedOnce
    <3>2. CASE p = r
      BY <1>1, <1>3, <2>1, <2>2, <3>2 DEF At
    <3>3. CASE q = r
      BY <1>1, <1>3, <2>1, <2>2, <3>3 DEF At
    <3> QED
      BY <3>1, <3>2, <3>3
  <2> QED
    BY <2>2 DEF ExchangedOnce
<1> QED
  BY <1>5, <1>6, <1>7 DEF SessionsInv

\* What the tabs send is made of the idle request: well typed, and new.
LEMMA NewRefreshes ==
  ASSUME NEW t \in Tabs
  PROVE  NewRefresh(t) \in Request /\ NewRefresh(t).stage = "queued"
<1>1. NewRefresh(t) \in Request
  BY DEF NewRefresh, Idle, Request, Stages
<1>2. NewRefresh(t).stage = "queued"
  BY DEF NewRefresh, Idle
<1> QED
  BY <1>1, <1>2

\* A sign-in is sent with the password that was typed.
LEMMA NewLogins ==
  ASSUME NEW t \in Tabs, NEW h \in Nat
  PROVE  LET q == [Idle EXCEPT !.kind = "login", !.tab = t, !.stage = "compared", !.typed = h]
         IN  q \in Request /\ q.stage = "compared"
<1>1. [Idle EXCEPT !.kind = "login", !.tab = t, !.stage = "compared", !.typed = h] \in Request
  BY IdleIsGood DEF Request, Stages
<1>2. [Idle EXCEPT !.kind = "login", !.tab = t, !.stage = "compared", !.typed = h].stage
        = "compared"
  BY DEF Idle
<1> QED
  BY <1>1, <1>2

\* A sign-out is sent with the cookie.
LEMMA NewLogouts ==
  ASSUME NEW t \in Tabs, NEW c \in Token \cup {None}
  PROVE  LET q == [Idle EXCEPT !.kind = "logout", !.tab = t, !.stage = "sent", !.token = c]
         IN  q \in Request /\ q.stage = "sent"
<1>1. [Idle EXCEPT !.kind = "logout", !.tab = t, !.stage = "sent", !.token = c] \in Request
  BY IdleIsGood DEF Request, Stages
<1>2. [Idle EXCEPT !.kind = "logout", !.tab = t, !.stage = "sent", !.token = c].stage = "sent"
  BY DEF Idle
<1> QED
  BY <1>1, <1>2

\* A request that carries an access token.
NewCall(t, k, i, s, h) ==
  [Idle EXCEPT !.kind = k, !.tab = t, !.stage = "sent", !.sid = i, !.target = s, !.typed = h]

\* Its fields are those the tab sends.
LEMMA NewCalls ==
  ASSUME NEW t \in Tabs, NEW k \in Authorized, NEW i \in Ids \cup {None},
         NEW s \in Ids \cup {None}, NEW h \in Nat
  PROVE  NewCall(t, k, i, s, h) \in Request /\ NewCall(t, k, i, s, h).stage = "sent"
<1>1. NewCall(t, k, i, s, h) \in Request
  <2>1. k \in {"none", "refresh", "login", "logout", "call", "end", "change", "delete", "reset"}
    BY DEF Authorized
  <2>2. "sent" \in Stages
    BY DEF Stages
  <2> QED
    BY <2>1, <2>2, IdleIsGood DEF Request, NewCall
<1>2. NewCall(t, k, i, s, h).stage = "sent"
  BY DEF Idle, NewCall
<1> QED
  BY <1>1, <1>2

\* The steps of a request that only changes its stage, or begins, or is over.
LEMMA OwnSteps ==
  ASSUME SessionsInv, NEW r \in Requests,
         \/ FindSession(r) \/ LoginRefused(r) \/ Deny(r) \/ Run(r) \/ Compare(r)
         \/ GiveUp(r) \/ StartReset(r) \/ StartDeletion(r) \/ Abort(r)
         \/ \E t \in Tabs : Login(t, r) \/ Logout(t, r)
         \/ \E t \in Tabs, kind \in Authorized, s \in Ids \cup {None} : Ask(t, r, kind, s)
  PROVE  SessionsInv'
<1>0. GoodRequest(req[r]) /\ req[r] \in Request
  BY DEF SessionsInv, TypeOK
<1>1. CASE FindSession(r)
  <2>1. PICK s \in {"denied", "reused", "matched"} :
          Goto(r, s) /\ (s # "denied" => req[r].token # None)
    BY <1>1 DEF FindSession
  <2>2. s # "denied" => req[r].token \in Token
    BY <1>0, <2>1 DEF Request
  <2>3. Moves(req[r], [req[r] EXCEPT !.stage = s])
    BY <1>0, <2>2, GoesTo DEF Stages
  <2> QED
    BY <1>1, <2>1, <2>3, LocalKeeps DEF FindSession, Goto
<1>2. CASE LoginRefused(r) \/ GiveUp(r) \/ Abort(r)
  BY <1>2, BecomesIdle, LocalKeeps DEF LoginRefused, GiveUp, Abort
<1>3. CASE Deny(r) \/ Compare(r)
  <2>1. PICK s \in {"denied", "compared"} : Goto(r, s) /\ Local
    BY <1>3 DEF Deny, Compare
  <2>2. Moves(req[r], [req[r] EXCEPT !.stage = s])
    BY <1>0, GoesTo DEF Stages
  <2> QED
    BY <2>1, <2>2, LocalKeeps DEF Goto
<1>4. CASE Run(r)
  <2> DEFINE new == [req[r] EXCEPT !.stage = "done", !.ran = @ + 1]
  <2>0. "done" \in Stages
    BY DEF Stages
  <2>a. new \in Request
    BY <1>0, <2>0, RequestFields
  <2>b. req[r].kind = "call"
    BY <1>4 DEF Run
  <2>c. new.kind = req[r].kind /\ new.stage = "done"
    BY <1>0 DEF Request
  <2>1. new \in Request /\ new.kind = "call" /\ new.stage = "done"
    BY <2>a, <2>b, <2>c
  <2>2. Moves(req[r], new)
    <3> HIDE DEF new
    <3> QED
      BY <2>1 DEF Moves, GoodRequest, IssuesToken, Presented
  <2>3. req' = [req EXCEPT ![r] = new] /\ Local
    BY <1>4 DEF Run
  <2> QED
    BY <2>2, <2>3, LocalKeeps
<1>5. CASE StartReset(r)
  <2> DEFINE new == [Idle EXCEPT !.kind = "reset", !.stage = "running", !.snap = Live]
  <2>1. new \in Request /\ new.kind = "reset" /\ new.stage = "running" /\ new.snap = Live
    BY DEF Idle, Request, Stages, Live, SessionsInv, TypeOK
  <2>2. Moves(req[r], new)
    <3> HIDE DEF new
    <3> QED
      BY <2>1 DEF Moves, GoodRequest, IssuesToken, Presented
  <2>3. req' = [req EXCEPT ![r] = new] /\ Local
    BY <1>5 DEF StartReset
  <2> QED
    BY <2>2, <2>3, LocalKeeps
<1>6. CASE StartDeletion(r)
  <2> DEFINE new == [req[r] EXCEPT !.stage = "running", !.snap = Live]
  <2>1. Live \in SUBSET Ids
    BY DEF Live, SessionsInv, TypeOK
  <2>a. "running" \in Stages
    BY DEF Stages
  <2>b. new \in Request
    BY <1>0, <2>1, <2>a, RequestFields
  <2>c. req[r].kind = "delete"
    BY <1>6 DEF StartDeletion, At
  <2>d. new.kind = req[r].kind /\ new.stage = "running" /\ new.snap = Live
    BY <1>0 DEF Request
  <2>2. new \in Request /\ new.kind = "delete" /\ new.stage = "running" /\ new.snap = Live
    BY <2>b, <2>c, <2>d
  <2>3. Moves(req[r], new)
    <3> HIDE DEF new
    <3> QED
      BY <2>2 DEF Moves, GoodRequest, IssuesToken, Presented
  <2>4. req' = [req EXCEPT ![r] = new] /\ Local
    BY <1>6 DEF StartDeletion
  <2> QED
    BY <2>3, <2>4, LocalKeeps
<1>7. CASE \E t \in Tabs : Login(t, r) \/ Logout(t, r)
  <2>1. PICK new \in Request : new.stage \in {"compared", "sent"} /\ req' = [req EXCEPT ![r] = new]
    <3>1. hash \in Nat /\ cookie \in Token \cup {None}
      BY DEF SessionsInv, TypeOK
    <3> QED
      BY <1>7, <3>1, NewLogins, NewLogouts DEF Login, Logout
  <2> QED
    BY <1>7, <2>1, NewIsGood, LocalKeeps DEF Login, Logout
<1>8. CASE \E t \in Tabs, kind \in Authorized, s \in Ids \cup {None} : Ask(t, r, kind, s)
  <2>1. PICK t \in Tabs, kind \in Authorized, s \in Ids \cup {None} : Ask(t, r, kind, s)
    BY <1>8
  <2>2. PICK new \in Request : new.stage = "sent" /\ req' = [req EXCEPT ![r] = new]
    <3>1. hash \in Nat /\ access[t] \in Ids \cup {None}
      BY DEF SessionsInv, TypeOK
    <3>2. req' = [req EXCEPT ![r] = NewCall(t, kind, access[t], s, hash)]
      BY <2>1 DEF Ask, NewCall
    <3> QED
      BY <3>1, <3>2, NewCalls
  <2> QED
    BY <2>1, <2>2, NewIsGood, LocalKeeps DEF Ask
<1> QED
  BY <1>1, <1>2, <1>3, <1>4, <1>5, <1>6, <1>7, <1>8

\* The requests that waited for a refresh are repeated, or fail.
LEMMA ResumedMoves ==
  ASSUME SessionsInv, NEW r \in Requests, NEW t, NEW sid \in Ids \cup {None},
         req' = Resumed(r, t, sid)
  PROVE  req' = [q \in Requests |-> req'[q]] /\ \A q \in Requests : Moves(req[q], req'[q])
<1>1. ASSUME NEW q \in Requests PROVE Moves(req[q], req'[q])
  <2>1. req[q] \in Request /\ GoodRequest(req[q])
    BY DEF SessionsInv, TypeOK
  <2>2. CASE req'[q] = Idle
    BY <2>2, BecomesIdle
  <2>3. CASE req'[q] = req[q]
    BY <2>1, <2>3, StandsStill
  <2>4. CASE sid \in Ids /\ req'[q] = [req[q] EXCEPT !.stage = "sent", !.again = TRUE, !.sid = sid]
    <3>1. "sent" \in Stages
      BY DEF Stages
    <3>2. [req[q] EXCEPT !.stage = "sent", !.again = TRUE, !.sid = sid] \in Request
      BY <2>1, <2>4, <3>1 DEF Request
    <3>3. req'[q].stage = "sent"
      BY <2>1, <2>4 DEF Request
    <3> QED
      BY <2>4, <3>2, <3>3, NewIsGood
  <2> QED
    BY <2>2, <2>3, <2>4 DEF Resumed
<1> QED
  BY <1>1 DEF Resumed

\* A reload drops what the tab waits for; the server goes on.
LEMMA ReloadKeeps ==
  ASSUME SessionsInv, NEW t \in Tabs, Reload(t)
  PROVE  SessionsInv'
<1>0. \A q \in Requests : GoodRequest(req[q]) /\ req[q] \in Request
  BY DEF SessionsInv, TypeOK
<1>t. TypeOK
  BY DEF SessionsInv
<1>f. faults + 1 \in Nat
  BY <1>t DEF TypeOK
<1>2. ASSUME NEW q \in Requests PROVE Moves(req[q], req'[q])
  <2>1. CASE req'[q] = req[q]
    BY <1>0, <2>1, StandsStill
  <2>2. CASE req'[q] = Idle
    BY <2>2, BecomesIdle
  <2>3. CASE req'[q] = [req[q] EXCEPT !.tab = None]
    <3>1. req[q] \in Request /\ GoodRequest(req[q])
      BY <1>0
    <3>2. req'[q] \in Request
      BY <2>3, <3>1, RequestFields
    <3>3. /\ req'[q].stage = req[q].stage /\ req'[q].kind = req[q].kind
          /\ req'[q].token = req[q].token /\ req'[q].answer = req[q].answer
          /\ req'[q].snap = req[q].snap /\ req'[q].stale = req[q].stale
      BY <2>3, <3>1 DEF Request
    <3> QED
      BY <3>1, <3>2, <3>3 DEF Moves, GoodRequest, IssuesToken, Presented
  <2> QED
    BY <2>1, <2>2, <2>3 DEF Reload
<1>3. req' = [q \in Requests |-> req'[q]]
  BY DEF Reload
<1>4. /\ access' \in [Tabs -> Ids \cup {None}]
      /\ promise' \in [Tabs -> Requests \cup {None}]
      /\ lock' \in Requests \cup {None}
  BY <1>t DEF Reload, TypeOK
<1> QED
  BY <1>t, <1>f, <1>2, <1>3, <1>4, QuietKeeps DEF Reload, TypeOK

\* The steps of the browser: what is sent, and what arrives or is lost.
LEMMA BrowserSteps ==
  ASSUME SessionsInv, NEW r \in Requests,
         \/ SendRefresh(r) \/ RefreshArrives(r) \/ RefreshDenied(r) \/ RefreshLost(r)
         \/ Unclaimed(r) \/ RequestLost(r) \/ Answered(r) \/ LoginArrives(r) \/ Retry(r)
         \/ \E t \in Tabs : Restore(t, r)
  PROVE  SessionsInv'
<1>0. \A q \in Requests : GoodRequest(req[q]) /\ req[q] \in Request
  BY DEF SessionsInv, TypeOK
<1>t. TypeOK
  BY DEF SessionsInv
<1>o. ASSUME NEW new, Moves(req[r], new), req' = [req EXCEPT ![r] = new]
      PROVE  req' = [q \in Requests |-> req'[q]] /\ \A q \in Requests : Moves(req[q], req'[q])
  BY <1>0, <1>o, <1>t, StandsStill DEF TypeOK
<1>p. \A t \in Tabs \cup {None} : Settled(t) \in [Tabs -> Requests \cup {None}]
  BY <1>t DEF TypeOK, Settled
<1>l. Released(r) \in Requests \cup {None}
  BY <1>t DEF TypeOK, Released
<1>f. faults + 1 \in Nat /\ refreshes + 1 \in Nat
  BY <1>t DEF TypeOK
<1>b. req[r].tab \in Tabs \cup {None}
  BY <1>0 DEF Request
<1>1. CASE SendRefresh(r)
  <2> DEFINE new == [req[r] EXCEPT !.stage = "sent", !.token = cookie]
  <2>1. "sent" \in Stages /\ cookie \in Token \cup {None}
    BY <1>t DEF Stages, TypeOK
  <2>2. new \in Request
    BY <1>0, <2>1 DEF Request
  <2>3. new.stage = "sent"
    BY <1>0 DEF Request
  <2>4. Moves(req[r], new)
    BY <2>2, <2>3, NewIsGood
  <2>5. req' = [req EXCEPT ![r] = new]
    BY <1>1 DEF SendRefresh
  <2>6. lock' \in Requests \cup {None}
    BY <1>1, <1>t DEF SendRefresh, TypeOK
  <2>7. req' = [q \in Requests |-> req'[q]] /\ \A q \in Requests : Moves(req[q], req'[q])
    <3> HIDE DEF new
    <3> QED
      BY <1>o, <2>4, <2>5
  <2> QED
    BY <1>1, <1>t, <2>6, <2>7, QuietKeeps DEF SendRefresh, bounds, TypeOK
<1>2. CASE RefreshArrives(r)
  <2>1. SessionOf(r) \in Ids /\ CookieWritten(r) \in Token \cup {None}
    BY <1>0, <1>2 DEF RefreshArrives, At, GoodRequest, IssuesToken, Token, SessionOf, CookieWritten
  <2>2. req' = [q \in Requests |-> req'[q]] /\ \A q \in Requests : Moves(req[q], req'[q])
    BY <1>2, <2>1, ResumedMoves DEF RefreshArrives
  <2>3. access' \in [Tabs -> Ids \cup {None}]
    BY <1>2, <1>t, <2>1 DEF RefreshArrives, TypeOK
  <2> QED
    BY <1>2, <1>t, <1>p, <1>l, <1>b, <2>1, <2>2, <2>3, QuietKeeps DEF RefreshArrives, bounds, TypeOK
<1>3. CASE RefreshDenied(r)
  <2>2. req' = [q \in Requests |-> req'[q]] /\ \A q \in Requests : Moves(req[q], req'[q])
    BY <1>3, ResumedMoves DEF RefreshDenied
  <2>3. access' \in [Tabs -> Ids \cup {None}]
    BY <1>3, <1>t DEF RefreshDenied, TypeOK
  <2> QED
    BY <1>3, <1>t, <1>p, <1>l, <1>b, <2>2, <2>3, QuietKeeps DEF RefreshDenied, bounds, TypeOK
<1>4. CASE RefreshLost(r)
  <2>2. req' = [q \in Requests |-> req'[q]] /\ \A q \in Requests : Moves(req[q], req'[q])
    BY <1>4, ResumedMoves DEF RefreshLost
  <2> QED
    BY <1>4, <1>t, <1>p, <1>l, <1>b, <1>f, <2>2, QuietKeeps DEF RefreshLost, Failed, TypeOK
<1>5. CASE Unclaimed(r)
  <2>1. req' = [req EXCEPT ![r] = Idle]
    BY <1>5 DEF Unclaimed
  <2>2. req' = [q \in Requests |-> req'[q]] /\ \A q \in Requests : Moves(req[q], req'[q])
    BY <2>1, <1>o, BecomesIdle
  <2>3. cookie' \in Token \cup {None}
    BY <1>0, <1>5, <1>t DEF Unclaimed, TypeOK, GoodRequest, IssuesToken
  <2> QED
    BY <1>5, <1>t, <2>2, <2>3, QuietKeeps DEF Unclaimed, bounds, TypeOK
<1>6. CASE RequestLost(r)
  <2>1. req' = [req EXCEPT ![r] = Idle]
    BY <1>6 DEF RequestLost, Dropped
  <2>2. req' = [q \in Requests |-> req'[q]] /\ \A q \in Requests : Moves(req[q], req'[q])
    BY <2>1, <1>o, BecomesIdle
  <2>3. access' \in [Tabs -> Ids \cup {None}]
    BY <1>6, <1>t DEF RequestLost, TypeOK
  <2> QED
    BY <1>6, <1>t, <1>f, <2>2, <2>3, QuietKeeps DEF RequestLost, TypeOK
<1>7. CASE Answered(r)
  <2>1. req' = [req EXCEPT ![r] = Idle]
    BY <1>7 DEF Answered
  <2>2. req' = [q \in Requests |-> req'[q]] /\ \A q \in Requests : Moves(req[q], req'[q])
    BY <2>1, <1>o, BecomesIdle
  <2>3. access' \in [Tabs -> Ids \cup {None}]
    BY <1>7, <1>t DEF Answered, TypeOK
  <2> QED
    BY <1>7, <1>t, <2>2, <2>3, QuietKeeps DEF Answered, bounds, TypeOK
<1>8. CASE LoginArrives(r)
  <2>1. req' = [req EXCEPT ![r] = Idle]
    BY <1>8 DEF LoginArrives
  <2>2. req' = [q \in Requests |-> req'[q]] /\ \A q \in Requests : Moves(req[q], req'[q])
    BY <2>1, <1>o, BecomesIdle
  <2>3. SessionOf(r) \in Ids /\ req[r].answer \in Token
    BY <1>0, <1>8 DEF LoginArrives, At, GoodRequest, IssuesToken, Token, SessionOf
  <2>4. access' \in [Tabs -> Ids \cup {None}]
    BY <1>8, <1>t, <2>3 DEF LoginArrives, TypeOK
  <2> QED
    BY <1>8, <1>t, <2>2, <2>3, <2>4, QuietKeeps DEF LoginArrives, bounds, TypeOK
<1>9. CASE Retry(r)
  <2>1. req[r].tab \in Tabs
    BY <1>9, <1>b DEF Retry
  <2> DEFINE waits == [req[r] EXCEPT !.stage = "waiting"]
  <2>2. Moves(req[r], waits)
    BY <1>0, GoesTo DEF Stages
  <2>3. CASE Goto(r, "waiting") /\ UNCHANGED <<promise, refreshes>>
    <3>1. req' = [q \in Requests |-> req'[q]] /\ \A q \in Requests : Moves(req[q], req'[q])
      <4>1. req' = [req EXCEPT ![r] = waits]
        BY <2>3 DEF Goto
      <4> HIDE DEF waits
      <4> QED
        BY <1>o, <2>2, <4>1
    <3> QED
      BY <1>9, <1>t, <2>3, <3>1, QuietKeeps DEF Retry, TypeOK
  <2>4. CASE /\ refreshes' = refreshes + 1
             /\ \E q \in Requests :
                  /\ Free(q)
                  /\ req' = [req EXCEPT ![r].stage = "waiting", ![q] = NewRefresh(req[r].tab)]
                  /\ promise' = [promise EXCEPT ![req[r].tab] = q]
    <3>1. PICK q \in Requests :
            /\ req' = [req EXCEPT ![r].stage = "waiting", ![q] = NewRefresh(req[r].tab)]
            /\ promise' = [promise EXCEPT ![req[r].tab] = q]
      BY <2>4
    <3> DEFINE new == NewRefresh(req[r].tab)
    <3>2. \A old : Moves(old, new)
      BY <2>1, NewRefreshes, NewIsGood
    <3>3. req' = [p \in Requests |-> IF p = q THEN new ELSE IF p = r THEN waits ELSE req[p]]
      BY <1>t, <3>1 DEF TypeOK
    <3>4. req' = [p \in Requests |-> req'[p]] /\ \A p \in Requests : Moves(req[p], req'[p])
      <4> HIDE DEF new, waits
      <4> QED
        BY <1>0, <2>2, <3>2, <3>3, StandsStill
    <3>5. promise' \in [Tabs -> Requests \cup {None}]
      BY <1>t, <3>1 DEF TypeOK
    <3> QED
      BY <1>9, <1>t, <1>f, <2>4, <3>4, <3>5, QuietKeeps DEF Retry, TypeOK
  <2> QED
    BY <1>9, <2>3, <2>4 DEF Retry
<1>10. CASE \E t \in Tabs : Restore(t, r)
  <2>1. PICK t \in Tabs : Restore(t, r)
    BY <1>10
  <2>2. Moves(req[r], NewRefresh(t))
    BY NewRefreshes, NewIsGood
  <2>3. req' = [q \in Requests |-> req'[q]] /\ \A q \in Requests : Moves(req[q], req'[q])
    BY <1>o, <2>1, <2>2 DEF Restore
  <2>4. promise' \in [Tabs -> Requests \cup {None}]
    BY <1>t, <2>1 DEF Restore, TypeOK
  <2> QED
    BY <1>t, <1>f, <2>1, <2>3, <2>4, QuietKeeps DEF Restore, TypeOK
<1> QED
  BY <1>1, <1>2, <1>3, <1>4, <1>5, <1>6, <1>7, <1>8, <1>9, <1>10

\* What ending sessions leaves of the rows.
LEMMA Revoking ==
  ASSUME SessionsInv, NEW ids
  PROVE  /\ Revoked(ids) \in [Ids -> Row]
         /\ \A s \in Ids : /\ Revoked(ids)[s].secret = rows[s].secret
                           /\ Revoked(ids)[s].under = rows[s].under
                           /\ rows[s].state # "absent" => Revoked(ids)[s].state # "absent"
                           /\ Revoked(ids)[s].state = "live" =>
                                rows[s].state = "live" /\ s \notin ids
<1>1. \A s \in Ids : rows[s] \in Row
  BY DEF SessionsInv, TypeOK
<1>2. ASSUME NEW s \in Ids, s \in ids, rows[s].state = "live"
      PROVE  /\ Revoked(ids)[s] \in Row /\ Revoked(ids)[s].state = "revoked"
             /\ Revoked(ids)[s].secret = rows[s].secret /\ Revoked(ids)[s].under = rows[s].under
  <2>1. Revoked(ids)[s] = [rows[s] EXCEPT !.state = "revoked"]
    BY <1>2 DEF Revoked
  <2> QED
    BY <1>1, <2>1 DEF Row
<1>3. ASSUME NEW s \in Ids, ~(s \in ids /\ rows[s].state = "live")
      PROVE  Revoked(ids)[s] = rows[s]
  BY <1>3 DEF Revoked
<1>4. \A s \in Ids : Revoked(ids)[s] \in Row
  BY <1>1, <1>2, <1>3
<1>5. Revoked(ids) \in [Ids -> Row]
  BY <1>4 DEF Revoked
<1> QED
  BY <1>2, <1>3, <1>5

\* A step that ends sessions and answers a request other than a refresh.
Ends(r, s) == [req[r] EXCEPT !.stage = s]

\* It keeps the invariant when it changes the password only if it ends every
\* live session.
LEMMA EndingKeeps ==
  ASSUME SessionsInv, NEW r \in Requests, NEW ids, NEW written, NEW s \in {"done", "denied"},
         req[r].kind \in {"refresh", "logout", "end", "change", "reset"},
         req[r].kind = "refresh" => s = "denied",
         req' = After(r, Ends(r, s), written),
         UNCHANGED browser, UNCHANGED bounds, deleted' = deleted,
         rows' = Revoked(ids),
         hash' = hash \/ (hash' = hash + 1 /\ Live \subseteq ids)
  PROVE  SessionsInv'
<1> DEFINE new == [req[r] EXCEPT !.stage = s]
<1>1. req[r] \in Request
  BY DEF SessionsInv, TypeOK
<1>2. new.stage = s /\ new.kind = req[r].kind
  BY <1>1 DEF Request
<1>3. s \in Stages
  BY DEF Stages
<1>4. new \in Request
  BY <1>1, <1>3, RequestFields
<1>5. hash' \in Nat /\ deleted' \in BOOLEAN
  BY DEF SessionsInv, TypeOK
<1>6. \A i \in Ids : rows[i] \in Row
  BY DEF SessionsInv, TypeOK
<1>7. \A i \in Ids : rows[i].state # "absent" =>
        rows'[i].state # "absent" /\ rows'[i].secret >= rows[i].secret
  BY <1>6, Revoking DEF Row
<1>8. LiveUnderCurrentPassword'
  <2>1. SUFFICES ASSUME NEW i \in Live' PROVE rows'[i].under = hash' /\ ~deleted'
    BY DEF LiveUnderCurrentPassword
  <2>2. i \in Ids /\ rows'[i].state = "live"
    BY Revoking DEF Live
  <2>3. i \in Live /\ i \notin ids /\ rows'[i].under = rows[i].under
    BY <2>2, Revoking DEF Live, SessionsInv, TypeOK
  <2>4. rows[i].under = hash /\ ~deleted
    BY <2>3 DEF SessionsInv, LiveUnderCurrentPassword
  <2> QED
    BY <2>3, <2>4
<1>9. rows' \in [Ids -> Row] /\ \A i \in Ids : rows'[i].state = "live" => rows[i].state = "live"
  BY Revoking
<1>10. req' = After(r, new, written)
  BY DEF Ends
<1>11. IssuesToken(new) => new.answer \in Token
  BY <1>2 DEF IssuesToken
<1>12. ~Presented(new) /\ new.stage # "running" /\ ~(new.kind = "refresh" /\ new.stage = "done")
  BY <1>2 DEF Presented
<1> HIDE DEF new
<1> QED
  BY <1>4, <1>5, <1>7, <1>8, <1>9, <1>10, <1>11, <1>12, ServerKeeps

\* Reuse, sign-out, the end of a session, the change and the reset of a password.
LEMMA EndingSteps ==
  ASSUME SessionsInv, NEW r \in Requests,
         \/ RevokeReused(r) \/ RevokePresented(r) \/ EndSession(r) \/ ChangePassword(r)
         \/ ConfirmReset(r)
  PROVE  SessionsInv'
<1>1. CASE RevokeReused(r)
  <2>1. PICK ids, written : req' = After(r, Ends(r, "denied"), written) /\ rows' = Revoked(ids)
    BY <1>1 DEF RevokeReused, Ends
  <2>2. /\ UNCHANGED browser /\ UNCHANGED bounds /\ deleted' = deleted /\ hash' = hash
        /\ req[r].kind = "refresh"
    BY <1>1 DEF RevokeReused, At, bounds
  <2> QED
    BY <2>1, <2>2, EndingKeeps
<1>2. CASE RevokePresented(r)
  <2>1. PICK ids, written : req' = After(r, Ends(r, "done"), written) /\ rows' = Revoked(ids)
    BY <1>2 DEF RevokePresented, Ends
  <2>2. /\ UNCHANGED browser /\ UNCHANGED bounds /\ deleted' = deleted /\ hash' = hash
        /\ req[r].kind = "logout"
    BY <1>2 DEF RevokePresented, At, bounds
  <2> QED
    BY <2>1, <2>2, EndingKeeps
<1>3. CASE EndSession(r)
  <2>1. PICK ids, written : req' = After(r, Ends(r, "done"), written) /\ rows' = Revoked(ids)
    BY <1>3 DEF EndSession, Ends
  <2>2. /\ UNCHANGED browser /\ UNCHANGED bounds /\ deleted' = deleted /\ hash' = hash
        /\ req[r].kind = "end"
    BY <1>3 DEF EndSession, bounds
  <2> QED
    BY <2>1, <2>2, EndingKeeps
<1>4. CASE ChangePassword(r)
  BY <1>4, EndingKeeps DEF ChangePassword, At, Ended, bounds, Ends
<1>5. CASE ConfirmReset(r)
  <2>1. Live \subseteq req[r].snap
    BY <1>5 DEF ConfirmReset, At, SessionsInv, GoodRequest
  <2> QED
    BY <1>5, <2>1, EndingKeeps DEF ConfirmReset, At, bounds, Ends
<1> QED
  BY <1>1, <1>2, <1>3, <1>4, <1>5

\* The deletion of the account ends every session that lives.
LEMMA DeleteUserKeeps ==
  ASSUME SessionsInv, NEW r \in Requests, DeleteUser(r)
  PROVE  SessionsInv'
<1> DEFINE new == [req[r] EXCEPT !.stage = "done"]
<1> DEFINE written == {"user"} \cup req[r].snap
<1>1. req[r] \in Request /\ GoodRequest(req[r])
  BY DEF SessionsInv, TypeOK
<1>2. req[r].kind = "delete" /\ Live \subseteq req[r].snap
  BY <1>1 DEF DeleteUser, At, GoodRequest
<1>3. new.stage = "done" /\ new.kind = "delete"
  BY <1>1, <1>2 DEF Request
<1>4. new \in Request
  <2>1. "done" \in Stages
    BY DEF Stages
  <2> QED
    BY <1>1, <2>1, RequestFields
<1>5. \A s \in Ids : rows[s] \in Row
  BY DEF SessionsInv, TypeOK
<1>6. ASSUME NEW s \in Ids
      PROVE  /\ rows'[s] \in Row /\ rows'[s].secret = rows[s].secret
             /\ rows[s].state # "absent" => rows'[s].state # "absent"
             /\ rows'[s].state # "live"
  <2>1. CASE s \in req[r].snap
    <3>1. rows'[s] = [rows[s] EXCEPT !.state = "deleted"]
      BY <2>1 DEF DeleteUser
    <3> QED
      BY <1>5, <3>1 DEF Row
  <2>2. CASE s \notin req[r].snap
    <3>1. rows'[s] = rows[s]
      BY <2>2 DEF DeleteUser
    <3>2. rows[s].state # "live"
      BY <1>2, <2>2 DEF Live, SessionsInv, TypeOK
    <3> QED
      BY <1>5, <3>1, <3>2
  <2> QED
    BY <2>1, <2>2
<1>7. rows' \in [Ids -> Row]
  BY <1>6 DEF DeleteUser
<1>8. LiveUnderCurrentPassword'
  BY <1>6, <1>7 DEF LiveUnderCurrentPassword, Live
<1>9. \A s \in Ids : rows[s].state # "absent" =>
        rows'[s].state # "absent" /\ rows'[s].secret >= rows[s].secret
  BY <1>5, <1>6 DEF Row
<1>10. /\ req' = After(r, new, written) /\ UNCHANGED browser /\ UNCHANGED bounds
       /\ hash' \in Nat /\ deleted' \in BOOLEAN
  BY DEF DeleteUser, bounds, SessionsInv, TypeOK
<1>11. ~IssuesToken(new) /\ ~Presented(new)
  BY <1>3 DEF IssuesToken, Presented
<1> HIDE DEF new, written
<1> QED
  BY <1>3, <1>4, <1>6, <1>7, <1>8, <1>9, <1>10, <1>11, ServerKeeps

\* The request r, answered with the token a.
Issues(r, a) == [req[r] EXCEPT !.stage = "done", !.answer = a]

\* Its other fields are as they were.
LEMMA IssuesFields ==
  ASSUME SessionsInv, NEW r \in Requests, NEW a \in Token
  PROVE  /\ Issues(r, a) \in Request
         /\ Issues(r, a).stage = "done" /\ Issues(r, a).answer = a
         /\ Issues(r, a).kind = req[r].kind /\ Issues(r, a).token = req[r].token
<1>1. req[r] \in Request
  BY DEF SessionsInv, TypeOK
<1>2. "done" \in Stages
  BY DEF Stages
<1>3. Issues(r, a) \in Request
  BY <1>1, <1>2 DEF Request, Issues
<1>4. /\ Issues(r, a).stage = "done" /\ Issues(r, a).answer = a
      /\ Issues(r, a).kind = req[r].kind /\ Issues(r, a).token = req[r].token
  BY <1>1 DEF Request, Issues
<1> QED
  BY <1>3, <1>4

\* A refresh exchanges the secret it finds current, and the row has a newer one.
LEMMA RotateKeeps ==
  ASSUME SessionsInv, NEW r \in Requests, Rotate(r)
  PROVE  SessionsInv'
<1>1. req[r] \in Request /\ GoodRequest(req[r])
  BY DEF SessionsInv, TypeOK
<1>2. PICK t \in Token : t = req[r].token
  BY <1>1 DEF Rotate, At, GoodRequest, Presented
<1>3. t.id \in Ids /\ t.secret \in Nat
  BY DEF Token
<1>4. \A s \in Ids : rows[s] \in Row
  BY DEF SessionsInv, TypeOK
<1>5. CASE StillCurrent(t)
  <2>1. rows[t.id].state = "live" /\ rows[t.id].secret = t.secret
    BY <1>5 DEF StillCurrent
  <2>2. PICK a \in Token : a = [id |-> t.id, secret |-> rows[t.id].secret + 1]
    <3>1. rows[t.id].secret + 1 \in Nat
      BY <1>3, <2>1
    <3> QED
      BY <1>3, <3>1 DEF Token
  <2>3. /\ rows' = [rows EXCEPT ![t.id].secret = rows[t.id].secret + 1]
        /\ req' = After(r, Issues(r, a), {t.id})
    BY <1>2, <1>5, <2>2 DEF Rotate, Issues
  <2>4. UNCHANGED browser /\ UNCHANGED bounds /\ hash' = hash /\ deleted' = deleted
    BY DEF Rotate, bounds
  <2>5. rows'[t.id] = [rows[t.id] EXCEPT !.secret = t.secret + 1]
    BY <1>3, <2>1, <2>3 DEF SessionsInv, TypeOK
  <2>6. /\ rows'[t.id] \in Row /\ rows'[t.id].state = rows[t.id].state
        /\ rows'[t.id].secret = t.secret + 1 /\ rows'[t.id].under = rows[t.id].under
    <3>1. t.secret + 1 \in Nat /\ rows[t.id] \in Row
      BY <1>3, <1>4
    <3> QED
      BY <2>5, <3>1 DEF Row
  <2>7. \A s \in Ids \ {t.id} : rows'[s] = rows[s]
    BY <2>3 DEF SessionsInv, TypeOK
  <2>8. rows' \in [Ids -> Row]
    BY <1>4, <2>3, <2>6, <2>7 DEF SessionsInv, TypeOK
  <2>9. \A s \in Ids : rows[s].state # "absent" =>
          rows'[s].state # "absent" /\ rows'[s].secret >= rows[s].secret
    BY <1>3, <1>4, <2>1, <2>6, <2>7 DEF Row
  <2>10. \A s \in Ids : rows'[s].state = "live" =>
           rows[s].state = "live" /\ rows'[s].under = rows[s].under
    BY <2>6, <2>7
  <2>11. LiveUnderCurrentPassword'
    BY <2>4, <2>8, <2>10 DEF LiveUnderCurrentPassword, Live, SessionsInv, TypeOK
  <2>12. \A q \in Requests \ {r} : At(q, "refresh", "done") => req[q].token # t
    <3>1. SUFFICES ASSUME NEW q \in Requests, At(q, "refresh", "done"), req[q].token = t
                   PROVE  FALSE
      OBVIOUS
    <3>2. rows[t.id].secret > t.secret
      BY <3>1 DEF SessionsInv, GoodRequest, At
    <3> QED
      BY <1>3, <2>1, <3>2
  <2> DEFINE new == Issues(r, a)
  <2>13. new \in Request /\ new.stage = "done" /\ new.answer = a /\ new.token = t
    BY <1>2, IssuesFields
  <2>14. rows'[t.id].state # "absent" /\ rows'[t.id].secret > t.secret
    BY <1>3, <2>1, <2>6
  <2>15. req' = After(r, new, {t.id})
    BY <2>3
  <2>16. hash' \in Nat /\ deleted' \in BOOLEAN
    BY <2>4 DEF SessionsInv, TypeOK
  <2> HIDE DEF new
  <2> QED
    BY <2>4, <2>8, <2>9, <2>10, <2>11, <2>12, <2>13, <2>14, <2>15, <2>16, ServerKeeps
<1>6. CASE ~StillCurrent(t)
  <2>1. Goto(r, "reused") /\ Local
    BY <1>2, <1>6 DEF Rotate, Local, server, bounds
  <2>2. Moves(req[r], [req[r] EXCEPT !.stage = "reused"])
    BY <1>1, <1>2, GoesTo DEF Stages
  <2> QED
    BY <2>1, <2>2, LocalKeeps DEF Goto
<1> QED
  BY <1>5, <1>6

\* A sign-in opens a session under the password it was compared with.
LEMMA IssueSessionKeeps ==
  ASSUME SessionsInv, NEW r \in Requests, NEW i \in Ids, IssueSession(r, i)
  PROVE  SessionsInv'
<1>1. PICK a \in Token : a = [id |-> i, secret |-> 0]
  BY DEF Token
<1>2. req' = After(r, Issues(r, a), {"user", i})
  BY <1>1 DEF IssueSession, Issues, LoginWrites
<1>3. /\ UNCHANGED browser /\ UNCHANGED bounds /\ hash' = hash /\ deleted' = deleted
      /\ ~deleted /\ req[r].typed = hash /\ req[r].kind = "login" /\ rows[i].state = "absent"
  BY DEF IssueSession, bounds, StillCredential, At
<1>4. rows' = [rows EXCEPT ![i] = [state |-> "live", secret |-> 0, under |-> hash]]
  BY <1>3 DEF IssueSession
<1>5. rows'[i] = [state |-> "live", secret |-> 0, under |-> hash]
  BY <1>4 DEF SessionsInv, TypeOK
<1>6. hash' \in Nat /\ deleted' \in BOOLEAN /\ hash \in Nat
  BY <1>3 DEF SessionsInv, TypeOK
<1>7. rows'[i] \in Row /\ rows'[i].under = hash
  BY <1>5, <1>6 DEF Row
<1>8. \A s \in Ids \ {i} : rows'[s] = rows[s] /\ rows[s] \in Row
  BY <1>4 DEF SessionsInv, TypeOK
<1>9. rows' \in [Ids -> Row]
  BY <1>4, <1>7, <1>8 DEF SessionsInv, TypeOK
<1>10. \A s \in Ids : rows[s].state # "absent" =>
         rows'[s].state # "absent" /\ rows'[s].secret >= rows[s].secret
  BY <1>3, <1>8 DEF Row
<1>11. LiveUnderCurrentPassword'
  <2>1. SUFFICES ASSUME NEW s \in Live' PROVE rows'[s].under = hash' /\ ~deleted'
    BY DEF LiveUnderCurrentPassword
  <2>2. s \in Ids /\ rows'[s].state = "live"
    BY <1>9 DEF Live
  <2>3. s # i => s \in Live
    BY <1>8, <2>2 DEF Live, SessionsInv, TypeOK
  <2> QED
    BY <1>3, <1>7, <1>8, <2>2, <2>3 DEF SessionsInv, LiveUnderCurrentPassword
<1> DEFINE new == Issues(r, a)
<1>12. new \in Request /\ new.stage = "done" /\ new.answer = a /\ new.kind = "login"
  BY <1>3, IssuesFields
<1>13. req' = After(r, new, {"user", i}) /\ ~Presented(new)
  BY <1>2, <1>12 DEF Presented
<1> HIDE DEF new
<1> QED
  BY <1>3, <1>6, <1>9, <1>10, <1>11, <1>12, <1>13, ServerKeeps

-----------------------------------------------------------------------------
\* At first there is no session and no request.
LEMMA SessionsInit == Init => SessionsInv
<1> SUFFICES ASSUME Init PROVE SessionsInv
  OBVIOUS
<1>1. TypeOK
  BY IdleIsGood DEF Init, TypeOK, Row
<1>2. \A r \in Requests : req[r] = Idle /\ GoodRequest(req[r])
  BY IdleIsGood DEF Init
<1>3. LiveUnderCurrentPassword
  BY DEF Init, LiveUnderCurrentPassword, Live
<1>4. ExchangedOnce
  BY <1>2 DEF ExchangedOnce, At, Idle
<1> QED
  BY <1>1, <1>2, <1>3, <1>4 DEF SessionsInv

\* Every step keeps the invariant.
LEMMA SessionsStep == SessionsInv /\ [Next]_vars => SessionsInv'
<1> SUFFICES ASSUME SessionsInv, [Next]_vars PROVE SessionsInv'
  OBVIOUS
<1>1. CASE UNCHANGED vars
  BY <1>1 DEF vars, SessionsInv, TypeOK, GoodRequest, IssuesToken, Presented,
     LiveUnderCurrentPassword, Live, ExchangedOnce, At
<1>2. CASE \E t \in Tabs : Reload(t)
  BY <1>2, ReloadKeeps
<1>3. CASE \E t \in Tabs, r \in Requests :
             \/ Restore(t, r) \/ Login(t, r) \/ Logout(t, r)
             \/ \E kind \in Authorized, s \in Ids \cup {None} : Ask(t, r, kind, s)
  BY <1>3, BrowserSteps, OwnSteps
<1>4. ASSUME NEW r \in Requests,
             \/ SendRefresh(r) \/ RefreshArrives(r) \/ RefreshDenied(r) \/ RefreshLost(r)
             \/ Unclaimed(r) \/ RequestLost(r) \/ Answered(r) \/ LoginArrives(r) \/ Retry(r)
      PROVE  SessionsInv'
  BY <1>4, BrowserSteps
<1>5. ASSUME NEW r \in Requests,
             \/ FindSession(r) \/ LoginRefused(r) \/ Deny(r) \/ Run(r) \/ Compare(r)
             \/ GiveUp(r) \/ StartReset(r) \/ StartDeletion(r) \/ Abort(r)
      PROVE  SessionsInv'
  BY <1>5, OwnSteps
<1>6. ASSUME NEW r \in Requests,
             \/ RevokeReused(r) \/ RevokePresented(r) \/ EndSession(r) \/ ChangePassword(r)
             \/ ConfirmReset(r) \/ DeleteUser(r) \/ Rotate(r)
             \/ \E s \in Ids : IssueSession(r, s)
      PROVE  SessionsInv'
  BY <1>6, EndingSteps, DeleteUserKeeps, RotateKeeps, IssueSessionKeeps
<1> QED
  BY <1>1, <1>2, <1>3, <1>4, <1>5, <1>6 DEF Next

\* A session that still works was opened with the password of today
\* (changePassword, confirmPasswordReset, login and deleteCurrentUser of
\* auth.service.ts, in whatever order they overlap).
THEOREM SignedInUnderCurrentPassword == Spec => []LiveUnderCurrentPassword
<1>1. SessionsInv => LiveUnderCurrentPassword
  BY DEF SessionsInv
<1> QED
  BY <1>1, SessionsInit, SessionsStep, PTL DEF Spec

\* A refresh token is exchanged once: no two refreshes are answered that
\* presented the same one (rotate of session.service.ts, an update that names the
\* hash it replaces).
THEOREM TokensExchangedOnce == Spec => []ExchangedOnce
<1>1. SessionsInv => ExchangedOnce
  BY DEF SessionsInv
<1> QED
  BY <1>1, SessionsInit, SessionsStep, PTL DEF Spec

-----------------------------------------------------------------------------
(* With Web Locks, and when no answer is lost, no refresh ends a session:  *)
(* whatever token the browser presents is the current one of its session,  *)
(* or the session has ended.  The cookie is older than its row only while  *)
(* the refresh that holds the lock brings the newer one; and the token of  *)
(* a sign-in is known to nobody before its answer arrives.                 *)

\* A token that a refresh may present.
Current(t) ==
  rows[t.id].state # "absent" /\ (rows[t.id].state = "live" => rows[t.id].secret = t.secret)
Over(t) == rows[t.id].state \notin {"live", "absent"}
\* A refresh that left; one that is judged; one that was answered.
Left(q) == q.kind = "refresh" /\ q.stage # "queued"
Judged(q) == q.kind = "refresh" /\ q.stage \in {"sent", "matched"} /\ q.token # None
Rotated(q) == q.kind = "refresh" /\ q.stage = "done"
Opened(q) == q.kind = "login" /\ q.stage = "done"

\* A request with the tokens it presents and brings.
GoodTokens(r) ==
  LET q == req[r] IN
  /\ Left(q) => lock = r
  /\ q.kind \in {"refresh", "login"} => q.tab # None
  /\ q.stage = "waiting" => q.kind \in Authorized
  /\ q.kind = "refresh" /\ q.stage = "matched" => q.token # None
  /\ Judged(q) => Current(q.token)
  /\ q.kind = "refresh" /\ q.stage = "reused" => Over(q.token)
  /\ Rotated(q) \/ Opened(q) => Current(q.answer)
  /\ Rotated(q) => q.answer.id = q.token.id
\* Only the answer of a sign-in has its token.
OpenedApart(r, q) ==
  Opened(req[r]) /\ q # r =>
    /\ Judged(req[q]) \/ Rotated(req[q]) => req[q].token.id # req[r].answer.id
    /\ Opened(req[q]) => req[q].answer.id # req[r].answer.id
CookieKnown ==
  cookie # None =>
    /\ rows[cookie.id].state # "absent"
    /\ \/ Current(cookie)
       \/ \E r \in Requests : Rotated(req[r]) /\ req[r].answer.id = cookie.id
    /\ \A r \in Requests : Opened(req[r]) => req[r].answer.id # cookie.id
TokensInv ==
  /\ SessionsInv
  /\ faults = 0
  /\ \A r \in Requests : GoodTokens(r)
  /\ \A r, q \in Requests : OpenedApart(r, q)
  /\ CookieKnown

\* A request goes on: it presents and brings no token that it did not before.
Passes(old, new) ==
  /\ Left(new) => Left(old)
  /\ new.kind \in {"refresh", "login"} => new.tab # None
  /\ new.stage = "waiting" => new.kind \in Authorized
  /\ new.kind = "refresh" /\ new.stage = "matched" => new.token # None
  /\ Judged(new) => Judged(old) /\ new.token = old.token
  /\ new.kind = "refresh" /\ new.stage = "reused" => Over(new.token)
  /\ Rotated(new) => Rotated(old) /\ new.answer = old.answer /\ new.token = old.token
  /\ Opened(new) => Opened(old) /\ new.answer = old.answer
\* And the token it brings is not lost.
Carries(old, new) == Passes(old, new) /\ (Rotated(old) => Rotated(new))

\* Rows are as they were, or ended.
RowsEnd ==
  \A s \in Ids : /\ rows[s].state # "absent" => rows'[s].state # "absent"
                 /\ rows'[s].state = "live" => rows[s].state = "live"
                 /\ rows'[s].secret = rows[s].secret

\* A step by which every request goes on and rows at most end.
LEMMA PassesKeeps ==
  ASSUME TokensInv, SessionsInv', RowsEnd,
         \A r \in Requests : Passes(req[r], req'[r]),
         \A r \in Requests : Left(req'[r]) => lock' = r
  PROVE  /\ \A r \in Requests : GoodTokens(r)'
         /\ \A r, q \in Requests : OpenedApart(r, q)'
<1>1. ASSUME NEW r \in Requests PROVE GoodTokens(r)'
  <2>1. /\ GoodTokens(r) /\ GoodRequest(req[r]) /\ req[r] \in Request
        /\ GoodRequest(req[r])' /\ req'[r] \in Request
    BY DEF TokensInv, SessionsInv, TypeOK
  <2>2. Passes(req[r], req'[r])
    OBVIOUS
  <2>3. ASSUME Judged(req'[r]) PROVE Current(req[r].token)'
    <3>1. Judged(req[r]) /\ req'[r].token = req[r].token /\ Current(req[r].token)
      BY <2>1, <2>2, <2>3 DEF Passes, GoodTokens
    <3>2. req[r].token.id \in Ids
      BY <2>1, <3>1 DEF Judged, Request, Token
    <3> QED
      BY <3>1, <3>2 DEF RowsEnd, Current
  <2>4. ASSUME Rotated(req'[r]) \/ Opened(req'[r]) PROVE Current(req[r].answer)'
    <3>1. /\ Rotated(req[r]) \/ Opened(req[r])
          /\ req'[r].answer = req[r].answer /\ Current(req[r].answer)
      BY <2>1, <2>2, <2>4 DEF Passes, GoodTokens
    <3>2. req[r].answer.id \in Ids
      BY <2>1, <3>1 DEF Rotated, Opened, GoodRequest, IssuesToken, Token
    <3> QED
      BY <3>1, <3>2 DEF RowsEnd, Current
  <2>5. ASSUME req'[r].kind = "refresh", req'[r].stage = "reused"
        PROVE  Over(req[r].token)'
    <3>1. Over(req'[r].token)
      BY <2>2, <2>5 DEF Passes
    <3>2. req'[r].token.id \in Ids
      BY <2>1, <2>5 DEF GoodRequest, Presented, Token
    <3> QED
      BY <3>1, <3>2 DEF RowsEnd, Over
  <2>6. /\ Left(req'[r]) => lock' = r
        /\ req'[r].kind \in {"refresh", "login"} => req'[r].tab # None
        /\ req'[r].stage = "waiting" => req'[r].kind \in Authorized
        /\ req'[r].kind = "refresh" /\ req'[r].stage = "matched" => req'[r].token # None
    BY <2>2 DEF Passes
  <2>7. Rotated(req'[r]) => req'[r].answer.id = req'[r].token.id
    BY <2>1, <2>2 DEF Passes, GoodTokens
  <2> QED
    BY <2>3, <2>4, <2>5, <2>6, <2>7 DEF GoodTokens, Judged, Rotated, Opened, Left
<1>2. ASSUME NEW r \in Requests, NEW q \in Requests PROVE OpenedApart(r, q)'
  BY DEF OpenedApart, Passes, TokensInv, Judged, Rotated, Opened
<1> QED
  BY <1>1, <1>2

\* So the invariant is kept when the cookie is left alone or cleared.
LEMMA CarriesKeeps ==
  ASSUME TokensInv, SessionsInv', faults' = 0, RowsEnd,
         \A r \in Requests : Carries(req[r], req'[r]),
         \A r \in Requests : Left(req'[r]) => lock' = r,
         cookie' = cookie \/ cookie' = None
  PROVE  TokensInv'
<1>1. (\A r \in Requests : GoodTokens(r)') /\ (\A r, q \in Requests : OpenedApart(r, q)')
  BY PassesKeeps DEF Carries
<1>3. CookieKnown'
  <2>1. CASE cookie' = None
    BY <2>1 DEF CookieKnown
  <2>2. CASE cookie' = cookie /\ cookie # None
    <3>1. cookie.id \in Ids
      BY <2>2 DEF TokensInv, SessionsInv, TypeOK, Token
    <3>2. rows'[cookie.id].state # "absent" /\ (Current(cookie) => Current(cookie)')
      BY <2>2, <3>1 DEF TokensInv, CookieKnown, RowsEnd, Current
    <3>3. /\ \A r \in Requests : Opened(req'[r]) => req'[r].answer.id # cookie.id
          /\ \A r \in Requests : Rotated(req[r]) /\ req[r].answer.id = cookie.id
                => Rotated(req'[r]) /\ req'[r].answer.id = cookie.id
      BY <2>2 DEF TokensInv, CookieKnown, Carries, Passes
    <3> QED
      BY <2>2, <3>2, <3>3 DEF TokensInv, CookieKnown, Rotated, Opened
  <2> QED
    BY <2>1, <2>2
<1> QED
  BY <1>1, <1>3 DEF TokensInv

\* A request that is left alone goes on;
LEMMA CarriesOn == ASSUME TokensInv, NEW r \in Requests PROVE Carries(req[r], req[r])
BY DEF Carries, Passes, TokensInv, GoodTokens

\* so does one that becomes a request which presents and brings no token,
LEMMA CarriesNothing ==
  ASSUME NEW old, ~Rotated(old), NEW new, new.kind \notin {"refresh", "login"},
         new.stage = "waiting" => new.kind \in Authorized
  PROVE  Carries(old, new)
BY DEF Carries, Passes, Left, Judged, Rotated, Opened

\* or is over.
LEMMA CarriesIdle == ASSUME NEW old, ~Rotated(old) PROVE Carries(old, Idle)
BY CarriesNothing DEF Idle

\* Whoever marks the transactions that were overtaken lets them go on.
LEMMA CarriesAfter ==
  ASSUME TokensInv, NEW r \in Requests, NEW new, NEW written, Carries(req[r], new),
         req' = After(r, new, written), UNCHANGED lock, Left(new) => lock = r
  PROVE  /\ \A q \in Requests : Carries(req[q], req'[q])
         /\ \A q \in Requests : Left(req'[q]) => lock' = q
<1>1. ASSUME NEW q \in Requests
      PROVE  Carries(req[q], req'[q]) /\ (Left(req'[q]) => lock' = q)
  <2>1. req[q] \in Request /\ (Left(req[q]) => lock = q)
    BY DEF TokensInv, SessionsInv, TypeOK, GoodTokens
  <2>2. CASE q = r
    BY <2>2 DEF After
  <2>3. CASE q # r /\ req'[q] = req[q]
    BY <2>1, <2>3, CarriesOn
  <2>4. CASE q # r /\ req'[q] = [req[q] EXCEPT !.stale = TRUE]
    <3> DEFINE n == [req[q] EXCEPT !.stale = TRUE]
    <3>1. /\ n.kind = req[q].kind /\ n.stage = req[q].stage /\ n.token = req[q].token
          /\ n.answer = req[q].answer /\ n.tab = req[q].tab
      BY <2>1 DEF Request
    <3> HIDE DEF n
    <3>2. Carries(req[q], n) /\ (Left(n) => Left(req[q]))
      BY <3>1, CarriesOn DEF Carries, Passes, Left, Judged, Rotated, Opened
    <3> QED
      BY <2>1, <2>4, <3>2 DEF n
  <2> QED
    BY <2>2, <2>3, <2>4 DEF After
<1> QED
  BY <1>1

\* A step of one request lets the others go on.
LEMMA CarriesOne ==
  ASSUME TokensInv, NEW r \in Requests, NEW new, Carries(req[r], new),
         req' = [req EXCEPT ![r] = new], UNCHANGED lock, Left(new) => lock = r
  PROVE  /\ \A q \in Requests : Carries(req[q], req'[q])
         /\ \A q \in Requests : Left(req'[q]) => lock' = q
<1>1. \A q \in Requests : req'[q] = IF q = r THEN new ELSE req[q]
  BY DEF TokensInv, SessionsInv, TypeOK
<1> QED
  BY <1>1, CarriesOn DEF TokensInv, GoodTokens

\* Steps within the server that write no row.
LEMMA LocalCarries ==
  ASSUME TokensInv, SessionsInv', NEW r \in Requests, NEW new, Carries(req[r], new),
         req' = [req EXCEPT ![r] = new], Local, Left(new) => lock = r
  PROVE  TokensInv'
<1>1. RowsEnd /\ faults' = 0 /\ cookie' = cookie /\ UNCHANGED lock
  BY DEF Local, server, browser, bounds, TokensInv, RowsEnd
<1> QED
  BY <1>1, CarriesOne, CarriesKeeps

\* A request that reaches a stage without a new token.
LEMMA CarriesStage ==
  ASSUME TokensInv, NEW r \in Requests, ~Rotated(req[r]),
         NEW s \in {"denied", "compared", "running", "done"},
         s = "done" => req[r].kind \notin {"refresh", "login"},
         req[r].kind = "refresh" => req[r].stage # "queued",
         NEW new, new.stage = s, new.kind = req[r].kind, new.tab = req[r].tab
  PROVE  Carries(req[r], new)
BY DEF Carries, Passes, Left, Judged, Rotated, Opened, TokensInv, GoodTokens

\* Steps of one request within the server.
LEMMA OwnStepsCarry ==
  ASSUME NoneAssumption, TokensInv, SessionsInv', NEW r \in Requests,
         \/ FindSession(r) \/ LoginRefused(r) \/ Deny(r) \/ Run(r) \/ Compare(r)
         \/ GiveUp(r) \/ StartReset(r) \/ StartDeletion(r) \/ Abort(r)
         \/ \E t \in Tabs : Login(t, r) \/ Logout(t, r)
         \/ \E t \in Tabs, kind \in Authorized, s \in Ids \cup {None} : Ask(t, r, kind, s)
  PROVE  TokensInv'
<1>0. req[r] \in Request /\ GoodTokens(r)
  BY DEF TokensInv, SessionsInv, TypeOK
<1> DEFINE Steps(new) == Carries(req[r], new) /\ req' = [req EXCEPT ![r] = new] /\ Local
<1>1. ASSUME NEW new, Steps(new) PROVE TokensInv'
  BY <1>0, <1>1, LocalCarries DEF Carries, Passes, GoodTokens
<1> HIDE DEF Steps
<1>2. CASE FindSession(r)
  <2>1. req[r].token = None \/ Current(req[r].token)
    BY <1>0, <1>2 DEF FindSession, At, GoodTokens, Judged
  <2>2. PICK s \in {"denied", "matched"} :
          Goto(r, s) /\ (s = "matched" => req[r].token # None)
    BY <1>2, <2>1 DEF FindSession, Current
  <2> DEFINE new == [req[r] EXCEPT !.stage = s]
  <2>3. /\ new.stage = s /\ new.kind = req[r].kind /\ new.tab = req[r].tab
        /\ new.token = req[r].token
    BY <1>0 DEF Request
  <2>4. req' = [req EXCEPT ![r] = new] /\ Local /\ At(r, "refresh", "sent")
    BY <1>2, <2>2 DEF FindSession, Goto
  <2> HIDE DEF new
  <2>5. Carries(req[r], new)
    BY <1>0, <2>2, <2>3, <2>4 DEF Carries, Passes, Left, Judged, Rotated, Opened, At, GoodTokens
  <2> QED
    BY <1>1, <2>4, <2>5 DEF Steps
<1>3. CASE LoginRefused(r) \/ GiveUp(r) \/ Abort(r)
  <2>1. ~Rotated(req[r])
    BY <1>3 DEF LoginRefused, GiveUp, Abort, At, Rotated
  <2>2. Carries(req[r], Idle)
    BY <2>1, CarriesIdle
  <2> QED
    BY <1>1, <1>3, <2>2 DEF Steps, LoginRefused, GiveUp, Abort
<1>4. CASE Deny(r) \/ Compare(r)
  <2>1. PICK s \in {"denied", "compared"} : Goto(r, s) /\ Local
    BY <1>4 DEF Deny, Compare
  <2>2. req[r].kind # "refresh"
    BY <1>4 DEF Deny, Compare, At, Authorized
  <2> DEFINE new == [req[r] EXCEPT !.stage = s]
  <2>3. new.stage = s /\ new.kind = req[r].kind /\ new.tab = req[r].tab
    BY <1>0 DEF Request
  <2>4. req' = [req EXCEPT ![r] = new]
    BY <2>1 DEF Goto
  <2> HIDE DEF new
  <2>5. Carries(req[r], new)
    BY <2>2, <2>3, CarriesStage DEF Rotated
  <2> QED
    BY <1>1, <2>1, <2>4, <2>5 DEF Steps
<1>5. CASE Run(r)
  <2> DEFINE new == [req[r] EXCEPT !.stage = "done", !.ran = @ + 1]
  <2>1. new.stage = "done" /\ new.kind = "call" /\ new.tab = req[r].tab /\ req[r].kind = "call"
    BY <1>0, <1>5 DEF Request, Run
  <2>2. req' = [req EXCEPT ![r] = new] /\ Local
    BY <1>5 DEF Run
  <2> HIDE DEF new
  <2>3. Carries(req[r], new)
    BY <2>1, CarriesStage DEF Rotated
  <2> QED
    BY <1>1, <2>2, <2>3 DEF Steps
<1>6. CASE StartDeletion(r)
  <2> DEFINE new == [req[r] EXCEPT !.stage = "running", !.snap = Live]
  <2>1. new.stage = "running" /\ new.kind = "delete" /\ new.tab = req[r].tab
        /\ req[r].kind = "delete"
    BY <1>0, <1>6 DEF Request, StartDeletion, At
  <2>2. req' = [req EXCEPT ![r] = new] /\ Local
    BY <1>6 DEF StartDeletion
  <2> HIDE DEF new
  <2>3. Carries(req[r], new)
    BY <2>1, CarriesStage DEF Rotated
  <2> QED
    BY <1>1, <2>2, <2>3 DEF Steps
<1>7. CASE StartReset(r)
  <2> DEFINE new == [Idle EXCEPT !.kind = "reset", !.stage = "running", !.snap = Live]
  <2>1. new.kind = "reset" /\ new.stage = "running"
    BY DEF Idle
  <2>2. req' = [req EXCEPT ![r] = new] /\ Local /\ ~Rotated(req[r])
    BY <1>7 DEF StartReset, Free, Rotated
  <2> HIDE DEF new
  <2>3. Carries(req[r], new)
    BY <2>1, <2>2, CarriesNothing
  <2> QED
    BY <1>1, <2>2, <2>3 DEF Steps
<1>8. ASSUME NEW t \in Tabs, Login(t, r) PROVE TokensInv'
  <2> DEFINE new == [Idle EXCEPT !.kind = "login", !.tab = t, !.stage = "compared", !.typed = hash]
  <2>1. new.kind = "login" /\ new.stage = "compared" /\ new.tab = t /\ t # None
    BY NoneAssumption DEF Idle
  <2>2. req' = [req EXCEPT ![r] = new] /\ Local /\ ~Rotated(req[r])
    BY <1>8 DEF Login, Free, Rotated
  <2> HIDE DEF new
  <2>3. Carries(req[r], new)
    BY <2>1, <2>2 DEF Carries, Passes, Left, Judged, Rotated, Opened
  <2> QED
    BY <1>1, <2>2, <2>3 DEF Steps
<1>9. ASSUME NEW t \in Tabs, Logout(t, r) PROVE TokensInv'
  <2> DEFINE new == [Idle EXCEPT !.kind = "logout", !.tab = t, !.stage = "sent", !.token = cookie]
  <2>1. new.kind = "logout" /\ new.stage = "sent"
    BY DEF Idle
  <2>2. req' = [req EXCEPT ![r] = new] /\ Local /\ ~Rotated(req[r])
    BY <1>9 DEF Logout, Free, Rotated
  <2> HIDE DEF new
  <2>3. Carries(req[r], new)
    BY <2>1, <2>2, CarriesNothing
  <2> QED
    BY <1>1, <2>2, <2>3 DEF Steps
<1>10. ASSUME NEW t \in Tabs, NEW k \in Authorized, NEW s \in Ids \cup {None}, Ask(t, r, k, s)
       PROVE  TokensInv'
  <2> DEFINE new == NewCall(t, k, access[t], s, hash)
  <2>1. new.kind = k /\ new.stage = "sent" /\ k \notin {"refresh", "login"}
    BY DEF Idle, NewCall, Authorized
  <2>2. req' = [req EXCEPT ![r] = new] /\ Local /\ ~Rotated(req[r])
    BY <1>10 DEF Ask, Free, Rotated, NewCall
  <2> HIDE DEF new
  <2>3. Carries(req[r], new)
    BY <2>1, <2>2, CarriesNothing
  <2> QED
    BY <1>1, <2>2, <2>3 DEF Steps
<1> QED
  BY <1>2, <1>3, <1>4, <1>5, <1>6, <1>7, <1>8, <1>9, <1>10

\* Steps that end sessions and give out no token.
LEMMA EndingCarries ==
  ASSUME TokensInv, SessionsInv', NEW r \in Requests, NEW ids, NEW written,
         NEW s \in {"done", "denied"},
         s = "done" => req[r].kind \notin {"refresh", "login"},
         req[r].kind = "refresh" => req[r].stage \notin {"queued", "done"},
         req' = After(r, Ends(r, s), written), UNCHANGED browser, faults' = faults,
         rows' = Revoked(ids)
  PROVE  TokensInv'
<1>1. req[r] \in Request
  BY DEF TokensInv, SessionsInv, TypeOK
<1>2. Ends(r, s).stage = s /\ Ends(r, s).kind = req[r].kind /\ Ends(r, s).tab = req[r].tab
  BY <1>1 DEF Ends, Request
<1>3. Carries(req[r], Ends(r, s))
  BY <1>2, CarriesStage DEF Rotated
<1>4. RowsEnd
  <2>1. SUFFICES ASSUME NEW i \in Ids
                 PROVE  /\ rows[i].state # "absent" => rows'[i].state # "absent"
                        /\ rows'[i].state = "live" => rows[i].state = "live"
                        /\ rows'[i].secret = rows[i].secret
    BY DEF RowsEnd
  <2>2. \A j \in Ids : rows[j] \in Row
    BY DEF TokensInv, SessionsInv, TypeOK
  <2> QED
    BY <2>1, <2>2, Revoking DEF TokensInv
<1>5. UNCHANGED lock /\ cookie' = cookie /\ faults' = 0
  BY DEF browser, TokensInv
<1>6. Left(Ends(r, s)) => lock = r
  BY <1>3 DEF Carries, Passes, TokensInv, GoodTokens
<1>7. /\ \A q \in Requests : Carries(req[q], req'[q])
      /\ \A q \in Requests : Left(req'[q]) => lock' = q
  BY <1>3, <1>5, <1>6, CarriesAfter
<1> QED
  BY <1>4, <1>5, <1>7, CarriesKeeps

\* Reuse, sign-out, the end of a session, the change and the reset of a password.
LEMMA EndingStepsCarry ==
  ASSUME TokensInv, SessionsInv', NEW r \in Requests,
         \/ RevokeReused(r) \/ RevokePresented(r) \/ EndSession(r) \/ ChangePassword(r)
         \/ ConfirmReset(r)
  PROVE  TokensInv'
<1>1. CASE RevokeReused(r)
  <2>1. PICK ids, written : req' = After(r, Ends(r, "denied"), written) /\ rows' = Revoked(ids)
    BY <1>1 DEF RevokeReused, Ends
  <2>2. UNCHANGED browser /\ faults' = faults /\ req[r].stage = "reused"
    BY <1>1 DEF RevokeReused, At
  <2> QED
    BY <2>1, <2>2, EndingCarries
<1>2. CASE RevokePresented(r)
  <2>1. PICK ids, written : req' = After(r, Ends(r, "done"), written) /\ rows' = Revoked(ids)
    BY <1>2 DEF RevokePresented, Ends
  <2>2. UNCHANGED browser /\ faults' = faults /\ req[r].kind = "logout"
    BY <1>2 DEF RevokePresented, At
  <2> QED
    BY <2>1, <2>2, EndingCarries
<1>3. CASE EndSession(r)
  <2>1. PICK ids, written : req' = After(r, Ends(r, "done"), written) /\ rows' = Revoked(ids)
    BY <1>3 DEF EndSession, Ends
  <2>2. UNCHANGED browser /\ faults' = faults /\ req[r].kind = "end"
    BY <1>3 DEF EndSession
  <2> QED
    BY <2>1, <2>2, EndingCarries
<1>4. CASE ChangePassword(r)
  <2>1. PICK ids, written : req' = After(r, Ends(r, "done"), written) /\ rows' = Revoked(ids)
    BY <1>4 DEF ChangePassword, Ends
  <2>2. UNCHANGED browser /\ faults' = faults /\ req[r].kind = "change"
    BY <1>4 DEF ChangePassword, At
  <2> QED
    BY <2>1, <2>2, EndingCarries
<1>5. CASE ConfirmReset(r)
  <2>1. PICK ids, written : req' = After(r, Ends(r, "done"), written) /\ rows' = Revoked(ids)
    BY <1>5 DEF ConfirmReset, Ends
  <2>2. UNCHANGED browser /\ faults' = faults /\ req[r].kind = "reset"
    BY <1>5 DEF ConfirmReset, At
  <2> QED
    BY <2>1, <2>2, EndingCarries
<1> QED
  BY <1>1, <1>2, <1>3, <1>4, <1>5

\* The deletion of the account deletes the rows it saw.
LEMMA DeleteUserCarries ==
  ASSUME TokensInv, SessionsInv', NEW r \in Requests, DeleteUser(r)
  PROVE  TokensInv'
<1>1. req[r] \in Request /\ req[r].kind = "delete"
  BY DEF TokensInv, SessionsInv, TypeOK, DeleteUser, At
<1> DEFINE new == [req[r] EXCEPT !.stage = "done"]
<1>2. new.stage = "done" /\ new.kind = "delete" /\ new.tab = req[r].tab
  BY <1>1 DEF Request
<1>3. req' = After(r, new, {"user"} \cup req[r].snap)
  BY DEF DeleteUser
<1> HIDE DEF new
<1>4. Carries(req[r], new)
  BY <1>1, <1>2, CarriesStage DEF Rotated
<1>5. RowsEnd
  <2>1. \A i \in Ids : rows[i] \in Row
    BY DEF TokensInv, SessionsInv, TypeOK
  <2>2. ASSUME NEW i \in Ids
        PROVE  /\ rows[i].state # "absent" => rows'[i].state # "absent"
               /\ rows'[i].state = "live" => rows[i].state = "live"
               /\ rows'[i].secret = rows[i].secret
    <3>1. rows'[i] = IF i \in req[r].snap THEN [rows[i] EXCEPT !.state = "deleted"] ELSE rows[i]
      BY DEF DeleteUser
    <3> QED
      BY <2>1, <3>1 DEF Row
  <2> QED
    BY <2>2 DEF RowsEnd
<1>6. UNCHANGED lock /\ cookie' = cookie /\ faults' = 0
  BY DEF browser, TokensInv, DeleteUser
<1>7. Left(new) => lock = r
  BY <1>4 DEF Carries, Passes, TokensInv, GoodTokens
<1>8. /\ \A q \in Requests : Carries(req[q], req'[q])
      /\ \A q \in Requests : Left(req'[q]) => lock' = q
  BY <1>3, <1>4, <1>6, <1>7, CarriesAfter
<1> QED
  BY <1>5, <1>6, <1>8, CarriesKeeps

\* A step of a tab that writes no row.
LEMMA BrowserCarries ==
  ASSUME TokensInv, SessionsInv', UNCHANGED server, faults' = faults,
         cookie' = cookie \/ cookie' = None,
         \A q \in Requests : Carries(req[q], req'[q]) /\ (Left(req'[q]) => lock' = q)
  PROVE  TokensInv'
<1>1. RowsEnd /\ faults' = 0
  BY DEF server, RowsEnd, TokensInv
<1> QED
  BY <1>1, CarriesKeeps

\* A tab starts a refresh, is told that its refresh is denied, or that another
\* request is over.
LEMMA BrowserStepsCarry ==
  ASSUME NoneAssumption, TokensInv, SessionsInv', NEW r \in Requests,
         \/ RefreshDenied(r) \/ Unclaimed(r) \/ Answered(r) \/ Retry(r)
         \/ \E t \in Tabs : Restore(t, r)
  PROVE  TokensInv'
<1>0. /\ req[r] \in Request
      /\ \A q \in Requests : GoodTokens(q) /\ Carries(req[q], req[q])
                             /\ (Left(req[q]) => lock = q)
  BY CarriesOn DEF TokensInv, SessionsInv, TypeOK, GoodTokens
<1>1. ASSUME NEW t \in Tabs, NEW old, ~Rotated(old)
      PROVE  Carries(old, NewRefresh(t)) /\ ~Left(NewRefresh(t))
  <2>1. NewRefresh(t).kind = "refresh" /\ NewRefresh(t).stage = "queued"
        /\ NewRefresh(t).tab = t /\ t # None
    BY NoneAssumption DEF NewRefresh, Idle
  <2> QED
    BY <1>1, <2>1 DEF Carries, Passes, Left, Judged, Rotated, Opened
<1>2. ~Left(Idle)
  BY DEF Left, Idle
<1>3. ASSUME NEW t \in Tabs, Restore(t, r) PROVE TokensInv'
  <2>1. /\ req' = [req EXCEPT ![r] = NewRefresh(t)] /\ ~Rotated(req[r])
        /\ lock' = lock /\ cookie' = cookie /\ faults' = faults /\ UNCHANGED server
    BY <1>3 DEF Restore, Free, Rotated
  <2>2. \A q \in Requests : req'[q] = IF q = r THEN NewRefresh(t) ELSE req[q]
    BY <2>1 DEF TokensInv, SessionsInv, TypeOK
  <2>3. \A q \in Requests : Carries(req[q], req'[q]) /\ (Left(req'[q]) => lock' = q)
    BY <1>0, <1>1, <2>1, <2>2
  <2> QED
    BY <2>1, <2>3, BrowserCarries
<1>4. CASE RefreshDenied(r)
  <2>1. lock = r /\ lock' = None
    BY <1>0, <1>4 DEF RefreshDenied, At, Left, Released
  <2>2. cookie' = cookie /\ faults' = faults /\ UNCHANGED server
    BY <1>4 DEF RefreshDenied, bounds
  <2>3. ASSUME NEW q \in Requests
        PROVE  Carries(req[q], req'[q]) /\ (Left(req'[q]) => lock' = q)
    <3>1. req'[q] = Idle \/ (req'[q] = req[q] /\ q # r)
      BY <1>4 DEF RefreshDenied, Resumed
    <3>2. req'[q] = Idle => ~Rotated(req[q])
      BY <1>0, <1>4, <3>1 DEF RefreshDenied, Resumed, Waiting, At, Rotated, Idle
    <3> QED
      BY <1>0, <1>2, <2>1, <3>1, <3>2, CarriesIdle
  <2> QED
    BY <2>2, <2>3, BrowserCarries
<1>5. CASE Unclaimed(r) \/ Answered(r)
  <2>1. req[r].kind \notin {"refresh", "login"}
    BY <1>0, <1>5 DEF Unclaimed, Answered, GoodTokens
  <2>2. /\ req' = [req EXCEPT ![r] = Idle] /\ lock' = lock /\ (cookie' = cookie \/ cookie' = None)
        /\ faults' = faults /\ UNCHANGED server
    BY <1>5, <2>1 DEF Unclaimed, Answered, bounds
  <2>3. \A q \in Requests : req'[q] = IF q = r THEN Idle ELSE req[q]
    BY <2>2 DEF TokensInv, SessionsInv, TypeOK
  <2>4. Carries(req[r], Idle)
    BY <2>1, CarriesIdle DEF Rotated
  <2>5. \A q \in Requests : Carries(req[q], req'[q]) /\ (Left(req'[q]) => lock' = q)
    BY <1>0, <1>2, <2>2, <2>3, <2>4
  <2> QED
    BY <2>2, <2>5, BrowserCarries
<1>6. CASE Retry(r)
  <2> DEFINE new == [req[r] EXCEPT !.stage = "waiting"]
  <2>1. new.stage = "waiting" /\ new.kind = req[r].kind /\ req[r].kind \in Authorized
        /\ req[r].kind \notin {"refresh", "login"} /\ req[r].stage = "denied"
    BY <1>0, <1>6 DEF Request, Retry, Authorized
  <2>2. lock' = lock /\ cookie' = cookie /\ faults' = faults /\ UNCHANGED server
    BY <1>6 DEF Retry
  <2>3. req[r].tab \in Tabs
    BY <1>0, <1>6 DEF Retry, Request
  <2>4. \/ req' = [req EXCEPT ![r].stage = "waiting"]
        \/ \E q \in Requests :
             Free(q) /\ req' = [req EXCEPT ![r].stage = "waiting", ![q] = NewRefresh(req[r].tab)]
    BY <1>6 DEF Retry, Goto
  <2>5. ASSUME NEW q \in Requests
        PROVE  \/ q # r /\ req'[q] = req[q]
               \/ q = r /\ req'[q] = new
               \/ Free(q) /\ req'[q] = NewRefresh(req[r].tab)
    BY <2>1, <2>4 DEF TokensInv, SessionsInv, TypeOK, Free
  <2> HIDE DEF new
  <2>6. Carries(req[r], new) /\ ~Left(new)
    BY <2>1, CarriesNothing DEF Rotated, Left
  <2>7. \A q \in Requests : Free(q) => ~Rotated(req[q])
    BY DEF Free, Rotated
  <2>8. \A q \in Requests : Carries(req[q], req'[q]) /\ (Left(req'[q]) => lock' = q)
    BY <1>0, <1>1, <2>2, <2>3, <2>5, <2>6, <2>7
  <2> QED
    BY <2>2, <2>8, BrowserCarries
<1> QED
  BY <1>3, <1>4, <1>5, <1>6

-----------------------------------------------------------------------------
(* Steps by which a token is presented, exchanged, opened or stored. *)

\* A refresh leaves with the cookie, which is current since no other refresh
\* has the lock.
LEMMA SendRefreshKeeps ==
  ASSUME WebLocks, NoneAssumption, TokensInv, SessionsInv', NEW r \in Requests, SendRefresh(r)
  PROVE  TokensInv'
<1>1. /\ lock = None /\ lock' = r /\ cookie' = cookie /\ faults' = 0 /\ rows' = rows
      /\ req[r].kind = "refresh" /\ req[r].stage = "queued"
  BY DEF SendRefresh, MayRefresh, At, bounds, TokensInv, server
<1>2. \A q \in Requests : GoodTokens(q) /\ ~Left(req[q]) /\ req[q] \in Request
  BY <1>1, NoneAssumption DEF TokensInv, GoodTokens, SessionsInv, TypeOK
<1>3. /\ req'[r].kind = "refresh" /\ req'[r].stage = "sent" /\ req'[r].token = cookie
      /\ req'[r].tab = req[r].tab
      /\ \A q \in Requests \ {r} : req'[q] = req[q]
  <2>1. req' = [req EXCEPT ![r] = [req[r] EXCEPT !.stage = "sent", !.token = cookie]]
    BY DEF SendRefresh, TokensInv, SessionsInv, TypeOK
  <2>2. req'[r] = [req[r] EXCEPT !.stage = "sent", !.token = cookie]
    BY <2>1 DEF TokensInv, SessionsInv, TypeOK
  <2> QED
    BY <1>1, <1>2, <2>1, <2>2 DEF Request, TokensInv, SessionsInv, TypeOK
<1>4. cookie # None => Current(cookie)
  BY <1>2 DEF TokensInv, CookieKnown, Left, Rotated
<1>5. \A t : (Current(t)' <=> Current(t)) /\ (Over(t)' <=> Over(t))
  BY <1>1 DEF Current, Over
<1>6. ASSUME NEW q \in Requests PROVE GoodTokens(q)'
  <2>1. CASE q = r
    BY <1>1, <1>2, <1>3, <1>4, <1>5, <2>1 DEF GoodTokens, Left, Judged, Rotated, Opened, Current
  <2>2. CASE q # r
    <3>1. req'[q] = req[q] /\ GoodTokens(q) /\ ~Left(req[q])
      BY <1>2, <1>3, <2>2
    <3> QED
      BY <1>1, <3>1 DEF GoodTokens, Left, Judged, Rotated, Opened, Current, Over
  <2> QED
    BY <2>1, <2>2
<1>7. ASSUME NEW p \in Requests, NEW q \in Requests PROVE OpenedApart(p, q)'
  <2>1. SUFFICES ASSUME Opened(req'[p]), q # p PROVE OpenedApart(p, q)'
    BY DEF OpenedApart
  <2>2. p # r /\ req'[p] = req[p] /\ Opened(req[p])
    BY <1>3, <2>1 DEF Opened
  <2>3. CASE q = r
    BY <1>3, <2>2, <2>3 DEF OpenedApart, Judged, Rotated, Opened, TokensInv, CookieKnown
  <2>4. CASE q # r
    BY <1>3, <2>2, <2>4 DEF OpenedApart, TokensInv
  <2> QED
    BY <2>3, <2>4
<1>8. CookieKnown'
  BY <1>1, <1>3, <1>4 DEF CookieKnown, TokensInv, Opened, Current
<1> QED
  BY <1>1, <1>6, <1>7, <1>8 DEF TokensInv

\* The requests that a write of rows does not answer are as they were, except
\* that their transactions may be marked.
LEMMA AfterOthers ==
  ASSUME TokensInv, NEW r \in Requests, NEW new, NEW written, req' = After(r, new, written)
  PROVE  /\ req'[r] = new
         /\ \A q \in Requests \ {r} :
              /\ req'[q].kind = req[q].kind /\ req'[q].stage = req[q].stage
              /\ req'[q].token = req[q].token /\ req'[q].answer = req[q].answer
              /\ req'[q].tab = req[q].tab
<1>1. \A q \in Requests : req[q] \in Request
  BY DEF TokensInv, SessionsInv, TypeOK
<1>2. \A q \in Requests \ {r} : req'[q] = req[q] \/ req'[q] = [req[q] EXCEPT !.stale = TRUE]
  BY DEF After
<1>3. req'[r] = new
  BY DEF After
<1> QED
  BY <1>1, <1>2, <1>3 DEF Request

\* The rotation that finds the presented secret current: only its own row and
\* its own answer have the new one.
LEMMA RotateCurrentKeeps ==
  ASSUME TokensInv, SessionsInv', NEW r \in Requests, Rotate(r), StillCurrent(req[r].token)
  PROVE  TokensInv'
<1> DEFINE t == req[r].token
           a == [id |-> t.id, secret |-> rows[t.id].secret + 1]
           new == Issues(r, a)
<1>1. /\ req[r] \in Request /\ req[r].kind = "refresh" /\ req[r].stage = "matched"
      /\ GoodRequest(req[r]) /\ GoodTokens(r)
  BY DEF TokensInv, SessionsInv, TypeOK, Rotate, At
<1>2. t \in Token /\ t # None /\ t.id \in Ids /\ t.secret \in Nat
  BY <1>1 DEF GoodRequest, Presented, Token, GoodTokens
<1>3. rows[t.id].state = "live" /\ rows[t.id].secret = t.secret
  BY DEF StillCurrent
<1>4. a \in Token /\ a.id = t.id /\ a.secret = rows[t.id].secret + 1
  <2>1. rows[t.id].secret + 1 \in Nat
    BY <1>2, <1>3
  <2> QED
    BY <1>2, <2>1 DEF Token
<1>5. rows' = [rows EXCEPT ![t.id].secret = a.secret] /\ req' = After(r, new, {t.id})
  BY DEF Rotate, Issues
<1>6. new.kind = "refresh" /\ new.stage = "done" /\ new.token = t /\ new.answer = a
      /\ new.tab = req[r].tab
  <2>1. new = [req[r] EXCEPT !.stage = "done", !.answer = a]
    BY DEF Issues
  <2> HIDE DEF a
  <2> QED
    BY <1>1, <2>1 DEF Request
<1>7. cookie' = cookie /\ lock' = lock /\ faults' = 0
  BY DEF Rotate, browser, TokensInv
<1>8. rows'[t.id].state = "live" /\ rows'[t.id].secret = a.secret
  <2> HIDE DEF a
  <2>1. rows[t.id] \in Row
    BY <1>2 DEF TokensInv, SessionsInv, TypeOK
  <2>2. rows'[t.id] = [rows[t.id] EXCEPT !.secret = a.secret]
    BY <1>2, <1>5 DEF TokensInv, SessionsInv, TypeOK
  <2> QED
    BY <1>3, <2>1, <2>2 DEF Row
<1>9. \A s \in Ids \ {t.id} : rows'[s] = rows[s]
  BY <1>5 DEF TokensInv, SessionsInv, TypeOK
<1> HIDE DEF a, new
<1>10. /\ req'[r] = new
       /\ \A q \in Requests \ {r} :
            /\ req'[q].kind = req[q].kind /\ req'[q].stage = req[q].stage
            /\ req'[q].token = req[q].token /\ req'[q].answer = req[q].answer
            /\ req'[q].tab = req[q].tab
  BY <1>5, AfterOthers
<1>11. lock = r /\ \A q \in Requests \ {r} : GoodTokens(q) /\ ~Left(req[q])
  BY <1>1 DEF TokensInv, GoodTokens, Left
<1>12. ASSUME NEW q \in Requests, q # r, Opened(req[q])
       PROVE  req[q].answer.id \in Ids \ {t.id}
  <2>1. req[q].answer.id # t.id
    BY <1>1, <1>2, <1>12 DEF TokensInv, OpenedApart, Judged
  <2>2. req[q].answer.id \in Ids
    BY <1>12 DEF TokensInv, SessionsInv, GoodRequest, IssuesToken, Opened, Token
  <2> QED
    BY <2>1, <2>2
<1>13. ASSUME NEW q \in Requests PROVE GoodTokens(q)'
  <2>1. CASE q = r
    <3>1. Current(req[r].answer)'
      BY <1>4, <1>6, <1>8, <1>10 DEF Current
    <3> QED
      BY <1>1, <1>4, <1>6, <1>7, <1>10, <1>11, <2>1, <3>1
         DEF GoodTokens, Left, Judged, Rotated, Opened
  <2>2. CASE q # r
    <3>1. Opened(req'[q]) => Current(req[q].answer)'
      <4>1. SUFFICES ASSUME Opened(req'[q]) PROVE Current(req[q].answer)'
        OBVIOUS
      <4>2. Opened(req[q]) /\ req'[q].answer = req[q].answer
        BY <1>10, <2>2, <4>1 DEF Opened
      <4>3. Current(req[q].answer)' <=> (rows'[req'[q].answer.id].state # "absent"
               /\ (rows'[req'[q].answer.id].state = "live"
                     => rows'[req'[q].answer.id].secret = req'[q].answer.secret))
        BY DEF Current
      <4>4. req[q].answer.id \in Ids \ {t.id} /\ Current(req[q].answer)
        BY <1>11, <1>12, <2>2, <4>2 DEF GoodTokens
      <4> QED
        BY <1>9, <4>2, <4>3, <4>4 DEF Current
    <3> QED
      BY <1>10, <1>11, <2>2, <3>1 DEF GoodTokens, Left, Judged, Rotated, Opened
  <2> QED
    BY <2>1, <2>2
<1>14. ASSUME NEW p \in Requests, NEW q \in Requests PROVE OpenedApart(p, q)'
  <2>1. SUFFICES ASSUME Opened(req'[p]), q # p PROVE OpenedApart(p, q)'
    BY DEF OpenedApart
  <2>2. p # r /\ Opened(req[p]) /\ req'[p].answer = req[p].answer
    BY <1>6, <1>10, <2>1 DEF Opened
  <2>3. CASE q = r
    BY <1>6, <1>10, <1>12, <2>2, <2>3 DEF OpenedApart, Judged, Rotated, Opened
  <2>4. CASE q # r
    <3>1. ~Left(req'[q]) /\ (Opened(req'[q]) => Opened(req[q]) /\ req'[q].answer = req[q].answer)
      BY <1>10, <1>11, <2>4 DEF Left, Opened
    <3> QED
      BY <2>1, <2>2, <3>1 DEF OpenedApart, TokensInv, Left, Judged, Rotated
  <2> QED
    BY <2>3, <2>4
<1>15. CookieKnown'
  <2>1. SUFFICES ASSUME cookie # None
                 PROVE  /\ rows'[cookie.id].state # "absent"
                        /\ \/ Current(cookie)'
                           \/ \E q \in Requests : Rotated(req'[q]) /\ req'[q].answer.id = cookie.id
                        /\ \A q \in Requests : Opened(req'[q]) => req'[q].answer.id # cookie.id
    BY <1>7 DEF CookieKnown
  <2>2. cookie.id \in Ids /\ rows[cookie.id].state # "absent"
    BY <2>1 DEF TokensInv, SessionsInv, TypeOK, Token, CookieKnown
  <2>3. rows'[cookie.id].state # "absent"
    BY <1>8, <1>9, <2>2
  <2>4. \A q \in Requests : Opened(req'[q]) => req'[q].answer.id # cookie.id
    BY <1>6, <1>10, <2>1 DEF Opened, TokensInv, CookieKnown
  <2>5. CASE cookie.id = t.id
    BY <1>4, <1>6, <1>10, <2>3, <2>4, <2>5 DEF Rotated
  <2>6. CASE cookie.id # t.id
    <3>1. Current(cookie)
      BY <1>1, <1>11, <2>1 DEF TokensInv, CookieKnown, Rotated, Left
    <3>2. Current(cookie)'
      BY <1>7, <1>9, <2>2, <2>6, <3>1 DEF Current
    <3> QED
      BY <2>3, <2>4, <3>2
  <2> QED
    BY <2>5, <2>6
<1> QED
  BY <1>7, <1>13, <1>14, <1>15 DEF TokensInv

\* A rotation that does not presents a token of a session that has ended.
LEMMA RotateKeepsTokens ==
  ASSUME TokensInv, SessionsInv', NEW r \in Requests, Rotate(r)
  PROVE  TokensInv'
<1>1. CASE StillCurrent(req[r].token)
  BY <1>1, RotateCurrentKeeps
<1>2. CASE ~StillCurrent(req[r].token)
  <2> DEFINE new == [req[r] EXCEPT !.stage = "reused"]
  <2>1. /\ req[r] \in Request /\ req[r].kind = "refresh" /\ req[r].stage = "matched"
        /\ GoodTokens(r)
    BY DEF TokensInv, SessionsInv, TypeOK, Rotate, At
  <2>2. new.kind = "refresh" /\ new.stage = "reused" /\ new.token = req[r].token
        /\ new.tab = req[r].tab
    BY <2>1 DEF Request
  <2>3. req' = [req EXCEPT ![r] = new] /\ Local
    BY <1>2 DEF Rotate, Goto, Local, server, bounds
  <2>4. Over(req[r].token)
    BY <1>2, <2>1 DEF GoodTokens, Judged, Current, Over, StillCurrent
  <2> HIDE DEF new
  <2>5. Carries(req[r], new) /\ (Left(new) => lock = r)
    BY <2>1, <2>2, <2>4 DEF Carries, Passes, GoodTokens, Left, Judged, Rotated, Opened
  <2> QED
    BY <2>3, <2>5, LocalCarries
<1> QED
  BY <1>1, <1>2

\* The answer of a refresh brings the current token of its session.
LEMMA RefreshArrivesKeeps ==
  ASSUME NoneAssumption, TokensInv, SessionsInv', NEW r \in Requests, RefreshArrives(r)
  PROVE  TokensInv'
<1>1. /\ req[r].kind = "refresh" /\ req[r].stage = "done" /\ GoodTokens(r) /\ GoodRequest(req[r])
      /\ Rotated(req[r])
  BY DEF RefreshArrives, At, TokensInv, SessionsInv, Rotated
<1>2. req[r].answer \in Token /\ req[r].answer.id \in Ids /\ Current(req[r].answer)
      /\ req[r].answer.id = req[r].token.id
  BY <1>1 DEF GoodRequest, IssuesToken, Token, GoodTokens
<1>3. lock = r /\ lock' = None /\ cookie' = req[r].answer /\ rows' = rows /\ faults' = 0
  BY <1>1 DEF RefreshArrives, Released, CookieWritten, server, bounds, TokensInv, GoodTokens, Left,
     Rotated
<1>4. req[r].answer.id # None
  BY <1>2, NoneAssumption
<1>5. ASSUME NEW q \in Requests, q # r
      PROVE  Passes(req[q], req'[q]) /\ ~Left(req'[q])
             /\ (Opened(req'[q]) => Opened(req[q]) /\ req'[q].answer = req[q].answer)
  <2>1. req[q] \in Request /\ GoodTokens(q) /\ Carries(req[q], req[q]) /\ ~Left(req[q])
    BY <1>3, <1>5, CarriesOn DEF TokensInv, SessionsInv, TypeOK, GoodTokens
  <2>2. CASE req'[q] = req[q]
    BY <2>1, <2>2 DEF Carries
  <2>3. CASE req[q].stage = "waiting" /\
             req'[q] = [req[q] EXCEPT !.stage = "sent", !.again = TRUE, !.sid = req[r].answer.id]
    <3>1. req'[q].kind = req[q].kind /\ req'[q].stage = "sent" /\ req[q].kind \in Authorized
      BY <2>1, <2>3 DEF Request, GoodTokens
    <3> QED
      BY <3>1 DEF Passes, Left, Judged, Rotated, Opened, Authorized
  <2> QED
    BY <1>4, <1>5, <2>2, <2>3 DEF RefreshArrives, Resumed, Waiting, SessionOf
<1>6. req'[r] = Idle
  BY DEF RefreshArrives, Resumed
<1>7. Passes(req[r], Idle) /\ ~Left(Idle) /\ ~Opened(Idle)
  BY DEF Passes, Idle, Left, Judged, Rotated, Opened
<1>8. RowsEnd
  BY <1>3 DEF RowsEnd
<1>9. /\ \A q \in Requests : Passes(req[q], req'[q])
      /\ \A q \in Requests : Left(req'[q]) => lock' = q
  BY <1>5, <1>6, <1>7
<1>10. (\A q \in Requests : GoodTokens(q)') /\ (\A p, q \in Requests : OpenedApart(p, q)')
  BY <1>8, <1>9, PassesKeeps
<1>11. CookieKnown'
  <2>1. Current(cookie)' /\ rows'[cookie'.id].state # "absent"
    BY <1>2, <1>3 DEF Current
  <2>2. \A q \in Requests : Opened(req'[q]) => req'[q].answer.id # cookie'.id
    BY <1>1, <1>2, <1>3, <1>5, <1>6, <1>7 DEF TokensInv, OpenedApart
  <2> QED
    BY <2>1, <2>2 DEF CookieKnown
<1> QED
  BY <1>3, <1>10, <1>11 DEF TokensInv

\* So does the answer of a sign-in.
LEMMA LoginArrivesKeeps ==
  ASSUME TokensInv, SessionsInv', NEW r \in Requests, LoginArrives(r)
  PROVE  TokensInv'
<1>1. GoodTokens(r) /\ Opened(req[r]) /\ ~Rotated(req[r]) /\ Current(req[r].answer)
  BY DEF LoginArrives, At, TokensInv, Opened, Rotated, GoodTokens
<1>2. lock' = lock /\ cookie' = req[r].answer /\ rows' = rows /\ faults' = 0
  BY DEF LoginArrives, server, bounds, TokensInv
<1>3. \A q \in Requests : req'[q] = IF q = r THEN Idle ELSE req[q]
  BY DEF LoginArrives, TokensInv, SessionsInv, TypeOK
<1>4. \A q \in Requests : Carries(req[q], req'[q]) /\ (Left(req'[q]) => lock' = q)
  <2>1. Carries(req[r], Idle) /\ ~Left(Idle)
    BY <1>1, CarriesIdle DEF Left, Idle
  <2>2. \A q \in Requests : Carries(req[q], req[q]) /\ (Left(req[q]) => lock = q)
    BY CarriesOn DEF TokensInv, GoodTokens
  <2> QED
    BY <1>2, <1>3, <2>1, <2>2
<1>5. RowsEnd
  BY <1>2 DEF RowsEnd
<1>6. (\A q \in Requests : GoodTokens(q)') /\ (\A p, q \in Requests : OpenedApart(p, q)')
  BY <1>4, <1>5, PassesKeeps DEF Carries
<1>7. CookieKnown'
  <2>1. Current(cookie)' /\ rows'[cookie'.id].state # "absent"
    BY <1>1, <1>2 DEF Current
  <2>2. ~Opened(Idle)
    BY DEF Opened, Idle
  <2>3. \A q \in Requests : Opened(req'[q]) => req'[q].answer.id # cookie'.id
    BY <1>1, <1>2, <1>3, <2>2 DEF TokensInv, OpenedApart
  <2> QED
    BY <2>1, <2>3 DEF CookieKnown
<1> QED
  BY <1>2, <1>6, <1>7 DEF TokensInv

\* A sign-in opens a session that no token is of.
LEMMA IssueSessionKeepsTokens ==
  ASSUME TokensInv, SessionsInv', NEW r \in Requests, NEW i \in Ids, IssueSession(r, i)
  PROVE  TokensInv'
<1> DEFINE a == [id |-> i, secret |-> 0]
           new == Issues(r, a)
<1>1. /\ req[r] \in Request /\ req[r].kind = "login" /\ req[r].stage = "compared"
      /\ GoodTokens(r) /\ rows[i].state = "absent"
  BY DEF TokensInv, SessionsInv, TypeOK, IssueSession, At
<1>2. a.id = i /\ a.secret = 0 /\ req' = After(r, new, {"user", i})
  BY DEF IssueSession, Issues, LoginWrites
<1>3. new.kind = "login" /\ new.stage = "done" /\ new.answer = a /\ new.tab = req[r].tab
  <2>1. new = [req[r] EXCEPT !.stage = "done", !.answer = a]
    BY DEF Issues
  <2> HIDE DEF a
  <2> QED
    BY <1>1, <2>1 DEF Request
<1>4. cookie' = cookie /\ lock' = lock /\ faults' = 0
  BY DEF IssueSession, browser, TokensInv
<1>5. /\ rows'[i].state = "live" /\ rows'[i].secret = 0
      /\ \A s \in Ids \ {i} : rows'[s] = rows[s]
  BY DEF IssueSession, TokensInv, SessionsInv, TypeOK
<1> HIDE DEF a, new
<1>6. /\ req'[r] = new
      /\ \A q \in Requests \ {r} :
           /\ req'[q].kind = req[q].kind /\ req'[q].stage = req[q].stage
           /\ req'[q].token = req[q].token /\ req'[q].answer = req[q].answer
           /\ req'[q].tab = req[q].tab
  BY <1>2, AfterOthers
<1>7. ASSUME NEW t, t.id \in Ids
      PROVE  /\ Current(t) => t.id # i /\ rows'[t.id] = rows[t.id]
             /\ Over(t) => t.id # i /\ rows'[t.id] = rows[t.id]
  BY <1>1, <1>5, <1>7 DEF Current, Over
<1>8. ASSUME NEW q \in Requests, q # r
      PROVE  /\ GoodTokens(q)'
             /\ Judged(req[q]) \/ Rotated(req[q]) => req[q].token.id # i
             /\ Opened(req[q]) => req[q].answer.id # i
  <2>1. GoodTokens(q) /\ GoodRequest(req[q]) /\ req[q] \in Request
    BY DEF TokensInv, SessionsInv, TypeOK
  <2>2. Judged(req[q]) => req[q].token.id \in Ids
    BY <2>1 DEF Judged, Request, Token
  <2>3. Rotated(req[q]) \/ Opened(req[q]) => req[q].answer.id \in Ids
    BY <2>1 DEF Rotated, Opened, GoodRequest, IssuesToken, Token
  <2>4. req[q].kind = "refresh" /\ req[q].stage = "reused" => req[q].token.id \in Ids
    BY <2>1 DEF GoodRequest, Presented, Token
  <2>5. Judged(req[q]) => req[q].token.id # i /\ rows'[req[q].token.id] = rows[req[q].token.id]
    BY <1>7, <2>1, <2>2 DEF GoodTokens
  <2>6. Rotated(req[q]) \/ Opened(req[q]) =>
          req[q].answer.id # i /\ rows'[req[q].answer.id] = rows[req[q].answer.id]
    BY <1>7, <2>1, <2>3 DEF GoodTokens
  <2>7. req[q].kind = "refresh" /\ req[q].stage = "reused" =>
          rows'[req[q].token.id] = rows[req[q].token.id]
    BY <1>7, <2>1, <2>4 DEF GoodTokens
  <2>8. Judged(req[q]) \/ Rotated(req[q]) => req[q].token.id # i
    BY <2>1, <2>5, <2>6 DEF GoodTokens
  <2>9. /\ req'[q].kind = req[q].kind /\ req'[q].stage = req[q].stage
        /\ req'[q].token = req[q].token /\ req'[q].answer = req[q].answer
        /\ req'[q].tab = req[q].tab
    BY <1>6, <1>8
  <2>10. GoodTokens(q)'
    BY <1>4, <2>1, <2>5, <2>6, <2>7, <2>9
       DEF GoodTokens, Left, Judged, Rotated, Opened, Current, Over
  <2> QED
    BY <2>6, <2>8, <2>10
<1>9. GoodTokens(r)'
  <2>1. Current(req[r].answer)'
    BY <1>2, <1>3, <1>5, <1>6 DEF Current
  <2> QED
    BY <1>1, <1>3, <1>6, <2>1 DEF GoodTokens, Left, Judged, Rotated, Opened
<1>10. ASSUME NEW p \in Requests, NEW q \in Requests PROVE OpenedApart(p, q)'
  <2>1. SUFFICES ASSUME Opened(req'[p]), q # p PROVE OpenedApart(p, q)'
    BY DEF OpenedApart
  <2>2. CASE p = r
    BY <1>2, <1>3, <1>6, <1>8, <2>1, <2>2 DEF OpenedApart, Judged, Rotated, Opened
  <2>3. CASE q = r
    BY <1>2, <1>3, <1>6, <1>8, <2>1, <2>3 DEF OpenedApart, Judged, Rotated, Opened
  <2>4. CASE p # r /\ q # r
    BY <1>6, <2>1, <2>4 DEF OpenedApart, TokensInv, Judged, Rotated, Opened
  <2> QED
    BY <2>2, <2>3, <2>4
<1>11. CookieKnown'
  <2>1. SUFFICES ASSUME cookie # None
                 PROVE  /\ rows'[cookie.id].state # "absent"
                        /\ \/ Current(cookie)'
                           \/ \E q \in Requests : Rotated(req'[q]) /\ req'[q].answer.id = cookie.id
                        /\ \A q \in Requests : Opened(req'[q]) => req'[q].answer.id # cookie.id
    BY <1>4 DEF CookieKnown
  <2>2. cookie.id \in Ids /\ rows[cookie.id].state # "absent"
    BY <2>1 DEF TokensInv, SessionsInv, TypeOK, Token, CookieKnown
  <2>3. cookie.id # i /\ rows'[cookie.id] = rows[cookie.id]
    BY <1>1, <1>5, <2>2
  <2>4. \A q \in Requests : Opened(req'[q]) => req'[q].answer.id # cookie.id
    BY <1>2, <1>3, <1>6, <2>1, <2>3 DEF Opened, TokensInv, CookieKnown
  <2>5. Current(cookie) => Current(cookie)'
    BY <1>4, <2>3 DEF Current
  <2>6. ASSUME NEW q \in Requests, Rotated(req[q]), req[q].answer.id = cookie.id
        PROVE  Rotated(req'[q]) /\ req'[q].answer.id = cookie.id
    BY <1>1, <1>6, <2>6 DEF Rotated
  <2> QED
    BY <2>1, <2>2, <2>3, <2>4, <2>5, <2>6 DEF TokensInv, CookieKnown
<1> QED
  BY <1>4, <1>8, <1>9, <1>10, <1>11 DEF TokensInv

-----------------------------------------------------------------------------
\* At first the browser has no cookie.
LEMMA TokensInit == NoneAssumption /\ Init => TokensInv
<1> SUFFICES ASSUME Init PROVE TokensInv
  OBVIOUS
<1>1. SessionsInv /\ faults = 0 /\ CookieKnown
  BY SessionsInit DEF Init, CookieKnown
<1>2. \A r \in Requests : req[r] = Idle
  BY DEF Init
<1>3. (\A r \in Requests : GoodTokens(r)) /\ (\A r, q \in Requests : OpenedApart(r, q))
  BY <1>2 DEF GoodTokens, OpenedApart, Idle, Left, Judged, Rotated, Opened
<1> QED
  BY <1>1, <1>3 DEF TokensInv

\* No fault happens, and every other step keeps what is known of the tokens.
LEMMA TokensStep ==
  ASSUME WebLocks, MaxFaults = 0, NoneAssumption, TokensInv, [Next]_vars
  PROVE  TokensInv'
<1>0. SessionsInv'
  BY SessionsStep DEF TokensInv
<1>1. CASE UNCHANGED vars
  BY <1>1 DEF vars, TokensInv, SessionsInv, TypeOK, GoodRequest, IssuesToken, Presented,
     LiveUnderCurrentPassword, Live, ExchangedOnce, At, GoodTokens, OpenedApart, CookieKnown,
     Current, Over, Left, Judged, Rotated, Opened
<1>2. /\ \A r \in Requests : ~RefreshLost(r) /\ ~RequestLost(r)
      /\ \A t \in Tabs : ~Reload(t)
  BY DEF TokensInv, RefreshLost, RequestLost, Reload
<1>3. CASE \E t \in Tabs, r \in Requests :
             \/ Restore(t, r) \/ Login(t, r) \/ Logout(t, r)
             \/ \E kind \in Authorized, s \in Ids \cup {None} : Ask(t, r, kind, s)
  BY <1>0, <1>3, BrowserStepsCarry, OwnStepsCarry
<1>4. ASSUME NEW r \in Requests,
             \/ RefreshDenied(r) \/ Unclaimed(r) \/ Answered(r) \/ Retry(r)
      PROVE  TokensInv'
  BY <1>0, <1>4, BrowserStepsCarry
<1>5. ASSUME NEW r \in Requests,
             \/ FindSession(r) \/ LoginRefused(r) \/ Deny(r) \/ Run(r) \/ Compare(r)
             \/ GiveUp(r) \/ StartReset(r) \/ StartDeletion(r) \/ Abort(r)
      PROVE  TokensInv'
  BY <1>0, <1>5, OwnStepsCarry
<1>6. ASSUME NEW r \in Requests,
             \/ RevokeReused(r) \/ RevokePresented(r) \/ EndSession(r) \/ ChangePassword(r)
             \/ ConfirmReset(r) \/ DeleteUser(r)
      PROVE  TokensInv'
  BY <1>0, <1>6, EndingStepsCarry, DeleteUserCarries
<1>7. ASSUME NEW r \in Requests,
             \/ SendRefresh(r) \/ Rotate(r) \/ RefreshArrives(r) \/ LoginArrives(r)
             \/ \E s \in Ids : IssueSession(r, s)
      PROVE  TokensInv'
  BY <1>0, <1>7, SendRefreshKeeps, RotateKeepsTokens, RefreshArrivesKeeps, LoginArrivesKeeps,
     IssueSessionKeepsTokens
<1> QED
  BY <1>1, <1>2, <1>3, <1>4, <1>5, <1>6, <1>7 DEF Next

\* A refresh that is taken for a reuse finds its session ended already.
LEMMA ReuseEndsNothing ==
  ASSUME TokensInv PROVE Undisturbed
<1>1. SUFFICES ASSUME NEW r \in Requests, RevokeReused(r) PROVE rows' = rows
  BY DEF Undisturbed
<1>2. rows[req[r].token.id].state # "live"
  BY <1>1 DEF RevokeReused, At, TokensInv, GoodTokens, Over
<1>3. rows' = [s \in Ids |-> rows[s]]
  BY <1>1, <1>2 DEF RevokeReused, Revoked
<1> QED
  BY <1>3 DEF TokensInv, SessionsInv, TypeOK

\* In a browser with Web Locks, and when no request or answer is lost and no page
\* reloaded, no refresh ends a session (withRefreshLock of auth-client.ts, and the
\* revocation of a reused token by rotate of session.service.ts).
THEOREM LockedRefreshesEndNothing ==
  ASSUME WebLocks, MaxFaults = 0
  PROVE  Spec => [][Undisturbed]_vars
<1>1. Init => TokensInv
  BY TokensInit, NoneAssumption
<1>2. TokensInv /\ [Next]_vars => TokensInv'
  BY TokensStep, NoneAssumption
<1>3. TokensInv => Undisturbed
  BY ReuseEndsNothing
<1>4. TokensInv /\ [Next]_vars => [Undisturbed]_vars
  BY <1>3
<1> QED
  BY <1>1, <1>2, <1>4, PTL DEF Spec

=============================================================================
