--------------------------- MODULE AccountTokens ---------------------------
(***************************************************************************)
(* Registration, email verification and password recovery of one email     *)
(* address (auth.service.ts) and the mailed links they live by             *)
(* (account-action-token.service.ts).                                      *)
(*                                                                         *)
(* Requests for a link are sequences of separate statements; a             *)
(* registration is a READ COMMITTED transaction that is ordered by the row *)
(* of the pending registration; a link is followed in a SERIALIZABLE       *)
(* transaction: a snapshot and a commit.                                   *)
(***************************************************************************)
EXTENDS Naturals, FiniteSets, TLAPS

CONSTANTS
  Links,    \* ids of AccountActionToken rows
  Requests, \* requests in progress at once
  Kinds,    \* bound: what is asked for
  Known,    \* bound: whether an unverified account exists at first
  MaxRows,  \* bound: accounts and pending registrations ever made
  None

VARIABLES
  user,     \* the account of the address, or 0
  verified, \* its emailVerifiedAt
  pending,  \* the PendingRegistration of the address, or 0
  made,     \* rows made so far; their ids count up
  links,
  lock,     \* the registration that holds the row of the pending one
  req

vars == <<user, verified, pending, made, links, lock, req>>
people == <<user, verified, pending, made>>

Bounds ==
  /\ MaxRows \in Nat \ {0} /\ Known \in BOOLEAN
  /\ Kinds \subseteq {"register", "resend", "forgot", "verify", "reset", "delete"}
  /\ None \notin Links \cup Requests

-----------------------------------------------------------------------------
Purposes == {"VERIFY_EMAIL", "RESET_PASSWORD"}
\* A link belongs to an account or to a pending registration, never to both.
Subject == [of : {"user", "pending"}, id : 0 .. MaxRows]
Link == [state : {"absent", "active", "expired", "consumed", "deleted"},
         purpose : Purposes, subject : Subject,
         recent : BOOLEAN,  \* younger than the resend cooldown
         uses : Nat]        \* how often following it took effect
NoSubject == [of |-> "user", id |-> 0]
NoLink == [state |-> "absent", purpose |-> "VERIFY_EMAIL", subject |-> NoSubject,
           recent |-> FALSE, uses |-> 0]
Request ==
  [kind : Kinds \cup {"none"},
   stage : {"idle", "checked", "locked", "clearing", "creating", "running"},
   subject : Subject, link : Links \cup {None},
   snap : SUBSET Links,  \* the active links a followed link's transaction sees
   stale : BOOLEAN]      \* one of them, or its subject, was written since
Idle == [kind |-> "none", stage |-> "idle", subject |-> NoSubject,
         link |-> None, snap |-> {}, stale |-> FALSE]

User == [of |-> "user", id |-> user]
Pending == [of |-> "pending", id |-> pending]
PurposeOf(kind) ==
  IF kind \in {"forgot", "reset"} THEN "RESET_PASSWORD" ELSE "VERIFY_EMAIL"

\* The values the variables take: rows, requests and answers of the right shape.
TypeOK ==
  /\ user \in 0 .. MaxRows /\ pending \in 0 .. MaxRows /\ made \in 0 .. MaxRows
  /\ verified \in BOOLEAN
  /\ links \in [Links -> Link]
  /\ lock \in Requests \cup {None}
  /\ req \in [Requests -> Request]

Active(subject, purpose) ==
  {i \in Links : links[i].state = "active" /\ links[i].subject = subject
                                           /\ links[i].purpose = purpose}
\* hasRecentActiveToken.
HasRecent(subject) == \E i \in Active(subject, "VERIFY_EMAIL") : links[i].recent
\* The subject of a link still has its row.
Exists(subject) == subject.id # 0 /\ (subject = Pending \/ subject.of = "user")

\* The requests after r goes on as new, and wrote the rows of links and subject.
After(r, new, written, subject) ==
  [q \in Requests |->
     IF q = r THEN new
     ELSE IF /\ req[q].stage = "running"
             /\ written \cap req[q].snap # {} \/ subject = req[q].subject
          THEN [req[q] EXCEPT !.stale = TRUE]
     ELSE req[q]]

Consumed(ids) == [i \in Links |-> IF i \in ids THEN [links[i] EXCEPT !.state = "consumed"]
                                  ELSE links[i]]
Created(table, i, subject, purpose) ==
  [table EXCEPT ![i] = [state |-> "active", purpose |-> purpose, subject |-> subject,
                        recent |-> TRUE, uses |-> 0]]

-----------------------------------------------------------------------------
(* register: one transaction. *)

\* The account is looked for first; an existing one ends the request.
Register(r) ==
  /\ "register" \in Kinds /\ req[r] = Idle
  /\ user = 0 /\ made < MaxRows
  /\ req' = [req EXCEPT ![r] = [Idle EXCEPT !.kind = "register", !.stage = "checked"]]
  /\ UNCHANGED people /\ UNCHANGED <<links, lock>>

\* The upsert locks the row until the transaction ends.
RowIsFree(r) == lock = None

\* The row is written, whether or not a recent link makes a new one needless.
RegisterUpsert(r) ==
  /\ req[r].kind = "register" /\ req[r].stage = "checked" /\ RowIsFree(r)
  /\ IF pending # 0 /\ HasRecent(Pending)
     THEN /\ req' = After(r, Idle, {}, Pending)
          /\ UNCHANGED lock
     ELSE /\ req' = [req EXCEPT ![r].stage = "locked"]
          /\ lock' = r
  /\ UNCHANGED people /\ UNCHANGED links

RegisterIssue(r, i) ==
  LET old == IF pending = 0 THEN {} ELSE Active(Pending, "VERIFY_EMAIL")
      row == IF pending = 0 THEN made + 1 ELSE pending
      subject == [of |-> "pending", id |-> row] IN
  /\ req[r].kind = "register" /\ req[r].stage = "locked"
  /\ links[i].state = "absent" /\ row <= MaxRows
  /\ pending' = row
  /\ made' = IF pending = 0 THEN row ELSE made
  /\ links' = Created(Consumed(old), i, subject, "VERIFY_EMAIL")
  /\ req' = After(r, Idle, old, subject)
  /\ lock' = IF lock = r THEN None ELSE lock
  /\ UNCHANGED <<user, verified>>

-----------------------------------------------------------------------------
(* requestEmailVerification and requestPasswordReset: separate statements. *)

\* Which subject gets a link, if any.
Wanted(kind) ==
  IF kind = "forgot" THEN IF user # 0 THEN {User} ELSE {}
  ELSE IF user # 0 THEN IF verified THEN {} ELSE {User}
  ELSE IF pending # 0 THEN {Pending} ELSE {}

AskForLink(r, kind) ==
  /\ kind \in {"resend", "forgot"} \cap Kinds /\ req[r] = Idle
  /\ \E subject \in Wanted(kind) :
       /\ kind = "resend" => ~HasRecent(subject)
       /\ req' = [req EXCEPT ![r] =
            [Idle EXCEPT !.kind = kind, !.stage = "clearing", !.subject = subject]]
  /\ UNCHANGED people /\ UNCHANGED <<links, lock>>

\* issue: the earlier links are ended,
EndEarlier(r) ==
  LET old == Active(req[r].subject, PurposeOf(req[r].kind)) IN
  /\ req[r].stage = "clearing"
  /\ links' = Consumed(old)
  /\ req' = After(r, [req[r] EXCEPT !.stage = "creating"], old, NoSubject)
  /\ UNCHANGED people /\ UNCHANGED lock

\* then the new one is created and mailed.
CreateLink(r, i) ==
  /\ req[r].stage = "creating" /\ Exists(req[r].subject)
  /\ links[i].state = "absent"
  /\ links' = Created(links, i, req[r].subject, PurposeOf(req[r].kind))
  /\ req' = [req EXCEPT ![r] = Idle]
  /\ UNCHANGED people /\ UNCHANGED lock

\* The request fails, is dropped, or its subject is gone.
Fail(r) ==
  /\ req[r] # Idle
  /\ req' = [req EXCEPT ![r] = Idle]
  /\ lock' = IF lock = r THEN None ELSE lock
  /\ UNCHANGED people /\ UNCHANGED links

-----------------------------------------------------------------------------
(* confirmEmail and confirmPasswordReset. *)

\* consume() finds an active link of the purpose.
Follow(r, i, kind) ==
  /\ kind \in {"verify", "reset"} \cap Kinds /\ req[r] = Idle
  /\ links[i].state = "active" /\ links[i].purpose = PurposeOf(kind)
  /\ req' = [req EXCEPT ![r] =
       [kind |-> kind, stage |-> "running", subject |-> links[i].subject,
        link |-> i, snap |-> {j \in Links : links[j].state = "active"},
        stale |-> FALSE]]
  /\ UNCHANGED people /\ UNCHANGED <<links, lock>>

\* Faulty variant: the link is not claimed under a condition, READ COMMITTED.
Unclaimed(r) == TRUE
\* The claim finds the link unconsumed, and no row was written meanwhile.
Claimed(r) == links[req[r].link].state = "active" /\ ~req[r].stale

Followed(i, table) == [table EXCEPT ![i].uses = @ + 1]

\* A pending registration becomes an account; its links go with it.
FinishRegistration(r) ==
  LET i == req[r].link
      gone == {j \in Links : links[j].subject = req[r].subject} IN
  /\ req[r].kind = "verify" /\ req[r].stage = "running" /\ Claimed(r)
  /\ req[r].subject.of = "pending" /\ req[r].subject = Pending
  /\ lock = None /\ user = 0 /\ made < MaxRows
  /\ user' = made + 1 /\ made' = made + 1
  /\ verified' = TRUE /\ pending' = 0
  /\ links' = Followed(i, [j \in Links |->
       IF j \in gone THEN [links[j] EXCEPT !.state = "deleted"] ELSE links[j]])
  /\ req' = After(r, Idle, gone, req[r].subject)
  /\ UNCHANGED lock

Verify(r) ==
  LET i == req[r].link IN
  /\ req[r].kind = "verify" /\ req[r].stage = "running" /\ Claimed(r)
  /\ req[r].subject.of = "user" /\ req[r].subject = User
  /\ verified' = TRUE
  /\ links' = Followed(i, Consumed({i}))
  /\ req' = After(r, Idle, {i}, req[r].subject)
  /\ UNCHANGED <<user, pending, made, lock>>

\* Faulty variant: other links to reset the password stay valid.
EndsOwn(r) == {req[r].link}
\* All links of the account to reset its password that the transaction sees.
EndsAll(r) ==
  {j \in req[r].snap : /\ links[j].subject = req[r].subject
                       /\ links[j].purpose = "RESET_PASSWORD"}

ResetPassword(r) ==
  /\ req[r].kind = "reset" /\ req[r].stage = "running" /\ Claimed(r)
  /\ req[r].subject = User
  /\ links' = Followed(req[r].link, Consumed(EndsAll(r)))
  /\ req' = After(r, Idle, EndsAll(r), req[r].subject)
  /\ UNCHANGED people /\ UNCHANGED lock

-----------------------------------------------------------------------------
(* Time, and AuthService.deleteCurrentUser, which frees the address. *)

CoolDown(i) ==
  /\ links[i].state = "active" /\ links[i].recent
  /\ links' = [links EXCEPT ![i].recent = FALSE]
  /\ UNCHANGED people /\ UNCHANGED <<lock, req>>

Expire(i) ==
  /\ links[i].state = "active" /\ ~links[i].recent
  /\ links' = [links EXCEPT ![i].state = "expired"]
  /\ UNCHANGED people /\ UNCHANGED <<lock, req>>

DeleteUser ==
  /\ "delete" \in Kinds /\ user # 0
  /\ user' = 0 /\ verified' = FALSE
  /\ req' = After(None, Idle, {}, User)
  /\ UNCHANGED <<pending, made, links, lock>>

Init ==
  /\ user = (IF Known THEN 1 ELSE 0) /\ made = user
  /\ verified = FALSE /\ pending = 0
  /\ links = [i \in Links |-> NoLink]
  /\ lock = None
  /\ req = [r \in Requests |-> Idle]

Next ==
  \/ \E r \in Requests :
       \/ Register(r) \/ RegisterUpsert(r) \/ EndEarlier(r) \/ Fail(r)
       \/ \E kind \in Kinds : AskForLink(r, kind)
       \/ \E i \in Links :
            \/ RegisterIssue(r, i) \/ CreateLink(r, i)
            \/ \E kind \in Kinds : Follow(r, i, kind)
       \/ FinishRegistration(r) \/ Verify(r) \/ ResetPassword(r)
  \/ \E i \in Links : CoolDown(i) \/ Expire(i)
  \/ DeleteUser

Spec == Init /\ [][Next]_vars

-----------------------------------------------------------------------------
(* Properties. *)

\* A link takes effect at most once, also when it is followed twice at once.
SingleUse == \A i \in Links : links[i].uses <= 1

\* Once the password is reset, no link that was sent before the reset began
\* can reset it again.
EndsEarlierLinks ==
  \A r \in Requests :
    /\ req[r].kind = "reset" /\ req'[r] = Idle
    /\ \E i \in Links : links'[i].uses > links[i].uses
    => \A j \in req[r].snap :
         links'[j].subject = req[r].subject /\ links'[j].purpose = "RESET_PASSWORD"
           => links'[j].state # "active"
\* A password reset ends every reset link there was when it began.
ResetEndsEarlierLinks == [][EndsEarlierLinks]_vars

-----------------------------------------------------------------------------
(* A link is used once, for every set of links and requests.  As long as a *)
(* link can be followed it has had no effect, and the step that gives it   *)
(* one leaves it consumed or deleted: a reset because the link is one of   *)
(* those its transaction ends, a confirmation because the link goes with   *)
(* its registration.  The same invariant gives that a reset ends all of    *)
(* the links to reset the password that it sees.                           *)

\* A link that had no effect yet has uses 0 as long as it can be followed.
GoodLink(l) == l.uses \in {0, 1} /\ (l.state \in {"absent", "active", "expired"} => l.uses = 0)
\* A link is followed as what it is: of the subject and the purpose it was sent
\* for, and among those the transaction sees.
GoodRequest(q) ==
  q.stage = "running" =>
    /\ q.link \in Links /\ q.link \in q.snap
    /\ links[q.link].state # "absent"
    /\ links[q.link].subject = q.subject
    /\ q.kind = "reset" => links[q.link].purpose = "RESET_PASSWORD"
\* The inductive invariant.
LinksInv ==
  /\ TypeOK
  /\ \A i \in Links : GoodLink(links[i])
  /\ \A r \in Requests : GoodRequest(req[r])

\* What any step may make of a link: it keeps its subject and purpose.
LinkGoesOn(old, new) ==
  /\ new \in Link /\ GoodLink(new)
  /\ old.state # "absent" =>
       new.state # "absent" /\ new.subject = old.subject /\ new.purpose = old.purpose
\* A request follows no link, or the one it followed.
RequestGoesOn(old, new) ==
  /\ new \in Request
  /\ new.stage = "running" =>
       /\ old.stage = "running" /\ new.link = old.link /\ new.snap = old.snap
       /\ new.subject = old.subject /\ new.kind = old.kind

\* A request that is not in progress, and a link that was not sent yet.
LEMMA IdleTypes ==
  ASSUME Bounds PROVE Idle \in Request /\ Idle.stage = "idle" /\ NoLink \in Link /\ NoSubject \in Subject
<1>1. NoSubject \in Subject
  BY DEF Bounds, NoSubject, Subject
<1>2. NoLink \in Link
  BY <1>1 DEF NoLink, Link, Purposes
<1>3. Idle \in Request /\ Idle.stage = "idle"
  BY <1>1 DEF Idle, Request
<1> QED
  BY <1>1, <1>2, <1>3

\* A step that lets every link and every request go on keeps the invariant.
LEMMA InvGoesOn ==
  ASSUME LinksInv,
         links' = [i \in Links |-> links'[i]],
         \A i \in Links : LinkGoesOn(links[i], links'[i]),
         req' = [r \in Requests |-> req'[r]],
         \A r \in Requests : RequestGoesOn(req[r], req'[r]),
         user' \in 0 .. MaxRows, pending' \in 0 .. MaxRows, made' \in 0 .. MaxRows,
         verified' \in BOOLEAN, lock' \in Requests \cup {None}
  PROVE  LinksInv'
<1>1. links' \in [Links -> Link] /\ req' \in [Requests -> Request]
  BY DEF LinkGoesOn, RequestGoesOn
<1>2. TypeOK'
  BY <1>1 DEF TypeOK
<1>3. \A i \in Links : GoodLink(links[i])'
  BY DEF LinkGoesOn, GoodLink
<1>4. ASSUME NEW r \in Requests PROVE GoodRequest(req[r])'
  BY DEF LinksInv, GoodRequest, RequestGoesOn, LinkGoesOn
<1> QED
  BY <1>2, <1>3, <1>4 DEF LinksInv

\* A link that is left alone goes on,
LEMMA LinkStays == ASSUME LinksInv, NEW i \in Links PROVE LinkGoesOn(links[i], links[i])
BY DEF LinkGoesOn, LinksInv, TypeOK

\* and so does a request,
LEMMA RequestStays == ASSUME LinksInv, NEW r \in Requests PROVE RequestGoesOn(req[r], req[r])
BY DEF RequestGoesOn, LinksInv, TypeOK

\* and so does a request that is over.
LEMMA RequestEnds == ASSUME Bounds, NEW q PROVE RequestGoesOn(q, Idle)
BY IdleTypes DEF RequestGoesOn

\* A link that is ended, or left alone, had no effect by it.
LEMMA LinkConsumed ==
  ASSUME LinksInv, NEW ids, NEW i \in Links
  PROVE  /\ LinkGoesOn(links[i], Consumed(ids)[i])
         /\ Consumed(ids)[i].uses = links[i].uses
         /\ i \in ids => Consumed(ids)[i].state = "consumed"
<1>1. links[i] \in Link /\ GoodLink(links[i])
  BY DEF LinksInv, TypeOK
<1>2. CASE i \in ids
  <2> DEFINE n == [links[i] EXCEPT !.state = "consumed"]
  <2>1. n \in Link
    BY <1>1 DEF Link
  <2>2. n.state = "consumed" /\ n.subject = links[i].subject /\ n.purpose = links[i].purpose
        /\ n.uses = links[i].uses
    BY <1>1 DEF Link
  <2>3. Consumed(ids)[i] = n
    BY <1>2 DEF Consumed
  <2> HIDE DEF n
  <2> QED
    BY <1>1, <1>2, <2>1, <2>2, <2>3 DEF LinkGoesOn, GoodLink
<1>3. CASE i \notin ids
  BY <1>3, LinkStays DEF Consumed
<1> QED
  BY <1>2, <1>3

\* Marking the transactions that were overtaken lets every request go on.
LEMMA AfterGoesOn ==
  ASSUME LinksInv, NEW r, NEW new, NEW written, NEW subject,
         r \in Requests => RequestGoesOn(req[r], new)
  PROVE  LET after == After(r, new, written, subject)
         IN  /\ after = [q \in Requests |-> after[q]]
             /\ \A q \in Requests : RequestGoesOn(req[q], after[q])
<1> DEFINE after == After(r, new, written, subject)
<1>1. ASSUME NEW q \in Requests PROVE RequestGoesOn(req[q], after[q])
  <2>1. req[q] \in Request
    BY DEF LinksInv, TypeOK
  <2>2. CASE after[q] = new /\ q = r
    BY <2>2
  <2>3. CASE after[q] = req[q]
    BY <2>3, RequestStays
  <2>4. CASE after[q] = [req[q] EXCEPT !.stale = TRUE]
    <3>1. [req[q] EXCEPT !.stale = TRUE] \in Request
      BY <2>1 DEF Request
    <3>2. LET n == [req[q] EXCEPT !.stale = TRUE]
          IN  /\ n.stage = req[q].stage /\ n.link = req[q].link /\ n.snap = req[q].snap
              /\ n.subject = req[q].subject /\ n.kind = req[q].kind
      BY <2>1 DEF Request
    <3> QED
      BY <2>4, <3>1, <3>2 DEF RequestGoesOn
  <2> QED
    BY <2>2, <2>3, <2>4 DEF After
<1>2. after = [q \in Requests |-> after[q]]
  BY DEF After
<1> QED
  BY <1>1, <1>2

\* A request that is not a followed link begins or goes on.
Plain(r, new) == req' = [req EXCEPT ![r] = new] /\ new \in Request /\ new.stage # "running"

\* Its step lets every request go on.
LEMMA PlainGoesOn ==
  ASSUME LinksInv, NEW r \in Requests, NEW new, Plain(r, new)
  PROVE  /\ req' = [q \in Requests |-> req'[q]]
         /\ \A q \in Requests : RequestGoesOn(req[q], req'[q])
<1>1. req \in [Requests -> Request]
  BY DEF LinksInv, TypeOK
<1> QED
  BY <1>1, RequestStays DEF Plain, RequestGoesOn

\* The link that is created has not been followed.
LEMMA LinkCreated ==
  ASSUME LinksInv, NEW table \in [Links -> Link], NEW i \in Links, links[i].state = "absent",
         NEW subject \in Subject, NEW purpose \in Purposes,
         \A j \in Links : LinkGoesOn(links[j], table[j])
  PROVE  LET t == Created(table, i, subject, purpose)
         IN  t = [j \in Links |-> t[j]] /\ \A j \in Links : LinkGoesOn(links[j], t[j])
<1> DEFINE t == Created(table, i, subject, purpose)
<1> DEFINE new == [state |-> "active", purpose |-> purpose, subject |-> subject,
                   recent |-> TRUE, uses |-> 0]
<1>1. new \in Link /\ GoodLink(new)
  BY DEF Link, GoodLink
<1>2. t = [j \in Links |-> IF j = i THEN new ELSE table[j]]
  BY DEF Created
<1>3. \A j \in Links : LinkGoesOn(links[j], t[j])
  <2> HIDE DEF new
  <2>1. LinkGoesOn(links[i], new)
    BY <1>1 DEF LinkGoesOn
  <2> HIDE DEF t
  <2> QED
    BY <1>2, <2>1
<1>4. t = [j \in Links |-> t[j]]
  BY <1>2
<1> QED
  BY <1>3, <1>4

\* The steps that leave every link as it is.
LEMMA QuietSteps ==
  ASSUME Bounds, LinksInv, NEW r \in Requests,
         \/ Register(r) \/ RegisterUpsert(r) \/ Fail(r)
         \/ \E kind \in Kinds : AskForLink(r, kind)
  PROVE  LinksInv'
<1>t. TypeOK
  BY DEF LinksInv
<1>1. ASSUME links' = links, UNCHANGED people, lock' \in Requests \cup {None},
             req' = [q \in Requests |-> req'[q]],
             \A q \in Requests : RequestGoesOn(req[q], req'[q])
      PROVE  LinksInv'
  BY <1>1, <1>t, LinkStays, InvGoesOn DEF people, TypeOK
<1>2. CASE Register(r)
  <2> DEFINE new == [Idle EXCEPT !.kind = "register", !.stage = "checked"]
  <2>1. new \in Request
    BY <1>2, IdleTypes DEF Request, Register
  <2>2. new.stage = "checked"
    BY DEF Idle
  <2>3. req' = [req EXCEPT ![r] = new]
    BY <1>2 DEF Register
  <2>4. Plain(r, new)
    <3> HIDE DEF new
    <3> QED
      BY <2>1, <2>2, <2>3 DEF Plain
  <2> HIDE DEF new
  <2> QED
    BY <1>1, <1>2, <1>t, <2>4, PlainGoesOn DEF Register, TypeOK
<1>3. CASE RegisterUpsert(r)
  <2>1. CASE req' = After(r, Idle, {}, Pending) /\ UNCHANGED lock
    <3>1. RequestGoesOn(req[r], Idle)
      BY RequestEnds
    <3> QED
      BY <1>1, <1>3, <1>t, <2>1, <3>1, AfterGoesOn DEF RegisterUpsert, TypeOK
  <2>2. CASE req' = [req EXCEPT ![r].stage = "locked"] /\ lock' = r
    <3> DEFINE new == [req[r] EXCEPT !.stage = "locked"]
    <3>1. new \in Request /\ new.stage = "locked"
      BY <1>t DEF TypeOK, Request
    <3>2. req' = [req EXCEPT ![r] = new]
      BY <2>2
    <3>3. Plain(r, new)
      <4> HIDE DEF new
      <4> QED
        BY <3>1, <3>2 DEF Plain
    <3> HIDE DEF new
    <3> QED
      BY <1>1, <1>3, <2>2, <3>3, PlainGoesOn DEF RegisterUpsert
  <2> QED
    BY <1>3, <2>1, <2>2 DEF RegisterUpsert
<1>4. CASE Fail(r)
  <2>1. Plain(r, Idle)
    BY <1>4, IdleTypes DEF Fail, Plain
  <2> QED
    BY <1>1, <1>4, <1>t, <2>1, PlainGoesOn DEF Fail, TypeOK
<1>5. CASE \E kind \in Kinds : AskForLink(r, kind)
  <2>1. PICK kind \in Kinds : AskForLink(r, kind)
    BY <1>5
  <2>2. PICK subject \in Wanted(kind) :
          req' = [req EXCEPT ![r] =
                    [Idle EXCEPT !.kind = kind, !.stage = "clearing", !.subject = subject]]
    BY <2>1 DEF AskForLink
  <2>3. subject \in Subject
    BY <1>t, <2>2 DEF Wanted, User, Pending, Subject, TypeOK
  <2> DEFINE new == [Idle EXCEPT !.kind = kind, !.stage = "clearing", !.subject = subject]
  <2>4. new \in Request
    BY <2>3, IdleTypes DEF Request
  <2>5. new.stage = "clearing"
    BY DEF Idle
  <2>6. req' = [req EXCEPT ![r] = new]
    BY <2>2
  <2>7. Plain(r, new)
    <3> HIDE DEF new
    <3> QED
      BY <2>4, <2>5, <2>6 DEF Plain
  <2> HIDE DEF new
  <2> QED
    BY <1>1, <2>1, <1>t, <2>7, PlainGoesOn DEF AskForLink, TypeOK
<1> QED
  BY <1>2, <1>3, <1>4, <1>5

\* The steps that end earlier links, or create one.
LEMMA IssuingSteps ==
  ASSUME Bounds, LinksInv, NEW r \in Requests,
         \/ EndEarlier(r)
         \/ \E i \in Links : RegisterIssue(r, i) \/ CreateLink(r, i)
  PROVE  LinksInv'
<1>t. TypeOK
  BY DEF LinksInv
<1>c. ASSUME NEW subject, NEW purpose
      PROVE  /\ \A j \in Links : LinkGoesOn(links[j], Consumed(Active(subject, purpose))[j])
             /\ Consumed(Active(subject, purpose)) \in [Links -> Link]
             /\ Consumed({}) \in [Links -> Link]
             /\ \A j \in Links : LinkGoesOn(links[j], Consumed({})[j])
  <2>1. \A j \in Links : LinkGoesOn(links[j], Consumed(Active(subject, purpose))[j])
    BY LinkConsumed DEF Active
  <2>2. \A j \in Links : LinkGoesOn(links[j], Consumed({})[j])
    BY LinkConsumed
  <2> QED
    BY <2>1, <2>2 DEF Consumed, LinkGoesOn
<1>1. CASE EndEarlier(r)
  <2> DEFINE old == Active(req[r].subject, PurposeOf(req[r].kind))
  <2> DEFINE new == [req[r] EXCEPT !.stage = "creating"]
  <2>1. links' = Consumed(old) /\ req' = After(r, new, old, NoSubject)
    BY <1>1 DEF EndEarlier
  <2>2. new \in Request /\ new.stage = "creating"
    BY <1>t DEF TypeOK, Request
  <2>3. RequestGoesOn(req[r], new)
    <3> HIDE DEF new
    <3> QED
      BY <2>2 DEF RequestGoesOn
  <2>4. /\ req' = [q \in Requests |-> req'[q]]
        /\ \A q \in Requests : RequestGoesOn(req[q], req'[q])
    <3> HIDE DEF new, old
    <3> QED
      BY <2>1, <2>3, AfterGoesOn
  <2>5. /\ \A j \in Links : LinkGoesOn(links[j], links'[j])
        /\ links' = [j \in Links |-> links'[j]]
    BY <1>c, <2>1 DEF Consumed
  <2> QED
    BY <1>1, <1>t, <2>4, <2>5, InvGoesOn DEF EndEarlier, people, TypeOK
<1>2. ASSUME NEW i \in Links, CreateLink(r, i) PROVE LinksInv'
  <2>1. req[r].subject \in Subject /\ PurposeOf(req[r].kind) \in Purposes
    BY <1>t DEF TypeOK, Request, PurposeOf, Purposes
  <2>2. /\ \A j \in Links : LinkGoesOn(links[j], links'[j])
        /\ links' = [j \in Links |-> links'[j]]
    BY <1>2, <1>t, <2>1, LinkStays, LinkCreated DEF CreateLink, TypeOK
  <2>3. Plain(r, Idle)
    BY <1>2, IdleTypes DEF CreateLink, Plain
  <2> QED
    BY <1>2, <1>t, <2>2, <2>3, PlainGoesOn, InvGoesOn DEF CreateLink, people, TypeOK
<1>3. ASSUME NEW i \in Links, RegisterIssue(r, i) PROVE LinksInv'
  <2> DEFINE old == IF pending = 0 THEN {} ELSE Active(Pending, "VERIFY_EMAIL")
  <2> DEFINE row == IF pending = 0 THEN made + 1 ELSE pending
  <2> DEFINE subject == [of |-> "pending", id |-> row]
  <2>1. /\ links' = Created(Consumed(old), i, subject, "VERIFY_EMAIL")
        /\ req' = After(r, Idle, old, subject)
        /\ links[i].state = "absent" /\ row <= MaxRows
        /\ pending' = row /\ made' = IF pending = 0 THEN row ELSE made
        /\ lock' = IF lock = r THEN None ELSE lock
        /\ UNCHANGED <<user, verified>>
    BY <1>3 DEF RegisterIssue
  <2>2. row \in 0 .. MaxRows
    BY <1>t, <2>1 DEF TypeOK, Bounds
  <2>3. subject \in Subject /\ "VERIFY_EMAIL" \in Purposes
    BY <2>2 DEF Subject, Purposes
  <2>4. /\ \A j \in Links : LinkGoesOn(links[j], Consumed(old)[j])
        /\ Consumed(old) \in [Links -> Link]
    BY <1>c
  <2>5. /\ \A j \in Links : LinkGoesOn(links[j], links'[j])
        /\ links' = [j \in Links |-> links'[j]]
    <3> HIDE DEF old, subject
    <3> QED
      BY <2>1, <2>3, <2>4, LinkCreated
  <2>6. /\ req' = [q \in Requests |-> req'[q]]
        /\ \A q \in Requests : RequestGoesOn(req[q], req'[q])
    <3> HIDE DEF old, subject
    <3> QED
      BY <2>1, RequestEnds, AfterGoesOn
  <2>7. /\ user' \in 0 .. MaxRows /\ pending' \in 0 .. MaxRows /\ made' \in 0 .. MaxRows
        /\ verified' \in BOOLEAN /\ lock' \in Requests \cup {None}
    <3> HIDE DEF row, old, subject
    <3> QED
      BY <1>t, <2>1, <2>2 DEF TypeOK
  <2> QED
    BY <2>5, <2>6, <2>7, InvGoesOn
<1> QED
  BY <1>1, <1>2, <1>3

\* A link that is followed could be, and cannot be again.
LEMMA LinkFollowed ==
  ASSUME LinksInv, NEW table \in [Links -> Link], NEW i \in Links,
         links[i].state = "active", table[i].uses = links[i].uses,
         table[i].state \in {"consumed", "deleted"},
         \A j \in Links : LinkGoesOn(links[j], table[j])
  PROVE  LET t == Followed(i, table)
         IN  t = [j \in Links |-> t[j]] /\ \A j \in Links : LinkGoesOn(links[j], t[j])
<1> DEFINE t == Followed(i, table)
<1> DEFINE new == [table[i] EXCEPT !.uses = table[i].uses + 1]
<1>1. table[i] \in Link /\ links[i].uses = 0
  BY DEF LinksInv, GoodLink
<1>2. new \in Link
  BY <1>1 DEF Link
<1>3. /\ new.state = table[i].state /\ new.subject = table[i].subject
      /\ new.purpose = table[i].purpose /\ new.uses = 1
  BY <1>1 DEF Link
<1>4. t = [j \in Links |-> IF j = i THEN new ELSE table[j]]
  BY DEF Followed
<1>5. LinkGoesOn(links[i], new)
  <2> HIDE DEF new
  <2> QED
    BY <1>2, <1>3 DEF LinkGoesOn, GoodLink
<1>6. \A j \in Links : LinkGoesOn(links[j], t[j])
  <2> HIDE DEF new, t
  <2> QED
    BY <1>4, <1>5
<1>7. t = [j \in Links |-> t[j]]
  BY <1>4
<1> QED
  BY <1>6, <1>7

\* A link is followed: the transaction begins.
LEMMA FollowKeeps ==
  ASSUME Bounds, LinksInv, NEW r \in Requests, NEW i \in Links, NEW kind \in Kinds,
         Follow(r, i, kind)
  PROVE  LinksInv'
<1> DEFINE snap == {j \in Links : links[j].state = "active"}
<1> DEFINE new == [kind |-> kind, stage |-> "running", subject |-> links[i].subject,
                   link |-> i, snap |-> snap, stale |-> FALSE]
<1>t. TypeOK
  BY DEF LinksInv
<1>1. /\ links[i].state = "active" /\ links[i].purpose = PurposeOf(kind)
      /\ req' = [req EXCEPT ![r] = new]
      /\ UNCHANGED people /\ UNCHANGED <<links, lock>>
  BY DEF Follow
<1>2. links[i].subject \in Subject /\ snap \in SUBSET Links
  BY <1>t DEF TypeOK, Link
<1>3. new \in Request
  <2> HIDE DEF snap
  <2> QED
    BY <1>2 DEF Request
<1>4. /\ new.stage = "running" /\ new.link = i /\ i \in new.snap
      /\ new.subject = links[i].subject
      /\ new.kind = "reset" => links[i].purpose = "RESET_PASSWORD"
  BY <1>1 DEF PurposeOf
<1>5. GoodRequest(new)
  <2> HIDE DEF new
  <2> QED
    BY <1>1, <1>4 DEF GoodRequest
<1> HIDE DEF new
<1>6. TypeOK'
  BY <1>t, <1>1, <1>3 DEF TypeOK, people
<1>7. \A j \in Links : GoodLink(links[j])'
  BY <1>1 DEF LinksInv
<1>8. ASSUME NEW q \in Requests PROVE GoodRequest(req[q])'
  <2>1. GoodRequest(req'[q])
    BY <1>1, <1>5, <1>t DEF LinksInv, TypeOK
  <2> QED
    BY <2>1, <1>1 DEF GoodRequest
<1> QED
  BY <1>6, <1>7, <1>8 DEF LinksInv

\* A followed link takes effect.
LEMMA FollowedSteps ==
  ASSUME Bounds, LinksInv, NEW r \in Requests,
         FinishRegistration(r) \/ Verify(r) \/ ResetPassword(r)
  PROVE  LinksInv'
<1> DEFINE i == req[r].link
<1>t. TypeOK
  BY DEF LinksInv
<1>g. /\ i \in Links /\ links[i].state = "active" /\ i \in req[r].snap
      /\ links[i].subject = req[r].subject
      /\ req[r].kind = "reset" => links[i].purpose = "RESET_PASSWORD"
  BY DEF LinksInv, GoodRequest, FinishRegistration, Verify, ResetPassword, Claimed
<1> HIDE DEF i
<1>a. ASSUME NEW written, req' = After(r, Idle, written, req[r].subject)
      PROVE  /\ req' = [q \in Requests |-> req'[q]]
             /\ \A q \in Requests : RequestGoesOn(req[q], req'[q])
  BY <1>a, RequestEnds, AfterGoesOn
<1>c. ASSUME NEW ids, i \in ids, links' = Followed(i, Consumed(ids))
      PROVE  /\ \A j \in Links : LinkGoesOn(links[j], links'[j])
             /\ links' = [j \in Links |-> links'[j]]
  <2>1. \A j \in Links : LinkGoesOn(links[j], Consumed(ids)[j])
    BY LinkConsumed
  <2>2. Consumed(ids) \in [Links -> Link]
    BY <2>1 DEF Consumed, LinkGoesOn
  <2>3. Consumed(ids)[i].uses = links[i].uses /\ Consumed(ids)[i].state = "consumed"
    BY <1>c, <1>g, LinkConsumed
  <2> QED
    BY <1>c, <1>g, <2>1, <2>2, <2>3, LinkFollowed
<1>1. CASE FinishRegistration(r)
  <2> DEFINE gone == {j \in Links : links[j].subject = req[r].subject}
  <2> DEFINE table == [j \in Links |->
        IF j \in gone THEN [links[j] EXCEPT !.state = "deleted"] ELSE links[j]]
  <2>1. /\ links' = Followed(i, table) /\ req' = After(r, Idle, gone, req[r].subject)
        /\ made < MaxRows /\ user' = made + 1 /\ made' = made + 1
        /\ verified' = TRUE /\ pending' = 0 /\ lock' = lock
    BY <1>1 DEF FinishRegistration, i
  <2>2. ASSUME NEW j \in Links
        PROVE  /\ LinkGoesOn(links[j], table[j]) /\ table[j].uses = links[j].uses
               /\ j \in gone => table[j].state = "deleted"
    <3>1. links[j] \in Link /\ GoodLink(links[j])
      BY DEF LinksInv, TypeOK
    <3>2. CASE j \in gone
      <4> DEFINE n == [links[j] EXCEPT !.state = "deleted"]
      <4>1. n \in Link
        BY <3>1 DEF Link
      <4>2. n.state = "deleted" /\ n.subject = links[j].subject /\ n.uses = links[j].uses
            /\ n.purpose = links[j].purpose
        BY <3>1 DEF Link
      <4>3. table[j] = n
        BY <3>2
      <4> HIDE DEF n, table, gone
      <4> QED
        BY <3>1, <4>1, <4>2, <4>3 DEF LinkGoesOn, GoodLink
    <3>3. CASE j \notin gone
      <4>1. table[j] = links[j]
        BY <3>3
      <4> HIDE DEF table, gone
      <4> QED
        BY <3>3, <4>1, LinkStays
    <3> QED
      BY <3>2, <3>3
  <2>3. table \in [Links -> Link]
    <3>1. table = [j \in Links |-> table[j]]
      OBVIOUS
    <3> HIDE DEF table, gone
    <3> QED
      BY <2>2, <3>1 DEF LinkGoesOn
  <2>4. i \in gone
    BY <1>g
  <2> HIDE DEF table, gone
  <2>5. /\ \A j \in Links : LinkGoesOn(links[j], links'[j])
        /\ links' = [j \in Links |-> links'[j]]
    BY <1>g, <2>1, <2>2, <2>3, <2>4, LinkFollowed
  <2>6. user' \in 0 .. MaxRows /\ pending' \in 0 .. MaxRows /\ made' \in 0 .. MaxRows
        /\ verified' \in BOOLEAN /\ lock' \in Requests \cup {None}
    BY <1>t, <2>1 DEF TypeOK, Bounds
  <2> QED
    BY <1>a, <2>1, <2>5, <2>6, InvGoesOn
<1>2. CASE Verify(r)
  <2>1. /\ links' = Followed(i, Consumed({i})) /\ req' = After(r, Idle, {i}, req[r].subject)
        /\ verified' = TRUE /\ UNCHANGED <<user, pending, made, lock>>
    BY <1>2 DEF Verify, i
  <2> QED
    BY <1>a, <1>c, <1>t, <2>1, InvGoesOn DEF TypeOK
<1>3. CASE ResetPassword(r)
  <2>1. /\ links' = Followed(i, Consumed(EndsAll(r)))
        /\ req' = After(r, Idle, EndsAll(r), req[r].subject)
        /\ UNCHANGED people /\ UNCHANGED lock
    BY <1>3 DEF ResetPassword, i
  <2>2. i \in EndsAll(r)
    BY <1>3, <1>g DEF EndsAll, ResetPassword
  <2> QED
    BY <1>a, <1>c, <1>t, <2>1, <2>2, InvGoesOn DEF TypeOK, people
<1> QED
  BY <1>1, <1>2, <1>3

\* Time passes, or the account is deleted.
LEMMA OtherSteps ==
  ASSUME Bounds, LinksInv,
         (\E i \in Links : CoolDown(i) \/ Expire(i)) \/ DeleteUser
  PROVE  LinksInv'
<1>t. TypeOK
  BY DEF LinksInv
<1>1. ASSUME NEW i \in Links, CoolDown(i) \/ Expire(i) PROVE LinksInv'
  <2> DEFINE cooled == [links[i] EXCEPT !.recent = FALSE]
  <2> DEFINE expired == [links[i] EXCEPT !.state = "expired"]
  <2>1. PICK n : /\ n \in {cooled, expired} /\ links' = [links EXCEPT ![i] = n]
    BY <1>1 DEF CoolDown, Expire
  <2>2. links[i] \in Link /\ GoodLink(links[i]) /\ links[i].state = "active"
        /\ UNCHANGED people /\ UNCHANGED <<lock, req>>
    BY <1>1 DEF LinksInv, TypeOK, CoolDown, Expire
  <2>3. /\ n \in Link /\ n.state \in {"active", "expired"} /\ n.subject = links[i].subject
        /\ n.purpose = links[i].purpose /\ n.uses = links[i].uses
    BY <2>1, <2>2 DEF Link
  <2>4. LinkGoesOn(links[i], n)
    BY <2>2, <2>3 DEF LinkGoesOn, GoodLink
  <2>5. /\ \A j \in Links : LinkGoesOn(links[j], links'[j])
        /\ links' = [j \in Links |-> links'[j]]
    BY <1>t, <2>1, <2>4, LinkStays DEF TypeOK
  <2>6. /\ req' = [q \in Requests |-> req'[q]]
        /\ \A q \in Requests : RequestGoesOn(req[q], req'[q])
    BY <1>t, <2>2, RequestStays DEF TypeOK
  <2> QED
    <3>1. /\ user' \in 0 .. MaxRows /\ pending' \in 0 .. MaxRows /\ made' \in 0 .. MaxRows
          /\ verified' \in BOOLEAN /\ lock' \in Requests \cup {None}
      BY <1>t, <2>2 DEF TypeOK, people
    <3> QED
      BY <2>5, <2>6, <3>1, InvGoesOn
<1>2. CASE DeleteUser
  <2>1. /\ req' = After(None, Idle, {}, User) /\ user' = 0 /\ verified' = FALSE
        /\ UNCHANGED <<pending, made, links, lock>>
    BY <1>2 DEF DeleteUser
  <2>2. /\ req' = [q \in Requests |-> req'[q]]
        /\ \A q \in Requests : RequestGoesOn(req[q], req'[q])
    BY <2>1, AfterGoesOn DEF Bounds
  <2>3. /\ \A j \in Links : LinkGoesOn(links[j], links'[j])
        /\ links' = [j \in Links |-> links'[j]]
    BY <1>t, <2>1, LinkStays DEF TypeOK
  <2>4. 0 \in 0 .. MaxRows
    BY DEF Bounds
  <2>5. /\ user' \in 0 .. MaxRows /\ pending' \in 0 .. MaxRows /\ made' \in 0 .. MaxRows
        /\ verified' \in BOOLEAN /\ lock' \in Requests \cup {None}
    BY <1>t, <2>1, <2>4 DEF TypeOK
  <2> QED
    BY <2>2, <2>3, <2>5, InvGoesOn
<1> QED
  BY <1>1, <1>2

\* At first no link was sent.
LEMMA LinksInit == ASSUME Bounds PROVE Init => LinksInv
<1> SUFFICES ASSUME Init PROVE LinksInv
  OBVIOUS
<1>1. TypeOK
  <2>1. /\ user \in 0 .. MaxRows /\ made = user /\ pending \in 0 .. MaxRows
        /\ verified \in BOOLEAN
    <3>1. 0 \in 0 .. MaxRows /\ 1 \in 0 .. MaxRows
      BY DEF Bounds
    <3>2. user \in {0, 1}
      BY DEF Init
    <3> QED
      BY <3>1, <3>2 DEF Init
  <2>2. /\ links \in [Links -> Link] /\ req \in [Requests -> Request]
        /\ lock \in Requests \cup {None}
    BY IdleTypes DEF Init
  <2> QED
    BY <2>1, <2>2 DEF TypeOK
<1>2. \A i \in Links : GoodLink(links[i])
  BY DEF Init, GoodLink, NoLink
<1>3. \A r \in Requests : GoodRequest(req[r])
  BY IdleTypes DEF Init, GoodRequest
<1> QED
  BY <1>1, <1>2, <1>3 DEF LinksInv

\* Every step keeps the invariant.
LEMMA LinksStep == ASSUME Bounds PROVE LinksInv /\ [Next]_vars => LinksInv'
<1> SUFFICES ASSUME LinksInv, [Next]_vars PROVE LinksInv'
  OBVIOUS
<1>1. CASE UNCHANGED vars
  BY <1>1 DEF vars, LinksInv, TypeOK, GoodRequest
<1>2. CASE Next
  BY <1>2, QuietSteps, IssuingSteps, FollowKeeps, FollowedSteps, OtherSteps DEF Next
<1> QED
  BY <1>1, <1>2

\* A mailed link takes effect at most once, also when two requests follow it
\* at the same time (accountActionToken updateMany on consumedAt: null).
THEOREM LinksUsedOnce == ASSUME Bounds PROVE Spec => []SingleUse
<1>1. LinksInv => SingleUse
  BY DEF LinksInv, GoodLink, SingleUse
<1> QED
  BY <1>1, LinksInit, LinksStep, PTL DEF Spec

\* Links take effect only by the steps that confirm and reset.
LEMMA OnlyFollowedTakeEffect ==
  ASSUME LinksInv, [Next]_vars, NEW i \in Links, links'[i].uses > links[i].uses
  PROVE  \E q \in Requests : FinishRegistration(q) \/ Verify(q) \/ ResetPassword(q)
<1>t. links \in [Links -> Link]
  BY DEF LinksInv, TypeOK
<1>n. links[i].uses \in Nat /\ ~(links[i].uses > links[i].uses) /\ ~(0 > links[i].uses)
  BY <1>t DEF Link
<1>1. links' # links
  BY <1>n
<1>2. ASSUME NEW ids PROVE links' # Consumed(ids)
  <2>1. Consumed(ids)[i].uses = links[i].uses
    BY LinkConsumed
  <2> QED
    BY <1>n, <2>1
<1>3. ASSUME NEW table, NEW j \in Links, NEW subject, NEW purpose,
             table = [k \in Links |-> table[k]], table[i].uses = links[i].uses
      PROVE  links' # Created(table, j, subject, purpose)
  <2>1. Created(table, j, subject, purpose)[i].uses \in {0, table[i].uses}
    BY <1>3 DEF Created
  <2> QED
    BY <1>3, <1>n, <2>1
<1>4. ASSUME NEW q \in Requests,
             \/ Register(q) \/ RegisterUpsert(q) \/ Fail(q)
             \/ \E kind \in Kinds : AskForLink(q, kind)
             \/ \E j \in Links, kind \in Kinds : Follow(q, j, kind)
      PROVE  FALSE
  BY <1>1, <1>4 DEF Register, RegisterUpsert, Fail, AskForLink, Follow
<1>5. ASSUME NEW q \in Requests, EndEarlier(q) PROVE FALSE
  BY <1>2, <1>5 DEF EndEarlier
<1>6. ASSUME NEW q \in Requests, NEW j \in Links, CreateLink(q, j) PROVE FALSE
  <2>1. links = [k \in Links |-> links[k]]
    BY <1>t
  <2> QED
    BY <1>3, <1>6, <2>1 DEF CreateLink
<1>7. ASSUME NEW q \in Requests, NEW j \in Links, RegisterIssue(q, j) PROVE FALSE
  <2>1. PICK old, subject : links' = Created(Consumed(old), j, subject, "VERIFY_EMAIL")
    BY <1>7 DEF RegisterIssue
  <2>2. Consumed(old)[i].uses = links[i].uses
    BY LinkConsumed
  <2>3. Consumed(old) = [k \in Links |-> Consumed(old)[k]]
    BY DEF Consumed
  <2> QED
    BY <1>3, <2>1, <2>2, <2>3
<1>8. ASSUME NEW j \in Links, CoolDown(j) \/ Expire(j) PROVE FALSE
  <2>1. PICK n : /\ n \in {[links[j] EXCEPT !.recent = FALSE],
                           [links[j] EXCEPT !.state = "expired"]}
                 /\ links' = [links EXCEPT ![j] = n]
    BY <1>8 DEF CoolDown, Expire
  <2>2. n.uses = links[j].uses
    BY <1>t, <2>1 DEF Link
  <2>3. links'[i].uses = links[i].uses
    BY <1>t, <2>1, <2>2
  <2> QED
    BY <2>3, <1>n
<1>9. ~DeleteUser /\ ~UNCHANGED vars
  BY <1>1 DEF DeleteUser, vars
<1> QED
  BY <1>4, <1>5, <1>6, <1>7, <1>8, <1>9 DEF Next

\* A request that goes on while another one takes effect is not over.
LEMMA OthersGoOn ==
  ASSUME NEW r \in Requests, NEW q \in Requests, q # r, req[r].kind = "reset",
         NEW new, NEW written, NEW subject, req' = After(q, new, written, subject),
         req \in [Requests -> Request]
  PROVE  req'[r] # Idle
<1>1. req'[r] = req[r] \/ req'[r] = [req[r] EXCEPT !.stale = TRUE]
  BY DEF After
<1>2. req'[r].kind = "reset"
  BY <1>1 DEF Request
<1>3. Idle.kind = "none"
  BY DEF Idle
<1> QED
  BY <1>2, <1>3

\* A password reset ends every link to reset the password of that account there
\* was when it began (confirmPasswordReset, updateMany on accountActionToken).
THEOREM ResetsEndEarlierLinks == ASSUME Bounds PROVE Spec => ResetEndsEarlierLinks
<1>1. LinksInv /\ [Next]_vars => EndsEarlierLinks
  <2> SUFFICES ASSUME LinksInv, [Next]_vars, NEW r \in Requests,
                      req[r].kind = "reset", req'[r] = Idle,
                      NEW i \in Links, links'[i].uses > links[i].uses,
                      NEW j \in req[r].snap,
                      links'[j].subject = req[r].subject,
                      links'[j].purpose = "RESET_PASSWORD"
               PROVE  links'[j].state # "active"
    BY DEF EndsEarlierLinks
  <2>t. links \in [Links -> Link] /\ req \in [Requests -> Request]
    BY DEF LinksInv, TypeOK
  <2>1. PICK q \in Requests : FinishRegistration(q) \/ Verify(q) \/ ResetPassword(q)
    BY OnlyFollowedTakeEffect
  <2>2. q = r
    <3>1. PICK written, subject : req' = After(q, Idle, written, subject)
      BY <2>1 DEF FinishRegistration, Verify, ResetPassword
    <3> QED
      BY <2>t, <3>1, OthersGoOn
  <2>3. ResetPassword(r)
    BY <2>1, <2>2 DEF FinishRegistration, Verify
  <2>4. links' = Followed(req[r].link, Consumed(EndsAll(r))) /\ j \in Links
    BY <2>3, <2>t DEF ResetPassword, Request
  <2>5. /\ links'[j].state = Consumed(EndsAll(r))[j].state
        /\ links'[j].subject = Consumed(EndsAll(r))[j].subject
        /\ links'[j].purpose = Consumed(EndsAll(r))[j].purpose
    <3> DEFINE table == Consumed(EndsAll(r))
    <3>1. table = [k \in Links |-> table[k]] /\ table[j] \in Link
      <4>1. table[j] \in Link
        BY <2>4, LinkConsumed DEF LinkGoesOn
      <4> QED
        BY <4>1 DEF Consumed
    <3> HIDE DEF table
    <3>2. links'[j] \in {table[j], [table[j] EXCEPT !.uses = @ + 1]}
      BY <2>4, <3>1 DEF Followed, table
    <3>3. /\ [table[j] EXCEPT !.uses = @ + 1].state = table[j].state
          /\ [table[j] EXCEPT !.uses = @ + 1].subject = table[j].subject
          /\ [table[j] EXCEPT !.uses = @ + 1].purpose = table[j].purpose
      BY <3>1 DEF Link
    <3> QED
      BY <3>2, <3>3 DEF table
  <2>6. CASE j \in EndsAll(r)
    BY <2>4, <2>5, <2>6, LinkConsumed
  <2>7. CASE j \notin EndsAll(r)
    <3>1. Consumed(EndsAll(r))[j] = links[j]
      BY <2>4, <2>7 DEF Consumed
    <3> QED
      BY <2>5, <2>7, <3>1 DEF EndsAll
  <2> QED
    BY <2>6, <2>7
<1>2. Init => LinksInv
  BY LinksInit
<1>3. LinksInv /\ [Next]_vars => LinksInv'
  BY LinksStep
<1> QED
  BY <1>1, <1>2, <1>3, PTL DEF Spec, ResetEndsEarlierLinks

=============================================================================
