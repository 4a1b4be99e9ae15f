---------------------------- MODULE ReportScreen ----------------------------
(***************************************************************************)
(* The sales reports of one scope and period: the analytics, the page of   *)
(* transactions and the page of the product ranking.  What is asked is in  *)
(* the address, which the user also moves through with the browser.  Each  *)
(* of the three reads has a counter of its own, and the answer of an       *)
(* earlier read is dropped.                                                *)
(***************************************************************************)
EXTENDS Integers, FiniteSets

CONSTANTS
  Texts,      \* what can be typed into the search, with the empty text
  Sorts,      \* orders and merchants of the ranking, with the first one, ""
  LastPage, MaxTurns, MaxFaults

VARIABLES
  asked,      \* the address, with what is typed into the search
  view,       \* the analytics and the pages, each with the read it belongs to
  calls,
  data,       \* the version of the sales
  told,       \* the version there was when the user last refreshed
  turns, faults

reportVars == <<asked, view, calls, data, told, turns, faults>>

Tabs == {"overview", "transactions", "rankings"}
Address == [tab |-> "overview", q |-> "", typed |-> "", page |-> 0, sort |-> "", rank |-> 0]
TxKey(a) == [q |-> a.q, page |-> a.page]
RankKey(a) == [sort |-> a.sort, page |-> a.rank]

\* Everything the screen holds is given up, and what is on its way with it.
Invalidated(v) ==
  [gen |-> v.gen + 1, loading |-> TRUE, error |-> FALSE, report |-> {},
   txRead |-> v.txRead + 1, tx |-> {}, rankRead |-> v.rankRead + 1, ranks |-> {},
   ranking |-> FALSE]
Call(kind, read, ask) == [kind |-> kind, read |-> read, ask |-> ask, state |-> "sent", ver |-> 0]
Row(c) == [ask |-> c.ask, ver |-> c.ver]

\* The reads that the address and the analytics ask for.
TxRuns(a, v) == a.tab = "transactions" /\ v.report # {} /\ a.typed = a.q
RankRuns(a, v) == a.tab = "rankings" /\ v.report # {}
TxDeps(a, v) == <<a.tab, a.q, a.typed, a.page, v.report, v.gen>>
RankDeps(a, v) == <<a.tab, a.sort, a.rank, v.report>>
\* The screen at address a with v: the effects of what has changed run.
Becomes(a, v, sent) ==
  LET tx == TxDeps(a, v) # TxDeps(asked, view)
      rank == RankDeps(a, v) # RankDeps(asked, view)
      t == IF tx THEN v.txRead + 1 ELSE v.txRead
      r == IF rank THEN v.rankRead + 1 ELSE v.rankRead
  IN /\ asked' = a
     /\ view' = [v EXCEPT !.txRead = t, !.rankRead = r,
                          !.ranking = @ \/ (rank /\ RankRuns(a, v))]
     /\ calls' = sent \cup (IF tx /\ TxRuns(a, v) THEN {Call("tx", t, TxKey(a))} ELSE {})
                      \cup (IF rank /\ RankRuns(a, v) THEN {Call("rank", r, RankKey(a))} ELSE {})

Held == [gen |-> 0, loading |-> TRUE, error |-> FALSE, report |-> {},
         txRead |-> 0, tx |-> {}, rankRead |-> 0, ranks |-> {}, ranking |-> FALSE]
Init ==
  /\ asked \in {[Address EXCEPT !.tab = t] : t \in Tabs}
  /\ view = Held /\ calls = {Call("load", 0, "report")}
  /\ data = 0 /\ told = 0 /\ turns = 0 /\ faults = 0

Input == turns < MaxTurns /\ turns' = turns + 1

\* Refresh, Retry, the same period again, another period or branch: what the
\* user sees from now on is read from now on.
Renew(a) ==
  /\ Input
  /\ Becomes(a, Invalidated(view), calls \cup {Call("load", view.gen + 1, "report")})
  /\ told' = data
  /\ UNCHANGED <<data, faults>>
Refresh == Renew(asked)
ChangeSelection == Renew([Address EXCEPT !.tab = asked.tab])
\* A link of the screen, or the browser's Back and Forward.
GoTo(a) ==
  /\ Input /\ a # asked
  /\ Becomes(a, view, calls)
  /\ UNCHANGED <<data, told, faults>>
ChangeTab(t) == GoTo([asked EXCEPT !.tab = t])
Travel ==
  \E p \in 0..LastPage :
    \/ \E q \in Texts : GoTo([asked EXCEPT !.q = q, !.typed = q, !.page = p])
    \/ \E s \in Sorts : GoTo([asked EXCEPT !.sort = s, !.rank = p])
\* The page of transactions is given up with the first changed letter.
TypeSearch(t) ==
  /\ Input /\ asked.tab = "transactions" /\ view.report # {} /\ t # asked.typed
  /\ Becomes([asked EXCEPT !.typed = t],
             [view EXCEPT !.tx = {}], calls)
  /\ UNCHANGED <<data, told, faults>>
SearchSettles ==
  /\ asked.typed # asked.q
  /\ Becomes([asked EXCEPT !.q = asked.typed, !.page = 0], view, calls)
  /\ UNCHANGED <<data, told, turns, faults>>
ShowsTx == {r \in view.tx : r.ask = TxKey(asked) /\ asked.typed = asked.q}
ShowsRanks == {r \in view.ranks : r.ask = RankKey(asked)}
ChangePage(p) ==
  /\ ShowsTx # {} /\ asked.tab = "transactions"
  /\ GoTo([asked EXCEPT !.page = p])
\* The rows of the ranking are given up at once.
ChangeRanking(s, p) ==
  LET a == [asked EXCEPT !.sort = s, !.rank = p]
  IN /\ Input /\ asked.tab = "rankings" /\ view.report # {} /\ a # asked
     /\ s # asked.sort => p = 0
     /\ Becomes(a, [view EXCEPT !.ranks = {}], calls)
     /\ UNCHANGED <<data, told, faults>>

Sell ==
  /\ Input /\ data' = data + 1
  /\ UNCHANGED <<asked, view, calls, told, faults>>
Serve(c) ==
  /\ c.state = "sent"
  /\ \E s \in {"ok", "failed"} :
       /\ s = "failed" => faults < MaxFaults
       /\ faults' = IF s = "failed" THEN faults + 1 ELSE faults
       /\ calls' = (calls \ {c}) \cup {[c EXCEPT !.state = s, !.ver = data]}
  /\ UNCHANGED <<asked, view, data, told, turns>>

Read(c) == CASE c.kind = "load" -> view.gen
             [] c.kind = "tx" -> view.txRead
             [] c.kind = "rank" -> view.rankRead
Current(c) == c.read = Read(c)
Ok(c) == c.state = "ok"
Loaded(c) ==
  /\ c.kind = "load"
  /\ Becomes(asked,
       [view EXCEPT !.loading = FALSE, !.error = ~Ok(c),
                    !.report = IF Ok(c) THEN {Row(c)} ELSE {}, !.ranks = {}],
       calls \ {c})
TxArrives(c) ==
  /\ c.kind = "tx"
  /\ view' = [view EXCEPT !.tx = IF Ok(c) THEN {Row(c)} ELSE {}]
  /\ calls' = calls \ {c} /\ asked' = asked
\* Rows that were shown stay when the next ones cannot be read.
RankArrives(c) ==
  /\ c.kind = "rank"
  /\ view' = [view EXCEPT !.ranking = FALSE, !.ranks = IF Ok(c) THEN {Row(c)} ELSE @]
  /\ calls' = calls \ {c} /\ asked' = asked
Deliver(c) ==
  /\ c.state # "sent"
  /\ IF Current(c) THEN Loaded(c) \/ TxArrives(c) \/ RankArrives(c)
                   ELSE calls' = calls \ {c} /\ UNCHANGED <<asked, view>>
  /\ UNCHANGED <<data, told, turns, faults>>

Proceeds == SearchSettles \/ \E c \in calls : Serve(c) \/ Deliver(c)
Next ==
  \/ Proceeds \/ Refresh \/ ChangeSelection \/ Travel \/ Sell
  \/ \E t \in Tabs : ChangeTab(t)
  \/ \E t \in Texts : TypeSearch(t)
  \/ \E p \in 0..LastPage : ChangePage(p) \/ \E s \in Sorts : ChangeRanking(s, p)

Spec == Init /\ [][Next]_reportVars /\ WF_reportVars(Proceeds)

-----------------------------------------------------------------------------
(* Properties *)

\* The analytics, the transactions and the ranking on the screen were all read
\* after the last refresh or change of the period.
ShownIsFresh ==
  /\ \A shown \in {"report", "tx", "ranks"} : \A r \in view[shown] : r.ver >= told
  /\ view.loading \/ view.error => view.report = {} /\ view.tx = {} /\ view.ranks = {}
\* The search settles, and the tab that is open shows the rows of its address
\* when no read failed: it is not left waiting for one that was given up.
ReportRests ==
  /\ ~view.loading /\ asked.typed = asked.q
  /\ RankRuns(asked, view) => ~view.ranking
  /\ faults = 0 => /\ TxRuns(asked, view) => ShowsTx # {}
                   /\ RankRuns(asked, view) => ShowsRanks # {}
=============================================================================
