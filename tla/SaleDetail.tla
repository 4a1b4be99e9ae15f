----------------------------- MODULE SaleDetail -----------------------------
(***************************************************************************)
(* One sale and, once it is read, the history of its refunds, which is a   *)
(* list of its own.  The refund that is on its way, or whose outcome is    *)
(* not known, is kept apart from both: form.kind is its state.             *)
(***************************************************************************)
EXTENDS Screen

NoHistory == [gen |-> 0, loading |-> FALSE, error |-> FALSE, rows |-> {}]
Unresolved == form.kind \in {"pending", "unknown"}
\* What the history becomes when it reads, and when it is given up.
Reads(h) == [NoHistory EXCEPT !.gen = h.gen + 1, !.loading = TRUE]
Leaves(h) == [NoHistory EXCEPT !.gen = h.gen + 1]
History(v, page) == Call("history", v.history.gen + 1, "refunds", page)

Init ==
  /\ asked = [page |-> 0]
  /\ view = [gen |-> 0, loading |-> TRUE, error |-> FALSE, item |-> {}, history |-> NoHistory]
  /\ calls = {Call("load", 0, "sale", 0)} /\ data = 0 /\ told = 0
  /\ form = NoForm /\ turns = 0 /\ faults = 0

SaleReads ==
  /\ view' = [view EXCEPT !.gen = @ + 1, !.loading = TRUE, !.error = FALSE, !.item = {},
                          !.history = Leaves(@)]
  /\ calls' = calls \cup {Call("load", view.gen + 1, "sale", 0)}
  /\ UNCHANGED <<data, told, form, faults>>
Refresh == Input /\ ~Unresolved /\ SaleReads /\ UNCHANGED asked
Retry == Input /\ view.error /\ SaleReads /\ UNCHANGED asked

Mounted == view.item # {}
HistoryReads(page) ==
  /\ asked' = [page |-> page]
  /\ view' = [view EXCEPT !.history = Reads(@)]
  /\ calls' = calls \cup {History(view, page)}
RefreshHistory ==
  /\ Input /\ Mounted /\ form.kind # "pending"
  /\ Unresolved => view.history.error
  /\ HistoryReads(asked.page) /\ UNCHANGED <<data, told, form, faults>>
LoadPage(i) ==
  /\ Input /\ Mounted /\ ~Unresolved /\ view.history.rows # {}
  /\ i \in {asked.page - 1, asked.page + 1}
  /\ HistoryReads(i) /\ UNCHANGED <<data, told, form, faults>>
\* A history that was read is needed to refund, or to send the same again.
Send ==
  /\ Input /\ Mounted /\ form.kind \in {"none", "unknown"} /\ view.history.rows # {}
  /\ form' = [form EXCEPT !.kind = "pending"]
  /\ view' = [view EXCEPT !.history.gen = @ + 1]
  /\ calls' = calls \cup {Call("save", 0, "refund", 0)}
  /\ UNCHANGED <<asked, data, told, faults>>
Acknowledge ==
  /\ Input /\ Mounted /\ form.kind = "completed"
  /\ form' = NoForm
  /\ HistoryReads(asked.page) /\ UNCHANGED <<data, told, faults>>

\* The history appears with the sale and begins with its first page.
SaleLoaded(c) ==
  /\ Back(c, "load") /\ Current(c)
  /\ IF c.state = "ok"
       THEN /\ view' = [view EXCEPT !.loading = FALSE, !.item = {Row(c)}, !.history = Reads(@)]
            /\ calls' = (calls \ {c}) \cup {History(view, 0)}
            /\ asked' = [page |-> 0]
       ELSE /\ view' = [view EXCEPT !.loading = FALSE, !.error = TRUE]
            /\ Taken(c) /\ UNCHANGED asked
  /\ UNCHANGED <<data, told, form>> /\ Unmoved
\* A history that is denied takes the sale with it.
HistoryLoaded(c) ==
  /\ Back(c, "history") /\ Taken(c)
  /\ view' = CASE c.gen # view.history.gen -> view
               [] c.state = "ok" -> [view EXCEPT !.history.loading = FALSE, !.history.rows = {Row(c)}]
               [] c.state = "failed" -> [view EXCEPT !.history.loading = FALSE, !.history.error = TRUE]
               [] OTHER -> [view EXCEPT !.error = TRUE, !.item = {}, !.history = Leaves(@)]
  /\ UNCHANGED <<asked, data, told, form>> /\ Unmoved
\* A recorded refund shows the first page again, and one whose outcome is not
\* known the same page; a denied one hides the sale.
Refunded(c) ==
  /\ Back(c, "save")
  /\ IF c.state = "denied"
       THEN /\ view' = [view EXCEPT !.error = TRUE, !.item = {}, !.history = Leaves(@)]
            /\ form' = NoForm /\ Taken(c) /\ UNCHANGED <<asked, told>>
       ELSE /\ form' = [form EXCEPT !.kind = IF c.state = "ok" THEN "completed" ELSE "unknown"]
            /\ told' = IF c.state = "ok" THEN c.ver ELSE told
            /\ asked' = IF c.state = "ok" THEN [page |-> 0] ELSE asked
            /\ view' = [view EXCEPT !.history = Reads(@)]
            /\ LET page == IF c.state = "ok" THEN 0 ELSE asked.page
               IN calls' = (calls \ {c}) \cup {History(view, page)}
  /\ UNCHANGED data /\ Unmoved
Deliver(c) == SaleLoaded(c) \/ HistoryLoaded(c) \/ Refunded(c) \/ Dropped(c, "load")

Proceeds == \E c \in calls : Serve(c) \/ Deliver(c)
Next ==
  \/ Proceeds
  \/ \E i \in 0..LastPage : LoadPage(i)
  \/ Refresh \/ Retry \/ RefreshHistory \/ Send \/ Acknowledge

Spec == Init /\ [][Next]_screenVars /\ WF_screenVars(Proceeds)

-----------------------------------------------------------------------------
(* Properties *)

\* Nothing of a sale or of its refunds is shown after either was denied or
\* failed to load, nor the refunds without their sale.
DeniedShowsNothing ==
  /\ view.loading \/ view.error => view.item = {}
  /\ view.history.rows # {} => Mounted /\ ~view.history.loading
  /\ \A r \in view.history.rows : r.page = asked.page
\* Refunds that are shown, and the quantities that are left, were read after
\* the refund the seller was told of.
RefundsCounted == \A r \in view.history.rows : r.ver >= told
DetailRests == ~view.loading /\ ~view.history.loading /\ form.kind # "pending"
=============================================================================
