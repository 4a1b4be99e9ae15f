--------------------------- MODULE MemberDirectory ---------------------------
(***************************************************************************)
(* The members of an organization, its invitations and its access history. *)
(* Both lists are read together.  Rows are the members, and item holds the *)
(* invitations, which stay on the screen while it reads.                   *)
(***************************************************************************)
EXTENDS Screen

Lists == {"members", "invitations"}
About(a) == [l \in Lists |-> [q |-> a[l].q, filter |-> a[l].filter, page |-> a[l].page]]
Question == About(asked)
FromStart == [typed |-> "", q |-> "", filter |-> "", page |-> 0]
Closed == [kind |-> "none", pending |-> FALSE, opened |-> 0, member |-> FALSE,
           invitation |-> FALSE, history |-> FALSE, reading |-> FALSE]

Asks(a) ==
  /\ asked' = a
  /\ view' = [Reloading(view) EXCEPT !.item = view.item]
  /\ calls' = calls \cup {Call("load", view.gen + 1, About(a), 0)}

Init ==
  /\ asked = [l \in Lists |-> FromStart]
  /\ view = Blank /\ calls = {Call("load", 0, Question, 0)}
  /\ data = 0 /\ told = 0 /\ form = Closed /\ turns = 0 /\ faults = 0

Usable == form.kind = "none" /\ ~view.error
\* Typing goes back to the first page at once, and searches a little later.
Type(l, t) ==
  /\ Input /\ Usable /\ t # asked[l].typed
  /\ LET a == [asked EXCEPT ![l].typed = t, ![l].page = 0]
     IN IF asked[l].page = 0 THEN asked' = a /\ UNCHANGED <<view, calls>> ELSE Asks(a)
  /\ UNCHANGED <<data, told, form, faults>>
Debounced(l) ==
  /\ asked[l].typed # asked[l].q
  /\ Asks([asked EXCEPT ![l].q = asked[l].typed])
  /\ UNCHANGED <<data, told, form>> /\ Unmoved
Filter(f) ==
  /\ Input /\ Usable /\ f # asked["invitations"].filter
  /\ Asks([asked EXCEPT !["invitations"].filter = f, !["invitations"].page = 0])
  /\ UNCHANGED <<data, told, form, faults>>
LoadPage(l, i) ==
  /\ Input /\ Usable
  /\ IF l = "members" THEN view.rows # {} ELSE view.item # {} /\ ~form.invitation
  /\ i \in {asked[l].page - 1, asked[l].page + 1}
  /\ Asks([asked EXCEPT ![l].page = i])
  /\ UNCHANGED <<data, told, form, faults>>
Retry ==
  /\ Input /\ view.error
  /\ Asks(asked)
  /\ UNCHANGED <<data, told, form, faults>>

\* A member is removed after a confirmation, and edited in a dialog.
Remove ==
  /\ Input /\ Usable /\ view.rows # {} /\ ~form.member
  /\ form' = [form EXCEPT !.member = TRUE]
  /\ calls' = calls \cup {Call("remove", 0, "member", 0)}
  /\ UNCHANGED <<asked, view, data, told, faults>>
\* The row of an invitation goes before the answer, and comes back when it fails.
RemoveInvitation(r) ==
  /\ Input /\ Usable /\ ~form.invitation
  /\ form' = [form EXCEPT !.invitation = TRUE]
  /\ view' = [view EXCEPT !.item = @ \ {r}]
  /\ calls' = calls \cup {Call("revoke", 0, r.ask, 0)}
  /\ UNCHANGED <<asked, data, told, faults>>
\* The form takes longer to fill than a search takes to start.
Open ==
  /\ Input /\ Usable
  /\ form' = [form EXCEPT !.kind = "invite", !.pending = FALSE, !.opened = turns']
  /\ UNCHANGED <<asked, view, calls, data, told, faults>>
Close ==
  /\ Input /\ form.kind = "invite" /\ ~form.pending
  /\ form' = [form EXCEPT !.kind = "none"]
  /\ UNCHANGED <<asked, view, calls, data, told, faults>>
Submit ==
  /\ Input /\ form.kind = "invite" /\ ~form.pending
  /\ \A l \in Lists : asked[l].typed = asked[l].q
  /\ form' = [form EXCEPT !.pending = TRUE]
  /\ calls' = calls \cup {Call("save", form.opened, "invite", 0)}
  /\ UNCHANGED <<asked, view, data, told, faults>>
\* The history is hidden at once; it opens with its answer.
History ==
  /\ Input /\ Usable
  /\ IF form.history
       THEN form' = [form EXCEPT !.history = FALSE] /\ UNCHANGED calls
       ELSE /\ form' = [form EXCEPT !.reading = TRUE]
            /\ calls' = calls \cup {Call("history", 0, "history", 0)}
  /\ UNCHANGED <<asked, view, data, told, faults>>

\* A list that fails to load closes the form on it, too.
Loaded(c) ==
  /\ Back(c, "load") /\ Current(c) /\ Taken(c)
  /\ IF c.state = "ok"
       THEN /\ view' = [view EXCEPT !.loading = FALSE, !.item = {Row(c)},
                                    !.rows = {Row(c)}]
            /\ UNCHANGED form
       ELSE /\ view' = [view EXCEPT !.loading = FALSE, !.error = TRUE]
            /\ form' = [form EXCEPT !.kind = "none", !.pending = FALSE]
  /\ UNCHANGED <<asked, data, told>> /\ Unmoved
Invited(c) ==
  /\ Back(c, "save")
  /\ form' = IF c.gen = form.opened THEN [form EXCEPT !.pending = FALSE] ELSE form
  /\ IF c.state = "ok"
       THEN /\ told' = c.ver /\ UNCHANGED asked
            /\ view' = [Reloading(view) EXCEPT !.item = view.item]
            /\ calls' = (calls \ {c}) \cup {Call("load", view.gen + 1, Question, 0)}
       ELSE Taken(c) /\ UNCHANGED <<asked, view, told>>
  /\ UNCHANGED data /\ Unmoved
Removed(c) ==
  /\ Back(c, "remove") /\ Taken(c)
  /\ form' = [form EXCEPT !.member = FALSE]
  /\ UNCHANGED <<asked, view, data, told>> /\ Unmoved
InvitationRemoved(c) ==
  /\ Back(c, "revoke") /\ Taken(c)
  /\ form' = [form EXCEPT !.invitation = FALSE]
  /\ view' = IF c.state = "ok" THEN view
             ELSE [view EXCEPT !.item = @ \cup {[ask |-> c.ask, page |-> 0, ver |-> told]}]
  /\ UNCHANGED <<asked, data, told>> /\ Unmoved
HistoryRead(c) ==
  /\ Back(c, "history") /\ Taken(c)
  /\ form' = [form EXCEPT !.reading = FALSE, !.history = form.history \/ c.state = "ok"]
  /\ UNCHANGED <<asked, view, data, told>> /\ Unmoved
Deliver(c) ==
  \/ Loaded(c) \/ Dropped(c, "load") \/ HistoryRead(c)
  \/ Invited(c) \/ Removed(c) \/ InvitationRemoved(c)

Proceeds == (\E c \in calls : Serve(c) \/ Deliver(c)) \/ \E l \in Lists : Debounced(l)
Next ==
  \/ Proceeds
  \/ \E l \in Lists, t \in Texts : Type(l, t)
  \/ \E l \in Lists, i \in 0..LastPage : LoadPage(l, i)
  \/ \E f \in Filters : Filter(f)
  \/ \E r \in view.item : RemoveInvitation(r)
  \/ Retry \/ Remove \/ Open \/ Close \/ Submit \/ History

Spec == Init /\ [][Next]_screenVars /\ WF_screenVars(Proceeds)

-----------------------------------------------------------------------------
(* Properties *)

\* The members that are shown answer the controls of both lists, and were read
\* after the invitation the owner was told of; the form never hides a list
\* that failed, and no earlier list is shown while it reads.
MembersAsked ==
  /\ \A r \in view.rows : r.ask = Question /\ r.ver >= told
  /\ view.loading \/ view.error => view.rows = {}
\* Everything the screen waits for arrives.
MembersRest ==
  ~view.loading /\ ~form.pending /\ ~form.member /\ ~form.invitation /\ ~form.reading
=============================================================================
