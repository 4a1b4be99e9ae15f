---------------------------- MODULE OptionSelect ----------------------------
(***************************************************************************)
(* The select field whose options are searched and read page by page, as   *)
(* the forms of merchants, branches and products use it.  Every change of  *)
(* the search is a reading of its own, although its read is sent a little  *)
(* later: until then the earlier options can be read on, and a page that is *)
(* on its way when another reading begins stays pending.                   *)
(***************************************************************************)
EXTENDS Screen

NoOption == [ask |-> "", page |-> LastPage + 1, ver |-> 0]
Reads(v) == [v EXCEPT !.gen = @ + 1]

\* paged is the reading in which a page was asked for last.
Init ==
  /\ asked = [q |-> "", due |-> TRUE, chosen |-> NoOption, paged |-> 0]
  /\ view = Blank /\ calls = {} /\ data = 0 /\ told = 0
  /\ form = NoForm /\ turns = 0 /\ faults = 0

Type(t) ==
  /\ Input /\ ~form.pending /\ t # asked.q
  /\ asked' = [asked EXCEPT !.q = t, !.due = TRUE]
  /\ view' = Reads(view)
  /\ UNCHANGED <<calls, data, told, form, faults>>
Retry ==
  /\ Input /\ view.error
  /\ asked' = [asked EXCEPT !.due = TRUE]
  /\ view' = Reads(view)
  /\ UNCHANGED <<calls, data, told, form, faults>>
\* The form around the field is submitted, and comes back.
Disable ==
  /\ Input
  /\ form' = [form EXCEPT !.pending = ~@]
  /\ asked' = [asked EXCEPT !.due = form.pending]
  /\ view' = IF form.pending THEN Reads(view) ELSE [Reads(view) EXCEPT !.loading = FALSE]
  /\ UNCHANGED <<calls, data, told, faults>>
Debounced ==
  /\ asked.due
  /\ asked' = [asked EXCEPT !.due = FALSE]
  /\ view' = [view EXCEPT !.loading = TRUE, !.error = FALSE]
  /\ calls' = calls \cup {Call("load", view.gen, asked.q, 0)}
  /\ UNCHANGED <<data, told, form>> /\ Unmoved
LoadMore ==
  /\ Input /\ ~form.pending /\ ~view.loading /\ ~view.paging
  /\ view.rows # {} /\ view.index < LastPage
  /\ view' = [view EXCEPT !.paging = TRUE]
  /\ asked' = [asked EXCEPT !.paged = view.gen]
  /\ calls' = calls \cup {Call("page", view.gen, asked.q, view.index + 1)}
  /\ UNCHANGED <<data, told, form, faults>>
\* What is chosen stays among the options whatever is searched then.
Visible == view.rows \cup ({asked.chosen} \ {NoOption})
Choose(r) ==
  /\ Input /\ ~form.pending /\ ~view.loading /\ ~view.error
  /\ asked' = [asked EXCEPT !.chosen = r]
  /\ UNCHANGED <<view, calls, data, told, form, faults>>

Loaded(c) ==
  /\ Back(c, "load") /\ Current(c) /\ Taken(c)
  /\ view' = [view EXCEPT !.loading = FALSE, !.index = 0, !.error = c.state # "ok",
                          !.rows = IF c.state = "ok" THEN {Row(c)} ELSE {}]
  /\ UNCHANGED <<asked, data, told, form>> /\ Unmoved
PageLoaded(c) ==
  /\ Back(c, "page") /\ Current(c) /\ Taken(c)
  /\ view' = IF c.state = "ok"
               THEN [view EXCEPT !.paging = FALSE, !.index = c.page, !.rows = @ \cup {Row(c)}]
               ELSE [view EXCEPT !.paging = FALSE, !.error = TRUE]
  /\ UNCHANGED <<asked, data, told, form>> /\ Unmoved
Deliver(c) == Loaded(c) \/ PageLoaded(c) \/ Dropped(c, "load") \/ Dropped(c, "page")

Proceeds == (\E c \in calls : Serve(c) \/ Deliver(c)) \/ Debounced
Next ==
  \/ Proceeds
  \/ \E t \in Texts : Type(t)
  \/ \E r \in Visible : Choose(r)
  \/ Retry \/ Disable \/ LoadMore

Spec == Init /\ [][Next]_screenVars /\ WF_screenVars(Proceeds)

-----------------------------------------------------------------------------
(* Properties *)

\* Options that can be chosen are of one search, the one that is typed, once
\* its read was sent and answered.
OptionsAreTyped ==
  ~view.loading /\ ~view.error /\ ~asked.due /\ ~form.pending =>
    \A r \in view.rows : r.ask = asked.q
\* A search is answered, unless the field is not in use, and so is a page of
\* it; a page that another reading overtook is waited for all the same.
OptionsRest ==
  /\ ~view.loading /\ ~asked.due
  /\ asked.paged = view.gen => ~view.paging
=============================================================================
