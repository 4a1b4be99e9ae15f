-------------------------- MODULE PlacementPicker --------------------------
(***************************************************************************)
(* The form that places a product: a search over the products that may be  *)
(* placed, more of them on demand, the chosen one, and the command.  Every *)
(* letter typed ends the present reading at once, and a new one begins     *)
(* only when the settled text differs: a letter that is typed and taken    *)
(* back in time leaves the field waiting.                                  *)
(***************************************************************************)
EXTENDS Screen

Question == asked.q
NoProduct == [place |-> FALSE, q |-> "", page |-> 0]
\* The field shows a product that is chosen; "sent" is the reading that was sent last.
Chosen(r) == [place |-> TRUE, q |-> r.ask, page |-> r.page]

Asks(q) ==
  /\ asked' = [asked EXCEPT !.q = q, !.sent = view.gen + 1]
  /\ view' = Reloading(view)
  /\ calls' = calls \cup {Call("load", view.gen + 1, q, 0)}

Init ==
  /\ asked = [q |-> "", typed |-> "", product |-> NoProduct, sent |-> 0]
  /\ view = Blank /\ calls = {Call("load", 0, "", 0)}
  /\ data = 0 /\ told = 0 /\ form = [NoForm EXCEPT !.kind = "placement"]
  /\ turns = 0 /\ faults = 0

Usable == form = [NoForm EXCEPT !.kind = "placement"] /\ ~view.error
Type(t) ==
  /\ Input /\ Usable /\ t # asked.typed
  /\ asked' = [asked EXCEPT !.typed = t, !.product = NoProduct]
  /\ view' = [view EXCEPT !.gen = @ + 1]
  /\ UNCHANGED <<calls, data, told, form, faults>>
Debounced ==
  /\ asked.typed # asked.q
  /\ Asks(asked.typed)
  /\ UNCHANGED <<data, told, form>> /\ Unmoved
\* The search field takes the name of the product.
Select(r, t) ==
  /\ Input /\ Usable /\ ~view.loading /\ r \in view.rows
  /\ asked' = [asked EXCEPT !.product = Chosen(r), !.typed = t]
  /\ UNCHANGED <<view, calls, data, told, form, faults>>
LoadMore ==
  /\ Input /\ Usable /\ ~view.loading /\ ~view.paging
  /\ view.index < LastPage
  /\ view' = [view EXCEPT !.paging = TRUE]
  /\ calls' = calls \cup {Call("page", view.gen, asked.q, view.index + 1)}
  /\ UNCHANGED <<asked, data, told, form, faults>>
Retry ==
  /\ Input /\ view.error
  /\ Asks(asked.q)
  /\ UNCHANGED <<data, told, form, faults>>
Submit ==
  /\ Input /\ Usable /\ ~view.loading /\ asked.product # NoProduct
  /\ form' = [form EXCEPT !.pending = TRUE]
  /\ calls' = calls \cup {Call("save", 0, asked.product, 0)}
  /\ UNCHANGED <<asked, view, data, told, faults>>

Loaded(c) ==
  /\ Back(c, "load") /\ Current(c) /\ Taken(c)
  /\ view' = IF c.state = "ok" THEN [view EXCEPT !.loading = FALSE, !.rows = {Row(c)}]
                               ELSE [view EXCEPT !.loading = FALSE, !.error = TRUE]
  /\ UNCHANGED <<asked, data, told, form>> /\ Unmoved
More(c) ==
  /\ Back(c, "page") /\ Current(c) /\ Taken(c)
  /\ view' = IF c.state = "ok"
               THEN [view EXCEPT !.paging = FALSE, !.rows = @ \cup {Row(c)}, !.index = c.page]
               ELSE [view EXCEPT !.paging = FALSE]
  /\ UNCHANGED <<asked, data, told, form>> /\ Unmoved
\* The dialog closes on success and keeps the draft otherwise.
Submitted(c) ==
  /\ Back(c, "save") /\ Taken(c)
  /\ form' = IF c.state = "ok" THEN NoForm ELSE [form EXCEPT !.pending = FALSE]
  /\ UNCHANGED <<asked, view, data, told>> /\ Unmoved
Deliver(c) ==
  Loaded(c) \/ More(c) \/ Submitted(c) \/ Dropped(c, "load") \/ Dropped(c, "page")

Proceeds == Debounced \/ \E c \in calls : Serve(c) \/ Deliver(c)
Next ==
  \/ Proceeds
  \/ \E t \in Texts : Type(t) \/ \E r \in view.rows : Select(r, t)
  \/ LoadMore \/ Retry \/ Submit

Spec == Init /\ [][Next]_screenVars /\ WF_screenVars(Proceeds)

-----------------------------------------------------------------------------
(* Properties *)

\* The products on offer are the pages of one search, each once and without a
\* gap, and none is added by an answer to an earlier text.
OffersAreOneSearch ==
  /\ \A r \in view.rows : r.ask = asked.q
  /\ \A p \in 0..LastPage : Cardinality({r \in view.rows : r.page = p}) \in
       (IF view.rows # {} /\ p <= view.index THEN {1} ELSE {0})
\* The command is answered, the text settles, and its search ends with its
\* pages, unless a letter ended the reading and was taken back.
PickerRests ==
  /\ ~form.pending /\ asked.typed = asked.q
  /\ asked.sent = view.gen => ~view.loading /\ ~view.paging
=============================================================================
