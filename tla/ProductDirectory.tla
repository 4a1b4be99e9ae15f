-------------------------- MODULE ProductDirectory --------------------------
(***************************************************************************)
(* The products of an organization: search, selects, pages, and the form   *)
(* that adds a product.  The list pauses while the form is open, and reads *)
(* anew when it closes.                                                    *)
(***************************************************************************)
EXTENDS Screen

About(a) == [q |-> a.q, filter |-> a.filter, page |-> a.page]
Question == About(asked)
Asks(a) ==
  /\ asked' = a /\ view' = Reloading(view)
  /\ calls' = calls \cup {Call("load", view.gen + 1, About(a), a.page)}

Init ==
  /\ asked = [typed |-> "", q |-> "", filter |-> "", page |-> 0]
  /\ view = Blank /\ calls = {Call("load", 0, Question, 0)}
  /\ data = 0 /\ told = 0 /\ form = NoForm /\ turns = 0 /\ faults = 0

Free == form.kind = "none"
Type(t) ==
  /\ Input /\ Free /\ t # asked.typed
  /\ IF asked.page = 0
       THEN asked' = [asked EXCEPT !.typed = t] /\ UNCHANGED <<view, calls>>
       ELSE Asks([asked EXCEPT !.typed = t, !.page = 0])
  /\ UNCHANGED <<data, told, form, faults>>
\* A search that settles under the open form is asked when it closes.
Debounced ==
  /\ asked.typed # asked.q
  /\ LET a == [asked EXCEPT !.q = asked.typed]
     IN IF Free THEN Asks(a) ELSE asked' = a /\ UNCHANGED <<view, calls>>
  /\ UNCHANGED <<data, told, form>> /\ Unmoved
Filter(f) ==
  /\ Input /\ Free /\ f # asked.filter
  /\ Asks([asked EXCEPT !.filter = f, !.page = 0])
  /\ UNCHANGED <<data, told, form, faults>>
LoadPage(i) ==
  /\ Input /\ Free /\ view.rows # {} /\ i \in {asked.page - 1, asked.page + 1}
  /\ Asks([asked EXCEPT !.page = i])
  /\ UNCHANGED <<data, told, form, faults>>
Retry ==
  /\ Input /\ Free /\ view.error
  /\ Asks(asked)
  /\ UNCHANGED <<data, told, form, faults>>

Open ==
  /\ Input /\ Free /\ ~view.loading /\ ~view.error
  /\ form' = [form EXCEPT !.kind = "product"]
  /\ UNCHANGED <<asked, view, calls, data, told, faults>>
Close ==
  /\ Input /\ form.kind = "product" /\ ~form.pending
  /\ form' = NoForm /\ Asks(asked)
  /\ UNCHANGED <<data, told, faults>>
Submit ==
  /\ Input /\ form.kind = "product" /\ ~form.pending
  /\ form' = [form EXCEPT !.pending = TRUE]
  /\ calls' = calls \cup {Call("save", 0, "product", 0)}
  /\ UNCHANGED <<asked, view, data, told, faults>>

Loaded(c) ==
  /\ Back(c, "load") /\ Current(c) /\ Taken(c)
  /\ view' = IF c.state = "ok" THEN [view EXCEPT !.loading = FALSE, !.rows = {Row(c)}]
                               ELSE [view EXCEPT !.loading = FALSE, !.error = TRUE]
  /\ UNCHANGED <<asked, data, told, form>> /\ Unmoved
Saved(c) ==
  /\ Back(c, "save") /\ c.state = "ok"
  /\ form' = NoForm /\ told' = c.ver
  /\ view' = Reloading(view)
  /\ calls' = (calls \ {c}) \cup {Call("load", view.gen + 1, Question, asked.page)}
  /\ UNCHANGED <<asked, data>> /\ Unmoved
NotSaved(c) ==
  /\ Back(c, "save") /\ c.state # "ok" /\ Taken(c)
  /\ form' = [form EXCEPT !.pending = FALSE]
  /\ UNCHANGED <<asked, view, data, told>> /\ Unmoved
Deliver(c) == Loaded(c) \/ Saved(c) \/ NotSaved(c) \/ Dropped(c, "load")

Proceeds == (\E c \in calls : Serve(c) \/ Deliver(c)) \/ Debounced
Next ==
  \/ Proceeds
  \/ \E t \in Texts : Type(t)
  \/ \E f \in Filters : Filter(f)
  \/ \E i \in 0..LastPage : LoadPage(i)
  \/ Retry \/ Open \/ Close \/ Submit

Spec == Init /\ [][Next]_screenVars /\ WF_screenVars(Proceeds)

-----------------------------------------------------------------------------
(* Properties *)

\* The products answer the controls, also after a search that settled while
\* the form was open, and none are shown while they are read.
ProductsAsked ==
  /\ Free => \A r \in view.rows : r.ask = Question
  /\ view.loading \/ view.error => view.rows = {}
=============================================================================
