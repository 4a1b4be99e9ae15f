------------------------------- MODULE Screen -------------------------------
(***************************************************************************)
(* What the screens of the workspace have in common: the user asks, a read *)
(* is sent for what is asked, answers come back in any order, and what was *)
(* asked may have changed since.  Rows are the pages a screen shows, each  *)
(* with the question it answers and the version of the data it was read    *)
(* at.  A React effect runs at once after the input that triggers it, and  *)
(* reads that a screen sends together are answered together.               *)
(***************************************************************************)
EXTENDS Integers, FiniteSets

CONSTANTS
  Texts,      \* what can be typed into a search field, with the empty text
  Filters,    \* settings of the other controls, with the empty one
  Places,     \* branches, or other records a screen is opened for
  LastPage,   \* the pages of a list are 0..LastPage
  MaxTurns,   \* inputs of the user
  MaxFaults   \* requests that fail or are denied

VARIABLES
  asked,      \* what the controls of the screen say
  view,       \* what it shows and waits for
  calls,      \* requests and the answers that are on their way back
  data,       \* the version of the data at the server
  told,       \* the version made by the last save it was told of
  form,       \* the form on it
  turns, faults

screenVars == <<asked, view, calls, data, told, form, turns, faults>>

Blank == [gen |-> 0, loading |-> TRUE, paging |-> FALSE, error |-> FALSE,
          rows |-> {}, index |-> 0, item |-> {}]
NoForm == [kind |-> "none", pending |-> FALSE, opened |-> 0]

\* For mutants: a reload that forgets an earlier page request, and a screen
\* that takes the answer of an earlier reading.
ReloadingOnly(v) == [v EXCEPT !.gen = @ + 1, !.loading = TRUE, !.rows = {}, !.item = {}]
AnyAnswer(c) == c.gen <= view.gen

\* The view of a screen that reads anew, and of one that lost its access.
Reloading(v) == [Blank EXCEPT !.gen = v.gen + 1]
AccessLost(v) == [Blank EXCEPT !.gen = v.gen + 1, !.loading = FALSE, !.error = TRUE]

Call(kind, gen, ask, page) ==
  [kind |-> kind, gen |-> gen, ask |-> ask, page |-> page, state |-> "sent", ver |-> 0]
Row(c) == [ask |-> c.ask, page |-> c.page, ver |-> c.ver]

\* An answer is of the present reading of the screen.
Current(c) == c.gen = view.gen

Input == turns < MaxTurns /\ turns' = turns + 1
Unmoved == UNCHANGED <<turns, faults>>

\* The server answers a request; a save makes a new version, whether or not
\* its answer arrives.
Answered(c, s) == calls' = (calls \ {c}) \cup {[c EXCEPT !.state = s, !.ver = data']}
Served(c) ==
  /\ data' = IF c.kind = "save" THEN data + 1 ELSE data
  /\ Answered(c, "ok")
  /\ UNCHANGED faults
Refused(c) ==
  /\ faults < MaxFaults /\ faults' = faults + 1
  /\ data' \in (IF c.kind = "save" THEN {data, data + 1} ELSE {data})
  /\ \E s \in {"failed", "denied"} :
       /\ s = "denied" => data' = data
       /\ Answered(c, s)
Serve(c) ==
  /\ c.state = "sent"
  /\ Served(c) \/ Refused(c)
  /\ UNCHANGED <<asked, view, told, form, turns>>

\* An answer reaches the screen.
Back(c, kind) == c.kind = kind /\ c.state # "sent"
Taken(c) == calls' = calls \ {c}
Dropped(c, kind) ==
  /\ Back(c, kind) /\ ~Current(c) /\ Taken(c)
  /\ UNCHANGED <<asked, view, data, told, form, turns, faults>>

-----------------------------------------------------------------------------
(* Properties *)

\* What is shown answers what is asked now, page by page, and a screen that
\* reads or that shows an error shows none of the earlier rows.
Shows(question) ==
  /\ \A r \in view.rows : r.ask = question /\ r.page = view.index
  /\ view.loading \/ view.error => view.rows = {} /\ view.item = {}
\* What is shown was read after the save the user was told of.
ShowsSaved == \A r \in view.rows \cup view.item : r.ver >= told
\* The screen waits for nothing.
AtRest == ~view.loading /\ ~view.paging /\ ~form.pending
=============================================================================
