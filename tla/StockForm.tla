----------------------------- MODULE StockForm -----------------------------
(***************************************************************************)
(* The form that receives or adjusts stock, with the server that runs a    *)
(* request once.  A draft is a number and counts the edits that led to it; *)
(* answers are lost, and the user submits again, edits, or gives up.       *)
(***************************************************************************)
EXTENDS Integers, FiniteSets

CONSTANTS
  Texts,      \* what the user can enter, with the empty text
  MaxTurns,   \* inputs of the user
  MaxFaults   \* requests whose answer is lost or a refusal

VARIABLES
  draft,      \* what the form holds, and the number of the edit
  command,    \* the kept request id and the content it stands for
  step,       \* "edit", "review", "sent", "lost" (access)
  calls, applied, nextId, turns, faults

formVars == <<draft, command, step, calls, applied, nextId, turns, faults>>

NoCommand == [id |-> 0, text |-> ""]

Init ==
  /\ draft = [text |-> "", edit |-> 0] /\ command = NoCommand /\ step = "edit"
  /\ calls = {} /\ applied = {} /\ nextId = 1 /\ turns = 0 /\ faults = 0

Input == turns < MaxTurns /\ turns' = turns + 1

\* Any edit gives the kept request up.
Edit(t) ==
  /\ Input /\ step = "edit"
  /\ draft' = [text |-> t, edit |-> draft.edit + 1]
  /\ command' = NoCommand
  /\ UNCHANGED <<step, calls, applied, nextId, faults>>
\* An adjustment is reviewed before it is sent, a receipt is not.
Submit ==
  /\ Input /\ step = "edit" /\ draft.text # ""
  /\ step' = "review"
  /\ UNCHANGED <<draft, command, calls, applied, nextId, faults>>
Cancel ==
  /\ Input /\ step = "review"
  /\ step' = "edit"
  /\ UNCHANGED <<draft, command, calls, applied, nextId, faults>>
Keeps == command.id # 0 /\ command.text = draft.text
Send ==
  /\ step = "review"
  /\ command' = IF Keeps THEN command ELSE [id |-> nextId, text |-> draft.text]
  /\ nextId' = IF Keeps THEN nextId ELSE nextId + 1
  /\ calls' = calls \cup {[id |-> command'.id, edit |-> draft.edit, state |-> "sent"]}
  /\ step' = "sent"
  /\ UNCHANGED <<draft, applied, turns, faults>>

\* The server applies a request id once and answers a repetition alike.
Apply(c) ==
  applied' = IF \E a \in applied : a.id = c.id
               THEN applied
               ELSE applied \cup {[id |-> c.id, edit |-> c.edit]}
Serve(c) ==
  /\ c.state = "sent"
  /\ \E s \in {"ok", "failed", "denied"} :
       /\ \/ s # "denied" /\ Apply(c)
          \/ s # "ok" /\ applied' = applied
       /\ s # "ok" => faults < MaxFaults
       /\ faults' = IF s = "ok" THEN faults ELSE faults + 1
       /\ calls' = (calls \ {c}) \cup {[c EXCEPT !.state = s]}
  /\ UNCHANGED <<draft, command, step, nextId, turns>>

Succeeded(c) ==
  /\ c.state = "ok"
  /\ draft' = [text |-> "", edit |-> draft.edit + 1]
  /\ command' = NoCommand /\ step' = "edit"
Failed(c) ==
  /\ c.state = "failed"
  /\ step' = "edit" /\ UNCHANGED <<draft, command>>
\* The screen takes the form away.
AccessLost(c) ==
  /\ c.state = "denied"
  /\ step' = "lost" /\ UNCHANGED <<draft, command>>
Deliver(c) ==
  /\ Succeeded(c) \/ Failed(c) \/ AccessLost(c)
  /\ calls' = calls \ {c}
  /\ UNCHANGED <<applied, nextId, turns, faults>>

Proceeds == \E c \in calls : Serve(c) \/ Deliver(c)
Next ==
  \/ Proceeds
  \/ \E t \in Texts : Edit(t)
  \/ Submit \/ Cancel \/ Send

Spec == Init /\ [][Next]_formVars /\ WF_formVars(Proceeds)

-----------------------------------------------------------------------------
(* Properties *)

\* A draft that is sent again unchanged, because its answer was lost, moves
\* the stock once.
DraftMovesOnce ==
  \A a, b \in applied : a.edit = b.edit => a = b
=============================================================================
