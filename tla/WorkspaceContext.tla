-------------------------- MODULE WorkspaceContext --------------------------
(***************************************************************************)
(* What the pages of a workspace share: the organization with the role of  *)
(* the user, the list of branches, which is read once for all who ask, and *)
(* the branch that was chosen last.  The role changes at the server, and   *)
(* is seen when the organization is read again.  OWNER stands for the      *)
(* roles that read branches in full and change them: a branch that such a  *)
(* page saved joins the list when its answer comes, whatever was read      *)
(* meanwhile.                                                              *)
(***************************************************************************)
EXTENDS Screen

Roles == {"OWNER", "MERCHANT"}
NoPage == [role |-> "", access |-> -1, since |-> {}]
Read(kind, gen, role) ==
  [kind |-> kind, gen |-> gen, role |-> role, branch |-> "", state |-> "sent", got |-> ""]

\* In view: the organization as it was read and its reading, the role that was
\* read last, the branches with their status and reading, and whether a read
\* of them is shared.
Init ==
  /\ data \in Roles
  /\ view = [org |-> "", status |-> "loading", gen |-> 1, last |-> "",
             rows |-> {}, branches |-> "idle", bgen |-> 0, shared |-> FALSE]
  /\ calls = {Read("organization", 1, "")}
  /\ asked = [branch |-> "", role |-> ""]
  /\ form = NoPage       \* a page, its context, and the roles since it was rendered
  /\ told = {}           \* the roles since the page was rendered that chose the branch
  /\ turns = 0 /\ faults = 0

\* The branch that was chosen counts under the role it was chosen with.
SelectedBranch == IF view.org = asked.role THEN asked.branch ELSE ""

RefreshOrganization ==
  /\ Input
  /\ view' = [view EXCEPT !.gen = @ + 1, !.org = "", !.status = "loading",
                          !.bgen = @ + 1, !.rows = {}, !.branches = "idle", !.shared = FALSE]
  /\ calls' = calls \cup {Read("organization", view.gen + 1, "")}
  /\ UNCHANGED <<asked, data, told, form, faults>>
LoadBranches(refresh) ==
  /\ Input /\ view.org # ""
  /\ IF ~refresh /\ (view.branches = "ready" \/ view.shared)
       THEN UNCHANGED <<view, calls>>
       ELSE /\ view' = [view EXCEPT !.bgen = @ + 1, !.rows = {}, !.branches = "loading", !.shared = TRUE]
            /\ calls' = calls \cup {Read("branches", view.bgen + 1, view.org)}
  /\ UNCHANGED <<asked, data, told, form, faults>>
\* A page of an owner changes a branch, or its status.
SaveBranch(b) ==
  /\ Input /\ view.org = "OWNER"
  /\ calls' = calls \cup {[Read("save", 0, "OWNER") EXCEPT !.branch = b]}
  /\ UNCHANGED <<asked, view, data, told, form, faults>>
\* A page keeps the context of its rendering in callbacks that run later.
Render ==
  /\ Input /\ view.org # "" /\ form.access # view.gen
  /\ form' = [role |-> view.org, access |-> view.gen, since |-> {view.org}]
  /\ UNCHANGED <<asked, view, calls, data, told, faults>>
SetSelectedBranch(b) ==
  /\ Input /\ form # NoPage /\ form.access = view.gen
  /\ asked' = [branch |-> b, role |-> form.role] /\ told' = form.since
  /\ UNCHANGED <<view, calls, data, form, faults>>

\* The server changes the role, and answers with what the role may read.
SetRole ==
  /\ \E r \in Roles \ {data} : data' = r
  /\ UNCHANGED <<asked, view, calls, told, form>> /\ Unmoved
Readable(c) == c.role = "OWNER" => data = "OWNER"
\* A status is refused if the branch changed since it was read.
Respond(c) ==
  /\ c.state = "sent"
  /\ \/ /\ \E s \in {"ok", "stale"} :
             /\ s = "stale" => c.kind = "save"
             /\ calls' = (calls \ {c}) \cup
                  {[c EXCEPT !.got = data, !.state = IF Readable(c) THEN s ELSE "failed"]}
        /\ UNCHANGED faults
     \/ /\ faults < MaxFaults /\ faults' = faults + 1
        /\ calls' = (calls \ {c}) \cup {[c EXCEPT !.state = "failed"]}
  /\ UNCHANGED <<asked, view, data, told, form, turns>>

\* Another role gives up the choice.
OrganizationRead(c) ==
  /\ Back(c, "organization") /\ c.gen = view.gen /\ Taken(c)
  /\ IF c.state = "ok"
       THEN /\ view' = [view EXCEPT !.org = c.got, !.status = "ready", !.last = c.got]
            /\ asked' = IF view.last = c.got THEN asked ELSE [branch |-> "", role |-> ""]
            /\ told' = IF told = {} THEN {} ELSE told \cup {c.got}
            /\ form' = IF form = NoPage THEN form ELSE [form EXCEPT !.since = @ \cup {c.got}]
       ELSE view' = [view EXCEPT !.status = "error"] /\ UNCHANGED <<asked, told, form>>
  /\ UNCHANGED data /\ Unmoved
BranchesRead(c) ==
  /\ Back(c, "branches") /\ c.gen = view.bgen /\ Taken(c)
  /\ view' = IF c.state = "ok"
       THEN [view EXCEPT !.rows = {[role |-> c.role, saved |-> ""]},
                         !.branches = "ready", !.shared = FALSE]
       ELSE [view EXCEPT !.rows = {}, !.branches = "error", !.shared = FALSE]
  /\ UNCHANGED <<asked, data, told, form>> /\ Unmoved
\* The latest branch is read for the page that saved it.
Stale(c) ==
  /\ Back(c, "save") /\ c.state = "stale"
  /\ calls' = (calls \ {c}) \cup {[c EXCEPT !.kind = "latest", !.state = "sent", !.got = ""]}
  /\ UNCHANGED <<asked, view, data, told, form>> /\ Unmoved
\* A branch that was saved or read anew joins the list, also one that was not
\* read and one that has come to be of another role.
UpsertBranch(c) ==
  /\ c.kind \in {"save", "latest"} /\ c.state \in {"ok", "failed"} /\ Taken(c)
  /\ view' = IF c.state = "ok"
       THEN [view EXCEPT !.rows = @ \cup {[role |-> "OWNER", saved |-> c.branch]}, !.branches = "ready"]
       ELSE view
  /\ UNCHANGED <<asked, data, told, form>> /\ Unmoved
Late(c) ==
  /\ c.state # "sent"
  /\ \/ c.kind = "organization" /\ c.gen # view.gen
     \/ c.kind = "branches" /\ c.gen # view.bgen
  /\ Taken(c)
  /\ UNCHANGED <<asked, view, data, told, form>> /\ Unmoved

Proceeds ==
  \E c \in calls : \/ Respond(c) \/ OrganizationRead(c) \/ BranchesRead(c) \/ Late(c)
                  \/ Stale(c) \/ UpsertBranch(c)
Next ==
  \/ Proceeds
  \/ RefreshOrganization \/ Render \/ SetRole
  \/ \E r \in BOOLEAN : LoadBranches(r)
  \/ \E b \in Places : SaveBranch(b) \/ SetSelectedBranch(b)

Spec == Init /\ [][Next]_screenVars /\ WF_screenVars(Proceeds)

-----------------------------------------------------------------------------
(* Properties *)

\* The list of branches that is shown was read for the role that is shown, and
\* a choice counts only if the role has been the same since the page was
\* rendered that made it.  A branch that was saved is not claimed: its answer
\* may come after the role was read anew.
WorkspaceOfRole ==
  /\ \A r \in view.rows : r.saved = "" => r.role = view.org
  /\ SelectedBranch # "" => told = {view.org}
\* The workspace does not go on loading.
WorkspaceRests == view.status # "loading" /\ view.branches # "loading"
=============================================================================
