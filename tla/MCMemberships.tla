--------------------------- MODULE MCMemberships ---------------------------
(* Small instances of Memberships: the requests the clients may send. *)
EXTENDS Memberships, TLC

CONSTANTS ann, bob, cyd, b1, m1, m2, n1, n2, w1, w2

WorkerSymmetry == Permutations(Workers)

Role(by, u, r) == [op |-> "role", actor |-> by, target |-> u, role |-> r,
                   merchant |-> IF r = "MERCHANT" THEN m1 ELSE None]
Grant(by, u) == [op |-> "grant", actor |-> by, target |-> u, branch |-> b1]
Ungrant(by, u) == [op |-> "revoke", actor |-> by, target |-> u, branch |-> b1]
Link(by, u, m) == [op |-> "link", actor |-> by, target |-> u, merchant |-> m]
Leave(by, u) == [op |-> "remove", actor |-> by, target |-> u]
Delete(u) == [op |-> "delete", actor |-> u]
Ask(by, i, u, r) ==
  [op |-> "invite", actor |-> by, id |-> i, email |-> u,
   member |-> [role |-> r, merchant |-> IF r = "MERCHANT" THEN m1 ELSE None],
   branches |-> IF r = "MERCHANT" THEN {} ELSE {b1}]
On(op, by, i) == [op |-> op, actor |-> by, id |-> i]
Take(u, i, t) == [op |-> "accept", actor |-> u, id |-> i, token |-> t]

\* Two owners demote, promote and remove each other, or delete their accounts.
OwnerCommands ==
  {Role(ann, bob, "MANAGER"), Role(bob, ann, "MANAGER"), Role(ann, bob, "OWNER"),
   Leave(bob, ann), Delete(bob), Delete(ann)}
\* Assignments, roles and merchant links of one member change together.
AccessCommands ==
  {Role(ann, bob, "MANAGER"), Role(ann, bob, "OWNER"), Role(ann, bob, "MERCHANT"),
   Grant(ann, bob), Ungrant(ann, bob), Link(ann, bob, m2), Leave(ann, bob)}
\* The invited account is deleted, or is invited again, and accepts either.
InviteCommands ==
  {Ask(ann, n1, cyd, "CASHIER"), Ask(ann, n2, cyd, "MERCHANT"), Take(cyd, n1, 0),
   Take(cyd, n2, 0), Delete(cyd)}
\* One invitation is resent, revoked and removed; old and new links are followed.
LinkCommands ==
  {Ask(ann, n1, cyd, "CASHIER"), On("resend", ann, n1), On("cancel", ann, n1),
   On("discard", ann, n1), Take(cyd, n1, 0), Take(cyd, n1, 1)}
AllCommands == OwnerCommands \cup AccessCommands \cup InviteCommands \cup LinkCommands

(* Each run of the clients is one of four: they send one of the sets above. *)
VARIABLE scene
mcVars == <<vars, scene>>

OwnerScene == INSTANCE Memberships WITH
  Commands <- OwnerCommands, Founders <- {ann, bob}, Switched <- {}, Switching <- TRUE
AccessScene == INSTANCE Memberships WITH
  Commands <- AccessCommands, Founders <- {ann, bob}, Switched <- {b1}, Switching <- FALSE
InviteScene == INSTANCE Memberships WITH
  Commands <- InviteCommands, Founders <- {ann}, Switched <- {b1}, Switching <- TRUE
LinkScene == INSTANCE Memberships WITH
  Commands <- LinkCommands, Founders <- {ann}, Switched <- {b1}, Switching <- FALSE

MCInit ==
  \/ scene = "owners" /\ OwnerScene!Init
  \/ scene = "access" /\ AccessScene!Init
  \/ scene = "invites" /\ InviteScene!Init
  \/ scene = "links" /\ LinkScene!Init
MCNext ==
  /\ UNCHANGED scene
  /\ \/ scene = "owners" /\ OwnerScene!Next
     \/ scene = "access" /\ AccessScene!Next
     \/ scene = "invites" /\ InviteScene!Next
     \/ scene = "links" /\ LinkScene!Next
MCSpec == MCInit /\ [][MCNext]_mcVars
=============================================================================
