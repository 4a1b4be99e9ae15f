------------------------------ MODULE MCScreens ------------------------------
(***************************************************************************)
(* The screens, one in each behaviour.                                     *)
(***************************************************************************)
EXTENDS Integers

CONSTANTS b1, b2, Texts, Filters, LastPage, MaxTurns, MaxFaults
VARIABLES scene, asked, view, calls, data, told, form, turns, faults
mcVars == <<scene, asked, view, calls, data, told, form, turns, faults>>

Directory == INSTANCE InventoryDirectory WITH Places <- {b1, b2}
Picker == INSTANCE PlacementPicker WITH Places <- {b1}
Detail == INSTANCE InventoryDetail WITH Places <- {b1, b2}
Stock == INSTANCE StockForm WITH MaxTurns <- 2 * MaxTurns, MaxFaults <- 2,
  draft <- asked, command <- form, step <- view, applied <- data, nextId <- told
Spaces == INSTANCE SpaceDirectory WITH Places <- {b1, b2}
Space == INSTANCE SpaceDetail WITH Places <- {b1, b2}
Assignment == INSTANCE AssignmentForm WITH Places <- {b1, b2}
Branches == INSTANCE BranchDirectory WITH Places <- {b1}
Branch == INSTANCE BranchDetail WITH Places <- {b1}
Members == INSTANCE MemberDirectory WITH Places <- {b1}
Options == INSTANCE OptionSelect WITH Places <- {b1}
Invite == INSTANCE InvitationForm WITH Places <- {b1, b2}, MaxTurns <- MaxTurns + 1
Access == INSTANCE MemberAccess WITH Places <- {b1, b2}, MaxTurns <- MaxTurns + 2
Sale == INSTANCE SaleDetail WITH Places <- {b1}
Products == INSTANCE ProductDirectory WITH Places <- {b1}
Accounts == INSTANCE PaymentAccounts WITH Places <- {b1, b2}
Workspace == INSTANCE WorkspaceContext WITH Places <- {b1}, MaxTurns <- MaxTurns + 1
Report == INSTANCE ReportScreen WITH Sorts <- Filters

MCInit ==
  \/ scene = "directory" /\ Directory!Init /\ asked.place = b1 /\ asked.filter = ""
  \/ scene = "records" /\ Directory!RecordsInit
  \/ scene = "picker" /\ Picker!Init
  \/ scene = "detail" /\ Detail!Init /\ asked.place = b1
  \/ scene = "stock" /\ Stock!Init
  \/ scene = "spaces" /\ Spaces!Init /\ asked.place = b1
  \/ scene = "space" /\ Space!Init /\ asked.place = b1
  \/ scene = "assignment" /\ Assignment!Init
  \/ scene = "branches" /\ Branches!Init
  \/ scene = "branch" /\ Branch!Init
  \/ scene = "members" /\ Members!Init
  \/ scene = "options" /\ Options!Init
  \/ scene = "invite" /\ Invite!Init
  \/ scene = "access" /\ Access!Init
  \/ scene = "sale" /\ Sale!Init
  \/ scene = "products" /\ Products!Init
  \/ scene = "accounts" /\ Accounts!Init
  \/ scene = "workspace" /\ Workspace!Init
  \/ scene = "report" /\ Report!Init /\ form = Directory!NoForm /\ asked.tab = "transactions"
MCProceeds ==
  \/ scene = "directory" /\ Directory!Proceeds
  \/ scene = "records" /\ Directory!RecordsProceeds
  \/ scene = "picker" /\ Picker!Proceeds
  \/ scene = "detail" /\ Detail!Proceeds
  \/ scene = "stock" /\ Stock!Proceeds
  \/ scene = "spaces" /\ Spaces!Proceeds
  \/ scene = "space" /\ Space!Proceeds
  \/ scene = "assignment" /\ Assignment!Proceeds
  \/ scene = "branches" /\ Branches!Proceeds
  \/ scene = "branch" /\ Branch!Proceeds
  \/ scene = "members" /\ Members!Proceeds
  \/ scene = "options" /\ Options!Proceeds
  \/ scene = "invite" /\ Invite!Proceeds
  \/ scene = "access" /\ Access!Proceeds
  \/ scene = "sale" /\ Sale!Proceeds
  \/ scene = "products" /\ Products!Proceeds
  \/ scene = "accounts" /\ Accounts!Proceeds
  \/ scene = "workspace" /\ Workspace!Proceeds
  \/ scene = "report" /\ Report!Proceeds /\ UNCHANGED form
MCNext ==
  /\ UNCHANGED scene
  /\ \/ scene = "directory" /\ Directory!Next
     \/ scene = "records" /\ Directory!RecordsNext
     \/ scene = "picker" /\ Picker!Next
     \/ scene = "detail" /\ Detail!Next
     \/ scene = "stock" /\ Stock!Next
     \/ scene = "spaces" /\ Spaces!Next
     \/ scene = "space" /\ Space!Next
     \/ scene = "assignment" /\ Assignment!Next
     \/ scene = "branches" /\ Branches!Next
     \/ scene = "branch" /\ Branch!Next
     \/ scene = "members" /\ Members!Next
     \/ scene = "options" /\ Options!Next
     \/ scene = "invite" /\ Invite!Next
     \/ scene = "access" /\ Access!Next
     \/ scene = "sale" /\ Sale!Next
     \/ scene = "products" /\ Products!Next
     \/ scene = "accounts" /\ Accounts!Next
     \/ scene = "workspace" /\ Workspace!Next
     \/ scene = "report" /\ Report!Next /\ UNCHANGED form
MCSpec == MCInit /\ [][MCNext]_mcVars /\ WF_mcVars(UNCHANGED scene /\ MCProceeds)

\* What a list, a page or a picker shows answers the question it asks now, however late
\* an answer arrives: not an earlier search, page, object, period or access.  Options may
\* be of an earlier search until theirs was read; a branch that was chosen or read in the
\* workspace is of the role of now.  Not claimed: the list in the invitation form, which
\* takes late pages, and branches that were saved.  What the branch page, the dialog of
\* a member, the payment accounts and the stock form show is the matter of SavesCount.
ShownIsAsked ==
  CASE scene = "directory" -> Directory!Shows(Directory!Question)
    [] scene = "records" -> Directory!Shows(Directory!RecordsQuestion)
    [] scene = "picker" -> Picker!OffersAreOneSearch
    [] scene = "detail" -> Detail!Shows(Detail!Question)
    [] scene = "report" -> Report!ShownIsFresh
    [] scene = "spaces" -> Spaces!SpacesAsked
    [] scene = "space" -> Space!HistoryAsked
    [] scene = "assignment" -> Assignment!ChosenFits
    [] scene = "branches" -> Branches!BranchesAsked
    [] scene = "members" -> Members!MembersAsked
    [] scene = "options" -> Options!OptionsAreTyped
    [] scene = "sale" -> Sale!DeniedShowsNothing
    [] scene = "products" -> Products!ProductsAsked
    [] scene = "workspace" -> Workspace!WorkspaceOfRole
    [] scene \in {"branch", "access", "accounts", "stock", "invite"} -> TRUE
\* What is saved takes effect once, for the version or the rows its author saw, and is
\* what the screen shows and the next save starts from.  Not claimed: edits of a branch,
\* which take no version, and the grants that are shown once a change lost its answer.
SavesCount ==
  CASE scene = "stock" -> Stock!DraftMovesOnce
    [] scene = "space" -> Space!SpaceSaved
    [] scene = "branch" -> Branch!ChangedAsSeen
    [] scene = "invite" -> Invite!LinkWorks /\ Invite!SentFits
    [] scene = "access" -> Access!GrantsShown
    [] scene = "sale" -> Sale!RefundsCounted
    [] scene = "accounts" -> Accounts!SavedAsSeen
    [] scene \in {"assignment", "workspace", "branches", "members", "options", "report"} -> TRUE
    [] OTHER -> Directory!ShowsSaved
Rests ==
  CASE scene = "records" -> Directory!RecordsRest
    [] scene = "picker" -> Picker!PickerRests
    [] scene = "branch" -> Branch!BranchRests
    [] scene = "report" -> Report!ReportRests
    [] scene = "stock" -> view # "sent"
    [] scene = "members" -> Members!MembersRest
    [] scene = "options" -> Options!OptionsRest
    [] scene = "invite" -> Invite!FormRests
    [] scene = "access" -> Access!AccessRests
    [] scene = "sale" -> Sale!DetailRests
    [] scene = "workspace" -> Workspace!WorkspaceRests
    [] OTHER -> Directory!AtRest
\* Every screen comes to rest when what is under way is answered or lost: it waits for
\* no read, page or command any more, but for what was given up and that the code keeps
\* waiting for: in the picker, a search ended by a letter that was taken back; in the
\* movement records and the option fields, a page that another reading overtook.
ScreensSettle == ~Rests ~> Rests
=============================================================================
