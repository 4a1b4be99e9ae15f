# Formal models of Kapwesto concept-store

Kapwesto runs concept stores: an organization has branches; merchants place
products in them and occupy their spaces; cashiers sell and refund; stock is
received and adjusted; owners invite members and read reports. The backend
(`src/backend`) is a NestJS service over PostgreSQL (Prisma). The frontend
(`src/frontend`) is a Next.js application. This project holds TLA+ models of the
parts where several requests, retries, failures and late answers meet, their TLC
configurations, and TLAPS proofs. Paths below are relative to
`src/backend/src/modules/organizations/` unless they start with `src/` or `docs/`;
`auth/` is `src/backend/src/modules/auth/`, and screens are under
`src/frontend/src/features/`.

## 1. Inventory

| Component | State | Operations | Model |
| --- | --- | --- | --- |
| Command recovery (`recovery/`) | `CommandRecovery`: actor, command, state, timestamps | prepare, submit, submitLegacy, get, list, acknowledge, abandon | `CommandRecovery` |
| Checkout (`sales/`) | `Sale`, `SaleItem`, stock, movements | complete, replay, conflict recovery | `StockLedger` |
| Refunds (`refunds/`) | `Refund`, `RefundItem`, stock, movements | complete, replay, conflict recovery | `StockLedger` |
| Stock commands (`inventory/inventory-stock.service.ts`) | quantity, `InventoryMovement` | receive, adjust (relative or absolute) | `StockLedger` |
| Placements (`inventory/branch-inventory.service.ts`) | price, threshold, opening stock | create, updatePrice, updateThreshold, reads | partly: `StockLedger`, the inventory screens |
| Gates: organization, branch, payment account, participation | a status each | status changes | `StockLedger`, `Memberships`, `Spaces` |
| Products (`products/`) | status, creation request id | create with opening stock, updateStatus, list | partly: `ProductDirectory`, `StockLedger` |
| Payment accounts (`payment-accounts/`) | version, availability | save, list | `PaymentAccounts`, `StockLedger` |
| Branches (`branches/`) | status, version | create, update, updateStatus | `BranchDirectory`, `BranchDetail` |
| Memberships, guards (`memberships/`, `authorization/`) | roles, branches, merchants, access history | updateRole, setBranch, setMerchant, remove; admission | `Memberships` |
| Invitations (`invitations/`) | token, accepted, revoked, expires | create, resend, revoke, remove, accept | `Memberships` |
| Spaces (`spaces/`), merchants, participation | types, spaces, occupancies, statuses | create, retype, archive, assign, release; cascades | `Spaces` (merchant profiles left out) |
| Sessions (`auth/sessions`) and auth client | refresh-token hash; token, shared refresh, cross-tab lock | issue, rotate, revoke; request with one retry, refresh, restore, logout | `Sessions` |
| Accounts and action tokens (`auth/`) | users, pending registrations, tokens | register, confirm, resend, forget, reset, delete | `AccountTokens`, `Sessions` |
| Reports (`reports/`) | none: snapshots | analytics, transactions, days, rankings | `SalesReports` |
| Cart, payment, refund screens (`pos/`, `refunds/`, `command-recovery/`) | cart, attempt, dialog, saved outcomes | search, scan, review, submit, retry, acknowledge | `PosCart`, `PosCheckout`, `RefundScreen` |
| Workspace screens (`inventory/`, `spaces/`, `branches/`, `organization-members/`, ...) | what is asked, shown, awaited | search, page, open, save, confirm | 17 screen modules over `Screen`, and `ReportScreen` |
| Organization lifecycle | status, events by operation id | provision, suspend, reactivate | partly: the status only |
| Email, database access, configuration, health, rate limits | none shared between requests | I/O | not modelled |
| Account pages, merchant screens, sales list, app shell | one form or list each | save one row, list | not modelled |

**How they interact.** The POS and refund screens prepare a recovery command, submit
it and read it back; `submit` calls `CheckoutService.complete` or
`RefundsService.complete`, each one database transaction; a sale is found again by its
request id. Sales, refunds, stock commands and administration share the rows of the
branch. Nearly every write of an organization first locks the `Organization` row
(`organization-state.ts`), so their writing parts happen one after the other; what they
read *before* that lock, or from a snapshot taken before it, may be stale. Every screen
reads through the auth client, which refreshes the session for all tabs of a browser.
The workspace context gives the screens the role, the branch and the branch list.

**What is hard.**
- The envelope of a command spans several transactions; each `await` is a point where
  another request, a failure or a restart can intervene.
- SERIALIZABLE transactions judge by a snapshot older than the lock they waited for, and
  rely on PostgreSQL to reject them if it matters; READ COMMITTED ones protect
  themselves with conditional updates.
- Every command may arrive twice, at once or much later; its answer may be lost.
- A screen gets answers to questions it no longer asks, after its filter, page, branch,
  role or access changed, and must neither show them nor wait for them for ever.
- The client computes what the server computed a second time, and refuses a difference.

**What makes each component correct.** Recovery: one unresolved command per actor, a
result only with a committed sale of the same actor and command, closed records final,
every committed sale eventually shown. Stock: no sale of stock that is not there or at
a price that was not confirmed, no return beyond what was sold, a movement history that
accounts for the stock, each command at most once. Membership: always an owner, no
access left behind, an invitation accepted only while it is pending. Spaces: no
overlapping occupancy, none for an inactive merchant, none in an archived space.
Sessions: nobody signed in under an old password, a token exchanged once, no wait for
ever. Reports: totals that agree, pages that miss nothing. Screens: what is shown
answers what is asked, a save counts once and for what its author saw, and every screen
comes to rest. The `hazards` of `PROJECT.json` list what can go wrong, each at its line,
with the properties that would catch it; three have none because the code does go wrong.

## 2. Modules

| Module | Role |
| --- | --- |
| `CommandEnvelope` | abstract: what `docs/modules/pos.md` promises of a saved command |
| `CommandRecovery` | the recovery service, one action per database statement |
| `StockBook` | abstract: each command takes effect at one instant, judged by that instant |
| `StockLedger` | checkout, refund, stock and administration transactions |
| `Memberships` | members, branch access, merchant links, invitations, account deletion |
| `Spaces` | space types, spaces, occupancies, merchant and participation status |
| `Sessions` | sessions of one account with the client of every tab |
| `AccountTokens` | registration, verification, password reset and their links |
| `SalesReports` | the queries of the reports as operators, and the checks of the client |
| `PosCart`, `PosCheckout`, `RefundScreen` | the screens that sell and refund |
| `Screen` | requests, answers in any order, refusals: shared by the workspace screens |
| `InventoryDirectory`, `InventoryDetail`, `StockForm`, `PlacementPicker` | inventory screens (the movement records are a list in `InventoryDirectory`) |
| `SpaceDirectory`, `SpaceDetail`, `AssignmentForm` | spaces screens |
| `BranchDirectory`, `BranchDetail` | branch screens with their server |
| `MemberDirectory`, `MemberAccess`, `InvitationForm`, `OptionSelect` | member screens and the paged select |
| `SaleDetail`, `ReportScreen` | sale, its refunds, and reports screens |
| `ProductDirectory`, `PaymentAccounts`, `WorkspaceContext` | catalogue, accounts, workspace |
| `CommandRecoveryProofs`, `StockLedgerProofs`, `MembershipsProofs`, `SpacesProofs`, `SessionsProofs`, `PosProofs`, `SalesReportsProofs` | theorems and their proofs (those of `AccountTokens` are in the module itself) |
| `MCStockLedger`, `MCMemberships`, `MCSpaces`, `MCAuth`, `MCReports`, `MCPos`, `MCProgress`, `MCScreens` | instances for TLC; `CommandRecovery` is checked as it is |

**Scenes.** One instance that contained every interesting command at once would not
fit TLC. An MC module therefore has several small instances of its module
(`INSTANCE ... WITH` other constants over the same variables) and a variable `scene`
that is chosen at first and never changes: a run of TLC explores all of them, each
behaviour being of one. A property of the module is checked in every scene of the run;
a property that only makes sense in some names them.

**Faulty variants.** Definitions introduced as a faulty variant, or "for mutants", are
plausible bugs: a dropped guard, a missing reset, a stale read. No specification uses
them; they are there to show that each property would notice such a bug.

## 3. Command recovery

*State.* `rows` is the `CommandRecovery` table by request id, `sales` the sale or refund
under each request id. `pc[w]` is the next statement of the request worker `w` serves,
`job` the request, `target` the row it is working on (a merge changes it), `seen` the state
it last read, `fault` how the caught error is classified (`isSafeRejection`), `reply` the
answer. `faults` bounds failures. Timestamps are flags, but for `acknowledgedAt`, which
`acknowledge` writes unconditionally: it counts its writes, so that a second one is a change.

*Actions.* `StartPrepare`, `StartOn` receive a request. `Prepare...` are `prepare` (find the
request id, find a blocking row, look for a sale, insert, merge with the winner on a
unique conflict); `Submit...`, `Checkout...`, `Complete...`, `Catch...`, `Reset` are
`submit`; `Ack...`, `Abandon...`, `GetLoad`, `ListLoad`, `View...` the rest. A legacy
checkout (`submitLegacy`) is a prepare followed by a submit of the same worker. `Accepts`
stands for the lifecycle CHECK and the unique index on blocking rows in the migration.
`Fail` is a failing statement, `Crash` a restart of the process. Checkout itself is one
step here (`StockLedger` opens it up): it commits, replays, is rejected, or asks for a retry.

*Properties.* `OutcomeIsOwn`, `ResolvedHasSource`, `OneBlockingPerActor`,
`AnswerMatchesRequest` and `ClosedIsFinal` hold whatever overlaps. `ClosedIsFinal` is what
is true of closed records: an abandoned one never changes, and of an acknowledged one only
`acknowledgedAt`, when two acknowledges have both loaded it before. `PreparedIsUnexecuted`
and the refinement of `CommandEnvelope` (`ImplementsEnvelope`) hold while
`ExclusiveSubmit`: an actor's clients do not overlap two submissions,
which the screens try to ensure by disabling the button and the server does not
enforce; `progress` checks them. Without it the documented fence of an abandoned command
fails (`recovery_abandon`).

*Bounds.* Two request ids and two commands are what a merge, an adoption and the unique
index need; two workers are every pairwise race, and a row is touched by at most two
before the database orders them. Two actors meet with one command and without failures
(`Few`, a state constraint: `recovery_overlap` checks safety only); a record whose
acknowledgement was written twice is checked and not followed further, since nobody reads
that time. Three requests at once,
and several actors with different commands or with failures, are covered by the theorems.

## 4. Stock ledger

*State.* `rows` (quantity and price of each placement), `ledger` (its movements), `sales`,
`refunds`, `active` (product and merchant), `gates` (the four statuses), and for each
request in progress its command, what its transaction sees (`snap`) and the transactions
that committed after that (`since`).

*Transactions.* A transaction is two steps. `Begin` is everything up to the organization
lock: the snapshot of a SERIALIZABLE transaction, or what a READ COMMITTED one reads
before locking, and the lookup of the request id. The second step is all that follows,
which no other writer of the organization can interleave with: `CheckoutCommit`,
`CheckoutReject`, `RefundCommit`, `RefundReject`, `StockCommit`, `StockRefuse`. `Conflict`
aborts a serializable transaction at any time. The error handlers are a third,
separate transaction (`Recover...`). `Drop` is a lost request or a restart.
`Administer` changes prices and statuses.

*PostgreSQL*, the external part, is two rules. `FirstUpdaterWins`: a serializable
transaction fails if a row it locks or updates, or a request id it inserts, was written
after its snapshot. `NoWriteSkew`: two concurrent ones never both miss what the other
wrote. The second rule is weaker than what PostgreSQL does (it also breaks longer cycles),
so whatever is shown holds for it as well. `Memberships` and `Spaces` use the same rules.

*Abstractions.* One branch and one organization: nothing here crosses branches. A request
id stands for itself and its actor, so the lookups of membership and the "different
actor" answers are left out, as are money amounts, tender and references. Prices are
compared only. A product's own status and its merchant's are one flag. Writers of other
columns (names, thresholds) appear as `Conflict`. `MaxQuantity` stands for 2147483647; 3
puts both ends of the range within reach of every command. Payment accounts are the gate
`account` here and have their own module for saving.

*Scenes.* Sales against sales and price changes; refunds that together exceed their sale,
with a third worker; receipts and adjustments that reuse request ids in both forms,
against a sale and a refund; organization and participation closing; branch and account
closing. Request ids are reused on purpose, and two carts share a placement.

## 5. Members, spaces and accounts

`Memberships`: `members` (role and merchant), `access` (assigned branches), `audit`
(access events), `invites`, the statuses, and for each request its admission, its
snapshot and the writes committed since. `Admit` is what the guards read before the
handler; `Begin` takes the snapshot, and the commits (`UpdateRole`, `SetBranch`, `SetMerchant`,
`Remove`, `Accept`, `DeleteAccount`) are the SERIALIZABLE transactions, the other
invitation commands are single READ COMMITTED steps behind the organization lock. Time
is the expiry of an invitation, which may pass at any moment. Scenes: two owners who
demote, remove or delete each other; the access of one member; an account deleted while
it is invited; one invitation resent, revoked and followed.

`Spaces`: every write locks the organization and the caller's membership, judged by the
snapshot from before. `Assign` counts overlapping periods in that snapshot;
deactivating a merchant or its participation ends its open occupancies. A period is a
pair of times of a clock that moves at any moment, at most `MaxTime` 2: overlapping,
adjacent, historical and open periods all occur. `TypesAreCurrent` follows the version
of a space type through edits, archiving and the spaces created with it;
`WritesAreLawful` says that at commit the actor is still an owner, that nothing begins
in a closed branch or organization, and that no occupancy ends twice.

`Sessions` joins the server (rows with a counted secret, the password's hash, deletion)
with the browser (one cookie jar, tabs with an access token and a shared refresh
promise, the Web Lock). A request goes through the statements of its handler, its
answer is another step that may be lost, and a tab may be reloaded at any time.
`AccountTokens` is one address: its user, its pending registration, its links.

*Bounds.* Two users or tabs race, a third is idle or the target; one or two merchants,
branches and links are what the transactions distinguish. The clock, versions, refreshes
and hashes are bounded by the constants of the `.cfg`.

## 6. Reports

`SalesReports` has records (sales and refunds, each with the time of its beginning and
the moment of its commit), participation and its history, account settings, and a reader
who pages. Each route is an operator over the committed records, as the SQL is over a
RepeatableRead snapshot, and so is each check of the client (`report.schemas.ts`), which
derives calendar, totals and page counts again. A record has the price of each product
and a stored total: staff reports sum the stored totals, merchants and products are summed
over lines (`Stored`, `ByLines`), and the client compares the sums. Merchants and products
are numbers, the order of their identifiers, because the rankings break ties by them and
the client demands the strict order again, with gross sales above 0. Period, scope, page,
sort order and merchant come back in an answer and are compared with what was asked; rows
of transactions name their branch exactly when all branches were asked for.
`AnswersAccepted` and `TotalsAgree`
look at every reachable set of records; `NothingMissed` follows a reader through pages
while transactions commit in any order. The scene `ranking` has two merchants, three
products of equal or different prices and ranking pages of two, so that there are ties,
second pages and merchants filtered out. Analytics with more products than the client
expects are left to `reports_ranked`. Left out is how values are written: decimals, times,
names, identifiers, references and the searched text. A day is one or two ticks, a month two days, a
page one or two rows, so every edge (day, month, range limit, page, rank) is reached.

## 7. Screens that sell and refund

`PosCheckout` has three memories that outlive each other: the attempt of the page, the
payment screen, and the records of the server; a reload loses the first two. Requests go
on after their screen is gone; answers are lost or arrive late. `PosCart` has the search
with continuation, the lookup of codes, the generation that drops late answers, prices
and stock changing meanwhile, access that ends. `RefundScreen` is the counterpart for
returns of two sales. Two request ids, two carts (an old and a new content), one or two
faults: a retry, a correction and a competing content are within these.

## 8. Workspace screens

All but `ReportScreen` share the variables of `Screen`: `asked` (what the controls say),
`view` (what is shown and awaited, with a generation), `calls` (requests and the answers
that are on their way), `data` and `told` (versions at the server and as told), `form`,
and two bounds: `turns` (inputs) and `faults` (refusals). A read is answered by the state
of the server at some moment between request and answer, answers arrive in any order,
a request may be refused or denied. Each module states how its React effects and
handlers differ: what a change of a control cancels, clears, debounces or merely leaves
behind. `StockForm`, `BranchDetail` and `PaymentAccounts` have their server
in them, for commands that are retried or that race another owner.

`MCScreens` has one scene per screen. Its three properties are the same three questions:
- `ShownIsAsked`: a list, page or picker shows what is asked now. Fourteen scenes have such
  a clause. The options of a select may be of the earlier search until the next one is
  read; a branch that was chosen, and a list of branches that was read, are of the role of
  now. There is no clause for the list in the invitation form, which takes a late page of
  an earlier search, nor for branches that were saved (section 11); what the branch page,
  the member dialog, the payment accounts and the stock form show is in `SavesCount`;
- `SavesCount`: what is saved takes effect once, for the version or the rows its author
  saw, and is what the screen shows and the next save starts from. It does not see edits of
  a branch, which take no version, nor grants shown after a change lost its answer;
- `ScreensSettle`: every screen comes to rest. The predicates wait for every read, page,
  settled text and command, with three exceptions that the code keeps waiting for, each
  told apart by the reading it belongs to: a product search ended by a letter that was taken back
  (`PickerRests`), and a page overtaken by another reading in the movement records
  (`RecordsRest`) and in the option fields (`OptionsRest`). Without any of the exceptions
  TLC finds the wait of section 11.
What "asked", "saved" and "rest" mean is the property of each module that the case names.

*Bounds.* Two texts, two filter values, two places where the screen can change place, two
pages, three to six inputs, one or two refusals: enough for an answer to an earlier
question to arrive during or after the next, with an input in between. The list has no
more pages than the first and the one that "load more" or "next" asks for.

## 9. Runs

| Run | Question | Properties |
| --- | --- | --- |
| `recovery_overlap` | what holds no matter what overlaps, 2 request ids and 2 requests at once: 1 actor with 2 commands and 1 fault, or 2 actors with 1 command (`Few`) | `OutcomeIsOwn`, `ResolvedHasSource`, `OneBlockingPerActor`, `AnswerMatchesRequest`, `ClosedIsFinal` |
| `recovery_abandon` | violated: a submitted command is abandoned as "never submitted" | `AbandonedIsFenced` |
| `ledger` | five scenes of section 4 | `DoneIsCommitted`, `NoOverReturn`, `LedgerChain`, `AccountedOnce`, `NothingThroughClosedGates`, `ImplementsBook` |
| `members` | four scenes of section 5 | `AlwaysAnOwner`, `NoStrayAccess`, `AuditFollowsRole`, `AcceptedWhilePending` |
| `spaces` | periods, statuses, a demoted owner, types | `NeverDoubleOccupied`, `OccupantsAreActive`, `ArchivedIsEmpty`, `WritesAreLawful`, `TypesAreCurrent` |
| `auth` | sessions with and without Web Locks, password changes, links, registration | `LiveUnderCurrentPassword`, `ExchangedOnce`, `LocksKeepSessions`, `LinksEnd` |
| `pos` | payment, cart and access, prices, refunds | `RejectedIsUnsold`, `EarlierSalesSeen`, `RefundsAreKnown`, `DeniedIsEmpty`, `PricesAreReviewed` |
| `pos_second_sale` | violated: the second payment of a screen sends the command of the first | `PreparedIsReviewed` |
| `reports` | totals, periods, rankings, paging | `AnswersAccepted`, `TotalsAgree`, `NothingMissed` |
| `reports_ranked` | violated: more sold products than the client expects | `ManyProductsAccepted` |
| `screens` | 19 scenes, one per screen; two lists of the inventory | `ShownIsAsked`, `SavesCount`, `ScreensSettle` |
| `progress` | what must come to an end; the envelope of actors whose submissions do not overlap | `CommittedIsResolved`, `RefreshSettles`, `PendingEnds`, `PreparedIsUnexecuted`, `ImplementsEnvelope` |

Workers, tabs and interchangeable ids are symmetric in the safety runs; no symmetry is
used where liveness is checked. Deadlock is checked where requests come again and again
(`recovery_overlap`, `recovery_abandon`, `ledger`, `members`, `spaces`), and not where a bound or the user ends a
behaviour: a closed screen, the last refresh that is counted, the last commit.

*Some bounds in words.* `LocksKeepSessions` is stated for tabs that share Web Locks and
lose nothing: without them two refreshes may present one token, and the code then revokes
the session on purpose. `TotalsAgree` and `AnswersAccepted` look at settled states
because a report reads one snapshot, and every set of committed records is settled in
some behaviour; pages are read in a scene of their own, for which the `.cfg` has the
constants. `progress` has one request id and one command, since it checks liveness: either two actors
meet on the id and nothing fails, or one actor has the fault (`OnlyFirst`). The theorem
about `ImplementsEnvelope` covers any number of all of them. `pos_second_sale` loses nothing: the
violation needs neither faults nor a second person.

## 10. Fairness

- Recovery: `WF(Serve(w))`, Node.js goes on with a request whose statement has returned;
  `SF(Poll(r))`, the screens load the saved commands when they open, so a reader comes
  back as often as it can. No fairness of submissions, acknowledgements or failures.
  Without polling `CommittedIsResolved` is false: nothing on the server completes a
  record in the background.
- Refresh: `WF(Proceeds(r))`, a request that was sent is served, answered or lost;
  `SF(SendRefresh(r))`, the browser grants the Web Lock to each waiting request in turn.
  No fairness of reloads or of further requests.
- Payment: weak fairness of serving and delivering a call. A call may be lost; the
  screen then learns of it as an error.
- Screens: `WF(Proceeds)`: the server answers or refuses, answers arrive, a timer of a
  debounce fires. The user need not do anything.
- Safety runs use no fairness.

## 11. What the code does differently from what is written

Three are runs of their own, with their quotations under `findings`:
- `recovery_abandon`: a command that is being submitted can be abandoned, and its sale
  still commits (`docs/modules/pos.md:249`).
- `reports_ranked`: the server ranks up to 15 products in analytics and the client
  refuses more than 10 (`report.schemas.ts:713`, `docs/modules/reports.md:329`, `:505`).
- `pos_second_sale`: a completed sale mounts a new payment screen while its attempt is
  still stored, so that screen starts with the command that is done, locked
  (`pos/components/payment-confirmation.tsx:75`). Closing the receipt clears the attempt
  and mounts nothing, so the next payment shows the new cart and sends the old command,
  until the page is left (`docs/modules/pos.md:248`).

The models also contain the following behaviours, and each property is stated so that it
is true beside them. Server:
- A second acknowledge that loaded a completed record before the first one wrote it writes
  `acknowledgedAt` again (`recovery/command-recovery.service.ts:374`).
- Checkout repeated after its acknowledgement answers 409, not the original
  (`docs/modules/sales.md:120`); a receipt may commit for a product that has just become
  inactive (`docs/modules/branch-inventory.md:224`); an adjustment under a used request
  id is a replay if its numbers agree, although its form differs (`:244`).
- A change between manager and cashier removes the branches but records them as kept
  (`memberships/organization-memberships.service.ts:299`; `AuditFollowsRole` is about the
  role). Deleting an account removes memberships without an access event
  (`auth/auth.service.ts:517`). `setMerchant` does not recheck the organization's status.
- An invitation accepted under a token from before the deletion of the account makes a
  member without an account (`invitations/organization-invitations.service.ts:401`); it
  may become an owner, after which the last owner with an account may leave.
  `AlwaysAnOwner` is therefore about the memberships, as `withOwnerInvariant` is, and
  does not say that the owner still has an account.
- A logout that crosses a refresh of its tab revokes nothing
  (`auth/sessions/session.service.ts:141`). Two resends at once: the second invalidates
  the link of the first (`auth/auth.service.ts:298`). A registration that overlaps a
  confirmation leaves a pending one beside the account (`:60`).
- Creating a placement checks product and merchant outside its transaction
  (`inventory/branch-inventory.service.ts:62`). Editing a branch takes no version: the
  last writer wins (`branches/branches.service.ts`), unlike its status.

Screens:
- Payment: "load more" of an earlier search is appended to a later one
  (`pos/components/branch-pos.tsx:437`); the record of a rejected checkout blocks the
  corrected one (`recovery/command-recovery.service.ts:334`); an acknowledged checkout
  returns as unresolved until a reload (`branch-pos.tsx:133`); a restored attempt may
  open without its command (`payment-confirmation.tsx:75`).
- Refunds: an acknowledged refund may return in the same way; an identical corrected
  retry may get a new id (`docs/modules/refunds.md:139`).
- Three waits that do not end, the exceptions of `ScreensSettle`. Movement records: a page
  that a new read overtakes leaves paging disabled
  (`inventory-movement-records.tsx:219`, `docs/modules/branch-inventory.md:408`). Paged
  selects: "load more" during a new search stays pending (`paged-option-select.tsx:122`).
  The placement form bumps its generation on
  every letter, so a search that ends where it began waits for ever
  (`inventory-placement-form.tsx:227`), and its threshold starts at `5` where `:461` says
  `0`. The detail page changes dirty forms without the confirmation of `:488`.
- Paged selects: "load more" pressed in the 250 ms before a search is sent may skip a page. The branch pickers of invitations and
  access append a late page of an earlier search.
- Members: the list stays as it was when a removal meets a load in flight; a row may be
  restored twice after a reload; the access history reopens with a late answer; a new
  invitation reloads with the search of the moment it was submitted.
- Payment accounts: a version conflict leaves the old version in the form, and the page
  offers no reload.
- Workspace: a branch whose save, or whose reading after a stale status, is answered after
  the role was read anew joins the list of the new role, for `upsertBranch` compares neither
  role nor generation (`organization-workspace-context.tsx:247`, called at
  `branches/components/branch-detail.tsx:218` and `:237`), where
  `docs/modules/branches.md:96-97` says the branch cache clears on access refresh. TLC finds
  it as soon as `WorkspaceOfRole` also speaks of rows that were saved. A branch that is
  added to a list never read marks it as complete, so other branches show as unavailable
  (`:255`); a list in flight overwrites that branch.
- Spaces: the detail page shows the earlier space while it reads another.
- Reports: an error of the daily tab stays until the period changes.

## 12. Proofs

TLAPS proves these for all values of the constants:

| Module | Theorem | Property |
| --- | --- | --- |
| `CommandRecoveryProofs` | `TypeCorrect`, `ClosedRowsAreFinal`, `OneBlocking`, `CompletedRowsHaveSales`, `OutcomesAreOwn` | `TypeOK`, `ClosedIsFinal`, `OneBlockingPerActor`, `ResolvedHasSource`, `OutcomeIsOwn` |
| | `AnswersMatchRequests`, `PreparedAreUnexecuted`, `ServiceImplementsEnvelope` | `AnswerMatchesRequest`, `PreparedIsUnexecuted`, `ImplementsEnvelope` |
| `StockLedgerProofs` | `TypeCorrect`, `BalancesChain`, `ImplementsStockBook`, `AnswersAreTrue`, `GatesHold`, `LedgerAccounts`, `NoUnitReturnedTwice` | `TypeOK`, `LedgerChain`, `ImplementsBook`, `DoneIsCommitted`, `NothingThroughClosedGates`, `AccountedOnce`, `NoOverReturn` |
| `MembershipsProofs` | `OwnersAreKept`, `NoAccessIsLeft`, `TrailTellsTheRole`, `AcceptsPending` | `AlwaysAnOwner`, `NoStrayAccess`, `AuditFollowsRole`, `AcceptedWhilePending` |
| `SpacesProofs` | `OccupiedOnce`, `OnlyActiveOccupy`, `ArchivedStayEmpty`, `LawfulWrites`, `CurrentTypes` | `NeverDoubleOccupied`, `OccupantsAreActive`, `ArchivedIsEmpty`, `WritesAreLawful`, `TypesAreCurrent` |
| `SessionsProofs` | `SignedInUnderCurrentPassword`, `TokensExchangedOnce`, `LockedRefreshesEndNothing` | `LiveUnderCurrentPassword`, `ExchangedOnce`, `Undisturbed` (which `LocksKeepSessions` of `auth` is about) |
| `AccountTokens` | `LinksUsedOnce`, `ResetsEndEarlierLinks` | `SingleUse`, `ResetEndsEarlierLinks` (together `LinksEnd` of `auth`) |
| `PosProofs` | `RejectedStaysUnsold`, `EarlierSalesWereSeen`, `CheckoutIsTyped` | `RejectedIsUnsold`, `EarlierSalesSeen`, `TypeOK` of `PosCheckout` |
| | `DeniedHoldsNothing`, `CartPricesAreReviewed`, `CartIsTyped` | `DeniedIsEmpty`, `PricesAreReviewed`, `TypeOK` of `PosCart` |
| | `RejectedStaysUnrecorded`, `EarlierRefundsWereSeen`, `RefundIsTyped` | `RejectedIsUnrecorded`, `EarlierRefundsSeen` (together `RefundsAreKnown` of `pos`), `TypeOK` of `RefundScreen` |
| `SalesReportsProofs` | `PagingMissesNothing` | `NothingMissed` |

The assumptions are those the modules name: `None` is no value of another kind
(`NoneAssumption`), the commands are of the shape the API accepts (`CommandsAssumption`),
bounds are numbers and subsets (`BoundsAssumption`, `LimitAssumption`,
`FaultsAssumption`, `ExclusiveAssumption`; `Bounds` of `AccountTokens` is a hypothesis
of its theorems, and `MCAuth` assumes it of both its instances; so are `Bounds` of
`PosCart` and of `RefundScreen`, which `MCPos` assumes of its instances;
`ReportAssumption` says that a page has a row at least). Two theorems have
`ExclusiveSubmit` as a hypothesis, `PreparedAreUnexecuted` and
`ServiceImplementsEnvelope`: without it both are false, as `recovery_abandon` shows.
`LockedRefreshesEndNothing` has `WebLocks` and `MaxFaults = 0`, for the reason given in
section 9.
The number of tabs, requests, workers, rows, ids, products and pages is arbitrary in all
of them, and so are the length of a page and the number of faults.

*Command recovery.* `TypeOK` is not inductive: a statement on a row needs that row to
exist. `Typed` adds that a worker past its first read has a job, a target and an existing
row. On it rest, in this order:
1. `TableSteps`: a step changes nothing, inserts one row, updates one row, or commits one sale.
2. `RowsLegal`: rows satisfy the lifecycle check, and a submitted row is not complete. With
   (1) this gives `ClosedIsFinal`: completing or resetting a closed row would leave a row
   the check refuses, and acknowledging one is either refused or changes `acknowledgedAt` only.
3. `OneBlockingPerActor` is inductive given (1): an insert is checked by the index, and an
   update that makes a row blocking starts from a blocking row, or is refused.
4. `SourceFound`: a worker about to complete a row, or to insert one as completed, has
   seen its sale, and sales are never removed. This gives `ResolvedHasSource`.
5. `OwnedWork`: whoever submits a row is its actor, and whoever is about to insert one has
   found no sale or its own; if a sale appeared meanwhile, the row did too. This gives
   `OutcomeIsOwn`.
6. `AnswersFit`: a worker that has compared the command of its request with the row
   keeps to that row, and a row never changes its command. This gives
   `AnswerMatchesRequest`.
7. `AllFenced`, under `ExclusiveSubmit`: whoever executes a submission has a row that is
   neither prepared nor abandoned, and whoever reopens one, or is about to insert one as
   prepared, knows that it has no sale. An actor has one submission at a time, so no
   other one changes the row in between. This gives `PreparedIsUnexecuted`, and with
   (2) and (4) `EnvelopeInv`, under which every statement is a step of
   `CommandEnvelope` or a stutter.

*Stock ledger.* `Typed` is the type of every table, snapshot and log entry. On it:
1. `LedgerChain` is inductive: a movement is appended with the balance its update left.
2. `BookInv` relates each open snapshot to the present tables: whatever differs was
   written by a transaction in `since` (`Tracked`), and nothing was recorded under the
   request id when it was taken (`Fresh`). So what `FirstUpdaterWins` and `NoWriteSkew` let through has read the
   present values of all it depends on, and the commit is a step of `StockBook`; every
   other step is a stutter. This is the refinement `ImplementsBook`.
3. `LedgerKept`: sales, refunds and movements are never removed, and a success is
   answered by the commit itself or from a committed original: `DoneIsCommitted`.
4. `GateInv`: an open snapshot that shows an open gate which is closed now has the
   transaction that closed it in `since`: `NothingThroughClosedGates`.
5. `AccountInv`: entries are distinct per command and line, each is of a committed
   command, and the request id of a command about to commit is unused: `AccountedOnce`.
6. `ReturnInv`: each sale has finitely many refunds, none before it is recorded, and they
   return at most what it sold. A refund is judged by the refunds of its snapshot, which
   by (2) are those of the tables: `NoOverReturn`. That one more refund adds its units to
   the sum (`ReturnedAdds`), in whatever order they are counted, is an induction over
   the finite subsets. The induction theorems of the library take an operator, which the
   provers cannot instantiate; `AllSubsets` has a set instead, by `WFMin` and the
   well-foundedness of strict inclusion, and the recursive function that the sum is has a
   value for every finite set by `SumsExist`.

*Memberships.* Whoever takes an owner away counts the other owners in its snapshot. The
invariant `IInv` keeps, for every open snapshot, that the members it shows differ from
the present ones only as `since` tells, and that an owner it shows who is gone was taken
away by a transaction that counted the owners too. So two that take away the owner the
other one counts have each written what the other has read, which `NoWriteSkew` forbids;
`FirstUpdaterWins` covers a target that both write. `StrayInv` does the same with branch
assignments: a change of role deletes those its snapshot shows, and one that it does not
show was written by a transaction that read the member. `AuditInv` adds that a request
that leaves the event out, because nothing changed, would have written what the last
one says. `SeenInv` keeps for every open snapshot what it shows of invitations, branches
and the organization: whatever differs now is in `since`, so an acceptance that is let
through has seen the present link, and its claim looks at the present row.

*Spaces.* `SeenInv` says how `since` tells the difference between each open snapshot and
the tables. What a command locks is therefore as it saw it. What it only counted, the
occupancies of a space, may have grown: `AssignedBy` records that an occupancy it did
not see was assigned by a transaction that read the space, the merchant, its
participation and the other occupancies. Whatever would make that occupancy overlap, or
leave it with an inactive occupant or an archived space, writes one of these and reads
the occupancies itself, which `NoWriteSkew` forbids. An occupancy changes only by
ending, and ended ones overlap less. From this `SpacesInv` (the three invariants) is
inductive, and `WritesAreLawful` and `TypesAreCurrent` follow for each commit.

*Sessions.* `GoodRequest` is what carries the argument through a request: a transaction
that was not overtaken sees every session that lives, so a reset or deletion that
commits ends them all; and a refresh that was answered presented a secret older than
that of its row. Secrets only grow, so no later refresh finds that one current
(`ExchangedOnce`), and a session opens only under the hash its sign-in was compared with
(`LiveUnderCurrentPassword`). Neither needs Web Locks or the absence of faults.
`Undisturbed` does. With them `TokensInv` says what the browser knows: only the holder of
the Web Lock has a refresh on its way; a token that is being judged is the current one of
its session, or that session has ended; the cookie is behind its row only while the
answer that brings the newer token is on its way; and the token of a sign-in is in that
sign-in's answer only. So a refresh that is taken for a reuse finds its session ended.

*Links.* `LinksInv`: as long as a link can be followed it has had no effect, and a
followed link is one of those its transaction sees, with the subject and purpose of the
request. A reset or confirmation therefore leaves its own link consumed or deleted.

*Payment and returns.* A call that was sent may still record a sale after its answer was
lost, its screen was left, or a later call about the same command was answered.
`CheckoutInv` therefore relates the server, all calls, and the page:
1. `Ledger`: one record of a member is open at a time, every sale has one, and a record
   that is closed was seen. Another command can only be recorded after that:
   `EarlierSalesSeen`.
2. `Shaped` and `Waits`: a call that is waited for is the only one, and is about the
   attempt of the page. If its screen was not in doubt when it sent it (`sure`), nothing else
   can still record that command: there is no submission that nobody waits for (`Stray`).
3. `Rejections` and `Certain`: what the cashier was told was rejected has no sale and
   no stray submission, and neither has the command of a screen that is certain, except by
   its own call. A rejection is believed only of a call that was `sure`, so (2) makes it true:
   `RejectedIsUnsold`. A screen that lost an answer stays uncertain, which is why it must
   not believe a later rejection.
4. `Knows` and `Sees`: what a remount, a restored record or a receipt shows was issued.
   Lemmas about a remount (`Became`) and about calls whose screen goes away
   (`Unmounted`) serve all the steps that end a screen.
`RefundInv` is the same argument for returns, where the attempt is shared by the dialogs of
several sales: a dialog is in doubt unless it made the attempt (`DialogSees`).

*The cart.* `DeniedInv`: when access is denied a generation begins, so every page and
lookup that is in flight then is of an earlier one and is dropped. `PricesAreReviewed`
needs no more than types: each of the three ways of adding keeps the price of a line
that is there. Both hold for any number of products, searches and generations.

*Paging.* A page is a range of ranks of the matching records, and the place of a row is
its rank (`RowsByRank`): the order is strict, so ranks differ, and no induction is
needed. `ListInv`: whatever matched when the reader began still matches, and was
read, or ranks behind the pages read so far. A commit adds rows, which makes no rank
smaller (`RanksGrow`). `RecordsInv` says that records have distinct numbers, by which
the order is strict. So nothing is skipped, for every length of a page; a row pushed
back may be seen twice.

*Only model-checked.* The other two properties of the reports: `TotalsAgree`, whose sums are
folds over sets and sequences of records, and `AnswersAccepted`, which is only true while
there are at most as many products as the client expects (`reports_ranked`). The workspace
screens (`ShownIsAsked`, `SavesCount`), whose properties differ from screen to screen.
Liveness (`CommittedIsResolved`, `RefreshSettles`, `PendingEnds`, `ScreensSettle`), which
the prover does not treat.

## 13. Not modelled

- The creation of a product with opening stock, and its request id: the form is one
  command, repeated under the same id.
- Email delivery (best effort, answered to the inviter), configuration, health, logging,
  rate limits (counters of a library), formatting, validation of input formats.
- Account pages, merchant screens, app shell and API wrappers: forms that save one row
  and show the answer, in the way of the branch and product screens.
- The list of sales of a branch (`sales/components/branch-sales.tsx`), of which staff and
  merchants have a screen each.
- Rendering of dashboards and charts; the staff analytics dashboard renders one answer.
- A placement created while commands run on it, and the reconciliation query.
- Operation ids of the organization's lifecycle: one operator at a command line.
- Money, except in the reports, where sums are compared.
- Deadlocks between row locks: the organization lock comes first in every modelled
  writer, except account deletion, whose conflicts are aborts here.

## 14. Plan

1. `TotalsAgree` by the induction over finite sets that `NoOverReturn` uses.
2. The generations and versions that the workspace screens share, as theorems of `Screen`.
3. The list of sales of a branch, for staff and for merchants, the product form, and the
   merchant screens: the frontend is the part of the code that is covered least.
4. A common module for the isolation rules that three modules state each for itself.
5. Placement creation with its check outside the transaction, and reconciliation.
