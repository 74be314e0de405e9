# A verification project for PageMint

PageMint lets newspaper publishers lay out and generate editions against a
prepaid wallet. The repository holds its portal: a Go (Fiber) API over
PostgreSQL in `backend/`, and a Next.js front end in `frontend/`. The program
that composes the pages ("the generator") is a separate application, reached by
URL and not part of this repository.

The TLA+ modules here are translated from the code, not from `docs/`, which
describes a larger system than the one that runs. TLC checks them on small
instances; TLAPS proves every invariant and action property of the passing runs,
and the refinements, for all values of the constants.

    tlc -config MCBilling.cfg MCBilling          # and so on for each .cfg
    tlapm Billing_proofs.tla                     # and so on for each *_proofs.tla

## 1. Inventory

### 1.1 The parts

`H` is `backend/internal/handlers/saas_handlers.go`; pages are under `frontend/src/app`.

| Part | State it keeps | Operations | Modelled in |
|---|---|---|---|
| Wallet, ledger, charge (H 1236-1680) | `wallets`, `wallet_transactions`, `payments`, `generated_pdfs`, `application_settings`, `last_front_template_index` | generate, recharge, adjust, set price | `Billing`, `WalletLedger` |
| Volume numbering (H 136-174, 1520-1533) | `last_volume_number`, `last_published_date` | advance with each generation | `VolumeNumber`, `Billing` |
| Device binding (`device_handlers.go`, `device_admin_handlers.go`, `middleware/auth.go`) | `enrolment_tokens`, `account_devices`, cookies `pm_device` and `pm_enrol`, access tokens | open a link, log in, issue, revoke, the kill switch | `DeviceBinding`, `Enrolment` |
| Onboarding (H 283-324, 1681-2158) | `registration_requests`, `publishers`, `publisher_credential_documents` | request, approve, reject, create, reset | `Onboarding` |
| Profile and settings lock (H 326-640; `wizard`, `profile`, `settings`) | `publisher_profiles`; the form of each tab | load, save, lock, unlock | `PublisherSetup` |
| Session of the browser (`lib/api.ts`, the layouts) | one entry of localStorage, shared by all tabs | log in, log out | `PublisherSetup`; its token in `DeviceBinding` |
| Dashboard: generation (`dashboard/page.tsx`) | React state, runs under way, stored boxes, the generator's iframe | load the plan, save boxes, charge, open and follow the batch, leave and return | `Dashboard` |
| Dashboard: manual news seeder | boxes of each page, files being read | add, type, remove, choose pictures, send | `ManualSeeder` |
| Page setup panels (`YouthUpdate...Panel.tsx`) | slots, a load, articles, files; teasers and authors | load, edit, fill, save | `PagePanels` |
| Administrator's console (`(admin)/saas-admin`) | loaded lists, one form at a time, `busyId`, requests in flight | suspend, reset, adjust, approve, issue, revoke | `AdminConsole` |
| Guided tour and four bottom sheets (`components`; `dashboard/page.tsx`) | the styles of the body, timers, `localStorage` | open, lock, step, finish | `Overlays` |
| Content of an issue (H 643-1236) | boxes, teasers, authors, used articles, thought | replace a set, read it | steps of `Dashboard` and `PagePanels`, in part |
| Migrations (`internal/database/db.go`) | every table | replayed at every start | `Restart` of each server module |
| Authorization of a publisher's own rows, server, configuration, read-only pages, services no route reaches, PDF, stubs, the generator | none that matters, or not in this repository | | not modelled (section 6) |

### 1.2 How they interact

All handlers run concurrently, one goroutine per request, and meet only in
PostgreSQL at READ COMMITTED. There is no in-process shared state, no queue and
no background worker. Four shapes of handler matter:

- *lock, check, write* in one transaction (`SELECT ... FOR UPDATE` on the wallet row);
- *check, then transact*: the check is made outside the transaction and is
  stale when it is acted on (slots of an account, the status of an access
  request, price and volume baseline of a generation);
- *guarded update*: the condition is repeated in the `WHERE` of the write
  (spending a link, rejecting a request, the lock of the settings);
- *delete, then insert*: a set is replaced by deleting the rows that are seen
  and inserting new ones (boxes, teasers, authors), so what another transaction
  commits in between stays.

A page of the front end is a single thread: an event handler runs to its next
`await`, and everything it uses afterwards is a value it captured before. Several
tabs share the session and the server's rows and nothing else.

Components are coupled through rows and through messages. Onboarding makes the
wallet and profile rows that billing uses. A generation reads the volume baseline
that `PublisherSetup` writes. Login (H 190-280) calls `CheckLoginDevice`, whose
result goes into the access token that `ZeroTrustAuth` checks on every later
request. `Dashboard` calls the charge whose detail is `Billing`: both modules
implement the same `WalletLedger`, which is what the one relies on in the other.
`AdminConsole` is the browser in front of `Onboarding`, `DeviceBinding` and
`Billing`. `Overlays` locks the page `Dashboard` shows.

### 1.3 Hard behaviours

- Requests overlap at every statement; a count or a status is read long before it is used.
- Errors are dropped: `SaaSSimulateRecharge` assigns each one to `_`, and
  `SaaSExecuteGeneration` ignores the error of its COMMIT.
- The server may die anywhere. At each start `runMigrations` replays all
  migrations, the seeding first one included: it puts the price and the demo
  wallet back and repeats the demo ledger rows and the demo access request.
- Replies are lost, or cut off: a browser may never get the cookie of a device it was
  bound to, or get the cookie from the headers and never store the token of the body.
- `created_at` is the time a transaction began, not its place in commit order.
- Answers come in any order, to a page that has moved on: to another form, another
  row, another account, or away.
- A handler goes on with what the page showed at the click: the page count, the boxes.
  A link keeps the JavaScript of the tab, so it goes on when its page is gone, and the
  tab can come back to a new page and begin another.
- A request its client gave up on can still be served, after the next one.
- A file is read, or an article fetched, while the slot it is meant for is edited,
  removed or renumbered.
- Sheets and tour save and restore the same styles of the body without knowing of each
  other, and each hears Escape for itself.

### 1.4 What makes each part correct

*Billing*: each ledger row explains a balance change, and conversely; no wallet
goes below zero; charges match archived editions; an order is credited once;
refusals leave no trace; no two editions get one rotation index; the volume
baseline moves forward; every request ends.
*Devices*: a link binds one device; an account exceeds its slots only by a race,
and boundedly; no browser holds a token of another's device; admin work needs an admin's browser; no
admin locks the admins out from their own browser; a link is issued only for a free slot.
*Onboarding*: an account implies an approved request; duplicates are bounded; the
current password is in the last document.
*Setup*: a locked plan stays; a starting volume is never lost; one publisher's data
do not get into another's row.
*Dashboard*: what is paid is opened if its page is still there; one page runs one
generation; the panel waits for the pages that were paid; nobody is charged for content
that was not stored; every click is answered.
*Seeder*: pictures stay with their box; slots count per page.
*Panels*: what is typed stays; the stored rows are those of one save.
*Console*: the secret the administrator holds is the one in force; a disabled
button comes back.
*Overlays*: the page is given back as it was found, or it is known why not.

`PROJECT.json` lists each hazard at its line with the properties that cover it,
or the reason why none does.

## 2. Modules

| Module | Contents |
|---|---|
| `VolumeNumber` | `nextVolumeNumber` and the move of the baseline, as operators |
| `WalletLedger` | abstract specification: accounts and their ledgers, one action `Post` |
| `Billing` | the handlers of the money path; implements `WalletLedger` |
| `Enrolment` | abstract specification: links issued and devices enrolled; `Issue`, `Enrol`, `Revoke` |
| `DeviceBinding` | links, devices, cookies, tokens, the gate; implements `Enrolment` |
| `Onboarding` | requests, accounts, passwords, documents |
| `PublisherSetup` | a profile row, its three forms in several tabs, the lock |
| `Dashboard` | runs of the full generation in several tabs, the panel, the stored boxes; implements `WalletLedger` |
| `ManualSeeder` | the boxes of each page, pictures, the rows that are sent |
| `PagePanels` | teasers and authors from load to save |
| `AdminConsole` | the administrator's pages, forms and answers |
| `Overlays` | four sheets, the tour and the body behind them |
| `MC...` | the same with sets of model values for TLC |
| `..._proofs` | theorems and proofs |

**Billing.** `at[r]` is where request `r` is: `rate` and `volume` are the two reads
that `SaaSExecuteGeneration` makes before its transaction, `lock` waits for the
row, `write` holds it. From the locking SELECT to COMMIT no other session sees
the transaction's writes, so they are published by one action (`Commit...`) or by
none (`StatementFails`, `CommitFails`, `RepeatedOrder`). `seen[r]` is what was
read. Each action carries the answer the handler gives, including the
successes it answers after ignored errors. Amounts are paise. An account without
a wallet row (the admin) is kept in the model: an UPDATE of no row is not an error.

**DeviceBinding.** One request in flight per browser: the login button is
disabled while a login runs (`login/page.tsx:84`) and the admin page reloads
after each action. The reads that say *who* asks are merged with the arrival of
the request, since a device once revoked and a link once spent stay so. The
counts, the insert and the write remain steps of their own. Links and devices are
numbered in the order of their creation, and the number stands for id, secret
and hash. The answer of a login that binds comes in two parts: the browser takes
the cookie `pm_device` (and clears `pm_enrol`) from the headers, the script stores the
token when it has read the body. `Bind` delivers both, the cookie alone, or nothing.
Several tabs of one browser, and a user who clears cookies, are not
modelled. `GiveUp` is every error path and every refusal on account of
suspension. `Enrolment` is what the two tables promise whatever requests overlap:
its `tickets` are the accounts of the links, its `enrolled` the devices with the link
each came by. A link spent after it was retired or has expired is a step of it too,
since the code does not exclude one. That a device once revoked stays so, on which the
merged reads rely, is `RevocationIsFinal`, a theorem of it.

**Onboarding.** An approval reads the status (`CheckRequest`), renders a PDF by
a headless browser, begins a transaction (`BeginApproval`, which takes the
timestamp) and commits (`Provision`). Two resets of one password are serial
from their UPDATE on, by the row lock on `publishers`; so the commit is one
step, ordered by that lock, while `created` was taken before it. An account
stands for its three rows; downloading a document changes nothing and is the
operator `Latest`.

**PublisherSetup.** `form[t]` is what a tab shows and for whom it was opened, `at[t]`
and `req[t]` its save. A save names the account of the session of *that* moment, not
the one the form was opened for. The upsert keeps plan and lock of a locked row; the
settings save is an UPDATE that repeats the lock in its `WHERE`. Two kinds of data are
told apart: what every form sends (name, masthead, authors: `data`) and the page
plan (`plan`), where `Seeded` is the wizard's and `Default` what is stored when none
is sent. `switched` records that the session changed while a form was open; `chosen`
what the settings page saved last.

**Dashboard.** A click on the full card starts a *run* of `debitFullNewspaperAndOpen`.
`at[r]` is how far the function is, `save[r]` and `bill[r]` how far the server is with its
two requests: they go on when the function has given up (`Fail`), so a save can commit
after a later one. `click[r]` is what the function captured. `live[r]` says whether the
page it was clicked on is still mounted. `Navigate` (`next/link`, `router.push`) unmounts
the page and leaves the runs alone; `Unload` (a reload, a closed tab, the launch of a
single page) ends them; `Return` mounts a new page with an enabled button. A run without
its page charges and opens nothing (`OpenNothing`). The redirect after a refusal is a
step of its own (`Refuse`, then `Navigate`). Boxes are named by the run that sent them. The
charge is one step, of which `Billing` has the detail. Messages of the generator
(`PageMessage`, `BatchComplete`) reach the panel that is open. A browser that restores the
page from its back-forward cache is not modelled, nor is the early return of a click
without a session (the layout has sent that page to the login).

**ManualSeeder.** A box is `id`, whether it is finished, and two pictures, each of
which remembers the box it was chosen for. An image is put on the box with its id, a
portrait on the box at its index, as in the page: that is why the property excuses
portraits chosen before a box of that page was removed. `Rows` is the flattened list
that is sent; `SlotIndex` its running count per page. `Dashboard` and `ManualSeeder` are
two halves of one page, proved about in one module (`Dashboard_proofs`), so the names
both would have carry the prefix `Seeder` in the second.

**PagePanels.** One panel is open at a time; a save outlives it. Texts and pictures are
numbered as they come. `stored` holds rows with the save they came from;
`DeleteRows` and `InsertRows` are the halves of the transaction. The two panels share
the module because they differ in three places: the news, the unique key on the
authors' slots, and what follows the answer to a save.

**AdminConsole.** `sent` is the list of all requests with their stage, and every one can
be answered at any time, whatever the page shows by then. `issued` is the request that
made the secret in force (a password or a link), `held` the one whose answer the
administrator saw last. `loose` records the secrets for which two requests overlapped or
an answer was lost: without it `HeldIsCurrent` fails, and section 5 says why. A load
that ends in an error empties the lists of publishers and requests (`EmptyLists`) and
leaves the devices.

**Overlays.** `body` has the three styles both kinds of layer touch, and the place the page
is scrolled to. The dashboard has four sheets, in the order of its tree, and several can be
open: the `onSaved` of a save of inside authors (`AuthorsSaved`) opens the picker over
whatever is open by then. A sheet's effect depends on a new function each time, so a
render of the dashboard (`Render`) cleans up all open sheets, those that go out of the
tree first, and locks those that are open then. All the first one found is `found`; the
others found a locked body, and the sheet that is cleaned up last decides what is put back
(`Cleaned`). `tour` holds what the tour saved and `first`, whether its listener to Escape
is registered before the sheets'; `EscapeBoth` lets the two layers hear the key in that
order, with a render in between. Histories: `crossed`, that the lower of sheets and tour
was taken away first; `tangled`, that a sheet was cleaned up before one locked after it.

Mutated forms of definitions stand beside the ones they replace, named for the bug.

## 3. Runs

| Run | Question | Properties | Instance |
|---|---|---|---|
| `billing` | Do three concurrent requests keep wallet, ledger, archive and rotation in step? | `LedgerExplainsBalance`, `ChargesMatchEditions`, `RotationCountsEditions`, `ImplementsWalletLedger` | 3 requests, 2 wallets, a balance of one edition, failures, 1 restart; 575 000 states |
| `billing_live` | Recharges, accounts of every kind, and does every request end? | `TypeOK`, `PaymentsMatchCredits`, `RefusedLeavesNoTrace`, `CurrentReadMovesForward`, `EveryRequestEnds` | 2 requests, 3 accounts, 2 orders, 2 dates, fairness; 271 000 states |
| `devices` | Do links, slots, cookies, tokens and the gate fit together? | `OneDevicePerLink`, `OverfillIsBounded`, `CurrentIssueFitsSlots`, `TokenMatchesCookie`, `GateKeepsAdminWork`, `LastAdminDeviceNeedsARace`, `ImplementsEnrolment` | 2 browsers, 2 accounts, 2 links, 1 restart; 1 108 000 states |
| `onboarding` | Approvals, rejections, creations and resets at once | `TypeOK`, `AccountMeansApproved`, `DuplicatesAreBounded`, `StoredDocumentIsCurrent` | 2 admins, 2 requests, 3 transactions, 1 restart; 1 090 000 states |
| `setup` | Three forms in two tabs, with sessions that change | `TypeOK`, `DataStaysWithItsOwner`, `LockedPlanStays`, `BaselineIsKept` | 2 tabs, 2 accounts, 1 plan, 3 saves; 4 440 000 states |
| `dashboard` | From the click to the panel, in tabs that leave and come back, under fairness | `TypeOK`, `PaidRunOpens`, `PanelShowsTheChargedRun`, `PaidContentIsStored`, `ClickIsAnswered` | 2 tabs, 2 runs, wallet of 3 pages, 2 pages before the profile answers and 1 after; 722 000 states |
| `seeder` | Pictures and slots while boxes come and go | `SeederTypeOK`, `PicturesStayWithTheirBox`, `SlotsFollowThePage` | 2 pages, 3 boxes, 2 reads; 1 730 000 states |
| `panels` | Edits, loads, articles, files and saves at once | `TypeOK`, `TypedTextStays`, `StoredRowsAreOneSave` | 2 slots, 3 edits, 2 saves; 6 490 000 states |
| `admin` | Answers in any order, to whatever page is open | `TypeOK`, `HeldIsCurrent`, `DisabledControlsComeBack` | 2 accounts, 1 applicant, 4 requests; 701 000 states |
| `overlays` | Sheets and tour in any order, with renders, late callbacks, timers and Escape | `TypeOK`, `PageIsGivenBack` | 3 scroll positions, 2 saves at a time, 3 visits; 864 000 states |
| `billing_repeated_order` | *violation*: is a recharge answered with success credited? | `AnsweredRechargeIsCredited` | no fault at all |
| `setup_unlock` | *violation*: does the settings page own the plan it saved? | `SettingsOwnThePlan` | as `setup` |

Every property of a passing run has a mutant in `PROJECT.json`: a change of one
definition that a plausible bug would make, under which the property fails.

Further configurations answer questions beside these. `MCDashboardWallet.cfg` passes: it
checks `ImplementsWalletLedger` of `Dashboard` on the instance of `dashboard`. Seven show a
violation each, behind a finding of section 5: `MCBillingStaleBaseline.cfg`
(`BaselineNeverDriftsBack`), `MCDeviceLinks.cfg` (`LinksFitSlots`),
`MCDeviceOverfill.cfg` (`OneBrowserPerPublisher`), `MCOnboardingDownload.cfg`
(`DownloadIsCurrent`), `MCDashboardTwoRuns.cfg` (`OneRunAtATime`),
`MCDashboardLateSave.cfg` (`ChargedForItsBoxes`) and `MCOverlaysPinned.cfg`
(`NeverLeftPinned`).

### Bounds, and why they are enough

- *Requests* of `Billing` (3 or 2). Each is used once. Two are needed for a lost update,
  a third to find a wallet that two others have just changed. The account that
  can pay for one edition but not for two makes the check and the debit race.
- *Dates* 7 and 14, baseline on day 0: an earlier, a later and an equal date all occur.
- *Prices* 0.004 (stored as 0.00, which leaves the default in force) and 25.
- *Links* 2 or 3: two compete for one slot; the third replaces a retired one.
- *Browsers* 2 or 3: two race for a link or a slot, an admin issues links meanwhile.
- *Transactions* 3 and *requests* 2 in onboarding: an account and two overlapping
  resets of it, or two approvals of one request and a creation.
- *Restarts* 1: what was in flight is lost and the seeds are replayed; a second
  restart repeats the same seeds.
- *Tabs* 2, of one publisher (`Dashboard`) or of two (`PublisherSetup`): one acts between
  two steps of the other. *Saves* 3: a save of each kind, or one before an unlock and
  two after.
- *Runs* 2 of the dashboard: both tabs, or one tab that goes elsewhere and comes back, run
  at once; a save that was given up on is served before, between or after the steps of
  the other run.
- *Pages*: the fallback differs from the profile's count, and the wallet pays for one run
  of either kind and not for two of the larger.
- *Boxes* 3 on 2 pages: one page has a box before and one after the box that is
  removed, and the other page is not empty.
- *Edits* 3, *saves* 2, *slots* 2 in the panels: an edit before, during and after a
  load or a fetch; two saves that overlap.
- *Requests* 4 of the console: the first load and three operations, two of which can be
  about one account with another row between them.
- *Visits* 3, *places* 3, *saves of authors* 2: a timer of one visit can fire in a later one,
  the page can be scrolled before and between layers, and two callbacks come late.

The theorems below are for every value of these constants. Symmetry is used only
with model values that no CHOOSE and no liveness property tells apart.
`CHECK_DEADLOCK FALSE` is set for onboarding and for the front end, whose budgets of
transactions, saves, edits or visits can be spent: nothing is left to do then.

### Fairness

`EveryRequestEnds` is checked under `FairSpec` of `Billing`: weak fairness on `Serve(r)`,
what a handler does while the database answers it. The code justifies it: each handler
runs in a goroutine of its own, and every path after the locking SELECT ends in
a commit or in the deferred rollback. Nobody has to send a request or restart
the server, and faults are not fair: no request may count on one to end its
wait. Weak fairness suffices although the lock is contended: a request that
waits has finitely many others before it, each used once.

`ClickIsAnswered` is checked under `FairSpec` of `Dashboard`: weak fairness on
the steps of a run (`Proceed`) and, while it waits, on the server's steps for its request
(`Serve`). The handlers end by the argument above, and the browser settles every `fetch`.
Nothing is assumed of a request nobody waits for, nor of the user, the generator and
the loss of an answer.

## 4. Proofs

| Theorem | Statement |
|---|---|
| `Billing_proofs!TypeCorrect`, `Solvent` | `Spec => []TypeOK`, `Spec => []NeverOverdrawn` (no wallet below zero) |
| `Billing_proofs!Refinement` | `Spec => Wallet!Spec`: each step posts one ledger row to one wallet, or none |
| `Billing_proofs!Explained` | `Spec => []LedgerExplainsBalance`, through the refinement |
| `Billing_proofs!EditionsArePaid`, `PaymentsArePosted`, `RefusalsAreClean`, `RotationHolds`, `MovesForward` | the other invariants and the action property of the runs `billing` and `billing_live` |
| `Billing_proofs!LedgerExplains` | `Wallet!Spec => []...`: a wallet changed only by `Post` is explained by its ledger |
| `Billing_proofs!WeeksAreRounded` | the week count of a weekly paper is the nearest one, for all dates |
| `Billing_proofs!GapsAreCounted` | an edition has the same number whether an earlier one was generated or skipped |
| `DeviceBinding_proofs!TypeCorrect`, `OneTime`, `Overfill`, `TokensMatch`, `GateKeeps`, `IssueFits`, `LockOutNeedsARace` | `TypeOK`, and the properties of the run `devices` but the next |
| `DeviceBinding_proofs!Refinement` | `Spec => Register!Spec`: the tables change only as `Enrolment` says |
| `DeviceBinding_proofs!TicketsOnce`, `RevokedForGood` | the two properties of `Enrolment`, of the tables: one link, one device; what is revoked stays so |
| `Onboarding_proofs!TypeCorrect`, `Approved`, `Duplicates`, `DocumentsHold` | all four properties of the run `onboarding` |
| `PublisherSetup_proofs!TypeCorrect`, `LockHolds`, `BaselineHolds`, `OwnersHold` | all four properties of the run `setup` |
| `Dashboard_proofs!TypeCorrect`, `PaidOpens`, `PanelHolds`, `ContentHolds` | the four safety properties of the run `dashboard` |
| `Dashboard_proofs!Refinement` | `Spec => Wallet!Spec` for the wallet as the dashboard charges it |
| `Dashboard_proofs!SeederTypeCorrect`, `PicturesHold`, `SlotsHold` | all three properties of the run `seeder` |
| `PagePanels_proofs!TypeCorrect`, `TextStays`, `RowsHold` | all three properties of the run `panels` |
| `Overlays_proofs!TypeCorrect`, `GivenBack` | both properties of the run `overlays` |
| `AdminConsole_proofs!TypeCorrect`, `HeldHolds`, `ControlsComeBack` | all three properties of the run `admin` |
| `...!Invariance`, `Dashboard_proofs!SeederInvariance` | the inductive invariant of each |

Assumptions are the ASSUMEs of the modules and no others: the demo wallet is a
wallet, amounts and page counts are positive, opening balances are not negative,
the browsers, the admins and the tabs and accounts of `PublisherSetup` are finitely many
(they are counted), and so are the accounts of the console; the dashboard has a tab, and
its runs are finitely many positive numbers; names of no request, no account and no plan
are not names of one. Of the bounds they say that they are natural numbers, and of
`MaxSent` that it is not zero: the console's first page load is itself a request.

**Why the invariants had to be strengthened.**

- *Billing.* `NeverOverdrawn` alone is not inductive: `CommitGeneration` subtracts
  from what was *read*. `LockInv` says that a request in `write` holds its wallet's
  row and that what it read is still the balance and passed its check;
  `RatesInv` that a rate that was read is positive, so that a generation without
  a wallet never passes its check. `JobsInv` says that a request past its
  arrival has a payload. The refinement needs the same facts: `Post` of the
  abstract specification adds to the *current* balance.
  The properties that relate the tables need `Archive` besides: a request that has not
  ended has written nothing, one that was refused wrote nothing, and each edition,
  payment and charge has its counterpart by the same request. Since the ledgers only
  grow and a request ends once, each commit adds one row to each side.
- *Devices.* `SlotsOK` counts, beside the live devices of an account, the logins
  that already found a slot free (`Binding`): the sum stays under the slots
  less one plus the browsers that may log in. A login that moves past its count
  needs a free slot; one that binds moves from one summand to the other.
  `LinkedOK` is the bijection of spent links and devices behind
  `OneDevicePerLink`; `TokensOK` says that no cookie is
  shared and that a token names the device of its cookie or an older one of that browser; `InFlightOK`
  says what a request in flight holds: an issue past its first count found a free slot.
  `GuardOK` says that a revocation does not name the device of the asker's cookie unless
  the lookup failed. The action properties need these, and the two lemmas that say who stores a link
  (`StoredBy`) and who takes a device off the list (`RevokedBy`).
  The refinement rests on `LinkedOK`: the link a device came by (`Ticket`) is found
  again in any later state because no other link ever names that device. Three steps
  are steps of `Enrolment`, one lemma each (`StoreIssues`, `BindEnrols`,
  `RevokeEnds`); the others leave the register alone (`OthersStay`).
- *Onboarding.* `BudgetOK` counts, beside the accounts made from a request, the
  admins past its status check: together no more than there are admins. An admin
  who commits moves from one summand to the other. One who passes the check found
  the request pending, and `FromOK`, which says that an account's request is
  approved, shows that it has no account yet. For the documents, `StampsOK` says that
  each transaction has a time of its own, among those stored and those still open, and
  `PasswordsOK` that the document stored last for an account holds its password.
- *PublisherSetup.* `FormsHaveOwners`: an open form was opened in the session of some
  account; so a save has one to go to. `OwnersKept`: unless the session changed, every
  form and every save under way is of the account signed in, with its data or none.
- *Dashboard.* `PaidRunOpens` is about a run whose page is mounted and needs to know what
  the requests of a run allow: `RunsKept` ties, for each run, the steps of the server to
  those of the function (a charge is sent only after its own save was stored; a run that
  was never begun has sent nothing and has no page). `PanelKept` finds the charge of an
  open panel, with its page count, in the list of charges. That the boxes of a charge are
  stored unless another save committed last is part of `RunsKept`.
- *ManualSeeder.* `Numbered` says that every box was numbered when it was made, which is
  why a new one is like no other (`Distinct`). `PortraitsFit` is about portraits still on
  their way: until a box of its page is removed, one is for the box that has its place,
  or for none. Adding boxes keeps it since lists only grow at their end (`Grows`), which
  adding, typing, an image and a portrait have in common. `SlotsFollowThePage` follows
  from the types alone: `FlatByPage` shows that the recursive function behind `Flat` exists
  and that each page appends its list, `FlatHolds` that each page's list is found again
  whole at one offset (by induction on the page, from the least page without the
  property), and a bijection carries the count of `SlotIndex` over to the sheet.
- *AdminConsole.* `CountOK` orders the ages of page, form and requests. For each secret
  nobody has marked `loose`, `AloneOK` says that at most one request for it waits, `LinksOK`
  that a link that waits is of this page and holds `busyId`, so the row cannot be clicked
  again, and `DoneOK` that a secret made and not yet received is the one in force. Then
  `HeldOK`: a secret in force that is not the one held has its answer still due.
  `BusyOK` and `LoadingOK` name the request that will give a control back.
- *PagePanels.* The rows of a table are whole saves (`Whole`), and so is what a
  transaction deletes (`OldOK`): otherwise removing what it saw could leave half of
  another save behind. `QuietLoad`: while a load is under way nothing typed can be lost
  to it, since the panel shows its slots only afterwards.
- *Overlays.* `PinKept` says that an open sheet pins the body and that nothing but a tangled
  cleanup pins the page the first sheet found. `PlaceKept` says what that page remembers of
  its scroll position, and `LockKept` that the lower of sheets and tour found the page
  free: taken away in order, each puts back what the one below needs.

**Only model-checked.** `EveryRequestEnds` and `ClickIsAnswered`: liveness under fairness
is out of the prover's reach. The dates, weeks and volume numbers of `GapsAreCounted` are
integers without bound; that Go's `int` does not overflow on a date is not stated.

## 5. What disagrees

The findings in `PROJECT.json` quote what each contradicts. Those TLC shows by a
shortest trace, in a run or in one of the further configurations:

- A recharge that repeats an order id is answered with success and not credited:
  the UNIQUE constraint aborts the transaction and every error is ignored.
- After an unlock, a save of the profile page replaces the plan the settings page had
  stored with defaults (H 409, comment at 406).
- Two generations for different dates read the baseline before either locks the
  wallet; the earlier date can be written last, against the comment at H 1520-1524.
- An expired unspent link is retired in place of a live one, so two live links
  compete for one slot (`device_admin_handlers.go:202`, comment at 138).
- Two logins count one free slot; a publisher gets two browsers
  (`device_handlers.go:268`, comment at 45).
- A tab that leaves the dashboard during a run and comes back finds the card enabled, and
  a second click is charged beside the first, whose panel never opens
  (`dashboard/page.tsx:814`).
- A save the client gave up on can replace or empty the boxes of the next run before that
  is charged (`dashboard/page.tsx:570`, comment at 555).
- The late callback of a save of authors opens the picker over another sheet; when both are
  closed the body stays pinned (`dashboard/page.tsx:331`, `BottomSheet.tsx:35`).
- Of two overlapping resets the document re-served is the older (H 1970, comment at 1952).

Those a property has to except, by a history variable or a condition of its own:

- The full card charges for eight pages until the profile answers, and for good if it
  does not (`dashboard/page.tsx:805`; `FallbackPages`).
- Two saves of the boxes, or of the teasers, at once leave both sets
  (H 911, H 1018; `saver`, `overlaps`).
- A page opened for one account saves under the account that signed in last
  (`lib/api.ts:54`; `switched`).
- A link that the server has retired can be the one the dialog shows last
  (`devices/page.tsx:348`), and a second press of the wallet's or the password's form
  sends a second request (`publishers/page.tsx:343`; `loose`).
- A sheet that closes under the tour opened over it leaves the page locked, and so does
  Escape when the tour hears it first (`BottomSheet.tsx:32`; `crossed`).

The rest are divergences no property of these models speaks of: that a card hidden in the
middle of the tour leaves a step that shows nothing and a locked page
(`GuidedTour.tsx:53`), that migrations replay at every
start, that an approval overrides a rejection made while its document was rendered, that
a reset ends no session, that a lost access request is answered as a success, and how
many links the migration's comment promises.

## 6. Not modelled

- *Authorization of a publisher's own rows*: `authorizedPublisherID` and `RequireRole`
  compare the token with the request and keep no state; the modelled handlers run after them.
- *Suspension*: one UPDATE of one column, which login and `ZeroTrustAuth` read. A request
  admitted before it still runs to its end. It is one of the ways `GiveUp` ends a request.
- *Daily thought, choice of an edition, used articles*: one field each, saved or sent as it
  stands, or rows that only the generator writes.
- *Read-only pages, the landing page*: they load a list once and show it.
- *HTTP routing and configuration*: nothing changes after start-up.
- *Services no route reaches* (`internal/services`): `cmd/api/main.go` constructs none of
  them and `00001_saas_reset.sql` drops their tables.
- *PDF, encryption, extension stubs*: pure functions and I/O. That a PDF is slow and may
  fail is in `Onboarding`.
- *The generator*: a separate program; its messages to the panel are steps of `Dashboard`.

What could still be added: suspension as an action beside the handlers of `Billing` and
`DeviceBinding`; several tabs in one browser of `DeviceBinding`.
