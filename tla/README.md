# A TLA+ model of the MIS asset inventory

The repository is an inventory of IT assets for an organisation with branches:
a Laravel 12 back end (`src/backend`) over PostgreSQL and a React front end
(`src/frontend`). This directory models what the back end keeps consistent and what
the pages show, send and remember in between, checks both with TLC on small
instances and proves the central results with TLAPS.

On the server everything remembered is in the database and in a cache. One process
serves one HTTP request, so all concurrency is between requests and console
commands that meet in the tables. PostgreSQL runs at its default level, READ
COMMITTED. Nothing in the code asks for a lock except `lockForUpdate` in the two
transition services.

In the browser one thread runs handlers to their end. All concurrency is between a
handler and what answers later: a mutation's callback, an `await`, a query, a timer.
Between the two the user may have closed the form, opened another or gone to another page.

## 1. Inventory

| Component | State | Operations | Hard behaviour |
|---|---|---|---|
| Workstations and seats | `workstations` (branch, position, `employee_id`), pivot `employee_workstation` | create, update, delete, assign, unassign, getOrCreate | two records of who sits where; foreign keys that delete and null behind the controllers |
| Employee, branch, position records | `employee` (branch, position), `branch`, `position` | create, update, delete | deletion reaches seats through foreign keys |
| Migration to workstations | all of the above | one console command | writes the seat and no pivot row |
| Transition batches | the same tables, one transaction | validate, then move the rows in order | swaps and rotations; validation outside the transaction; half-done batches |
| Concurrent seat requests | the same tables | the statements of the services above | stale reads, lock order, deadlock |
| Asset ledger | `assets` (placement, status), `asset_movements` | assign, transfer, return, bulk transfer, status, delete | movements written by an observer and annotated afterwards |
| Asset ageing and clean-up | `assets.status_id`, `delete_after_at` | New to Functional on any read, Defective to deleted by an hourly command | unlocked read-modify-write against concurrent changes |
| Repairs | `repairs`, asset status | open, change status, return, delete | two rows saved without a transaction; several repairs of one asset |
| Replenishments | `replenishments` | assign, deploy as an asset | create then delete without a transaction |
| Asset components | `asset_components` and movements | add, move, remove | soft deletes |
| Dashboard and response caches | cache entries | read-through, forget on model events | fill racing with invalidation, forget before commit |
| Depreciation | `assets.book_value` | recompute | date and rounding edges |
| Authentication and users | `users`, tokens | register, login, logout | revoke then create |
| QR codes | one column of `assets` | generate with retry and fallback | external service |
| Audit log, reports, licences and catalogues | rows | plain reads and writes | little that is not covered above |
| Record pages and forms (twenty pages) | modal flags, the record edited, one form state, pending requests; on the assets page the component rows of a desktop | open, type, close, submit; three rounds of component requests before an update | answers that reach a page which shows something else; several requests for one click |
| Query cache and pages | one cached query per key: data, shape, marks, a fetch | visit, open, fetch, save, invalidate, collect | keys shared by pages with different expectations; invalidations that miss or cross a fetch |
| Asset views | one edit form for cards and table, deletion dialog, selection, repair form | edit, save, delete, bulk transfer, quick status | forms opened by answers and timers; callbacks with the state of an earlier rendering |
| Transition builder | fetched employees and workstations, a modification for each employee, the chain | select, drag, exchange, chain, submit | a preview computed from data that the server may see otherwise |
| Sign-in, specification fields, charts, layout | a token; what a component is given | login, logout | none of its own |

How they interact: controllers call services; services write Eloquent models;
model events call observers, which write movements and audit lines in the same
transaction and clear the dashboard cache; the database's foreign keys complete
what a delete starts. Moving an employee does not move assets: an asset belongs to
a workstation, and the employee who sits there is responsible for it. That is why
the seat column is the most important state of the system and is modelled first.

A page reads through React Query: every `useQuery` of one key shares one cache entry,
whatever page made it, and a mutation's `onSuccess` marks keys by prefix. A form belongs to
its page; its request does not, and answers a page that has moved on. The transition builder is the one
page whose request is a program of its own: the batch of modifications that the validators and services work through.

What makes each component correct:

* seats: every reference resolves; the pivot lists whoever is seated; nobody takes an
  occupied seat except through a transition; a batch seats each of its employees
  once and frees exactly the seats they left, whatever the order of its rows;
* posts: a validated branch batch leaves no two employees at one post if none
  shared one before;
* concurrency: a moved employee never has two seats, no request waits for ever, and no
  request frees a seat that belongs to an employee it does not move (the last does not hold);
* ledger, ageing, repairs: what the movement log says last of an asset's place and status holds; a reason stands at the movement it was given for; only defective
  assets are ever deleted automatically; a repair is Returned only when the asset's return is on record;
* reserve items: an item is in stock until it is an asset;
* caches: a change the observers see leaves no old row behind, what is shown is no older than its layers live, and every row comes to hold the truth;
* forms: a save writes the record it was opened for, and one form makes one record;
* queries: a page can show what another page cached, shows the user's own writes, and does not wait for ever;
* builder: what the page announces (exchanges, rotations, who sits where) is what the server does.

## 2. Modules

| Module | Models | Uses |
|---|---|---|
| `WorkstationTables` | the tables as one record; what each method of `WorkstationService` does to them | |
| `Workstations` | one action per HTTP request or console command that changes records, seats or the pivot | `WorkstationTables` |
| `SeatingPlan` | the promise of a transition: all employees of the batch are reseated at once, as the response says | |
| `Transitions` | both form requests and both services, row by row, composed with the requests of `Workstations` | `Workstations`, `SeatingPlan` |
| `SeatRequests` | the same services statement by statement, with locks | |
| `AssetAging` | the automatic status step, the status requests and the clean-up command, statement by statement, over months | |
| `AssetLedger` | assets, their movements, repairs and reserve items, statement by statement, with workers that die | |
| `DashboardCache` | the server's caches: two layers of rows with expiry, requests that fill them, changes that forget them, statement by statement on the cache table | |
| `CatalogForms` | the record pages: add form, edit form and status dialog with their requests; pages are values of a record of features | |
| `AssetForms` | the assets page: component rows, their fetch, and the rounds of requests that save them | `CatalogForms` |
| `PageQueries` | what each page and modal reads and invalidates, read off the `useQuery` and `useMutation` calls | |
| `QueryCache` | one key under visits, fetches, mutations, failures, ageing and collection | `PageQueries` |
| `QueryScreens` | the promises of the screens that the theorems about `QueryCache` start from; TLC evaluates them on the 63 keys | `QueryCache` |
| `AssetView` | the page of an employee's or a workstation's assets | |
| `TransitionBuilder` | the builder, its preview and its submission, composed with validation and execution | `Transitions` |
| `MCWorkstations`, `MCTransitions`, `MCSeatRequests`, `MCAssetLedger`, `MCDashboardCache`, `MCAssetForms`, `MCTransitionBuilder` | instances for TLC | |
| `Transitions_proofs` (with the theorems of `Workstations` and `TransitionBuilder`), `SeatRequests_proofs`, `AssetAging_proofs`, `AssetLedger_proofs`, `DashboardCache_proofs`, `AssetForms_proofs` (with the theorems of `CatalogForms`), `AssetView_proofs`, `QueryCache_proofs` | theorems and proofs | |

### From code to state

`db` is a record with one field per table or column: `employee` is the set of ids,
`post` the branch and position of each, `workstations` the set of ids, `spot` their
branch and position, `employee_id` the seat column and `employee_workstation` the
pivot as a set of pairs. A missing row has post or spot `Nowhere`. Initial tables are
those the migration of 2026-04-21 can leave: any rows, and a pivot that mirrors the seat column.

A service method in a transaction is an operator from tables to tables. What
`first()` without an order returns is any row. An id that a `DestroyBranch` or `DestroyPosition`
frees may stand for the next record created, so those tables need no set of their own.

`Transitions` splits a batch where the code does: `Accept` is the validation,
against the committed tables; `Begin` opens the transaction; `SkipRow` and
`MoveRow` are turns of the `foreach`; `Commit` and `Rollback` end it. Until the commit
the writes are in `wc`. Other requests run whenever the transaction is not open; what
happens when they overlap with it is the subject of `SeatRequests`. `Rollback` is
possible at any time: an exception of any row, or of the database, ends the same way. A
row that must fail (a branch batch with a null position, or an explicit workstation that is
gone) enables nothing else.

`SeatRequests` gives each request a program counter. `LockEmployee` is the
`lockForUpdate` query, one row at a time; `LookUpOld` and `Release` the read and the write of
the old workstation; `ReadSeat`, `Seat`, `CheckEmployee` and `Unseat` the statements of
`assignEmployee` and `unassignEmployee`; `Commit` publishes. A read sees the committed
tables and the transaction's own writes. An UPDATE holds its row until
the end. The check of the foreign key takes FOR KEY SHARE on the employee, which waits
for FOR UPDATE. `Abort` is PostgreSQL's deadlock detector.

`AssetAging` keeps of an asset its status and deadline (`NULL` once the row is deleted), of its movements
the set of statuses they report, and for each request the model as Eloquent hydrated it: a save writes
only the columns that differ from that. `Retrieve` is the SELECT, `LogAge` and `SaveAge` the two
writes of `transitionToFunctional`, `Save` and `LogStatus` the UPDATE and the observer's movement. The endpoint of
`AssetMovementController` does all of it in a transaction, which others see at its commit:
`CommitStatus`. It writes its row first and reads nothing afterwards that another could change,
so one step at the commit is enough. A request without a target status is any other that happens to read the asset.
`FetchPage` is one SELECT of `chunk()`, by offset, and `DeleteFetched` one turn of its loop.

`AssetLedger` has a row for each asset (workstation, employee, status), its movements as a sequence by insertion, and requests with a program counter. A request keeps
the model it read (`copy`) and the one it will save (`job.model`), after the observer's rule that an asset at a workstation has no employee; `Updated` writes the columns in which the two differ.
`AssetMovementController` and `WorkstationService` work in a transaction: `SaveInTransaction` takes the row and inserts the movements, `Commit` writes the reason to the latest movement
and shows everything. `AssetController` and `RepairController` save (`Save`) and log (`Log`) as statements that others see one by one.
Timestamps count seconds: `tied` says of a movement that it falls into the second of the one before, and `Latest` is any of those that `latest('created_at')` may return.
A bulk transfer stands for one asset of its loop. An edit of other columns is left out; an edit with the columns it repeats is the same as one without them, since only differences are written.
`hidden` are the assets past their `delete_after_at`, which the scope of the model keeps from every `find` and from `$repair->asset` (`LoadAsset`, `Unfound`); `Expire` is the deadline that passes, of a Defective asset or of
one on which overlapping requests have left it, and a save that changes the status takes it away (`StillHidden`), unless the model was read before it was there. `DestroyAsset` is also the clean-up, which goes past the scope.
`Die` is a worker that ends between two statements. `disturbed` records for which assets and items requests overlapped or one died half-way, `source` and `discarded` what became of items.

`DashboardCache` follows a request through its one or two rows: `LookOuter` is the middleware's `has` or the `remember` of `getInitialData`, `Take` the `get` after `has`, `LookInner`, `Query` and `PutInner` the inner
`remember`, `PutOuter` the middleware's `put` or the end of the outer `remember`. The figures are the version of the data that their first query saw. One key stands for those of its shape: `statistics` for
those that are forgotten and read by both endpoints, `branches_all` for the three catalogues, a response row for one user and URL. `Save` to `Crash` are a change: the observers' forgets are statements, of the transaction if there is one
(`DropAtCommit`: others see the row until the commit and may not write it) or of their own (`Drop`). The repository's settings put the cache into the application's database and connection, on which this rests. A row keeps the time to its expiration and not the time of
its expiration, so that no clock has to be bounded; one tick is any unit, and the ratio of the times is smaller than in the code. `announced`, `raced` and `late` are history.

`CatalogForms` has one state machine for twenty pages, because their code is one pattern with
eight variations: `page` is a record that says whether one modal serves both forms (`single`), a create empties the form
state the edit form shares (`blanks`), the button is disabled while pending (`guarded`), and so on. `form` keeps whose record was loaded into the form state,
not its fields. A request is in `calls` from `mutate()` to its callback: `Serve` or `Refuse` is the
server, `LoseAnswer` the network, `Deliver` the `onSuccess` or `onError` that runs on whatever the page shows by then. `Pending` is `isPending`, which
follows the latest `mutate()` of its hook.

`AssetForms` adds to the assets page the component rows of a desktop. `EditOpens` starts the effect's fetch, `ComponentsCome` is its
`setState`, `Cleanup` the effect's clean-up, which holds answers back only once the form is closed. `HandleUpdate` is the click, with what
the handler closes over; `DeleteRemoved`, `PostNew` and `PutExisting` are its three `Promise.all` rounds, each of which may fail with some of its requests applied.

In `PageQueries` a key is a tuple of strings; ids are `"url"` or `"row"`, since the router gives strings and the server numbers and React Query
tells them apart. A read has the shape its `queryFn` stores and the shapes its page unwraps. In `QueryCache` the library is external: what it does with
mounts, marks and running fetches is modelled as the pages rely on it with the defaults of `main.jsx`, and either way where its versions differ (whether a failed fetch marks the data).
The behaviour of one key does not depend on another, so each behaviour follows one.

`AssetView` cuts `useAssetViewController` where it awaits: `HandleEditClick` and `ComponentsCome` are the halves of one handler, `SaveCard` and
`ComponentsSaved` of another; `UpdateDone`, `DeleteDone` and `BulkTransferDone` are what follows the `await` on the invalidations. `RepairFormOpens` is the
`setTimeout` of a status change. The server has `existing` assets and of these the page has `present`: `OthersChange` is what other users delete, move away or bring,
`ServerDeletes` and `ServerMoves` may apply the request and lose its answer, and of a bulk transfer any part of the assets moves, since the server catches what fails for one and answers success.
`overtaken`, `replaced` and `unnoticed` are history variables that record the exceptions of the properties. An asset becomes `unnoticed` when it leaves the page and no answer takes it from the selection, and stops
being so when the page lists it truly again.

In `TransitionBuilder` `modifications` is the state of `useTransitionState`; every view writes it with three calls of `HandleModify`, workstation,
branch and position, and each call may drop the modification again. `Arriving` and `Staying` are the "after" side of the split panel, `ExchangeOf` the
walk of `useExchangeDetection` (`Walk`) until it is back. `HandleSubmit` sends the rows in any order of the object's keys; the rest is `Accept`, `Begin` and the row actions of `Transitions`. `BuilderSpec` is the page with no bound on edits, fetches,
batches and other requests; `MCTransitionBuilder` is a bounded part of it.

## 3. Runs

| Run | Instance | Shows |
|---|---|---|
| `workstations` | 2 employees, 3 workstation ids, 2 branches, 1 position; unbounded requests | `TypeOK`: no dangling reference after any sequence of requests, foreign-key actions included. `SeatsStayListed`: only the migration command lets seat and pivot drift. `NoDirectTakeover`: no request outside a batch hands an occupied seat over. |
| `transitions` | 3 employees, 3 branches, no workstation at first; or 2 workstations and room for a third with 2 branches; one batch of at most 3 rows. Or 2 employees, at most 2 rows and one request of any kind between validation and transaction | `TransitionsTypeOK`, `BatchInvariant` (the inductive invariant of the proofs), `ImplementsSeatingPlan` (refinement), `BranchBatchKeepsPostsExclusive` |
| `seat_requests` | 2 requests of any kind, batches of at most 2 rows, 2 employees, 3 workstations; every initial seating in which nobody has two seats | `SeatedAreListed`, `MovedHaveOneSeat`, `EveryRequestEnds` |
| `seat_conflict` | 2 single-row transitions, 2 employees, 2 workstations | violation: one transition empties the seat another has just filled |
| `asset_aging` | 2 assets in any status, pages of 1, 2 requests, 2 months | `StatusIsLogged`: however writes overlap, a movement explains the status; `DeadlineOnlyWhileDefective`: a stray deadline needs two overlapping requests; `OnlyMarkedAreDeleted`; `ExpiredGo` |
| `hidden_assets` | 1 asset, 2 requests | violation: an asset that is not defective is hidden |
| `asset_forms` | each of the 20 pages with 2 records, 3 forms, 3 requests; on the assets page also up to 2 desktops with 2 forms and 2 requests, 4 component ids | `WritesOwnForm`; `OneRecordPerForm`: only a lost answer makes a second record; `ComponentsOfOwnAsset`; `ComponentsAreThoseShown` |
| `query_cache` | `QueryScreens`: each of the 63 keys, any walk through 28 pages and 16 modals and tabs, one write | `CachedDataShow`, `OwnWritesShow` up to the pairs of `Unreadable` and `Unreached`; `MarkedAreFetched`; `WaitingEnds`; the promises of the screens, as assumptions |
| `asset_view` | 2 assets, none or one a desktop, 2 requests of the user or of others | `SavesOwnAsset`, `RepairsOwnAsset` with their one exception each; `SelectedAreListed`: what is selected and not listed is leaving, or left unnoticed; `SavesInTurn`; `PendingEnds` |
| `transition_builder` | a workstation in each of 3 branches, 3 employees and 2 edits, or 2 employees, one edit and one other request; one submission | `ExchangesAreRounds`; `EditsAreChanges`; `ChainsAreRotations`; `OutcomeIsPreview` |
| `asset_ledger` | an asset anywhere with a repair or none, or an item in stock; 2 requests of any kind, 2 workstations, 2 employees, 3 asset statuses, Defective among them, 3 repair statuses | `TypeOK`, foreign keys included; `PlaceIsKnown`: unless requests overlapped or died, an asset has one place and is where the last movement of its kind says; `ReasonsAreOwn`: a reason is on a movement of the request it was given to; `ReturnIsLogged`: whatever overlaps or dies, unless the asset was hidden; `ItemOrAsset` |
| `dashboard_cache` | 1 request at a time for ever, for `initial`, `statistics` or a catalogue, or for both of the first two beside an unobserved change; 2 changes of any kind, in transactions of up to 2 saves; responses live 1 tick, rows 2, requests 1 | `ChangesReachTheRows`: a row older than a change the observers saw is one that raced it; `AnswersAreRecent`, a bound that is reached on every route; `RowsBecomeTrue`; `EveryChangeEnds` |

Why the bounds are enough: two rows make a swap, the smallest batch in which a row
meets what another wrote; three make a rotation, or a chain through a created workstation, or
two rows for one goal and a third that leaves it; the theorems cover longer batches. Two branches
make a post to leave and a post to reach, and a second position would only rename posts; for posts to be
held alone by three employees there are three where no workstation exists. In `seat_requests` two requests
suffice for every conflict between two transactions, and with two-row batches for every
deadlock of two; circles of three requests are not checked. In `asset_aging` two assets on pages of one are more
than a page, which is when the offset skips; one month passes before a deadline and a second one for an asset that is
marked later; two requests overlap in every way their statements allow. A purchase becomes thirty days old at once, after a month, or never.

In `asset_ledger` two requests overlap in every way or follow each other, and the initial rows and logs are what any earlier request leaves: place logged, or not logged. A second
repair or asset comes from a request. Pending and In Repair differ in nothing but their names. No asset is hidden at first: its deadline may pass at once.

In `dashboard_cache` a request fills rows that later ones find. Two changes overlap or follow each other, and one may excuse old rows (`Unfinished`) only until it ends. Two saves in each of two transactions are the
least that lets them wait for each other's rows: keys are forgotten in one order, so it takes a second round. A response that lives half as long as a row makes all three orders of expiry. Two requests at once
meet only in the rows, which one reader's successive requests do too; two requests with one change satisfy the invariants too (830,888 states, not among the runs), and the theorems cover any number.

In `asset_forms` two records are one that a form was opened for and another that its answer meets; three forms are one
opened, a second while the answer is late, and a third after it. The requests of three forms include a retry; a desktop's two forms
leave out an early save that meets one of another desktop under way, which the theorem covers. `query_cache` has one write: a
key's state after it does not remember more than the last one, and the theorems say it for any number. In `asset_view` two requests, or one and another user's change, overlap or follow each other;
a second desktop would only repeat the first. In `transition_builder` two edits make every pair of conflicting modifications and every exchange of
two; three employees in a chain make the rotations, for which one edit is enough.

Symmetry is used only where it is sound: a run with a liveness property has none. `seat_requests`, `asset_aging`, `asset_ledger` and the runs of the front end do
not check deadlock: their requests, months or bounds on what a user does run out, and a user may stop.

### Fairness

`MCSeatRequests` assumes weak fairness of each request's steps: a PHP process with an
answer from the database goes on, and the database serves a request whose lock is
free and breaks a waiting circle. `Step(r)` includes the abort of a deadlock victim.
`AssetAging` assumes weak fairness of `CleanUp` alone: `routes/console.php` runs it every hour for ever. Requests
and the clock need none; `ExpiredGo` is about assets already past their deadline.
`QueryCache` assumes weak fairness of `ServerReads \/ FetchDone`: a request that was sent is answered or fails. The client sets no time limit, so this is the server's: PHP handles each request to its end, and the browser reports a connection that breaks. A page whose server hangs does wait.
The same holds of `Answers` in `AssetView`, the answers to updates and deletions with their callbacks. `DashboardCache` assumes weak fairness of each request's steps (`Serve`), of each change that has begun (`Proceed`) and of PostgreSQL's
deadlock detector, for the reason given for `MCSeatRequests`, and of time; of no `Ask` and no `Save`. That a request takes `RequestTime` at most is an assumption on the web server's limits, and the bound of `AnswersAreRecent` depends on it. No other
run assumes fairness; nothing promises that a user clicks or sends a request.

## 4. What is proved

For every value of the constants, with batches of any length:

* `TypeCorrect`: `Spec => []TypeOK`. Typing and referential integrity are one inductive
  invariant, `Sound`: integrity needs the types and the other way round, because an update of
  a function outside its domain changes nothing. Each table operator has a lemma that it keeps
  `Sound`; each request is one step of the proof.
  The theorems of `Workstations` are in `Transitions_proofs`, whose lemmas on the tables serve both.
* `SeatsStayListedHolds`, `NoDirectTakeoverHolds`: action properties, from `TypeOK` and one
  step per request.
* `TransitionsTypeCorrect`: the type invariant with an open transaction, whose tables
  are sound after every row.
* `BatchInvariantHolds`: the invariant of the row loop. `SeatsSoFar` says what each
  workstation holds after the rows up to `k`: the workstations filled hold an employee who was
  sent there, the others are untouched or vacated by a moved employee, and an employee who had a single
  seat has left it. It is not obvious that this is inductive: a row may release what looks like
  a filled seat. It does not, because the occupant of a filled seat is a finished employee and the rows are distinct,
  and this is where `DistinctRows` and the lookup in the row's own turn are needed.
  `PostsSoFar` and the pivot clause are its companions.
* `BatchesImplementSeatingPlan`: `TSpec => Plan!Spec`, with `db.employee_id` for the abstract
  seats. The abstract specification also has the response (`moved` and
  `new_workstation_id`), so a commit must give each employee the seat the response names. A commit is
  `Reseat` by `BatchInvariant`, every other batch step changes the response alone, and every request fills vacant seats or clears occupied ones.
* `BatchesKeepSeatsListed`, `ValidatedBatchesKeepPostsExclusive`: from `BatchInvariant` at the
  commit. The second takes as hypotheses that validation would still pass at the commit,
  that no two rows go to one post and that nobody shares a post before; the first hypothesis is what the window
  between validation and transaction can break, the last is needed because validation looks at one occupant of a post.

* `BuilderTypeCorrect`, `BuilderSendsBatches` (`Transitions_proofs`): page and server together keep their types, of which `BuilderTypeOK` is an inductive
  invariant that contains `TransitionsTypeOK`; and `BuilderSpec => TSpec`: every step of the page leaves the server alone or is a step of `Transitions` with the rows that
  were sent, so `BatchInvariant` holds of the batches the page sends.
* `EditsAreChangesHolds`: every edit is a series of calls of `HandleModify`, of which the last that leaves a modification has measured it against what the page shows
  (`Measured`); on current data that is what the validator measures against.
* `ChainsAreRotationsHolds`: the successor in the chain is a permutation of it, so the goals are the posts of the chain in another order (`RoundOfPlaces`). That the validator
  accepts every order of the rows needs that an order, which is onto, names nobody twice; that is a counting argument and uses `BatchesSuffice`.
* `OutcomeIsPreviewHolds`: from `BatchInvariant` and the invariant that the rows at work are those sent, with the preview taken of them (`PreviewInvariant`). On current data in which
  everybody has one seat, the seats the loop fills are the goals sent, and a seat it vacates is one whose occupant was not listed as staying.
* `ExchangesAreRoundsHolds`: no invariant, but the correctness of the algorithm in every state. `Walk` is a recursive function, so the proof first shows that there is one: its first n steps exist and are
  unique for every n (`StepsExist`, `StepsAreUnique`, by `SetInduction` on the set of the n for which it holds, the library's induction theorems being out of reach). A walk that returns to its employee is
  closed under successors and predecessors, hence a round, and a smaller round inside it would have to contain a successor of each of its members, hence all (`MetIsMinimal`). Conversely
  the successor stays in a round; by the pigeonhole principle a walk in it meets somebody twice, and since nobody is the successor of two it meets its start again within
  as many steps as there are employees (`RoundReturns`).

* `RequestsTypeCorrect`, `SeatedAreListedHolds`, `MovedHaveOneSeatHolds` (`SeatRequests_proofs`): any number of concurrent requests. The
  types rest on where a request is in its program (`AtStatement`). `SeatedAreListed` needs that each transaction's seats are among its own pivot rows and that an
  unassignment writes only the seat whose pivot row it removes. `MovedHaveOneSeat` is the lock discipline: a batch holds all its
  employees from before its first row to its commit, no two batches hold one, and whoever seats an employee that only batches move holds it (`WritersHold`).
  Hence what a transaction has looked up about its own employees stays true under the others' commits (`CommitSees`), and between the release of the old
  seat and the writing of the new one it sees no other (`RowIsUnseated`).
* `AgingTypeCorrect`, `StatusIsLoggedHolds`, `DeadlineOnlyWhileDefectiveHolds`, `OnlyMarkedAreDeletedHolds` (`AssetAging_proofs`): any number of assets and
  requests and any page size. The page of the clean-up is a set of ranks, and that it holds rows takes a counting argument (`RankOccurs`). `AgeingIsLogged` says
  that the automatic status is written only once it is logged; `CopyIsFresh` that a request alone on its asset has the row as it is; `Marked` that a deadline, wherever it is kept (row, model, page), is of a status logged as Defective.
* `LedgerTypeCorrect`, `ReturnIsLoggedHolds`, `ItemOrAssetHolds` (`AssetLedger_proofs`): any number of requests, assets, repairs and items, and workers that die
  anywhere. The types need what each statement relies on (`Typed`), that the foreign key of an open UPDATE still holds when it commits, since its lock keeps the workstation (`Fits`), and that a request's
  repair stays one of its asset (`OwnRepair`). `Considerate` says what no step does to another request: bring back its repair, or lose the log of an asset that keeps
  its repairs; so the movement that makes an asset Functional is still there when the repair is saved (`ReturnPromised`).
  A request that found no asset found a hidden one, which is hidden still or on which another request was at work (`HidesLess`, by `Alone`): that is the exception of `ReturnIsLogged`. For the items, that an unmarked one has one
  request at work on it at most, which finds no asset made of it yet (`ItemInv`).
* `PlaceIsKnownHolds`, `ReasonsAreOwnHolds` (`AssetLedger_proofs`): any number of requests, assets and workstations, movements in any number and any second. Both follow from `LedgerInv`.
  Its parts are that a request has no movement in the log before it writes one (`Unheard`), that a reason is written by a request's last statement (`ReasonsLate`), and an account of each
  asset at which requests did not meet and none died: at most one request is at work there (`Alone`); with no save under way the row has one place and the log agrees with it
  (`Settled`); and the request at work knows where the asset is: what it read is what the log says, the row is that or what it has put there, and if it is about to commit, its movements are the last
  of the log (`AtWork`), so that the latest movement, to which it adds its reason, is its own up to a second. Meeting and dying are what the
  exceptions of the two properties name; without them no such account exists, since two saves may log in the other order.
* `QueryTypeCorrect`, `MarkedAreFetchedHolds`, `CachedDataShowHolds`, `OwnWritesShowHolds` (`QueryCache_proofs`): any screens, visited in any order, and any number of mutations on their way; the run has
  one. The types need that mutations on their way have ids of their own and are not more than the bound, so that a new one finds a free id (pigeonhole). `MarkedAreFetched` is inductive
  itself. `CachedDataShow` follows from `ShapesStored`, that what is in the cache or on its way has the shape of a screen that was visited; `OwnWritesShow` from `WritesFollowed`, that
  after a write the data have read it, or a fetch will, or the mutation has still to invalidate. The theorems have as assumptions what they need of the screens, and TLC evaluates these
  on the application's 63 keys (`QueryScreens`).
* `CacheTypeCorrect`, `ChangesReachTheRowsHolds`, `AnswersAreRecentHolds` (`DashboardCache_proofs`): any number of requests, changes and saves of one
  transaction, and any times to live. For the first property, each old row and each old value that a request carries is either marked as raced or owed by a change that has
  yet to forget its key (`Owing`): a request that takes an old value from `statistics` does so while the change owes it, hence also `initial_data`, which is forgotten after it; and what a
  transaction has forgotten is held by it or exposed (`GoneAreHeld`). For the second, the age of a row and the time left to it together never grow (`Ages`), which bounds the age of
  what is found by the age at which it was put, and that by the row it came from and the time the request has spent.
* `PagesTypeCorrect`, `PagesWriteOwnForm`, `OneRecordPerFormHolds` (of `CatalogForms`, in `AssetForms_proofs`): any records, forms and requests. The first
  save property needs that the form on screen is about the record that the page has selected (`FormInv`), which the dialog of the repairs page could
  spoil; the second that of a guarded form's creates at most one is unanswered and that those answered were refused (`RecordInv`).
* `AssetFormsTypeCorrect`, `AssetFormsWriteOwnForm`, `AssetFormsOneRecord`, `SavesTouchOwnComponents` (`AssetForms_proofs`): the page with components
  keeps what `CatalogForms` guarantees, a step being one of its steps or none, and its saves touch their own asset's components only: from
  the ownership of ids (`OwnInv`), which survives overlapping saves because the server never gives an id twice.
* `ComponentsAreThoseShownHolds` (`AssetForms_proofs`): what the server has of a desktop when its update is sent. The invariant (`ShownInv`) follows a save that no other
  overlaps from round to round: before the deletion the asset has nothing but what goes and what stays (`InOrder`), after it nothing new, and after the posts
  one component for each new row (`AddedAll`, with `MadeShows`: ids given in the rows' order are as many as the rows), which no save under way can delete, since its list is older
  than the ids. The attempt refuted what the property said first, that another save of the same asset is the only disturbance: an
  early save of another desktop, clicked while the form still lists this one's components, deletes what this one has just posted. It takes three forms; TLC found it in 18
  steps on a larger instance than the run's, and `alone` now excludes such a save too.
* `ViewTypeCorrect`, `SavesOwnAssetHolds`, `SavesInTurnHolds`, `RepairsOwnAssetHolds`, `SelectedAreListedHolds` (`AssetView_proofs`): any assets and requests.
  The first save property from `FormIsOfTarget`, which a late `ComponentsCome` alone disturbs; the selection from an account of where every asset is that the
  list shows and the page no longer has (`ListedAreKnown`) and of every selected asset that is not on the page (`SelectedAreKnown`): an answer under way will take it out, or it is `unnoticed`.

Assumptions, each checked by TLC on the instances: `NullIsNoId`, `NullIsNoEmployee`, `NullIsNoValue`, `NullIsNoName`, `NullIsNoRow`, `NullIsNothing` and `NullIsNoModification` (SQL NULL, or an absent key, is no id, name, row or modification);
`NaNIsNoId` (what `parseInt('')` gives is no workstation); `MaxRowsPositive`, `Bounds`, `FormsAssumption`, `AssetFormsAssumption`, `ViewAssumption`, `CacheAssumption` (the bounds are numbers, which the
proofs do not restrict, and "none" is no record); `BatchesSuffice` (there are finitely many employees and a batch may have a row for each: the code sets no limit to a batch, so `MaxRows` is a bound of the model only);
`AssetsAreIds` (ids are numbers, as `chunk()` orders by them); `StatusNames` and `LedgerStatuses` (the names the code asks for are in its table); `TtlsArePositive` (times to live, and the time a request may take, are at least one tick);
and of `QueryScreens` `ScreensAreDistinct`, `ScreensAreTyped`, `ScreensShareShapes` and `WritesReachOwnPage`, which are facts of the application's tables: TLC evaluates them on `PageQueries`.

Proved and not run, as a theorem says it for every instance: `SeatsStayListed` of batches, `BuilderSendsBatches`, and the type invariants of `CatalogForms`, `AssetForms`, `AssetView`, `SeatRequests`, `AssetAging`, `DashboardCache`, `QueryCache` and
`TransitionBuilder`.

Only model-checked, for good: `EveryRequestEnds`, `ExpiredGo`, `WaitingEnds`, `PendingEnds`, `RowsBecomeTrue` and `EveryChangeEnds`, since the prover does not handle
liveness under fairness. Every invariant and every action property of the passing runs is a theorem.

## 5. What the code does differently from its documents

* `BranchTransitionRequest.php:87` says the destination must be "either vacant or part of a
  swap". Posts are not unique and the check looks at one occupant of possibly several, so a batch passes while a second one stays. `Passes` is written that way, and
  `BranchBatchKeepsPostsExclusive` starts from tables in which nobody shares a post.
* `WorkstationService.php:113` says the pivot entry is replaced; `syncWithoutDetaching` on the next line adds to it. The models have the pivot as the code writes it.
* `INTEGRATION_COMPLETE.md:236` says database locks prevent conflicts between concurrent
  transitions. The employees are locked, the workstations are not: a transition that read its
  old workstation before another one refilled it empties it (`seat_conflict`). Each step of the
  counterexample is a statement of `BranchTransitionService::execute`.
* `Asset.php:19` says that expired defective assets are excluded from queries. A status request that
  read the asset before another one marked it Defective overwrites the status and not the deadline,
  because the deadline in its model has not changed; the asset is then hidden, and deleted, as what it is not (`hidden_assets`).
* `DeleteDefectiveAssets.php` describes itself as deleting what has been Defective for a month. Its query
  keeps the scope that hides exactly those assets, so it deletes nothing; it is no action of the model, and the mutant
  `ToDeleteInScope` shows what the hourly command would lose if it were written that way.
* `EmployeeTransitionsPage/constants.js:76` says of employee mode "no branch change allowed". Only the select of the table keeps to it: a drop on the grid, the
  chain builder and the exchange form set the branch of the workstation in either mode, and the service checks none. The model has all four; no property states the comment.
* `AssetMovementController.php:140` says that the reason goes to "the movement created by observer". Where the save logs none, it goes to an older one: a transfer to an employee of an
  asset at a workstation saves nothing and answers success, an asset's first workstation is not logged (`isset()` of NULL), a status may be the one it was. Within a second it may go to a neighbour. `ReasonsAreOwn` excepts these cases.
* `AssetObserver::updated` and the deletion of a branch leave gaps in the log, so `PlaceIsKnown` says what the last movement is good for and not that there is one.
* `RepairController.php:302` says that a return sets the asset back to Functional. `$repair->asset` is subject to the scope that hides expired Defective assets: past the deadline it is null, the repair is saved as Returned without it, and
  `RepairObserver.php:164` then fails on the missing asset. The request answers 500, no movement is written, and the clean-up deletes the asset and the repair. `ReturnIsLogged` excepts the case, which TLC reaches within four steps.
* `PUT repairs/{id}` may set Returned and leave the asset as it is; only the workflow endpoint makes the asset Functional, whatever its status was and however many repairs are open. An item deployed twice, or by a worker that dies before the DELETE,
  is listed beside its asset or made into two (`ItemOrAsset` excepts this). `AssignToBranchRequest` asks for a row in `branches`, a table no migration creates, so the assignment of an item to a branch always fails and is no action.
* `DashboardCacheObserver.php:10` says the cache is cleared when data change. Inside a transaction it is cleared before they do: a row that is not there when its DELETE runs locks nothing, and a request that fills it before the commit stores the old
  figures for five minutes. This is the exception `raced` of `ChangesReachTheRows` (`Exposed`); what was being filled while it was forgotten is the other. `BaseCatalogController` forgets a second time after the commit and has only the other.
* `CacheApiResponse.php:35` tests for a row and reads it in another statement; when it expires in between, the answer is an error (`Take`). `:57` says that only successful responses are cached, but `getBranchStatistics` answers its
  failures as successes, which is not modelled.
* `api.php:236` gives the light endpoints 60 seconds for real-time data; most are made from rows that live 300, which also hold what no observer watches. `AnswersAreRecent` gives the bound that holds: the sum of the two times and of the requests that fill
  the rows. `WorkstationObserver.php:72` forgets `dashboard:branch_statistics`, a key that nobody writes; the other observer of workstations forgets those that are written.

The front end's properties hold with exceptions that are written into them, each a thing the code does:

* `Unreadable`: pages that store `response.data` and pages that store `response.data.data` share a key (`vendors`, `statuses`, `equipment`, `employees`,
  `workstations`, `asset-categories`, and others), so a page visited second finds a shape it does not unwrap and shows an empty list until the data are stale.
* `Unreached`: the three modals of an asset invalidate by its number where the page's keys have the string of the URL; a change of status leaves the asset's
  history alone; deleting or updating an asset of a workstation does not refetch the list on that page. `asset-categories` and `categories` are two keys of one
  table, and so are `employees` and `employees-all`; pages that only read the other one show old rows until these are stale.
* A create that succeeds late empties an edit form opened meanwhile (five pages), and the next save writes the blanks; the add form of the assets page opens with what the edit form held (`WritesOwnForm`).
* Saving a desktop is three rounds of requests and not atomic: a retry after a failure half way adds again what was added, or sticks at what was deleted (`ComponentsAreThoseShown`); a click
  on Update before the components have come saves those of the asset edited before (`ComponentsOfOwnAsset`, `early`), and
  may delete what another save is just adding. Deleting a desktop deletes its components first, and nothing restores them when the deletion of the asset is refused.
* On an employee's page the edit of a desktop clicked among the cards may arrive under the modal of the table, which then saves the desktop's values into its own asset (`overtaken`); a second repair timer swaps the asset under a filled form (`replaced`);
  only a successful deletion takes its asset from the selection, by the `deleteTarget` of that moment, and only a successful transfer empties it: an asset stays selected after it has gone from the list if the answer was lost,
  if another user deleted or moved it, or if the dialog was closed over its deletion, and so does one selected while it was listed beyond its end (`unnoticed`). The next bulk transfer names it; if it was deleted, validation refuses them all.
  A bulk transfer that failed for some of its assets answers success, and the page says that all were transferred.
* In the builder, the split panel shows the first of those who arrive or stay, so that somebody who stays may hide an arrival; a cleared workstation counts as staying even when the branch
  changes, and is sent as no workstation; exchanges are found by the post of the employee row while modifications start from the workstation's; two employees at one post who swap desks in branch mode are refused, since for the
  validator nothing changes. `OutcomeIsPreview`, `ExchangesAreRounds` and `EditsAreChanges` state the conditions under which page and server agree.

## 6. Not modelled

Audit log lines, names, `assigned_at`, `is_active`, search and formatting: no property is
about them. In `SeatRequests` the creation and deletion of rows. In `AssetAging` crashes between two
statements, deletions by users, two clean-ups at once, and the general asset update, which writes the status along with other columns. In
`CatalogForms` the statuses that the repairs page sets from a row without a dialog, the remarks dialog, inline editing and deletions, which touch no
form; the vendor and brand forms inside other forms. In `AssetView` the vendor form, component rows, codes and serial numbers. In `TransitionBuilder` search, paging and wording.

In `AssetLedger` the other columns of assets, repairs and items, the status New, which is `AssetAging`'s, a repair that changes its asset, codes, the deletion of
many assets at once, `removeAsset`, which nothing calls, and a crash within a deletion; the 400 of `returnAsset`, whose open transaction has only read.

In `DashboardCache` what the figures are, the browser's own cache (`cache.headers`), `DashboardController::clearCache`, which no route reaches, the limits and months that make keys of their own, and the years and months of the keys.

Back-end components that no module models, and `PROJECT.json` lists as such: depreciation, sign-in, codes, audit log, catalogues and reports.

Most of the front end is rendering: tables, cards, dialogs, charts, filters and exports whose state is what the user typed last, and
components that show what they are given (`ReportsPageV2`, `AuditLogsPage`, `SpecificationFields`, the dashboards). Their queries and mutations are in `PageQueries`; their
markup has no behaviour a model could check, so the map names a tenth of the front end's lines and not more. Not part of the running program, since no route
or component reaches them: `EquipmentAssignmentsTab`, `BranchTransitionModal`, `AssetComponentsSection`, `EmployeeListPage`, `DesktopComponentsPage`,
`WorkstationAssignmentModal`, `RepairSummaryCard`, `useRepairReminders`, `homepages.jsx`, `useCRUDPage` and the `useInitial*Legacy` hooks.

## 7. Plan

What a continuation would do next, in this order:

1. `SeatRequests` with workstations created inside a batch and deleted by others.
2. `Depreciation` as functions against a reference definition; asset components, which repeat the ledger's idiom.
