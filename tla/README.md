# Verification of the plant management system

TLA+ models, TLC runs and TLAPS proofs for the production management system of
this repository: a NestJS backend (`apps/backend`), a React frontend
(`apps/frontend`) and a PostgreSQL database reached through Prisma. Operators of
three sectors (manufacturing, laboratory, packaging) take production lots
through the tanks of several plants; planners keep two planning boards;
telemetry, history and administration surround them.

## 1. Inventory of the system

| Component | State | Operations | Hard behaviour | What makes it correct |
|---|---|---|---|---|
| Tank life cycle (`plant.service.ts` 1078-1896) | rows of Tank, ProductionLot, LaboratorySample, QualityDecision, PackagingOrder, TransferOperation, TankStateHistory, PlantAuditLog, Notification | sixteen operations, each one Serializable transaction guarded by the version and the state of the tank | operators with stale screens; rows of seven tables that must agree; long sequences of adjustments and orders; aborted and repeated requests | the rows tell one story; every visible change moves the version; finished lots stay as they are; the audit log replays the present; of the dialogs opened on a version one is carried out |
| Manufacturing board (131-377) | PlanningCard rows, a list per tank | create, update, move, delete; a manufacturing start consumes a card | positions are not constrained by the database; splice and shift arithmetic; page and service count places over different lists | every list is 0..n-1; a card lands where the planner dropped it |
| Packaging board (379-644) | PackagingPlanningCard rows, one queue of four places | create, update, move, delete; a packaging start consumes a card | limit; one card per tank; a check of the tank's state against a packaging start at the same time; one queue shown in two columns | 0..n-1, at most four, a tank once; no plan for a tank being filled |
| Operator screens (`PlantBoardPage.tsx`) | last answer of the poll, open dialog, configuration | poll every two seconds, open, confirm, close | a poll is several SQL statements, operations commit between them; the buttons are rules apart from those of the service | nobody overwrites what he has not seen; screens catch up; what is offered is accepted |
| Telemetry (877-1076, 41-84) | in-memory caches of weights and speeds | ingestion by plant or legacy route, reading with a 60 s timeout | late, repeated, skewed readings; batches accepted halfway or at once; restart | an older reading never hides a newer one |
| Daily management (2072-2453, 2778-2806) | DailyClosure rows, settings in JSON columns | report of a day, closure, targets | stamps taken before the commit; seven statements without a transaction; JSON columns read and written whole | the report of a past day is true; a closure is final; targets reach the new periods |
| Injection machines (`injection-machines.service.ts`, `injection-history.service.ts`) | last reading, technical cycle and line of states per machine, points in InfluxDB | receive, snapshot, line of the popup, pages of shots from CMS | overlapping requests, failed writes, restarts, repeated cycles | card and line agree; "persisted" is true; a cycle is one point |
| Integration inbox (`integration-inbox.service.ts`) | IntegrationInbox rows | receive | lost answers, repeated and concurrent batches | each event is kept once and counted once |
| Authentication (`auth.service.ts`, `login-lockout.ts`, guards) | failed attempts, lock, session version | login, me, change of password | concurrent attempts, restarts between the statements | a full counter is followed by the lock; revoked tokens stay out |
| Users (`users.service.ts`, `UsersPage.tsx`) | users, roles, plant accesses, audit entries | create, toggle, role, plants, password, remove; an edit dialog of up to four requests | read-then-write races; partial saves; stale lists | tokens match accounts; somebody can always administer; a save does what the form shows |
| Notifications (`notifications.service.ts`, `NotificationBell.tsx`) | Notification rows, the list and the known ids of a browser | notify, list, mark one, mark all, sound | late and cancelled answers, lists cut at the limit, a change of plant | the sector that must act is told, once |
| Audit queries, history (`audit.service.ts`, `plant.service.ts` 1898-1939, their pages) | pages kept by the browser | filter, next, previous, refresh, PDF | pages read one after another while rows come in | nothing that was there at the start is missed |
| Browser session, service worker, server clock (`session.ts`, `http.ts`, `sw.js`, `useServerTime.ts`) | stored token, caches, the offset of the clock | login, guard, 401, install, activate, take-over, synchronise | answers to earlier sessions, deployments under open windows, lost networks, slow answers | a page is shown to whom the server serves; the time shown is right within half a trip and a tick |
| Rate limiting, simulator, demonstration seeds, AI page, printing | one row, or none | - | - | not modelled (section 9) |

Operators reach the backend over HTTP; `JwtAuthGuard` and `RolesGuard` run before
the handlers; `assertPlantAccess` limits a user to the plants granted to him. The
handlers call one service and the services share the database. `PlantService`
calls `NotificationsService` inside its transactions. Nothing is pushed to the
browsers: screens poll. Industrial senders and Node-RED call routes of their own
with keys.

`PROJECT.json` lists the components, the hazards at their lines, and for every
definition the lines it stands for.

## 2. Modules

Plant and boards:

| Module | Models | Code |
|---|---|---|
| `CardOrder` | positions of the cards of a lane: sorted read, splice and renumbering, shift after a deletion | `plant.service.ts` 297-327, 356-360, 586-596, 2594-2618 |
| `ManufacturingBoard`, `PackagingBoard` | the rows of each board, four operations, the consumed card | 131-377, 1098-1118; 379-644, 1549-1560 |
| `Plant` (extends both boards) | the rows of a tank and of its lots, sixteen operations, the two boards side by side | 1078-1896, 2568-2776; `roles.guard.ts`; `notifications.service.ts` |
| `BatchLife`, `PlantBatches` | abstract: what the plant promises about a lot; the mapping from rows to its stages | - |
| `TankRegister`, `TankTransactions` | abstract: one winner for each version of a tank; the statements of the transactions that implement it, with locks, aborts, timeouts and repeated requests | 2620-2702; `PlantBoardPage.tsx`; `http.ts` |
| `PlantScreens` (extends `Plant`) | polls, screens and dialogs of the operators | `PlantBoardPage.tsx` 236-285, 373-705; `plant.service.ts` 755-875 |
| `PlantPages` (extends `Plant`) | the buttons each sector page offers against the checks of the service | `PlantBoardPage.tsx` 251-255, 419-697 |
| `PlanningScreens`, `PackagingPlanScreens` | the planners in front of the boards: drags, arrows, dialogs, the edit at the default isolation level | `PlanningBoardPage.tsx`, `PackagingPlanningBoard.tsx` |

Readings and events:

| Module | Models | Code |
|---|---|---|
| `Telemetry` | caches of weights and speeds, batches, restarts, the tank card | `plant.service.ts` 41-84, 786-1075 |
| `InjectionMachines` | batches, caches, points written while the request waits, answer, snapshot, restart | `injection-machines.service.ts`, `injection-history.service.ts` |
| `StateTimeline` | the line of states as a pure function of the stored points, beside a reference definition (`ColourAt`) | `injectionStateTimeline.ts` |
| `CmsShots` | the pages of shots of the current file | `injection-cms-history.service.ts`, `InjectionMachinesPage.tsx` |
| `EventLog`, `IntegrationInbox` | abstract: a log that keeps each event once; senders that repeat, a network that loses, the inbox | `integration-inbox.service.ts` and its controller |

Reports and settings:

| Module | Models | Code |
|---|---|---|
| `DailyManagement` | operations that stamp and commit, the statements of a report, closures | `plant.service.ts` 2072-2332, 2633-2702 |
| `StageTargets` | the two JSON columns, edits of targets and settings, the target and alarm of a period | 2343-2379, 2481-2492, 2787-2806; `companies.service.ts` |
| `ManagementScreen` | the page of a manager over plants and days | `PlantManagementPage.tsx`, `useActivePlant.ts` |
| `HistoryPages`, `AuditPages` | the history of states with its PDF; the audit log read by pages | `plant.service.ts` 1898-1939, `PlantHistoryPage.tsx`; `audit.service.ts`, `AuditPage.tsx` |
| `ServerTime` | the clock of the public screens | `useServerTime.ts` |

Access and browser:

| Module | Models | Code |
|---|---|---|
| `LoginLockout` | the statements of parallel logins on one account, restarts | `auth.service.ts` 26-179, `login-lockout.ts` |
| `Accounts` | requests of administrators in four steps, tokens, guards, audit entries | `users.service.ts`, `auth.service.ts`, `jwt-auth.guard.ts` |
| `UserEditing` | the edit and suspend dialogs | `UsersPage.tsx` |
| `BrowserSession` | storage, routes, requests in flight, answers that end the session | `session.ts`, `http.ts`, `ProtectedRoute.tsx`, `AppRouter.tsx` |
| `ServiceWorker` | deployments, installation, caches, windows, take-overs | `sw.js`, `registerServiceWorker.ts` |
| `NotificationBell` | list, markings, known ids and sound | `NotificationBell.tsx`, `notifications.service.ts` |

`MC*` modules hold the constants of the runs; `*Proofs` the theorems: `BoardProofs` of
the two boards; `PlantProofs` and `PlantPromisesProofs` of the plant, its lots and its
screens; `OperatorsProofs` of the transactions and the planners; `AccessProofs` of
lockout, accounts, edit dialog, session and service worker; `ReadingsProofs` of inbox,
weights, speeds, machines, their lines and shots; `ReportsProofs` of clock, days,
targets, manager, history and audit pages; `NotificationBellProofs` of the bell.

How state and actions correspond to the code:

- A table is a function from ids to rows, or, where only the rows of one lot or
  one tank are ever read together, a function from lots or tanks to sequences
  (`samples[l]` by iteration, `decisions[l]` by date, `openOrders[t]` the rows with
  `finishedAt` null, `openPeriods[t]` those with `endedAt` null).
- In `Plant` one operation is one action, because the code runs each in one
  transaction at the Serializable level. `TankTransactions` justifies it: there the
  statements of several requests interleave under the rules of the database (a
  snapshot at the first statement, a wait for the holder of the row, an abort when
  it changed), and the result implements one comparison and write per operation.
- Everywhere else an action is what runs between two awaits: a statement of a
  handler, the arrival of an answer, an effect of a page. A refused request is no
  step, unless its answer matters (logins, batches, dialogs).
- Names, weights, forms and reports are values of small sets. A time is a tick, an
  age or an error, whichever the code compares.
- External actors are actions without a source: the network that loses or delays,
  a restart, CMS that goes on adding shots, other users.

Operators commented "Mutant of ..." are plausible wrong versions of the definition
next to them; no behaviour uses them. `PROJECT.json` says which property each
breaks.

## 3. Runs

Several runs are sums: the MC module extends one component and instantiates the
others (`INSTANCE ... WITH`, several times with different bounds where one question
needs long lists and another many requests). A variable `part`, constant in a
behaviour, says which component the behaviour is of; the variables of the others
keep the value `Idle`. A sum has no interaction that its parts do not have; it
only puts independent state spaces side by side. Its composite properties
(`AccountsHold`, `DaysHold`, ...) are conjunctions of `part = ... => property`, and
each begins with the type invariant of the part.

| Run | Properties | Instance and bounds |
|---|---|---|
| `plant_planning` (`MCBoards`) | `ListsInSequence`, `RestKeepsOrder`, `QueueInSequence`, `QueueKeepsOrder` | 4 cards and 4 tanks for either board, a plan of 3 places: moves over several cards, between lists and in one, consumption in the middle, the limit |
| `plant_one_tank` (`MCPlant`) | `TypeOK`, `StateMatchesRecords`, `AuditReplays`, `NextSectorNotified`, `FinishedLotsAccounted`, `VisibleChangeBumpsVersion`, `FinishedLotsFrozen` | one packaging tank, 2 lots, `MaxVersion` 14: a lot packaged with an extra order and a second one through an adjustment |
| `plant_two_tanks` (`MCTwoTanks`) | `NoPlanWhileFilling`, `LotsLiveOnce` | a packaging and a transfer tank on both boards, 2 lots, `MaxVersion` 8, one manufacturing and two packaging cards: each tank may ship its lot and begin another while the other is anywhere |
| `plant_screens` (`MCPlantScreens`) | `ScreensFaithful`, `DecidedOnThePresent` | two operators who may do everything, one tank, `MaxVersion` 3: dialogs opened on different ages of the tank, polls torn at each of five tables |
| `plant_polling` (`MCPlantScreens`) | `ScreensCatchUp` under `PollFairness` | as above, `MaxVersion` 2, without symmetry, which liveness would not allow |
| `operators` (`MCOperators`) | `OneWinner`, `ImplementsRegister`, `OfferedIsAccepted`, `MovesLandAsMeant` | 3 dialogs and 3 requests on a tank; 4 cards in two columns; a queue of 3; the plan dialog with two tanks, and at the limit; a packaging and a transfer tank with three sectors, `MaxVersion` 7 |
| `access` (`MCAccess`) | `FullCounterLocks`, `AccountsHold`, `SavedAsShown`, `UntouchedKept`, `PagesAreServed`, `AnswersEndTheirOwnSession`, `WorkerHolds` | 3 parallel logins with limits 2 and 3 and one restart; two administrators with two requests at once, over states, passwords and plants; an edit of two groups of fields; one user with every role, suspended, promoted and made system owner, and two users that take turns on one browser with two requests in flight; two windows, two builds and two losses of the network |
| `readings` (`MCReadings`) | `NothingForgotten`, `LogImplemented`, `TelemetryHolds`, `MachinesHold`, `LineIsWhatWasHeard`, `ListWithoutHoles` | two senders with the same ids, and one with batches of two, two requests on the way; two senders of weights or speeds with late, skewed, unstamped and refused readings; five instances of the machines (stamps, failing writes, strangers, cycles over a restart, twelve beats); every set of points of a line over six instants; lists of nine rows |
| `reports` (`MCReports`) | `ShownAccurate`, `DaysHold`, `TargetsHold`, `PagesHold`, `NothingIsTakenBack` | trips of up to 3, synchronisation every 4, ticks every 2; a day of two instants reported, a day of one in which a lot passes the laboratory, a day of one closed by two managers; two administrators and two kinds of settings, periods that pass both levels of the alarm; a manager over two plants or two days; two tanks, five rows and pages of two; two and three audit events |
| `bell` (`NotificationBell`) | `BellHolds`, `ArrivalHeard` | two plants, a list cut at 2, 4 notifications, one change of plant and one marking |
| `plant_stale_plan` | `NoPlanOfEmptyTank`, violated: section 6 | one tank on both boards, one lot |
| `stage_targets_saved` | `SavedTargetsApply`, violated: section 6 | as `reports` |

Bounds are named constants and appear in guards only. `MaxVersion` bounds
`Tank.version`; the other counters of `Plant` grow only with it. Runs whose bounded
behaviours end (a version, a clock or a number of events reaches its bound) disable
the deadlock check; `plant_planning`, `plant_screens` and `plant_polling` keep it.
Limits of the code that are large (50 notifications, 50 shots, 1000 rows) are small
constants, reached in the runs; thresholds of time keep their proportions. Requests,
lots, contents, tanks or administrators that are interchangeable are a symmetry
where only safety is checked. Two of each actor suffice for the races the code is
open to, each of which is one read, a foreign write and one write; where a third
matters (a retry beside the two copies on the way) there are three.

The days run over three instances of `DailyManagement`. `MaxPeriods` bounds the periods
of a tank where an operation opens one (receiving and analysing a sample open none).
`Analysing` (5) takes a lot through the laboratory and out of the tank, before and after
the day ends; `Reporting` (4) takes it to the result at each of three instants, the last
one of the day among them; `Freezing` (3) to the analysis, under two managers. Reached in
them are settled reports with a sample awaiting receipt, received, in analysis and
resolved, and frozen closures with such figures after which the sample moves on.

## 4. Properties

Each property is stated and commented next to its definition. The main arguments:

- *Optimistic lock.* The version of a tank protects the rows of seven tables only
  if every operation that changes anything a screen shows also increments it
  (`VisibleChangeBumpsVersion`). Then a screen torn by operations between two
  statements of a poll shows an old version (`ScreensFaithful`), its request is
  refused, and each accepted one was decided on the present
  (`DecidedOnThePresent`). `OneWinner` and `ImplementsRegister` say the same of the
  statements inside the transactions, with requests repeated after a timeout.
- *Rows.* `StateMatchesRecords`, `AuditReplays`, `FinishedLotsAccounted` and
  `LotsLiveOnce` say that any sequence of such requests keeps the rows consistent
  and lets a lot leave only in a legal way.
- *Pages against service.* Rules written twice: places of cards
  (`MovesLandAsMeant`), buttons and selects (`OfferedIsAccepted`, with a way on for
  every lot), roles and the system owner's gate on the audit log (`PagesAreServed`: the
  browser goes by what the login stored, the server by the account).
- *Messages.* What occurred is stored once (`NothingForgotten`, `LogImplemented`);
  late and skewed readings do not hide newer ones (`TelemetryHolds`); the answers,
  the card and the line of a machine agree with the database (`MachinesHold`).
- *Reports.* A past day is reported as it was and agrees with the laboratory, and a
  settled closure stands (`DaysHold`); a closure, a target given to a period and a
  key nobody edited are not taken back, except, for the key, by an edit that read
  an older column (`NothingIsTakenBack`); pages read one after another miss nothing
  (`PagesHold`).
- *Access.* The counter is that of its window and its lock (`FullCounterLocks`,
  `AccountsHold`); tokens, log and accounts agree unless requests overlapped on the
  account; an answer to an old session does not end the new one.

`LineIsWhatWasHeard` checks a pure algorithm against a definition by instants.

## 5. Fairness

`plant_polling`: `refetchInterval: 2000` with `refetchIntervalInBackground` starts
another poll whether the last one was answered or not (weak fairness of `PollTanks`
and of each statement); an answer comes again and again if polls keep completing
(strong fairness of `PollAnswered`: not every answer is lost).

`bell`: weak fairness of the poll, which the interval repeats, and of the end of a
marking, which the client's timeout ensures; strong fairness of answer and delivery,
that is, not every one is lost. `ArrivalHeard` asks that an arrival for the plant on
the screen is heard, read or left behind by a change of plant.

Nothing is assumed of the operators. Other liveness properties are stated in the
modules with the fairness they need and are not among the runs: `ClosureSeen`
(`ManagementScreen`), `EveryRequestEnds` (`TankTransactions`), `LockEnds`
(`LoginLockout`), `AllKept` (`IntegrationInbox`), `RedirectsSettle` and
`DeadSessionLeaves` (`BrowserSession`).

## 6. Findings

`NoPlanOfEmptyTank`: the service refuses to plan an empty tank ("Los tanques vacíos
o fuera de servicio no se pueden planificar para envasado"), and a test repeats
it. A tank in APROBADO, LABORATORIO or RECHAZADO can be planned; if its lot is
rejected and the tank emptied (`emptyRejected`), the card stays. The plan then
names an empty tank and the next lot of that tank inherits the card.

`SavedTargetsApply`: `updateTargets` saves the targets of a plant under
`stageTargetsMinutes`, the key the form and the configuration read;
`targetSeconds`, which gives every new period its target, reads only
`plantStageTargetsMinutes`. A saved target changes the form and nothing else.

## 7. Other disagreements met while modelling

Stated as properties in the modules; each is violated on an instance of its module
in which the case happens. They are outside the runs, which keep one violation per
board or setting that users see most. Paths are relative to `src`; `plant/` stands for
`apps/backend/src/modules/plant`, `notes/` for `docs/releases/RELEASE_NOTES_`.

| Property | What the code does | What is said of it |
|---|---|---|
| `Telemetry!SilentAfterTenSeconds` | the signal times out after 60 s (`plant/plant.service.ts:45`) | 10 s (`docs/OPERACION_PLANTA.md:72`) |
| `InjectionMachines!ChangeIsWritten` | `lastState` is set when a write is answered: AUTO, STOP, AUTO over a slow write loses the return (`plant/injection-history.service.ts:37`) | a point at each change (`docs/INTEGRACION_ENVASES_WOOJIN.md:82`) |
| `InjectionMachines!CommunicationAdvances` | the time of the batch is taken before the writes and stored after them: a slow request puts it back (`plant/injection-machines.service.ts:175`) | a valid batch updates the last communication (same, 78) |
| `InjectionMachines!OfferedCycleIsStored` | the cycle is kept in memory before its write is tried: after a failure it counts as unchanged (`plant/injection-machines.service.ts:130`) | a point per attributed shot (same, 94) |
| `CmsShots!EndMeansAll` | a page that fails is taken for the end of the list (`plant/injection-cms-history.service.ts:133`) | earlier records are loaded with `before` (same, 84) |
| `CmsShots!ListOfOneFile` | each page takes the file current at that moment (`plant/injection-machines.service.ts:283`) | an exact match of one file (same, 84) |
| `LoginLockout!FailuresKept` | an attempt that read an expired lock clears the counter whatever it holds by then (`apps/backend/src/modules/auth/auth.service.ts:77`) | failures short of the limit are kept (same, 75-76) |
| `UserEditing!ToggleAsAnnounced` | the server inverts what the row holds, the dialog announces what the list showed (`apps/backend/src/modules/users/users.service.ts:244`) | "¿Suspender a ...?" (`apps/frontend/src/features/users/UsersPage.tsx:731`) |
| `BrowserSession!LiveSessionsLast` | a failed query in the guard (`apps/backend/src/common/auth/jwt-auth.guard.ts:64`) and a missing transfer permission (`plant/plant.service.ts:1750`) answer 401, at which the browser drops its session (`apps/frontend/src/shared/api/http.ts:29`) | the guard accepts an active user (`jwt-auth.guard.spec.ts:23`) |
| `ServiceWorker!ReloadedWhenFrontendChanges` | the update compares `sw.js` only, which no build changes (`apps/frontend/src/pwa/registerServiceWorker.ts:20`) | reload when the frontend changes (`notes/V0.0.20.md:34`) |
| `ServiceWorker!ShellOrOfflinePage` | the index is kept without its bundles (`apps/frontend/public/sw.js:49`): offline after a deployment the page is blank | the shell or the offline page (`docs/PWA.md:16`) |
| `NotificationBell!AllMarksTheVisible` | everything unread at that moment is marked (`apps/backend/src/modules/notifications/notifications.service.ts:33`) | the visible ones (`notes/V0.0.16.md:19`) |
| `NotificationBell!SoundIsForTheNew` | the known ids are not renewed with the plant: the first list of another plant sounds (`apps/frontend/src/shared/components/NotificationBell.tsx:152`) | sound for what arrives while open (`notes/V0.0.16.md:23`) |
| `AuditPages!WalkSurvivesCommits` | rows and counts are separate statements (`apps/backend/src/modules/audit/audit.service.ts:146`) | one chronological list with its count (`notes/V0.0.30.md:24-25`) |
| `AuditPages!WalkSurvivesKept` | refresh reads one page, the others stay as kept (`apps/frontend/src/features/audit/AuditPage.tsx:342`) | one chronological list (`notes/V0.0.27.md:29`) |
| `HistoryPages!AdjustmentsCountedOnce`, `ScreenCountsAdjustments` | pages by offset over rows newest first repeat a row when a state begins between them (`apps/frontend/src/features/plant/PlantHistoryPage.tsx:278`); the screen counts in its first 1000 rows (218) | the number of adjustments per order (`notes/V0.0.35.md:18`) |
| `HistoryPages!ReportOfChosenState` | FUERA DE SERVICIO is sent without underscores and ignored (373) | the states of the filter (`notes/V0.0.39.md:12`) |
| `TankTransactions!LoserGetsConflict` | the second of two overlapping transactions is aborted before the comparison and answered 500 (`plant/plant.service.ts:2649`) | 409 Conflict (`docs/OPERACION_PLANTA.md:32`) |
| `PlanningScreens!EditsLogWhatTheyReplace` | two edits at the default isolation level read the same row, the second audit row gives a stale "before" (`plant/plant.service.ts:243`) | changes with the value before and after (`docs/data-model.md:18`) |
| `PlantPages!TransferPlantsOfferTransfer`, `ButtonsAreForTheAccount` | before the configuration arrives a transfer plant offers packaging (`apps/frontend/src/features/plant/PlantBoardPage.tsx:457`); transfer is offered without `canTransfer` (461) | `docs/MANUAL_USUARIO_ENVASADO.md:144`; `docs/MANUAL_USUARIO_ADMINISTRADOR.md:132` |
| `ManagementScreen!TargetsOfThePlant` | the dialog of targets opens with the constants, or another plant's, and saves them to this one (`apps/frontend/src/features/plant/PlantManagementPage.tsx:294`) | screens respect the active plant (`notes/V0.0.18.md:16`) |
| `ManagementScreen!ClosedAsReviewed` | the closure goes to the plant in the URL, which "back" changes under the dialog (182) | review, then close (`docs/MANUAL_USUARIO_ADMINISTRADOR.md:178-183`) |

## 8. Proofs

All tanks, lots, cards, users, requests, limits and bounds are arbitrary; the
assumptions are the named ASSUMEs of the modules (finite sets of ids disjoint from
the null values, numbers that are naturals, and what the constants are in the code).
`BoardProofs`, `PlantProofs`, `PlantPromisesProofs` and `NotificationBellProofs` are
about the module they extend. The other four each hold several components side by
side: the first one extended, the rest as named instances (`A == INSTANCE Accounts`), whose
assumptions are then hypotheses of the theorem (`A!AccountsAssumption => (A!Spec =>
...)`). The instances that the runs check satisfy them: the MC modules assert that
(`InstancesAreLegal`). Five theorems carry a hypothesis of their own where the property
is false without it: `PromptWithoutStamp`, `OneAtATime`, `SteadyReports`, `SteadyFile`,
`PagesSuffice`.

*Boards* (`BoardProofs`). What the operators on positions do for any finite lane:
`Rank` is the position in a numbered lane, renumbering by rank or by splice leaves a
numbered lane, neither changes the order of the others. From them `BoardInSequence`,
`BoardKeepsOrder`, `PlanInSequence`, `PlanKeepsOrder`; the inductive invariants
`BoardInv`, `PackInv` are the types with the numbering of the lists.

*Plant* (`PlantProofs`). `PlantTypes`, `RecordsMatchState`, `BoardsInSequence`,
`FinishedStaysFrozen`, `VersionTellsChanges`, `SectorNotified`, `FillingIsNotPlanned`.
The invariant `PlantInv` adds to the types and `StateMatchesRecords` that a lot not
started has no rows (`FreshLots`: without it a start could meet samples of nobody) and
that both boards are in sequence. The argument is locality: an operation writes one
tank and one lot, the one in it or one not started (`Local`, `LocalTo`); no two tanks
hold the same lot, so the rows of the others stay (`OthersMatch`), and each operation
has a lemma on the rows of its tank (`...KeepsRows`), over three for those that keep
the state (`BumpKeepsRows`), move it (`MoveKeepsRows`) or end the lot
(`LeaveKeepsRows`).

*What the plant promises* (`PlantPromisesProofs`), over `PlantInv`:

- `AuditTellsThePresent`: the last rows of the log on a tank are its state, order,
  packaging and decision. The model keeps the last row of each kind, which is all a
  replay uses, so no induction over the log is needed.
- `EndedLotsAreAccounted`: a lot that ended was rejected and thrown away or approved and
  closed once. `LotsInv` adds `OpenLotsCounted`: the lot in a tank was not closed yet.
- `LotsLiveTheirLife`: the refinement of `BatchLife`. `Passage` sorts the operations by
  what they do to the stage of a lot (`Loads`, `Rests`, `GoesOn`, `Leaves`,
  `OpensOrCloses`); each maps to one abstract step or a stutter, and the other lots
  and tanks stay at their stages.
- `ScreensRunThePlant`: `PlantScreens` implements `Plant`, so all of the above holds with
  screens in front. `ScreensShowNoMixture` and `NoBlindOverwrite` are about them: what a
  poll has read of a tank (`PollsTrue`), a screen (`ScreensTrue`) and a dialog
  (`DialogsTrue`) show the present wherever they hold the present version, although
  tables are read one after another while operations commit (`TruthKept`: a change of
  what is shown takes a version that nobody has seen).

*Operators* (`OperatorsProofs`). Transactions: `TankHasOneWinner`, `AnswersStayTrue` and
`TransactionsImplementRegister`, a refinement: the commit is the abstract acceptance,
every other statement a stutter. The invariant ties each snapshot to the version it may
still win (`SeenInv`), each request to its dialog (`RequestInv`), each waiting
transaction to the holder of the row (`WaitingInv`) and each answer to the winner it
speaks of (`AnswerInv`). That equal versions mean equal states, which the model of
transactions uses, is `VersionTellsChanges`. Planners: `MovesLandWhereDropped`,
`MovesLandInQueue`, `OfferedTanksAreAccepted`. A request sent from an up-to-date board
says which place it means (`Meant`, `MeantInQueue`); page and service count places over
lists that differ by the card on its way, and the proof shows the two counts agree. A
tank offered stays acceptable until somebody else touches the board (`OfferedInv`).

*Access* (`AccessProofs`).

- Lockout: `LockoutTypes`, `FullCounterIsLocked` (a counter at the limit has a lock, or
  an attempt or a restart between the two statements), `CounterIsOfThisWindow`.
- Accounts: `TokensAreOfTheAccount`, `AnAdministratorStays`, `AccountsAreLogged`,
  `PlantsAreThoseAsked`. A token of the present version has the present password and
  role (`TokensInv`); a request that creates an account is alone on it
  (`CreatesAlone`); a removal about to be written has its entry (`RemoveInv`). That
  somebody can always administer needs one system owner, which is what
  `prisma/system-owner.ts`, run for one account, leaves (`OwnerInv`: no request on the
  owner can take him away); two could suspend each other.
  Log and plants are proved of the accounts on which no two requests overlapped and none
  died halfway (`AccountsInv`, outside `mixed`): for the others they are false.
- Browser: `PagesAskWhatIsServed`, `SessionsEndByTheirAnswers`: only the page and the
  session that sent a request still wait for its answer (`PageInv`), because whatever ends
  or changes a session leaves the page. While a session is accepted its account has the
  role and the ownership it was given at the login, or has been made the system owner
  since, whom both gates let pass (`StoreOK`, `FlightOK`).
- Service worker: `WorkerKeepsItsWindows`: the worker in control has its cache and a cache
  holds no more than was published (`CacheInv`); a window that is settled, or will be
  once loaded, is not behind (`WindowInv`).
- Edit dialog: `SavedIsShown`, `SavesWriteWhatWasTyped`: what differs between form and row
  was typed or foreign (`FormIsExplained`); what is not in the chain of requests still
  to send is as in the form (`SaveInv`).

*Readings* (`ReadingsProofs`).

- Inbox: `NoEventIsForgotten` and the refinement `InboxImplementsLog`. The invariant says
  where an event can be: in the buffer (`BufferInv`), in a request (`RequestInv`),
  confirmed by an answer only if stored (`AnswerInv`), in the inbox only if it occurred
  (`InboxInv`).
- Weights: `WeightsAreKept`, `NewestIsShown`. `ReadingsInv` follows a batch between its
  readings and what the cache has of the ones it passed. The second needs that a
  reading without a stamp is sent within the allowed skew (`PromptWithoutStamp`), since
  the service then stamps it on arrival.
- Speeds: `SpeedsAreOfTheOrder`: every cached speed with a stamp was measured no earlier
  than the order it is shown for began, up to the skew. The loop over a batch is a
  recursive function (`AfterSpeeds`); that no place of a batch breaks the invariant
  (`SpeedsInv`) is shown by the least place that would (`NoLeastFailure`).
- Machines: `PersistedIsTrue`: a result counts as stored only with all its lines in the
  database (`ResultOK`), whatever else fails; a cycle stands in the series at its own
  instant (`SeriesOK`), so a second write of it is the same point.
- Line of states, the algorithm: `LineTellsWhatWasHeard`: for any finite set of readings
  of different instants, any gap and any window, the segments fill the window, two that
  touch differ, and each instant has the colour of the newest reading (`ColourAt`). The
  order of the points is their rank, and the invariant of the loop (`DoneOK`) says what
  the segments made so far cover.
- Line and card: `CardIsOfTheLine` under `OneAtATime`: requests come one at a time, no
  write fails, no restart, and a beat and a reading in force fit in the gap. What is in
  force and remembered as stored is stored, or is on its way (`CardInv`). With requests at
  once it is false (`ChangeIsWritten` of section 7).
- Line without holes: `LineHasNoHole` under `SteadyReports`: requests come one at a time,
  readings in AUTO or STOP and in force come every `Period` or sooner, no restart, and
  `Heartbeat + Period * (MaxFailures + 1) < Gap`. With the code's 30 and 90 seconds and a
  reading every ten, a machine may fail to be written four times in a row. `BeatInv`
  says that each point is followed by another within the gap, or that the newest reading
  is no more than a beat and a period per failure later (`Linked`). TLC shows that a
  gap of just that sum is too short. It also shows a hole with two machines and one
  failure in a row: `MaxFailures` counts over all machines, so a success of one lets
  another fail again; hence the theorem admits failures with a single machine only.
- Shots: `PagesGoDown` for any changes of file and failures (`Descends`: a later page is
  below the cursor of an earlier one). `ListsHaveNoHoles` under `SteadyFile`: the machine
  keeps its file, readings come through, and a reading holds more rows than a page of
  shots with all their copies, which the code's 151 and 50 satisfy up to three copies.
  Without the first two it is false (`EndMeansAll`, `ListOfOneFile` of section 7).

*Reports* (`ReportsProofs`).

- Clock: `TimeTypes`, `AnchorIsAccurate`, `ShownIsAccurate`, `OldIsNotShown`: the time shown
  is off by at most half a trip and a tick. The anchor is right (`AnchorAccurate`), what
  is shown was computed from it within a tick (`ShownTied`) and the effect running is
  the one the anchor is of (`AnchorOfEffect`).
- Days: `PastIsTold`: once a day is over on a tank with no operation in progress, every
  later row has a later stamp, so the rows keep telling how the day ended (`EndedAs`,
  `TankOf`), also to a report that reads its parts one by one (`TellsDay`).
  `ClosuresStay`.
- Laboratory: `LaboratoryAgrees`: in the report of a settled day the samples awaiting
  receipt, waiting and in analysis are as many as the tanks that were in LABORATORIO. A
  tank that no operation crossed had one open sample or none when the day ended, its
  stamps in order (`LabInv`); counts over tanks are cardinalities, so they are those of
  the tanks one by one.
- Closures: `SettledClosuresStand`: a closure made once the day was over and settled has the
  states, counts and times that every later report has. The rows of such a day only grow
  by stamps after it, which the day cannot tell from none (`ClosureInv`).
- Targets: `FormIsOfTheSaved`, `EditsKeepOthers` over `SettingsInv` (what a dialog read
  of a column and what was saved since).
- Manager: `CalledClosedIsClosed`: an answer is kept under the plant and day it was asked
  for (`ReportsTrue`).
- History: `ReportIsWhole`. What the pages read so far hold of the rows of the beginning is
  a prefix by place (`ReadSoFar`), because rows that begin meanwhile come first and only
  push others down. It assumes that a page is longer than the tanks are many or that no
  day to come is asked for (`PagesSuffice`; the code's page is a thousand rows): an open
  period counts for a day to come until it ends, one per tank.
- Audit log: `AuditPagesAreRight`, `AuditWalksAreComplete`. Merging the first
  `page * Limit` rows of each log and cutting gives the page of both logs
  (`MergedPageIsRight`: no row before the cut is missing from its own log's prefix). An
  event of the start not seen yet lies past all the pages read (`Reached`), since what
  is committed later can only push it further (newest first) or leave it (oldest
  first); at the last page there is no such place left.

Of the composite properties of section 3 the theorems cover, for all values of the
constants: of `AccountsHold`, `WorkerHolds`, `PagesAreServed`, `SavedAsShown`,
`DaysHold`, `TargetsHold`, `PagesHold`, `ListWithoutHoles`, `TelemetryHolds`,
`MachinesHold` and `OfferedIsAccepted` every conjunct but the type invariants of most
instantiated components (lockout, clock and the edit dialog have theirs proved, the last
in `EditingInv`) and what is listed next; `LineIsWhatWasHeard`, `UntouchedKept`,
`AnswersEndTheirOwnSession`, `NothingIsTakenBack` and `MovesLandAsMeant` whole. Induction
over numbers and over the places of a sequence is done by a least counterexample, which
needs no induction theorem.

Model-checked only:

- liveness (`ScreensCatchUp`, `ArrivalHeard`) and what speaks of ENABLED
  (`OfferedIsAccepted` and `SomebodyLeadsOn` of `PlantPages`);
- the type invariants of the instantiated components other than those three, of which the
  inductive invariants state what the arguments need;
- the two violations of section 6.

## 9. Not modelled, and why

- Rate limiting: a counter per client in memory that nothing else reads.
- The Node-RED simulator, migrations and seeds of demonstration data: outside the
  application at work. The tanks and periods of `seed.ts` are initial states.
- The AI page, printing, layout of PDF and CSV, averages and charts, the traceability
  dialog, the television page: they compute on what a query returned and keep no
  state that others read.
- The weight history in InfluxDB, photographs, name searches, the audit export:
  single queries.
- Hashing and signing are sound by assumption. Payloads (weights, forms, names) are
  values of small sets; wording is left out.
- The pages that are modelled are modelled by what they read, keep, offer and send.

## 10. Plan

1. The type invariants of the instantiated components as theorems of their own.
2. The liveness properties of section 5 that are not among the runs, on instances of
   their own.
3. The traceability dialog and the averages, as pure functions beside reference
   definitions.
