# DoUpRo: TLA+ models, checks and proofs

DoUpRo is a daemon that updates Docker containers in place, rolls them back,
watches them for crashes after an update, runs update schedules and sends
notifications; its web interface is server-rendered pages with a few scripts.
This directory models the parts where the order of steps matters: what happens
when an operation, a sweep, a schedule, the crash monitor, a self-update, a
failing call, a deadline and a death of the daemon meet, and what the pages do
while tabs, requests and answers overlap. TLC checks small
instances of each module, TLAPS proves the safety properties of all but one module
for every size.

Run a configuration with `tlc -config X.cfg M`, the proofs with
`tlapm MProofs.tla`. `PROJECT.json` lists the runs, the source lines every
definition stands for, one mutant per checked property (an operator defined just
above the definition it replaces, marked "Mutant" in the modules), the hazards
the properties answer to, and the theorems.

## 1. Inventory

| component (source) | state | operations | interacts with |
|---|---|---|---|
| operation guard (`updater/operations.go`) | `active` map, `maintenance` flag, one mutex | begin/end by key, open/close maintenance | every Update, Rollback and self-update |
| updater (`updater/updater.go`, `recreate.go`) | none of its own; snapshot of the container during a call | Update, Rollback, recreate, revert, failBeforeRemoval | Docker, containers table, watches, events; called by API, schedules, monitor |
| self-update (`updater/self_update.go`) | a helper container, a recovery name | StartSelfUpdate, RunSelfUpdateHelper | closes the guard's gate, asks the scheduler for blockers, ends the process; the helper and Docker's restart policy go on without it |
| crash-loop monitor (`crashloop/monitor.go`, `store/crashloop.go`) | `rollback_watches` row per name; event stream position | arm, count, trigger, expire, reconcile, recover, rollback goroutines | Docker events and restart counters, Updater.Rollback |
| discovery sweep (`scheduler/check.go`) | list taken from Docker | list, upsert, prune, check each | containers table, registry, event log |
| scheduler (`scheduler/scheduler.go`, `store/schedules.go`) | `schedules` table, ticking flag | due once/cron schedules, relative policies, blockers | Updater.Update |
| containers table (`store/store.go`) | row per container ID | upsert, prune, replace, set availability, repair reference | updater and sweep write the same rows |
| notification queue and notifier (`store/notification_queue.go`, `notifier/notifier.go`) | `notification_queue` rows with lease, attempts, next attempt | enqueue, claim, complete, fail, retry, deliver | events enqueue, one worker delivers |
| Docker client (`docker/docker.go`) | the Engine's | pull, stop, remove, create, start, inspect, wait healthy, events | everything above |
| accounts (`auth`, `store/auth.go`, `api/users.go`) | users, sessions, tokens | sign in, change, delete | API |
| page preferences (`web/static/theme.js`, `sidebar.js`, `stacks.js`) | `localStorage`, a copy per document | load, toggle theme, sidebar and stacks, filter | tabs share the storage |
| page actions (`web/static/stacks.js`, `csrf.js`, `containers.html`) | buttons, spinners, the reload timer | Update, Rollback, Update all | API, session cookies |
| combobox (`web/static/combobox.js`) | input, hidden CSV field, chips, panel | type, move, pick, remove, focus | forms of schedules, settings, notifications |
| registry, OIDC, secrets, settings, events, metrics, CLI | tables of settings; otherwise stateless | single calls | API |

What is hard in this code, and what makes each part correct:

* **Recreation is a sequence of irreversible Docker calls.** Any of them may
  fail, an error does not mean that Docker has not acted, and one deadline covers
  the operation and its revert. Correct: the container is never lost in silence, a
  failure before the removal leaves the original, as far as the errors told the
  truth; the row describes what is on the host, "previous" is the image that
  was really replaced.
* **The sweep and the updater write the same rows without a common lock**, each
  from a list or snapshot that may be stale. Correct: the table converges to the
  host, tags are not lost to digests for good, rollback targets survive.
* **The guard** must give every key back on every path and never let two
  operations share one, and maintenance must exclude both.
* **Crash counting** merges two unreliable signals, an event stream that loses
  and repeats and a counter that is polled, into one durable row while operators
  replace the container; most of its statements have their errors ignored.
  Correct: one rollback per trigger, never repeated once committed, and neither a
  rollback nor a crash lost except by such a statement.
* **The queue** is at-least-once. Correct: nothing is lost, duplicates and extra
  attempts have a cause, every message settles.
* **The scheduler** acts on lists it has read, while operators edit the same rows,
  run operations of their own and start self-updates. Correct: one-off schedules
  run once, a refusal because of maintenance does not use them up (an update that
  fails in its lookup or meets a busy container is an attempt and does), retries keep their distance, and every
  due schedule gets its turn.
* **A self-update** is carried out by a helper that nothing synchronises with the
  daemon it replaces, nor with another helper. Correct, while one helper works at
  a time: never two daemons, the original is kept until the replacement is
  healthy, and in the end some daemon runs.
* **The pages** keep copies: of storage, of the token, of option lists, of what
  the server offered; a batch trusts flags of rows that every operation replaces.
  Correct: what is shown is what is stored or submitted, errors do not look like
  success, no button spins for ever, a batch stays in its bounds.
* **The daemon may die at any step**; Docker, the registry and SQLite survive.

## 2. Modules

| module | models | used by |
|---|---|---|
| `OperationGuard` | the guard; the abstract specification that `Updater` implements | refinement in `Updater`; extended by `Schedules` |
| `OperationGuardProofs` | its theorems | |
| `ContainerStore` | image references and the SQL of the containers table, as operators on the table | `Updater` |
| `Updater` | Update and Rollback against Docker, store, sweep, registry, deadlines and deaths | `MCUpdater`, `UpdaterProofs` |
| `MCUpdater` | `Updater` with the symmetry of its workers | runs `updater_*` |
| `UpdaterProofs` | its theorems | |
| `CrashLoop` | monitor, watch row, rollback goroutines, operator, self-update gate, restarts | run `crashloop` |
| `CrashLoopProofs` | its theorems | |
| `NotificationQueue` | the queue table and the delivery worker | run `notification_queue` |
| `NotificationQueueProofs` | its theorems | |
| `Schedules`, `MCSchedules` | scheduler, schedules and candidates tables, schedule requests, blockers; composed with the guard | run `schedules` |
| `SchedulesProofs` | its theorems, on top of the guard's | |
| `SelfUpdate`, `MCSelfUpdate` | daemon, helper, Docker's containers and restart policy | run `self_update` |
| `SelfUpdateProofs` | its theorems | |
| `PagePreferences`, `MCPagePreferences` | tabs over one `localStorage` | run `page_preferences` |
| `PagePreferencesProofs` | its theorems | |
| `PageActions`, `MCPageActions` | the buttons of the Containers page, sessions, the handlers behind them | runs `page_actions`, `page_ungrouped` |
| `PageActionsProofs` | its theorems | |
| `Combobox`, `MCCombobox` | the searchable dropdown | run `combobox` |

**OperationGuard.** `active` and `maintenance` are the fields of
`operationGuard`; `held` and `maintainer` say what each goroutine was granted.
`begin`, `end`, `beginMaintenance`, `endMaintenance` are the methods, each one
critical section of the mutex. `Restart` loses everything.

**Updater.** `op[w]` is a call in progress, with a program counter: every Docker
call and every store transaction is one step, and the code between two of them
belongs to the earlier one. `recreate()` is shared by the operation
(`phase = "do"`) and its revert, as in the code; `RecreateError` is the choice
between failBeforeRemoval, revert and the failed revert. A call succeeds if the
host allows it and the context is alive; otherwise, or at the price of one of
`MaxFaults`, it fails. A stop or a removal that fails may have been carried out
all the same (the deadline struck, or the answer was lost, after Docker acted):
`recreate()` then reads the error as "not done", and `torn` records the calls whose
effect the operation answers with nothing but its failure. The other calls have no
effect when they fail. Docker's `create` resolves a reference
among the images already on the host, `pull` moves a tag to what the registry
has: that is where a floating tag changes meaning. `sweep` is one
`scheduler.Check`: a list, an upsert per container, the prune, a check per
container, each a step of its own between those of the operations. The log of
events is reduced to the reference `RecoverImageReference` would find. `logger.Emit`
drops the error of its insert and runs under the operation's context: the started
event is lost once the context has expired, and before that for up to `MaxUnlogged`
names (`unlogged`). `retired`, `reported`, `torn`, `unlogged` and a container's `by`
are history.

**CrashLoop.** One name, since every statement on `rollback_watches` is by name.
The monitor's reconcile is five steps (expire, list, inspect, record, set), the
rollback goroutine is lookup, begin, replace, commit or failure, complete. An
operation's Docker calls are one step here; `Updater` has them apart; what it then
reads of the new container (`operRead`) may be out of date when it commits. Every
statement and lookup of the monitor and its goroutines may fail, at most
`MaxFaults` times with the losses of the stream, and what the code does then is an
action of its own: the recovery at the start gives up (`recoverFails`), the
reconcile goes on with a missed expiry, skips what it cannot list or inspect
(`readingFails`), stores the counter it failed to count (`recordFails`), the
goroutine's watch stays triggered (`completeFails`), an update of a stopped container
keeps the old watch (`notRunningFails`), a revert is not recorded. A commit that
fails is the revert; a failed statement has no effect. `dropped` and `watch.missed`
are the history of what such a failure loses. The event
stream may end, lose events and replay them from where the code asks
(`Since`). The clock advances with exits and reconciles and orders them.

**NotificationQueue.** Times are countdowns, so that the state space is finite
without a bound on the clock; the order of `next_attempt_at`, by which claims are
chosen, is kept in `before`. A send may succeed, fail, be accepted by the provider and
still return an error (`belied`), or outlive its timeout and succeed later. `lost`
counts claims whose outcome never reached the row, a claimed row that could not be
read among them; a row that can never be decrypted again is not modelled.

**Schedules.** `EXTENDS OperationGuard`: `begin` and `end` of the tick's and a
user's update, and the gate of a self-update, are the guard's own actions, so its
gate is checked here in composition. `tick` is the goroutine of `runTick`
with the lists it has read; looking up, beginning, ending and recording are
separate steps, and `Expire` is the tick timeout, after which even the recording
fails; `MarkFails` is the recording failing alone, after which the tick goes on. `handleUpdateSchedule` is two steps, as it is two statements. One
candidate per container carries `detected_at`. `fires`, `tried` and `cut` are
history.

**SelfUpdate.** `box` is Docker's view, `daemon` the process in each container,
`helper` the helper's program counter: one action per Docker call, each of which
may fail, with or without its effect. The daemon shuts down whenever it likes after the helper has started,
and Docker restarts it if the policy says so and nobody has stopped it. The gate is
the process's own, so a replacement may accept a second self-update while the first
helper still works: `overlapped` records that it did.

**PagePreferences.** `storage` is shared, `page[t]` is one document with the
copies it read: theme and sidebar in the scripts of `<head>`, the collapse map at
DOMContentLoaded. `Inherited` are the stacks named like a property every
JavaScript object has. `stale` and `touched` are history.

**PageActions.** A request carries the token of the click and the cookies of its
arrival; the server's operation outlives the page that asked for it. Until the
deferred script has run, a click submits the form instead. What a request holds
of the guard is a key: the container's name, or its raw ID where Update's lookup
fails. The handlers' refusals (403, 404, 500) are `ReceiveError`; `IsSelf` may fail
to recognise DoUpRo. Settings exclude containers (`listed`), the rows carry the flag
(`excluded`), and every replaced row starts without it; the module is about what
happens between two periodic checks, which set the flags anew. A batch's answer may
lose its body and then reads as "nothing to update".

**Combobox.** Option texts are model values and `Includes` is the substring test;
filtering, the cap of eight, the indices on the buttons and the DOM left behind
by a hidden panel are as in the code.

## 3. Runs

Passing runs. Deadlock is not checked in the daemon's runs: these systems stop
when their bounds are used up or nothing is requested. The page runs check it; a
page can always be loaded again.

| run | asks | bounds and why they are enough |
|---|---|---|
| `updater_faults` | `NoSilentLoss`, `FailureKeepsOriginal`, `RecordedMatchesHost`, `PreviousIsRetired`, `NamedOperationsAreExclusive` | two workers on one name, two arbitrary failures (of a stop or a removal with or without its effect), one deadline, one push, a broken image and one restart by Docker: every error path of the operation and of its revert, with a second operation in any position |
| `updater_sweep` | `DiscoveryConverges`, `CommittedUpdateIsWatched`, `TagIsRecoverable` | two workers, room for three recreations (an operation with its revert and one more), two sweeps, one death, one push, an event of the one name that is not written: stale lists, a row pruned and discovered again, a restart of the daemon between any two steps; no restart of a container by Docker, which `CommittedUpdateIsWatched` does not survive (`UpdaterUnwatched.cfg`) |
| `updater_guard` | `ImplementsGuard`, `KeyHeldOnce`, `OperationsReturn` (liveness) | every return path including deadline and death |
| `crashloop` | `OneRollbackPerTrigger`, `RollbackIsNotRepeated`, `RollbackNeedsCrashes`, `CrashesAreCaughtUp`, `TriggeredIsResolved` (liveness) | a threshold of 2 (a setting, 3 by default), so that a watch counts before it triggers; four instants of exits and reconciles with a window of three, two operations, so that the second container under watch follows the first, a self-update, a restart and one fault: a lost event, an end of the stream or a failing statement. `TriggeredIsResolved` without a self-update and without the failure that drops this very rollback, `CrashesAreCaughtUp` without what a failing statement or a reading of the container before loses (beyond that neither holds, see below) |
| `notification_queue` | `SentWasAccepted`, `AttemptsAreBounded`, `DuplicatesAreExplained`, `EveryJobSettles` (liveness) | two jobs, two attempts, one claim whose outcome is lost (a failed write, an unreadable row or a death), one message accepted with an error, a manual retry, any number of time-outs that the attempts allow; the shortest lease and back-offs, since only their order matters |
| `schedules` | `MaintenanceExcludesOperations`, `OnceRepeatsNeedAFault`, `RunMeansAttempt`, `RetriesAreSpaced`, `DueSchedulesRun` (liveness) | a one-off and a cron schedule of one container and a relative one of the stack it shares; three instants, so that each is due, runs and becomes due again or is retried; one fault, edit or self-update, whose place among all other steps is free, beside any number of user operations and checks |
| `self_update` | `OneDaemon`, `OriginalKeptUntilHealthy`, `RestoredIsRestored`, `ServiceComesBack` (liveness) | two self-updates, after one another, so that the second replaces a replacement, or beside each other, where the properties promise nothing; both restart policies; two faults, so that a failure of the update meets a failure of its recovery |
| `page_preferences` | `FilterAndCollapseCompose`, `FreshPageMatchesStorage`, `OrdinaryStacksStartExpanded`, `ClickFlipsWhatIsShown` | two tabs, two stacks (one with an inherited name), three rows, four clicks and any number of loads: a click in one tab between load and click of the other |
| `page_actions` | `BatchesStayInBounds`, `ReloadMeansSuccess`, `CsrfRefusalNeedsARace`, `EveryClickSettles` (liveness) | two requests and two upsets, a login (the first included), a change of the exclusions, a failing call, a lost answer or a crash; a container in a stack, which may be excluded, and DoUpRo outside of any. One tab is enough for two requests to overlap, since a reload leaves the first at the server, and other tabs reach this one through the cookies, which change at any moment (`Elsewhere`) |
| `combobox` | `ScreenMatchesState`, `OffersAreValid`, `SelectionChangesByOne` | three options of one kind and one of another, a cap of two: a list that is cut, one that is empty, and a field rendered with a name twice |

Every module has a type invariant, `TypeOK` (`SchedTypeOK` in `Schedules`). It
holds of these instances too and is not repeated in the configurations; for the
modules with proofs the inductive invariant contains it. TLC finds the inductive
invariants of section 4 to hold of these instances as well, their quantifiers
bounded where they range over all values, those under `[]NamedGrants` with
`NamedGrants` as a state constraint.

**Fairness.** `Updater`: each worker's next step, because every Docker call and
statement returns, at the latest when the operation's context ends
(`operationTimeout`, `tickTimeout`). `CrashLoop`: the monitor's steps between
two waits of its select, the rollback goroutines, a started operation or
self-update. Never exits of containers, arrivals of events, requests, or
the reconcile ticker beyond what the monitor does by itself. `NotificationQueue`:
the delivery loop and the passing of time; never success of a send, and a late send need
not end. `Schedules`: the steps of a tick and of a user's operation, whose calls
have timeouts; a self-update gives up or replaces the process; the due ticker,
strongly, since it fires again and again in the intervals in which no other tick
runs. `SelfUpdate`: the helper's steps, the shutdown and Docker's restarts; never
the success of a call. `PageActions`: what the server and the browser do by
themselves once a click is made; never clicks, loads, logins or the return of a
daemon that went down.

### What the code does and a comment or a manual does not say

Two runs expect a violation; the trace TLC prints is the scenario.

* `updater_revert_image`: a revert recreates from the tag and pulls it again. If
  the tag has moved, the container does not return to "the image the container
  was running before this call" (`updater.go:61`).
* `page_ungrouped`: the page sends an empty stack parameter for the section of
  containers without a stack (`web.go:385`), which the API takes for "no filter":
  its "Update all" queues the containers of every stack, although the button says
  "Update every container in this stack" (`containers.html:38`).

### Further disagreements

The same kind of result, each with its configuration; TLC violates every
property a configuration names (of two, with `-continue` or one at a time).

| configuration (module) | property | scenario | statement |
|---|---|---|---|
| `UpdaterGuardKey.cfg` (`MCUpdater`) | `OneOperationPerContainer` | one operation holds the name, the other the raw ID because its lookup failed | `operations.go:14` |
| `UpdaterRevertTarget.cfg` (`MCUpdater`) | `RevertKeepsRollbackTarget` | a sweep prunes the removed container's row before the revert reads it | `updater.go:200` |
| `UpdaterKeepsPrevious.cfg` (`MCUpdater`) | `UpdateKeepsPrevious` | a sweep with an older list prunes the row just committed | `README.md:70` |
| `UpdaterRestartWatch.cfg` (`MCUpdater`) | `NewContainerIsWatched` | death between recreation and commit | `store.go:435` |
| `UpdaterStability.cfg` (`MCUpdater`) | `StableWindow` | Docker restarted the container inside the window | `docker.go:399` |
| `UpdaterUnwatched.cfg` (`MCUpdater`) | `CommittedUpdateIsWatched` | a new container that crashed is waiting for its restart when the window ends: `State.Running` satisfies `WaitHealthy`, but the inspect after it says "restarting", so `updater.go:116` arms no watch | `manuals/containers.md:24` |
| `CrashLoopMaintenance.cfg` (`CrashLoop`) | `EveryTriggerIsResolved` | a rollback refused during a self-update that then fails is not resumed before the next start | `monitor.go:209` |
| `CrashLoopCountOnce.cfg` (`CrashLoop`) | `ExitsCountOnce` | an exit counted by the event and by the counter | `store/crashloop.go:124` |
| `CrashLoopClean.cfg` (`CrashLoop`) | `CleanExitsDoNotCount` | clean exits counted through the restart counter | `manuals/containers.md:98` |
| `CrashLoopTarget.cfg` (`CrashLoop`) | `RollbackTargetsCrasher` | the name belongs to a newer container by the time of the lookup | `manuals/containers.md:92` |
| `CrashLoopDisarm.cfg` (`CrashLoop`) | `ActiveWatchIsKept` | a failed rollback closes the watch of a newer update | `manuals/containers.md:24` |
| `CrashLoopStaleCount.cfg` (`CrashLoop`) | `EveryCrashIsCaughtUp` | the counter of the old container is stored in the new one's watch, or stored although `RecordCrash` failed | `monitor.go:49` |
| `NotificationDead.cfg` (`NotificationQueue`) | `DeadLetterFailed` | an accepted message whose outcome was lost is dead-lettered | `manuals/notifications.md:72` |
| `SchedulesOnce.cfg` (`MCSchedules`) | `OnceRunsOnce` | death, or an expired tick, between a one-off's update and `MarkScheduleRun`, or that statement failing | `scheduler.go:159` |
| `SchedulesCompleted.cfg` (`MCSchedules`) | `CompletedStaysDisabled` | the scheduler completes a one-off between a request's check and its write | `api/schedules.go:327` |
| `SchedulesRetry.cfg` (`MCSchedules`) | `RetryOncePerInterval` | a self-update pauses a pass after an attempt, which is then not recorded | `scheduler.go:219` |
| `SchedulesEnable.cfg` (`MCSchedules`) | `OnlyRequestsEnable` | a cron schedule disabled during its run is enabled again by `MarkScheduleRun` | `store/schedules.go:169` |
| `SelfUpdateOverlap.cfg` (`MCSelfUpdate`) | `PreviousIsRestored` | the replacement accepts a second self-update while the first helper waits for its health | `api.go:438` |
| `SelfUpdateEarlyExit.cfg` (`MCSelfUpdate`) | `ReplacementIsHealthy` | the daemon has exited before the helper inspects it, which then starts nothing | `self_update.go:171` |
| `PageActionsSilent.cfg` (`MCPageActions`) | `ReloadWaitsForOthers` | one button's success reloads the page while another's operation runs; its error is shown nowhere | `stacks.js:173` |
| `PageActionsSilent.cfg` (`MCPageActions`) | `ExcludedIsSkipped` | the rollback of an excluded container writes a row without the flag and marks the update available, so until the next periodic check "Update all" updates it | `api.go:475` |
| `PagePreferencesTabs.cfg` (`MCPagePreferences`) | `CollapseIsPersisted` | a tab saves its whole map over what another tab has saved | `stacks.js:2` |
| `PagePreferencesInherited.cfg` (`MCPagePreferences`) | `StacksStartExpanded` | a stack named like a property of every object starts collapsed | `stacks.js:1` |

## 4. Proofs

Every theorem holds for all values of the constants that satisfy the named
ASSUMEs; the bounds (faults, deaths, sweeps, instants, IDs...) are arbitrary
numbers unless a row says otherwise.

| module | theorem | states |
|---|---|---|
| `OperationGuardProofs` | `OneOperationPerKey`, `MaintenanceIsExclusive`, `GuardNeverLeaks` | the three properties of the guard |
| `UpdaterProofs` | `UpdaterInvariant`, `UpdaterTypes`, `GuardKeysAreExclusive` | `UpdaterInv`, `TypeOK`, `KeyHeldOnce` |
| | `NamesAgree`, `NamedOperationsExclude` | `NameInv`, `NamedOperationsAreExclusive` |
| | `UpdaterImplementsGuard` | `ImplementsGuard`: the refinement of `OperationGuard` |
| | `NothingIsLostInSilence` | `NoSilentLoss`, if the daemon does not die (`MaxExits = 0`); stops and removals may take effect behind an error |
| | `NamedCallsOwnTheirContainer`, `FailureLeavesTheOriginal`, `RollbackLeadsBack` | `OwnInv`, `FailureKeepsOriginal`, `PreviousIsRetired`, under `[]NamedGrants` |
| | `GrantsAreNamed`, `UnsweptFailureIsHarmless`, `RecordsMatchTheHost`, `UnsweptRollbackLeadsBack` | `NamedGrants`, `FailureKeepsOriginal`, `RecordedMatchesHost`, `PreviousIsRetired`, if `MaxSweeps = MaxMisses = 0` |
| | `DiscoveryFindsTheHost` | `DiscoveryConverges`, under `[]NamedGrants` |
| | `TagsAreRecoverable` | the action property `TagIsRecoverable`, with no hypothesis on keys or faults; the property itself excepts names with an event that was not written |
| | `UpdatesAreWatched` | `UnrestartedIsWatched`: `CommittedUpdateIsWatched` of the containers Docker has not restarted, under `[]NamedGrants` |
| | `CommittedUpdatesAreWatched`, `UnsweptUpdatesAreWatched` | `CommittedUpdateIsWatched`, if `MaxRestarts = 0`, under `[]NamedGrants` or if also `MaxSweeps = MaxMisses = 0` |
| `CrashLoopProofs` | `CrashLoopInvariant`, `CrashLoopTypeCorrect` | `CrashLoopInv`, `TypeOK` |
| | `OneTriggerOneRollback`, `CommittedRollbackIsFinal`, `RollbackIsEarned`, `ReconcileMissesNothing` | `OneRollbackPerTrigger`, `RollbackIsNotRepeated`, `RollbackNeedsCrashes`, `CrashesAreCaughtUp` |
| `SchedulesProofs` | `SchedulerInvariant`, `SchedulerTypeCorrect`, `SchedulerKeepsGate` | `SchedInv`, `SchedTypeOK`, `MaintenanceExcludesOperations` |
| | `OnceIsOnce`, `RecordedRunsWereAttempted`, `RelativeRetriesAreSpaced` | `OnceRepeatsNeedAFault`, `RunMeansAttempt`, the action property `RetriesAreSpaced` |
| `SelfUpdateProofs` | `SelfUpdateTypeCorrect` | `TypeOK` |
| | `HandOverInvariant`, `OneDaemonAtATime`, `OriginalIsKept`, `RestoredMeansRestored` | `SelfUpdateInv`, `OneDaemon`, the action properties `OriginalKeptUntilHealthy` and `RestoredIsRestored`; each speaks of the behaviour until two helpers work beside each other (`overlapped`), and no hypothesis is needed |
| `NotificationQueueProofs` | `QueueInvariant`, `LeaseHeld`, `SentIsAccepted`, `AttemptsBound`, `DuplicatesBound` | `QueueInv` and what follows from it |
| `PagePreferencesProofs` | `PreferencesInvariant`, `PreferencesTypes`, `CollapseAndFilter`, `ReloadChangesNothing`, `ExpandedByDefault`, `ClicksFlip` | `PrefInv` and what follows from it |
| `PageActionsProofs` | `PageInvariant`, `PageTypes` | `PageInv`, `TypeOK` |
| | `OneContainerPerRequest`, `BatchesInBounds` | `HoldersAreRequests`, an invariant of the proofs alone, and the action property `BatchesStayInBounds` |
| | `ReloadsMeanSuccess`, `RefusalsNeedARace` | the action properties `ReloadMeansSuccess` and `CsrfRefusalNeedsARace` |

*Guard.* Mutual exclusion is not inductive by itself: that `end` frees only a key
nobody else holds needs that the map holds exactly the granted keys
(`GuardMatchesGrants`), and the gate needs that a maintainer exists only while
the flag is set.

*Updater: types and the guard.* `UpdaterInv` joins the types, `OpShape` and
`KeyHeldOnce`. `OpShape` says which fields of a call are set at which step (the
snapshot from `define` on, the new ID from `validate` to the record, a snapshot
wherever a failed revert is reported); without it a step that reads `before.name`
or `new` has no type. `KeyHeldOnce` says both that a working call's key is in the
map and that each key in it belongs to a working call: the second half is what
keeps `Finish` from freeing another call's key. The refinement of the guard maps
each step to `begin`, `end`, `Restart` or a stutter; it needs in addition that
keys which are IDs lie within `MaxID` (`KeysInBounds`), which `RoomForOne` ensures
when a call is accepted. `KeysAssumption` says that names, IDs and the empty
value are different strings; `FiniteAssumption` that there are finitely many
names and goroutines.

*Updater: names.* Operations are excluded by key, the key is a row's name, and
what they work on is an ID. `NameInv` connects the three: IDs are never reused,
the row, the listing and the snapshot of a live container all carry its name, and
a key that is a name is the name of the call's container. Two named operations
on one container would hold the same key.

*Updater: no silent loss.* `LossInv` says who answers for a name that is not on
the host: the call that removed the container and has not created another
(`Owes`), the call that is about to start the original again after a failed
removal, which reports the failure of that as well, the call that is about to report
a failed revert, or `reported`. A removal that Docker carried out behind an error is
thus noticed if the original had been stopped before; if it was not running, the
operation fails with "before the original container was removed" and nothing
notices. That one case is in the property (`RemovedUnnoticed`, of `torn`). A
death of the daemon forgets the call, so `MaxExits = 0` is needed, as in the run;
the hazard list has the scenario without it.

*Updater: ownership.* What an operation may rely on while it runs: `Owns` says
that the original is on the host, on its image and as running as it was until
this call stops or removes it, that it is gone afterwards, that the replacement
is there once it has been created, and that all of them have the name of the key;
`Control` says how far `recreate()` has got at each program counter and
`UniqueNames` that Docker gives a name once. A call that fails before the removal returns with this
intact (`SparedInv`), except for the calls in `torn`: a stop that took effect behind
its error leaves the original stopped, since `originalStopped` is false. One call's
steps touch only
containers of its name, so they do not disturb another's `Owns`: that is the
guard doing its work. It holds as long as every call past its snapshot was
granted a name (`NamedGrants`). Update falls back to the raw ID when its lookup
fails, and two operations on one container under the name and under the ID do
break these properties (`UpdaterGuardKey.cfg` is that finding), so the hypothesis
cannot be dropped. `GrantsAreNamed` shows when it is met: if no sweep prunes
rows and the lookup fails only with the context, a row disappears only when its
container does (`Looked`), and a call with a raw ID fails at its inspect. So
between two sweeps the properties hold without condition, whatever calls fail,
contexts expire or daemons die. `RecordsMatchTheHost` uses the same invariant; with
sweeps it is false, since a stale listing brings the retired row back for a
while. `RollbackLeadsBack` does allow sweeps: `PrevInv` follows the
previous image from the row of a live container to the row a revert reads once
the container is gone, and to what the revert is about to write.

*Updater: sweeps.* A sweep works from a listing while operations go on. `SweepInv`
says what the listing is still worth: a listed container that has been upserted
has a row while it lives (`Upserted`), a container created since has a name that
was free, so the listing lacks the name or lists a container that is gone
(`Newcomers`), and after the prune the same holds of every row the listing does
not explain, whose name moreover is on the host or answered for (`Unpruned`, which
is `LossInv` once more). A listing that equals the host then leaves no such row.
That a call records only its own live container needs `OwnInv` and hence
`[]NamedGrants`: under a raw ID it may record one that another call has removed.
With sweeps that hypothesis is about the behaviour (no Update past its snapshot
works under the raw ID); no choice of the constants implies it.

*Updater: tags.* `TagIsRecoverable` is the one property of these that needs nothing of
the keys. What the commit, the record of a revert or an upsert writes was read
long before, so `TagInv` speaks of all references a name has anywhere, on the
host, in the table, in the listing and in the calls (`Refers`): as long as the
name's events hold no tag and none was lost, they are all tags or all digests, and
only the step that leaves a tag in the events mixes them. A lost event is the one
exception (`unlogged`): nothing else keeps the tag. `CalledOnce` says that all records of a
container agree on its name, also once it is gone. An empty column is no
reference (`NilAssumption`).

*Updater: the watch.* `WatchInv` says that an updated, recorded container that runs,
or that a call stopped and would start again, has the watch of its name
(`Watched`), that such a call took its snapshot of a running container
(`StopsRunning`), and that the replacement in a call's hands has no previous image
on record yet and, when it runs, is about to be committed as running
(`Offspring`). That last part fails when Docker restarts the container before the
inspect that decides: the attempt to prove it is where `UpdaterUnwatched.cfg` was
found. So `UpdatesAreWatched` excepts containers that were restarted, and the
property as the run has it follows where Docker restarts nothing.

*CrashLoop.* `TriggerInv`: an arming is known by the ID of its container, IDs are
new and only an arming makes a watch active, so active becomes triggered once per
ID; a monitor that resumes a triggered watch finds no goroutine, since both died
with the daemon. A failed recovery or completion leaves a triggered watch without a
goroutine; `dropped` names its arming, and only that one is excepted. `CountInv`: the
count minus the events its last instant covers came from the restart counter, each
part is at most the number of exits, and a reconcile never adds more than the
counter shows. `CatchUpInv`: the instants a reconcile records are new and inside
the window, so everything it has read is counted, or was missed by a failed
`RecordCrash` (`watch.missed`); a write by name that reaches the watch of a newer
container adds to the same number what it passes over (`Overtaken`). So the property
is about every arming.

*Schedules.* What keeps a one-off from running twice is the row
`MarkScheduleRun` writes, and between the update and that write lies the rest of
the pass. `HistoryInv` says of every schedule that has fired or been tried that the
tick still stands at it, or its row tells, or it was cut; and that the pass at a
relative policy began when it was ready. The gate is the guard's `GuardInv`, and
`Schedules` composes it, so the guard's lemmas are used as they are. IDs are the
database's numbers up to `MaxId`, in whose order a tick takes the due
schedules; that a set of them has a least one is the library's well-founded
induction on numbers.

*SelfUpdate.* `HandOver` says, for each program counter of the helper, which of
the original and the replacement exists, bears the name and may be running, and
that a replacement found healthy stays up. It needs that at most one helper is
at work. The code does not ensure that (the gate is in the memory of the
process that was replaced; `SelfUpdateOverlap.cfg` shows what follows), so the
invariant is `~overlapped => HandOver` and the properties say the same: they hold
in every behaviour up to the moment a second helper starts beside a first, which the
model does not rule out.

*NotificationQueue.* `AttemptsAreBounded` needs to know that a pending row has
attempts to spare and that a row left processing by nobody has a lost claim to
its credit. `DuplicatesAreExplained` counts, besides what was accepted, the sends
that may still be accepted: the late ones, the one in flight and the first
delivery not yet made must fit in what claims cut short, time-outs and errors after
an acceptance allow.

*PagePreferences.* What is on screen is not inductive: `PrefInv` says how the
hidden bodies, rows and sections of each document follow from its map and its
filter (`DocShape`), that a stack no click has touched has no entry in storage or
in any document, since each tab saves its whole map (`Untouched`), and that a
document differs from storage only in keys another tab has written (`Fresh`).
`ClicksFlip` is an action property proved from it. The assumption is that the
unparsable value is not a map.

*PageActions.* `Guarded` is the guard's side: a request holds at most one key, a
running one that of its button's container, no two hold the same name, and none is
held while the gate is closed; of raw IDs nothing is claimed. `Sound` says of a
request on its way that it holds nothing, has queued nothing and carries the cookie
of the moment unless the cookies changed meanwhile, which is why a refusal for the
token needs a race, and of an answered one that the answer is what the server
decided or was lost in whole or in part, which is why a reload means success.
`BatchesInBounds` rests on `Flagged`: an excluded container that is offered an update
has the flag on its row, or lost it in a rollback or a half-failed save
(`unmarked`); an update or a revert that replaces the row takes the offer with the
flag. It includes the part of `StackUpdateStaysInStack` that is true: the batch of a
section with a name stays in it (a section called `"every"`, the stand-in for the
empty parameter, is no section). `PageAssumption` says that the bounds are numbers
and every container has one stack.

Only model-checked: liveness (`OperationsReturn`, `TriggeredIsResolved`,
`EveryJobSettles`, `DueSchedulesRun`, `ServiceComesBack`, `EveryClickSettles`),
which is out of the proof system's reach under fairness; and `Combobox`
(`ScreenMatchesState`, `OffersAreValid`, `SelectionChangesByOne`): its lists are
made by `SelectSeq`, which the prover leaves uninterpreted and of which facts need
an induction over the sequence. `NotificationQueue!TypeOK` is proved
without the integer range of `wait` after a back-off of `BaseBackoff * 2^n`
(`QueueTypes` in its place), since the prover does not type exponentiation.

## 5. Not modelled

* Errors of `pull`, `create` and `start` that come after Docker has acted (in
  `Updater`; `SelfUpdate` has them), and a stored row that can never be decrypted.
* Failing statements of the scheduler other than the one that records a run, those
  of an expired tick, a one-off's lookup and the sweep's listing: a list that
  cannot be read ends the pass, and the next tick reads it again; a record that
  fails after a failed lookup leaves the one-off due.
* Fidelity of networks, mounts and settings in a recreation (one call that may
  fail), anonymous volumes, compose labels.
* Roles, the last administrator, the login limiter, OIDC; semver selection;
  channel matching; the parsing of cron expressions.
* Exclusions in the scheduler's target list: a filter on a column the sweep
  writes. A replacement's row has no update flag until a sweep has written both.
* Pages other than Containers: forms of one request each. Tailwind's
  configuration and Swagger's bundles hold no logic of this program.
* Rendering, CLI, HTTP and registry transport, encryption, metrics, logs: input
  and output without an order that matters.
* The text comparison of RFC3339Nano times in SQL: the models compare instants.

## 6. Plan

1. done: guard, updater with sweep, crash loop, notification queue, schedules,
   self-update, the page scripts; theorems of the guard and its refinement, of the
   updater's names, losses, ownership and rollback targets, of the crash loop, of
   the schedules, of the self-update, of the queue and of the page preferences.
2. done: the theorems of sweeps, tags and watches for the updater, and of the
   page's requests.
3. Channel matching and replacement (`matches`, `SetChannels`), semver selection,
   the limiter's window and the volume rules of `recreate.go` as operators checked
   against reference definitions.
4. Sessions, roles and the last administrator under concurrent changes.
