------------------------------ MODULE Schedules ------------------------------
(***************************************************************************)
(* The scheduler (internal/scheduler/scheduler.go) over the schedules and   *)
(* update_candidates tables, composed with the operation guard: one tick    *)
(* goroutine at a time works through the due one-off and cron schedules and *)
(* then the relative policies, while users run operations of their own,     *)
(* edit schedules and start self-updates, and the process may die.          *)
(*                                                                         *)
(* A tick reads a list, then acts schedule by schedule and container by     *)
(* container; everything else happens in between.  `fires', `tried' and     *)
(* `cut' record history for the properties.  A container has one candidate  *)
(* here (one semver scope), and an update is the interval between begin and *)
(* end of the guard; the Updater module is about what happens in it.        *)
(***************************************************************************)
EXTENDS Naturals, FiniteSets, OperationGuard

CONSTANTS
    Tick, User, SelfUpdate,  \* the goroutines: the scheduler's, a request's
    Once, Cron, Relative,    \* the schedules, by kind: sets of row ids
    MaxId,       \* the largest of them
    TargetsOf,   \* TargetsOf[id]: a container, or the members of a stack
    Delay,       \* relative_after of the delayed policies; 0 is immediate
    Period,      \* time between two runs of a cron expression
    Interval,    \* the check interval
    Window,      \* SelfUpdateSafetyWindow
    MaxClock,    \* bound on time
    MaxCreate,   \* the last moment schedules are created at
    MaxUsed      \* bound on crashes, expired ticks, failed lookups, edits and
                 \* self-updates, together

Ids == Once \cup Cron \cup Relative

ASSUME SchedulesAssumption ==
    /\ Workers = {Tick, User, SelfUpdate} /\ Cardinality(Workers) = 3
    /\ MaxId \in Nat /\ Ids \subseteq 1..MaxId
    /\ Once \cap Cron = {} /\ Once \cap Relative = {} /\ Cron \cap Relative = {}
    /\ TargetsOf \in [Ids -> SUBSET Keys] /\ \A id \in Once : \E c \in Keys : TargetsOf[id] = {c}
    /\ {Delay, Period, Interval, Window, MaxClock, MaxCreate, MaxUsed} \subseteq Nat

VARIABLES
    clock,
    rows,       \* rows[id]: the row of the schedules table
    candidate,  \* candidate[c]: detected_at of c's update candidate, or Never
    tick,       \* the goroutine of runTick
    editor,     \* the schedule a request has loaded and is about to write
    accepted,   \* StartSelfUpdate has started the helper
    used,       \* how much of MaxUsed is spent
    fires,      \* fires[id]: updates begun by the one-off id (capped at 2)
    tried,      \* tried[id]: when the relative id last attempted one; of a one-off
                \* only whether it did, as 0
    cut         \* the schedules with an attempt that was never recorded

guard == <<active, maintenance, held, maintainer>>
history == <<fires, tried, cut>>
schedVars == <<guard, clock, rows, candidate, tick, editor, accepted, used, history>>

Never == MaxClock + Period + Interval + Delay + 1  \* the NULL of the time columns
Times == 0..Never
NoRow == [life |-> "unused", enabled |-> FALSE, next |-> Never, last |-> Never]
Row == [life : {"unused", "live", "deleted"}, enabled : BOOLEAN, next : Times, last : Times]
NoId == 0  \* row ids start at 1

Idle == [pc |-> "idle", due |-> {}, relative |-> {}, id |-> NoId, todo |-> {}, applied |-> FALSE]

SchedInit ==
    /\ Init
    /\ clock = 0
    /\ rows = [id \in Ids |-> NoRow]
    /\ candidate = [c \in Keys |-> Never]
    /\ tick = Idle
    /\ editor = NoId
    /\ accepted = FALSE
    /\ used = 0
    /\ fires = [id \in Once |-> 0] /\ tried = [id \in Once \cup Relative |-> Never] /\ cut = {}

Use == used < MaxUsed /\ used' = used + 1

-----------------------------------------------------------------------------
\* handleCreateSchedule, CreateSchedule: run_at lies in the future, a cron
\* expression gives the next run, a relative policy has none.
CreateSchedule(id, at) ==
    /\ rows[id] = NoRow /\ clock <= MaxCreate
    /\ at \in IF id \in Once THEN {t \in 0..MaxClock : t > clock}
              ELSE IF id \in Cron THEN {clock + Period} ELSE {Never}
    /\ rows' = [rows EXCEPT ![id] = [life |-> "live", enabled |-> TRUE, next |-> at, last |-> Never]]
    /\ UNCHANGED <<guard, clock, candidate, tick, editor, accepted, used, history>>

\* handleUpdateSchedule loads the row and refuses a completed one-off ...
LoadSchedule(id) ==
    /\ editor = NoId /\ Use
    /\ rows[id].life = "live" /\ ~(id \in Once /\ rows[id].last # Never)
    /\ editor' = id
    /\ UNCHANGED <<guard, clock, rows, candidate, tick, accepted, history>>

\* ... and then writes the flag, if the row is still there.
SetScheduleEnabled(value) ==
    /\ editor # NoId
    /\ rows' = IF rows[editor].life = "live" THEN [rows EXCEPT ![editor].enabled = value] ELSE rows
    /\ editor' = NoId
    /\ UNCHANGED <<guard, clock, candidate, tick, accepted, used, history>>

\* handleDeleteSchedule.  A tick that has listed the schedule still runs it, so
\* the last run stays readable.
DeleteSchedule(id) ==
    /\ rows[id].life = "live" /\ Use
    /\ rows' = [rows EXCEPT ![id].life = "deleted", ![id].enabled = FALSE]
    /\ UNCHANGED <<guard, clock, candidate, tick, editor, accepted, history>>

\* ReplaceUpdateCandidates, at the end of a registry check: the candidate is
\* gone, or it is another image than before and detected_at starts anew; while
\* the image stays the same detected_at survives the check.
Check(c) ==
    /\ candidate' \in {[candidate EXCEPT ![c] = t] : t \in {Never, clock}} \ {candidate}
    /\ UNCHANGED <<guard, clock, rows, tick, editor, accepted, used, history>>

Advance ==
    /\ clock < MaxClock /\ clock' = clock + 1
    /\ UNCHANGED <<guard, rows, candidate, tick, editor, accepted, used, history>>

\* A user's Update, from begin to end.  Success replaces the container's row:
\* the new id has no update flag and no candidates.
UserOperation(c) ==
    /\ begin(User, c)
    /\ UNCHANGED <<clock, rows, candidate, tick, editor, accepted, used, history>>

UserEnd ==
    /\ end(User)
    /\ candidate' \in {candidate, [candidate EXCEPT ![held[User]] = Never]}
    /\ UNCHANGED <<clock, rows, tick, editor, accepted, used, history>>

-----------------------------------------------------------------------------
\* Mutants: a run is recorded but stays due; the maintenance refusal is treated
\* like any other; the interval is not waited for.
markedRowStillDue(id) == [rows[id] EXCEPT !.last = clock]
refusedIsFinal(id) == FALSE
readyAlways(id) == TRUE

\* DueSchedules.
DueSchedules == {id \in Once \cup Cron : rows[id].enabled /\ rows[id].next <= clock}

\* relativeRetryReady.
relativeRetryReady(id) == rows[id].last = Never \/ clock >= rows[id].last + Interval

\* IsMaintenanceError: the gate closed after the tick had begun.
isMaintenanceError(id) == maintenance

\* MarkScheduleRun for a one-off (nil) and a cron schedule (the next run), and
\* TouchScheduleLastRun for a relative one that attempted something.
markedRow(id) ==
    IF id \in Once THEN [rows[id] EXCEPT !.last = clock, !.next = Never, !.enabled = FALSE]
    ELSE IF id \in Cron THEN [rows[id] EXCEPT !.last = clock, !.next = clock + Period, !.enabled = TRUE]
    ELSE [rows[id] EXCEPT !.last = clock]

\* runTick, then the start of runDueSchedules; while `ticking' is set another
\* tick is skipped.
TickBegin ==
    /\ tick.pc = "idle" /\ ~maintenance
    /\ tick' = [Idle EXCEPT !.pc = "due", !.due = DueSchedules]
    /\ UNCHANGED <<guard, clock, rows, candidate, editor, accepted, used, history>>

\* The tick of the check timer has no due half, and neither has one that begins
\* in maintenance.
CheckTick ==
    /\ tick.pc = "idle"
    /\ tick' = [Idle EXCEPT !.pc = "due"]
    /\ UNCHANGED <<guard, clock, rows, candidate, editor, accepted, used, history>>

\* Candidates(id): the targets with an update available when they are listed.
Candidates(id) == {c \in TargetsOf[id] : candidate[c] # Never}
First(S) == CHOOSE id \in S : \A other \in S : id <= other
Last(S) == CHOOSE id \in S : \A other \in S : id >= other

\* The next due schedule, in the order of the ids.
TakeDue ==
    LET id == First(tick.due)
    IN  /\ tick.pc = "due" /\ tick.due # {}
        /\ tick' = [tick EXCEPT !.pc = "apply", !.due = @ \ {id}, !.id = id,
                                !.todo = IF id \in Once THEN TargetsOf[id] ELSE Candidates(id)]
        /\ UNCHANGED <<guard, clock, rows, candidate, editor, accepted, used, history>>

\* executeOnce cannot look its container up: the schedule is marked as run.
LookupFails ==
    LET id == First(tick.due)
    IN  /\ tick.pc = "due" /\ tick.due # {} /\ id \in Once /\ Use
        /\ tick' = [tick EXCEPT !.pc = "apply", !.due = @ \ {id}, !.id = id, !.todo = {}]
        /\ tried' = [tried EXCEPT ![id] = 0]
        /\ UNCHANGED <<guard, clock, rows, candidate, editor, accepted, fires, cut>>

\* runRelativePolicies: the enabled relative schedules, unless in maintenance.
RelativeBegin ==
    /\ tick.pc = "due" /\ tick.due = {}
    /\ tick' = IF maintenance THEN Idle
               ELSE [tick EXCEPT !.pc = "relative",
                                 !.relative = {id \in Relative : rows[id].enabled}]
    /\ UNCHANGED <<guard, clock, rows, candidate, editor, accepted, used, history>>

\* The next of them, the newest first, if its last run is long enough ago.
TakeRelative ==
    LET id == Last(tick.relative)
    IN  /\ tick.pc = "relative" /\ tick.relative # {}
        /\ tick' = IF relativeRetryReady(id)
                   THEN [tick EXCEPT !.relative = @ \ {id}, !.id = id, !.pc = "apply",
                                     !.todo = Candidates(id)]
                   ELSE [tick EXCEPT !.relative = @ \ {id}]
        /\ UNCHANGED <<guard, clock, rows, candidate, editor, accepted, used, history>>

TickEnd ==
    /\ tick.pc = "relative" /\ tick.relative = {}
    /\ tick' = Idle
    /\ UNCHANGED <<guard, clock, rows, candidate, editor, accepted, used, history>>

\* The rest of the tick after the current schedule.
Resume == [tick EXCEPT !.pc = IF tick.id \in Relative THEN "relative" ELSE "due",
                       !.id = NoId, !.todo = {}, !.applied = FALSE]

\* One target of applyToTargets (executeOnce has one and needs no candidate):
\* nothing to do yet, maintenance, another operation on it, or begin.
SkipTarget(c) ==
    /\ tick.pc = "apply" /\ c \in tick.todo /\ tick.id \notin Once
    /\ \/ candidate[c] = Never
       \/ tick.id \in Relative /\ clock < candidate[c] + Delay
    /\ tick' = [tick EXCEPT !.todo = @ \ {c}]
    /\ UNCHANGED <<guard, clock, rows, candidate, editor, accepted, used, history>>

Ready(c) ==
    /\ tick.pc = "apply" /\ c \in tick.todo
    /\ \/ tick.id \in Once
       \/ candidate[c] # Never /\ (tick.id \in Relative => clock >= candidate[c] + Delay)

\* A relative pass stops there, its attempts so far unrecorded; a due schedule
\* stays due and the next one is taken.
MeetMaintenance(c) ==
    /\ Ready(c) /\ maintenance /\ isMaintenanceError(tick.id)
    /\ tick' = IF tick.id \in Relative THEN Idle ELSE Resume
    /\ cut' = IF tick.applied THEN cut \cup {tick.id} ELSE cut
    /\ UNCHANGED <<guard, clock, rows, candidate, editor, accepted, used, fires, tried>>

\* History: being turned away for maintenance is no attempt.
Attempt ==
    /\ tried' = [id \in Once \cup Relative |->
                    IF id # tick.id \/ maintenance THEN tried[id] ELSE IF id \in Once THEN 0 ELSE clock]
    /\ cut' = cut \ ({tick.id} \cap Relative)

MeetOperation(c) ==
    /\ Ready(c)
    /\ c \in active \/ (maintenance /\ ~isMaintenanceError(tick.id))
    /\ tick' = [tick EXCEPT !.todo = @ \ {c}, !.applied = TRUE]
    /\ Attempt
    /\ UNCHANGED <<guard, clock, rows, candidate, editor, accepted, used, fires>>

BeginTarget(c) ==
    /\ Ready(c) /\ begin(Tick, c)
    /\ tick' = [tick EXCEPT !.pc = "updating", !.todo = @ \ {c}, !.applied = TRUE]
    /\ fires' = [id \in Once |-> IF id = tick.id /\ fires[id] < 2 THEN fires[id] + 1 ELSE fires[id]]
    /\ Attempt
    /\ UNCHANGED <<clock, rows, candidate, editor, accepted, used>>

\* The update returns; on success there is no candidate any more.
EndTarget ==
    /\ tick.pc = "updating" /\ end(Tick)
    /\ candidate' \in {candidate, [candidate EXCEPT ![held[Tick]] = Never]}
    /\ tick' = [tick EXCEPT !.pc = "apply"]
    /\ UNCHANGED <<clock, rows, editor, accepted, used, history>>

\* tickTimeout expires during the update: every later call of the tick, the one
\* that records the run included, fails at once.
Expire ==
    /\ tick.pc = "updating" /\ Use /\ end(Tick)
    /\ candidate' \in {candidate, [candidate EXCEPT ![held[Tick]] = Never]}
    /\ tick' = Idle
    /\ cut' = cut \cup {tick.id}
    /\ UNCHANGED <<clock, rows, editor, accepted, fires, tried>>

\* All targets are done: the run is recorded (a relative one that attempted
\* nothing is not, and a row that was deleted meanwhile is not there).
MarkRun ==
    /\ tick.pc = "apply" /\ tick.todo = {}
    /\ rows' = IF rows[tick.id].life = "live" /\ (tick.id \in Relative => tick.applied)
               THEN [rows EXCEPT ![tick.id] = markedRow(tick.id)] ELSE rows
    /\ tick' = Resume
    /\ UNCHANGED <<guard, clock, candidate, editor, accepted, used, history>>

\* The statement that records the run fails, and the tick goes on without it.
MarkFails ==
    /\ tick.pc = "apply" /\ tick.todo = {} /\ (tick.id \in Relative => tick.applied)
    /\ Use
    /\ tick' = Resume
    /\ cut' = cut \cup {tick.id}
    /\ UNCHANGED <<guard, clock, rows, candidate, editor, accepted, fires, tried>>

-----------------------------------------------------------------------------
\* The process starts anew: the tables stay.
NewProcess ==
    /\ Restart
    /\ tick' = Idle /\ editor' = NoId /\ accepted' = FALSE
    /\ cut' = IF tick.applied /\ tick.pc \in {"apply", "updating"} THEN cut \cup {tick.id} ELSE cut
    /\ UNCHANGED <<clock, rows, candidate, fires, tried>>

Crash == Use /\ NewProcess

\* StartSelfUpdate closes the gate, asks SelfUpdateBlockers, and either opens
\* it again or starts the helper, after which this process is replaced.
StartSelfUpdate ==
    /\ Use /\ beginMaintenance(SelfUpdate)
    /\ UNCHANGED <<clock, rows, candidate, tick, editor, accepted, history>>

SelfUpdateBlockers ==
    {id \in Ids : rows[id].enabled /\
        \/ rows[id].next # Never /\ rows[id].next <= clock + Window
        \/ id \in Relative /\ \E c \in Candidates(id) : candidate[c] + Delay <= clock + Window}

Refuse ==
    /\ ~accepted /\ endMaintenance(SelfUpdate)
    /\ UNCHANGED <<clock, rows, candidate, tick, editor, accepted, used, history>>

Accept ==
    /\ maintainer[SelfUpdate] /\ ~accepted /\ SelfUpdateBlockers = {}
    /\ accepted' = TRUE
    /\ UNCHANGED <<guard, clock, rows, candidate, tick, editor, used, history>>

HandOver == accepted /\ NewProcess /\ UNCHANGED used

TickStep ==
    \/ TakeDue \/ RelativeBegin \/ TakeRelative \/ TickEnd \/ EndTarget \/ MarkRun
    \/ \E c \in Keys : SkipTarget(c) \/ MeetMaintenance(c) \/ MeetOperation(c) \/ BeginTarget(c)

SchedNext ==
    \/ TickBegin \/ CheckTick \/ TickStep \/ LookupFails \/ Expire \/ MarkFails \/ Crash \/ Advance
    \/ \E id \in Ids : LoadSchedule(id) \/ DeleteSchedule(id)
                       \/ \E at \in Times : CreateSchedule(id, at)
    \/ \E value \in BOOLEAN : SetScheduleEnabled(value)
    \/ \E c \in Keys : Check(c) \/ UserOperation(c)
    \/ UserEnd \/ StartSelfUpdate \/ Refuse \/ Accept \/ HandOver

SchedSpec == SchedInit /\ [][SchedNext]_schedVars

\* The due ticker keeps firing, whatever else runs in between; a tick's steps and
\* a user's operation end (every call they make has a timeout); a self-update
\* either gives up or replaces the process.
SchedFairSpec ==
    /\ SchedSpec
    /\ SF_schedVars(TickBegin) /\ WF_schedVars(TickStep)
    /\ WF_schedVars(UserEnd) /\ WF_schedVars(Refuse \/ HandOver)

-----------------------------------------------------------------------------
TickState ==
    [pc : {"idle", "due", "relative", "apply", "updating"},
     due : SUBSET (Once \cup Cron), relative : SUBSET Relative,
     id : Ids \cup {NoId}, todo : SUBSET Keys, applied : BOOLEAN]

SchedTypeOK ==
    /\ TypeOK
    /\ clock \in 0..MaxClock
    /\ rows \in [Ids -> Row]
    /\ candidate \in [Keys -> Times]
    /\ tick \in TickState
    /\ editor \in Ids \cup {NoId} /\ accepted \in BOOLEAN
    /\ fires \in [Once -> 0..2] /\ tried \in [Once \cup Relative -> Times] /\ cut \subseteq Ids

\* executeOnce: a one-off schedule updates its container at most once, unless a
\* crash or an expired tick comes between the update and MarkScheduleRun, or that
\* statement fails; a request that enables, disables or deletes it at any moment does not repeat it.
OnceRepeatsNeedAFault ==
    \A id \in Once : fires[id] = 2 => id \in cut

\* executeOnce and runRelativePolicies: a run is recorded only if an update was
\* attempted; a self-update that closes the gate at any moment of the tick never
\* uses up a one-off schedule, nor starts a relative one's waiting time.
RunMeansAttempt ==
    \A id \in Once \cup Relative : rows[id].last # Never => tried[id] # Never

\* The first attempt of a pass of a relative policy.
FirstAttempt == tick.id \in Relative /\ ~tick.applied /\ tick'.applied

\* relativeRetryReady ("at most once per check interval"): between the attempts of
\* two passes of a relative policy lies the interval, unless the pass between
\* was cut short before it was recorded or could not be recorded.
RetriesAreSpaced ==
    [][FirstAttempt /\ tried[tick.id] # Never /\ tick.id \notin cut
          => clock >= tried[tick.id] + Interval]_schedVars

\* runDueSchedules and MarkScheduleRun: the scheduler catches up again and again;
\* no schedule stays due for ever, whatever users and self-updates do to the gate
\* and to the tables meanwhile.
DueSchedulesRun == []<>(DueSchedules = {})

-----------------------------------------------------------------------------
\* What the comments and messages of the code say and the code does not do.
\* "fires exactly once" (scheduler.go:158-160, store/schedules.go:13).
OnceRunsOnce == \A id \in Once : fires[id] <= 1

\* "a completed once schedule cannot be enabled or disabled" (api/schedules.go:327).
CompletedStaysDisabled == \A id \in Once : rows[id].last # Never => ~rows[id].enabled

\* "Re-evaluate at most once per check interval" (scheduler.go:219): also when a
\* self-update pauses a pass that has already attempted something.
RetryOncePerInterval ==
    [][FirstAttempt /\ tried[tick.id] # Never => clock >= tried[tick.id] + Interval]_schedVars

\* SetScheduleEnabled "toggles a schedule on/off" (store/schedules.go:169): only a
\* request turns a disabled schedule on again.
OnlyRequestsEnable ==
    [][\A id \in Ids : ~rows[id].enabled /\ rows'[id].enabled =>
          editor = id \/ rows[id].life = "unused"]_schedVars
=============================================================================
