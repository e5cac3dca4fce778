--------------------------- MODULE SchedulesProofs ---------------------------
(***************************************************************************)
(* The safety of the scheduler for any schedules, containers, delays and    *)
(* number of faults.  Both history properties fail to be inductive for the  *)
(* same reason: what keeps a schedule from running again is the row that    *)
(* MarkScheduleRun or TouchScheduleLastRun writes, and between the attempt  *)
(* and that write lies the rest of the pass.  The invariant says, for every *)
(* schedule that has run, either that the tick still stands at it or that   *)
(* its row tells.                                                           *)
(***************************************************************************)
EXTENDS Schedules, OperationGuardProofs, WellFoundedInduction

AtSchedule == tick.pc \in {"apply", "updating"}

\* Where a tick stands and what it has listed.
TickPosition ==
    /\ ~AtSchedule => tick.id = NoId /\ ~tick.applied
    /\ AtSchedule => tick.id \in Ids
    /\ tick.id \notin tick.due /\ tick.id \notin tick.relative
    /\ tick.id \in Once => tick.todo \subseteq TargetsOf[tick.id]

\* Only a live row is enabled, and only a row that was created is listed.
RowsInUse ==
    \A id \in Ids :
        /\ rows[id].enabled => rows[id].life = "live"
        /\ id = tick.id \/ id \in tick.due \/ id \in tick.relative => rows[id].life # "unused"

\* A one-off that has updated its container: the tick stands at it with nothing
\* left to do, or its row is never due again.
Fired(id) == fires[id] > 0 /\ id \notin cut
FiredIsRetired ==
    \A id \in Once : Fired(id) =>
        /\ id \notin tick.due /\ (tick.id = id => tick.todo = {})
        /\ \/ tick.id = id /\ tick.applied
           \/ rows[id].life = "deleted"
           \/ rows[id].life = "live" /\ rows[id].next = Never

\* An attempt of the current pass has been noted.
AttemptIsNoted ==
    /\ tick.id \in Once => tried[tick.id] # Never \/ tick.todo = TargetsOf[tick.id]
    /\ tick.id \in Relative /\ tick.applied => tried[tick.id] # Never

\* A relative policy that was attempted: the tick stands at it, or its row tells
\* when, or it is never listed again.
Attempted(id) == tried[id] # Never /\ id \notin cut
AttemptIsRecorded ==
    \A id \in Relative :
        /\ tried[id] # Never => tried[id] <= clock
        /\ Attempted(id) =>
              \/ tick.id = id /\ tick.applied
              \/ rows[id].life = "deleted" /\ id \notin tick.relative /\ tick.id # id
              \/ rows[id].last # Never /\ rows[id].last >= tried[id]

\* The pass at a relative policy began when it was ready.
PassWasReady ==
    tick.id \in Relative /\ ~tick.applied => relativeRetryReady(tick.id)

HistoryInv ==
    /\ TickPosition /\ RowsInUse /\ FiredIsRetired /\ OnceRepeatsNeedAFault
    /\ AttemptIsNoted /\ RunMeansAttempt /\ AttemptIsRecorded /\ PassWasReady

\* SchedTypeOK without the guard's own part.
TablesOK ==
    /\ clock \in 0..MaxClock
    /\ rows \in [Ids -> Row]
    /\ candidate \in [Keys -> Times]
    /\ tick \in TickState
    /\ editor \in Ids \cup {NoId} /\ accepted \in BOOLEAN
    /\ fires \in [Once -> 0..2] /\ tried \in [Once \cup Relative -> Times] /\ cut \subseteq Ids

SchedInv == GuardInv /\ TablesOK /\ HistoryInv

-----------------------------------------------------------------------------
(* Numbers, and the order in which a tick takes the schedules.              *)

LEMMA Numbers ==
    /\ Never \in Nat /\ Never \in Times /\ Interval \in Nat /\ MaxClock \in Nat
    /\ 0 \in Times /\ 0 # Never
    /\ \A t \in 0..MaxClock : t \in Nat /\ t \in Times /\ t < Never /\ t + Period \in Times
    /\ Times \subseteq Nat /\ NoId \notin Ids /\ Ids \subseteq Nat
  BY SchedulesAssumption DEF Never, Times, NoId

LEMMA Kinds ==
    /\ Once \subseteq Ids /\ Cron \subseteq Ids /\ Relative \subseteq Ids
    /\ Once \cap Cron = {} /\ Once \cap Relative = {} /\ Cron \cap Relative = {}
    /\ \A id \in Ids : TargetsOf[id] \subseteq Keys
    /\ \A id \in Once : \E c \in Keys : TargetsOf[id] = {c}
  BY SchedulesAssumption DEF Ids

LEMMA LeastElement ==
    ASSUME NEW S, S \subseteq Nat, S # {}
    PROVE  \E n \in S : \A m \in S : n <= m
<1> DEFINE R == OpToRel(<, Nat)
<1>1. \A m, n \in Nat : m < n => <<m, n>> \in R
  BY DEF OpToRel
<1>2. IsWellFoundedOn(R, Nat)
  BY NatLessThanWellFounded
<1> HIDE DEF R
<1>3. PICK n \in S : \A m \in S : ~(<<m, n>> \in R)
  BY <1>2, WFMin
<1>4. n \in Nat /\ \A m \in S : m \in Nat /\ ~(m < n)
  BY <1>1, <1>3
<1> QED
  BY <1>4

\* The order of the ids always has a next schedule.
LEMMA FirstAndLast ==
    ASSUME NEW S, S \subseteq Ids, S # {}
    PROVE  First(S) \in S /\ Last(S) \in S
<1>0. MaxId \in Nat /\ S \subseteq 1..MaxId
  BY SchedulesAssumption
<1>1. S \subseteq Nat
  BY <1>0
<1>2. \E n \in S : \A m \in S : n <= m
  BY <1>1, LeastElement
<1>3. First(S) \in S
  BY <1>2 DEF First
<1> DEFINE T == {MaxId - n : n \in S}
<1>4. \A n \in S : MaxId - n \in Nat /\ MaxId - n \in T
  BY <1>0
<1>5. \A t \in T : \E n \in S : t = MaxId - n
  OBVIOUS
<1> HIDE DEF T
<1>6. T \subseteq Nat /\ T # {}
  BY <1>4, <1>5
<1>7. PICK least \in T : \A t \in T : least <= t
  BY <1>6, LeastElement
<1>8. PICK n \in S : least = MaxId - n
  BY <1>5
<1>9. \A m \in S : n >= m
  BY <1>0, <1>1, <1>4, <1>7, <1>8
<1>10. Last(S) \in S
  BY <1>9 DEF Last
<1> QED
  BY <1>3, <1>10

-----------------------------------------------------------------------------
(* The gate: every step of the scheduler is a step of the guard, or leaves  *)
(* it alone.                                                                *)

LEMMA SchedulerUsesGuard == SchedNext => [Next]_vars
<1> SUFFICES ASSUME SchedNext PROVE Next \/ UNCHANGED vars
  OBVIOUS
<1>0. Tick \in Workers /\ User \in Workers /\ SelfUpdate \in Workers
  BY SchedulesAssumption
<1>1. ASSUME NEW c \in Keys, UserOperation(c) \/ BeginTarget(c) PROVE Next
  BY <1>0, <1>1 DEF UserOperation, BeginTarget, Next
<1>2. CASE UserEnd \/ EndTarget \/ Expire
  BY <1>0, <1>2 DEF UserEnd, EndTarget, Expire, Next
<1>3. CASE StartSelfUpdate \/ Refuse
  BY <1>0, <1>3 DEF StartSelfUpdate, Refuse, Next
<1>4. CASE Crash \/ HandOver
  BY <1>4 DEF Crash, HandOver, NewProcess, Next
<1>5. ASSUME TickBegin \/ CheckTick \/ TakeDue \/ LookupFails \/ RelativeBegin \/ TakeRelative
             \/ TickEnd \/ MarkRun \/ MarkFails \/ Advance \/ Accept
      PROVE  UNCHANGED vars
  BY <1>5 DEF TickBegin, CheckTick, TakeDue, LookupFails, RelativeBegin, TakeRelative, TickEnd,
     MarkRun, MarkFails, Advance, Accept, guard, vars
<1>6. ASSUME NEW id \in Ids, LoadSchedule(id) \/ DeleteSchedule(id) \/ \E at \in Times : CreateSchedule(id, at)
      PROVE  UNCHANGED vars
  BY <1>6 DEF LoadSchedule, DeleteSchedule, CreateSchedule, guard, vars
<1>7. ASSUME NEW value \in BOOLEAN, SetScheduleEnabled(value) PROVE UNCHANGED vars
  BY <1>7 DEF SetScheduleEnabled, guard, vars
<1>8. ASSUME NEW c \in Keys, Check(c) \/ SkipTarget(c) \/ MeetMaintenance(c) \/ MeetOperation(c)
      PROVE  UNCHANGED vars
  BY <1>8 DEF Check, SkipTarget, MeetMaintenance, MeetOperation, guard, vars
<1> QED
  BY <1>1, <1>2, <1>3, <1>4, <1>5, <1>6, <1>7, <1>8 DEF SchedNext, TickStep

-----------------------------------------------------------------------------
(* Requests and the clock.                                                  *)

\* Steps that touch neither the tick, the rows nor the history.
LEMMA QuietStep ==
    ASSUME TablesOK, HistoryInv, UNCHANGED <<clock, rows, tick, fires, tried, cut>>
    PROVE  HistoryInv'
  BY DEF HistoryInv, TickPosition, AtSchedule, RowsInUse, FiredIsRetired, Fired,
       OnceRepeatsNeedAFault, AttemptIsNoted, RunMeansAttempt, AttemptIsRecorded, Attempted,
       PassWasReady, relativeRetryReady

RowGoes(id, row) ==
    /\ row \in Row => rows' \in [Ids -> Row]
    /\ \A j \in Ids : rows'[j] = IF j = id THEN row ELSE rows[j]

LEMMA CreateStep ==
    ASSUME TablesOK, HistoryInv, NEW id \in Ids, NEW at \in Times, CreateSchedule(id, at)
    PROVE  TablesOK' /\ HistoryInv'
<1> DEFINE row == [life |-> "live", enabled |-> TRUE, next |-> at, last |-> Never]
<1>1. /\ rows[id].life = "unused" /\ rows[id].last = Never
      /\ UNCHANGED <<clock, candidate, tick, editor, accepted, fires, tried, cut>>
  BY DEF CreateSchedule, NoRow, history
<1>2. row \in Row
  BY Numbers DEF Row
<1>3. RowGoes(id, row)
  BY DEF CreateSchedule, RowGoes, TablesOK
<1>4. TablesOK'
  BY <1>1, <1>2, <1>3 DEF TablesOK, RowGoes
<1>5. HistoryInv'
  BY <1>1, <1>3, Kinds DEF HistoryInv, TickPosition, AtSchedule, RowsInUse, FiredIsRetired, Fired,
       OnceRepeatsNeedAFault, AttemptIsNoted, RunMeansAttempt, AttemptIsRecorded, Attempted,
       PassWasReady, relativeRetryReady,
     RowGoes, TablesOK
<1> QED
  BY <1>4, <1>5

LEMMA EnableStep ==
    ASSUME TablesOK, HistoryInv, NEW value \in BOOLEAN, SetScheduleEnabled(value)
    PROVE  TablesOK' /\ HistoryInv'
<1>1. UNCHANGED <<clock, candidate, tick, accepted, fires, tried, cut>> /\ editor \in Ids
  BY DEF SetScheduleEnabled, history, TablesOK
<1>2. CASE rows[editor].life = "live"
  <2>1. /\ rows' \in [Ids -> Row]
        /\ \A j \in Ids : /\ rows'[j].life = rows[j].life /\ rows'[j].next = rows[j].next
                          /\ rows'[j].last = rows[j].last
                          /\ rows'[j].enabled = IF j = editor THEN value ELSE rows[j].enabled
    BY <1>1, <1>2 DEF SetScheduleEnabled, TablesOK, Row
  <2>2. TablesOK'
    BY <1>1, <2>1 DEF TablesOK, SetScheduleEnabled
  <2>3. HistoryInv'
    BY <1>1, <1>2, <2>1, Kinds DEF HistoryInv, TickPosition, AtSchedule, RowsInUse, FiredIsRetired, Fired,
       OnceRepeatsNeedAFault, AttemptIsNoted, RunMeansAttempt, AttemptIsRecorded, Attempted,
       PassWasReady, relativeRetryReady
  <2> QED
    BY <2>2, <2>3
<1>3. CASE rows[editor].life # "live"
  <2>1. UNCHANGED rows
    BY <1>3 DEF SetScheduleEnabled
  <2> QED
    BY <1>1, <2>1, QuietStep DEF TablesOK, SetScheduleEnabled
<1> QED
  BY <1>2, <1>3

LEMMA DeleteStep ==
    ASSUME TablesOK, HistoryInv, NEW id \in Ids, DeleteSchedule(id)
    PROVE  TablesOK' /\ HistoryInv'
<1>1. /\ UNCHANGED <<clock, candidate, tick, editor, accepted, fires, tried, cut>>
      /\ rows[id].life = "live"
  BY DEF DeleteSchedule, history
<1>2. /\ rows' \in [Ids -> Row]
      /\ \A j \in Ids : /\ rows'[j].life = IF j = id THEN "deleted" ELSE rows[j].life
                        /\ rows'[j].enabled = IF j = id THEN FALSE ELSE rows[j].enabled
                        /\ rows'[j].next = rows[j].next /\ rows'[j].last = rows[j].last
  BY DEF DeleteSchedule, TablesOK, Row
<1>3. TablesOK'
  BY <1>1, <1>2 DEF TablesOK
<1>4. TickPosition' /\ RowsInUse' /\ AttemptIsNoted'
  BY <1>1, <1>2, Kinds DEF HistoryInv, TickPosition, RowsInUse, AttemptIsNoted, AtSchedule
<1>5. FiredIsRetired' /\ OnceRepeatsNeedAFault'
  BY <1>1, <1>2, Kinds DEF HistoryInv, FiredIsRetired, Fired, OnceRepeatsNeedAFault
<1>6. RunMeansAttempt' /\ AttemptIsRecorded'
  BY <1>1, <1>2, Kinds DEF HistoryInv, RunMeansAttempt, AttemptIsRecorded, Attempted
<1>7. PassWasReady'
  BY <1>1, <1>2, Kinds DEF HistoryInv, PassWasReady, relativeRetryReady
<1> QED
  BY <1>3, <1>4, <1>5, <1>6, <1>7 DEF HistoryInv

LEMMA AdvanceStep ==
    ASSUME TablesOK, HistoryInv, Advance
    PROVE  TablesOK' /\ HistoryInv'
<1>1. /\ UNCHANGED <<rows, candidate, tick, editor, accepted, fires, tried, cut>>
      /\ clock' = clock + 1 /\ clock < MaxClock
  BY DEF Advance, history
<1>2. TablesOK'
  BY <1>1, Numbers DEF TablesOK
<1>3. /\ tick.id \in Relative => rows[tick.id].last \in Nat
      /\ \A id \in Relative : tried[id] \in Nat
  BY Kinds, Numbers DEF TablesOK, Row
<1>4. HistoryInv'
  BY <1>1, <1>3, Numbers DEF HistoryInv, TickPosition, AtSchedule, RowsInUse, FiredIsRetired, Fired,
       OnceRepeatsNeedAFault, AttemptIsNoted, RunMeansAttempt, AttemptIsRecorded, Attempted,
       PassWasReady, relativeRetryReady,
     TablesOK
<1> QED
  BY <1>2, <1>4

-----------------------------------------------------------------------------
(* The tick.                                                                *)

Frame == UNCHANGED <<clock, rows, candidate, editor, accepted, fires, tried, cut>>

LEMMA IdleFields ==
    /\ Idle \in TickState /\ Idle.pc = "idle" /\ Idle.due = {} /\ Idle.relative = {} /\ Idle.id = NoId
    /\ Idle.todo = {} /\ Idle.applied = FALSE
  BY DEF Idle, TickState

LEMMA ResumeFields ==
    ASSUME TablesOK, AtSchedule
    PROVE  /\ Resume \in TickState /\ Resume.pc \in {"relative", "due"}
           /\ Resume.due = tick.due /\ Resume.relative = tick.relative
           /\ Resume.id = NoId /\ Resume.todo = {} /\ Resume.applied = FALSE
  BY DEF Resume, TablesOK, TickState

\* The tick leaves the schedule it stands at, if any, without recording a run.
LEMMA LeaveStep ==
    ASSUME TablesOK, HistoryInv, UNCHANGED <<clock, rows, fires, tried>>,
           tick' = Idle \/ (AtSchedule /\ tick' = Resume),
           \/ AtSchedule /\ cut' = cut \cup {tick.id}
           \/ ~tick.applied /\ cut' = cut
    PROVE  tick' \in TickState /\ cut' \subseteq Ids /\ HistoryInv'
<1>1. /\ tick' \in TickState /\ tick'.pc \in {"idle", "relative", "due"}
      /\ tick'.due \subseteq tick.due /\ tick'.relative \subseteq tick.relative
      /\ tick'.id = NoId /\ tick'.todo = {} /\ tick'.applied = FALSE
  BY IdleFields, ResumeFields
<1>2. cut' \subseteq Ids
  BY DEF HistoryInv, TickPosition, TablesOK
<1>3. NoId \notin Ids /\ NoId \notin tick'.due /\ NoId \notin tick'.relative
  BY <1>1, Numbers, Kinds DEF TablesOK, TickState
<1>4. TickPosition' /\ RowsInUse' /\ AttemptIsNoted' /\ PassWasReady'
  BY <1>1, <1>3, Kinds DEF HistoryInv, TickPosition, RowsInUse, AttemptIsNoted, AtSchedule, PassWasReady
<1>5. FiredIsRetired' /\ OnceRepeatsNeedAFault'
  BY <1>1, <1>3, Kinds DEF HistoryInv, FiredIsRetired, Fired, OnceRepeatsNeedAFault
<1>6. RunMeansAttempt' /\ AttemptIsRecorded'
  BY <1>1, <1>3, Kinds DEF HistoryInv, RunMeansAttempt, AttemptIsRecorded, Attempted
<1> QED
  BY <1>1, <1>2, <1>4, <1>5, <1>6 DEF HistoryInv

\* DueSchedules lists no schedule that is done: this is where the row counts.
LEMMA BeginStep ==
    ASSUME TablesOK, HistoryInv, TickBegin \/ CheckTick
    PROVE  TablesOK' /\ HistoryInv'
<1>1. /\ Frame /\ tick.pc = "idle" /\ tick'.due \subseteq DueSchedules
      /\ tick' \in TickState /\ tick'.pc = "due" /\ tick'.relative = {} /\ tick'.id = NoId
      /\ tick'.todo = {} /\ tick'.applied = FALSE
  BY Kinds DEF TickBegin, CheckTick, Frame, history, Idle, TickState, DueSchedules
<1>2. \A id \in DueSchedules : rows[id].enabled /\ rows[id].life = "live" /\ rows[id].next # Never
  BY Kinds, Numbers DEF DueSchedules, HistoryInv, RowsInUse, TablesOK, Row
<1>3. tick.id = NoId /\ NoId \notin Ids /\ ~tick.applied /\ NoId \notin tick'.due
  BY <1>1, Numbers, Kinds DEF HistoryInv, TickPosition, AtSchedule, DueSchedules
<1>4. TickPosition' /\ RowsInUse' /\ AttemptIsNoted' /\ PassWasReady'
  BY <1>1, <1>2, <1>3, Kinds DEF HistoryInv, TickPosition, RowsInUse, AttemptIsNoted, AtSchedule, PassWasReady, Frame
<1>5. FiredIsRetired' /\ OnceRepeatsNeedAFault'
  BY <1>1, <1>2, <1>3, Kinds DEF HistoryInv, FiredIsRetired, Fired, OnceRepeatsNeedAFault, Frame
<1>6. RunMeansAttempt' /\ AttemptIsRecorded'
  BY <1>1, <1>2, <1>3, Kinds DEF HistoryInv, RunMeansAttempt, AttemptIsRecorded, Attempted, Frame
<1>7. TablesOK'
  BY <1>1 DEF Frame, TablesOK
<1> QED
  BY <1>4, <1>5, <1>6, <1>7 DEF HistoryInv

LEMMA TakeDueStep ==
    ASSUME TablesOK, HistoryInv, TakeDue
    PROVE  TablesOK' /\ HistoryInv'
<1> DEFINE id == First(tick.due)
<1>1. id \in tick.due /\ id \in Ids /\ id \notin Relative
  BY FirstAndLast, Kinds DEF TakeDue, TablesOK, TickState
<1>2. /\ Frame /\ tick.pc = "due" /\ tick.id = NoId /\ ~tick.applied
      /\ NoId \notin Ids
  BY Numbers DEF TakeDue, Frame, history, HistoryInv, TickPosition, AtSchedule
<1> HIDE DEF id
<1>3. /\ tick' \in TickState /\ tick'.pc = "apply" /\ tick'.due = tick.due \ {id} /\ tick'.id = id
      /\ tick'.relative = tick.relative /\ tick'.applied = FALSE /\ (id \in Once => tick'.todo = TargetsOf[id])
  BY <1>1, <1>2, Kinds DEF TakeDue, TablesOK, TickState, Candidates, id
<1>4. TickPosition' /\ RowsInUse' /\ AttemptIsNoted' /\ PassWasReady'
  BY <1>1, <1>2, <1>3, Kinds DEF HistoryInv, TickPosition, RowsInUse, AttemptIsNoted, AtSchedule, PassWasReady, Frame,
     TablesOK, TickState
<1>5. FiredIsRetired' /\ OnceRepeatsNeedAFault'
  BY <1>1, <1>2, <1>3, Kinds DEF HistoryInv, FiredIsRetired, Fired, OnceRepeatsNeedAFault, Frame
<1>6. RunMeansAttempt' /\ AttemptIsRecorded'
  BY <1>1, <1>2, <1>3, Kinds DEF HistoryInv, RunMeansAttempt, AttemptIsRecorded, Attempted, Frame
<1>7. TablesOK'
  BY <1>2, <1>3 DEF Frame, TablesOK
<1> QED
  BY <1>4, <1>5, <1>6, <1>7 DEF HistoryInv

LEMMA LookupFailsStep ==
    ASSUME TablesOK, HistoryInv, LookupFails
    PROVE  TablesOK' /\ HistoryInv'
<1> DEFINE id == First(tick.due)
<1>1. id \in tick.due /\ id \in Once /\ id \in Ids
  BY FirstAndLast, Kinds DEF LookupFails, TablesOK, TickState
<1>2. /\ UNCHANGED <<clock, rows, candidate, editor, accepted, fires, cut>>
      /\ tick.pc = "due" /\ tick.id = NoId /\ ~tick.applied /\ NoId \notin Ids
  BY Numbers DEF LookupFails, HistoryInv, TickPosition, AtSchedule
<1> HIDE DEF id
<1>3. /\ tick' \in TickState /\ tick'.pc = "apply" /\ tick'.due = tick.due \ {id} /\ tick'.id = id
      /\ tick'.relative = tick.relative /\ tick'.applied = FALSE /\ tick'.todo = {}
  BY <1>1, <1>2, Kinds DEF LookupFails, TablesOK, TickState, id
<1>4. /\ tried' \in [Once \cup Relative -> Times] /\ 0 # Never
      /\ \A j \in Once \cup Relative : tried'[j] = IF j = id THEN 0 ELSE tried[j]
  BY <1>1, Numbers, SchedulesAssumption DEF LookupFails, TablesOK, id, Times, Never
<1>5. TickPosition' /\ RowsInUse' /\ AttemptIsNoted' /\ PassWasReady'
  BY <1>1, <1>2, <1>3, <1>4, Kinds DEF HistoryInv, TickPosition, RowsInUse, AttemptIsNoted, AtSchedule,
     PassWasReady, TablesOK, TickState
<1>6. FiredIsRetired' /\ OnceRepeatsNeedAFault'
  BY <1>1, <1>2, <1>3, Kinds DEF HistoryInv, FiredIsRetired, Fired, OnceRepeatsNeedAFault
<1>7. RunMeansAttempt' /\ AttemptIsRecorded'
  BY <1>1, <1>2, <1>3, <1>4, Kinds DEF HistoryInv, RunMeansAttempt, AttemptIsRecorded, Attempted
<1>8. TablesOK'
  BY <1>2, <1>3, <1>4 DEF TablesOK
<1> QED
  BY <1>5, <1>6, <1>7, <1>8 DEF HistoryInv

LEMMA RelativeBeginStep ==
    ASSUME TablesOK, HistoryInv, RelativeBegin
    PROVE  TablesOK' /\ HistoryInv'
<1>1. /\ Frame /\ tick.pc = "due" /\ tick.due = {} /\ tick.id = NoId /\ ~tick.applied /\ NoId \notin Ids
  BY Numbers DEF RelativeBegin, Frame, history, HistoryInv, TickPosition, AtSchedule
<1>2. CASE maintenance
  BY <1>1, <1>2, LeaveStep DEF RelativeBegin, Frame, TablesOK
<1>3. CASE ~maintenance
  <2>1. /\ tick' \in TickState /\ tick'.pc = "relative" /\ tick'.due = {} /\ tick'.id = NoId
        /\ tick'.relative = {id \in Relative : rows[id].enabled}
        /\ tick'.applied = FALSE /\ tick'.todo = tick.todo
    BY <1>1, <1>3 DEF RelativeBegin, TablesOK, TickState
  <2>2. TickPosition' /\ RowsInUse' /\ AttemptIsNoted' /\ PassWasReady'
    BY <1>1, <2>1, Kinds DEF HistoryInv, TickPosition, RowsInUse, AttemptIsNoted, AtSchedule, PassWasReady, Frame
  <2>3. FiredIsRetired' /\ OnceRepeatsNeedAFault'
    BY <1>1, <2>1, Kinds DEF HistoryInv, FiredIsRetired, Fired, OnceRepeatsNeedAFault, Frame
  <2>4. RunMeansAttempt' /\ AttemptIsRecorded'
    BY <1>1, <2>1, Kinds DEF HistoryInv, RunMeansAttempt, AttemptIsRecorded, Attempted, RowsInUse, Frame
  <2>5. TablesOK'
    BY <1>1, <2>1 DEF Frame, TablesOK
  <2> QED
    BY <2>2, <2>3, <2>4, <2>5 DEF HistoryInv
<1> QED
  BY <1>2, <1>3

LEMMA TakeRelativeStep ==
    ASSUME TablesOK, HistoryInv, TakeRelative
    PROVE  TablesOK' /\ HistoryInv'
<1> DEFINE id == Last(tick.relative)
<1>1. id \in tick.relative /\ id \in Relative /\ id \in Ids /\ id \notin tick.due
  BY FirstAndLast, Kinds DEF TakeRelative, TablesOK, TickState
<1>2. /\ Frame /\ tick.pc = "relative" /\ tick.id = NoId /\ ~tick.applied /\ NoId \notin Ids
  BY Numbers DEF TakeRelative, Frame, history, HistoryInv, TickPosition, AtSchedule
<1> HIDE DEF id
<1>3. /\ tick' \in TickState /\ tick'.due = tick.due /\ tick'.relative = tick.relative \ {id}
      /\ tick'.applied = FALSE
      /\ \/ tick'.pc = "apply" /\ tick'.id = id /\ relativeRetryReady(id)
         \/ tick'.pc = "relative" /\ tick'.id = NoId
  <2>1. CASE relativeRetryReady(id)
    BY <1>1, <1>2, <2>1, Kinds DEF TakeRelative, TablesOK, TickState, Candidates, id
  <2>2. CASE ~relativeRetryReady(id)
    BY <1>1, <1>2, <2>2, Kinds DEF TakeRelative, TablesOK, TickState, id
  <2> QED
    BY <2>1, <2>2
<1>4. TickPosition' /\ RowsInUse' /\ AttemptIsNoted'
  BY <1>1, <1>2, <1>3, Kinds DEF HistoryInv, TickPosition, RowsInUse, AttemptIsNoted, AtSchedule, Frame,
     TablesOK, TickState
<1>5. FiredIsRetired' /\ OnceRepeatsNeedAFault'
  BY <1>1, <1>2, <1>3, Kinds DEF HistoryInv, FiredIsRetired, Fired, OnceRepeatsNeedAFault, Frame
<1>6. RunMeansAttempt' /\ AttemptIsRecorded'
  BY <1>1, <1>2, <1>3, Kinds DEF HistoryInv, RunMeansAttempt, AttemptIsRecorded, Attempted, Frame
<1>7. PassWasReady'
  BY <1>1, <1>2, <1>3, Kinds DEF PassWasReady, relativeRetryReady, Frame
<1>8. TablesOK'
  BY <1>2, <1>3 DEF Frame, TablesOK
<1> QED
  BY <1>4, <1>5, <1>6, <1>7, <1>8 DEF HistoryInv

LEMMA SkipTargetStep ==
    ASSUME TablesOK, HistoryInv, NEW c \in Keys, SkipTarget(c)
    PROVE  TablesOK' /\ HistoryInv'
<1>1. Frame /\ tick.pc = "apply" /\ tick.id \notin Once
  BY DEF SkipTarget, Frame, history
<1>2. /\ tick' \in TickState /\ tick'.pc = tick.pc /\ tick'.due = tick.due /\ tick'.id = tick.id
      /\ tick'.relative = tick.relative /\ tick'.applied = tick.applied
  BY DEF SkipTarget, TablesOK, TickState
<1>3. TablesOK'
  BY <1>1, <1>2 DEF Frame, TablesOK
<1>4. HistoryInv'
  BY <1>1, <1>2, Kinds DEF HistoryInv, TickPosition, AtSchedule, RowsInUse, FiredIsRetired, Fired,
       OnceRepeatsNeedAFault, AttemptIsNoted, RunMeansAttempt, AttemptIsRecorded, Attempted,
       PassWasReady, relativeRetryReady, Frame
<1> QED
  BY <1>3, <1>4

\* EndTarget, and everything else that leaves the tick at its schedule.
LEMMA EndTargetStep ==
    ASSUME TablesOK, HistoryInv, EndTarget
    PROVE  HistoryInv' /\ tick' \in TickState
<1>1. UNCHANGED <<clock, rows, fires, tried, cut>> /\ tick.pc = "updating"
  BY DEF EndTarget, history
<1>2. /\ tick' \in TickState /\ tick'.pc = "apply" /\ tick'.due = tick.due /\ tick'.id = tick.id
      /\ tick'.relative = tick.relative /\ tick'.applied = tick.applied /\ tick'.todo = tick.todo
  BY DEF EndTarget, TablesOK, TickState
<1>3. HistoryInv'
  BY <1>1, <1>2, Kinds DEF HistoryInv, TickPosition, AtSchedule, RowsInUse, FiredIsRetired, Fired,
       OnceRepeatsNeedAFault, AttemptIsNoted, RunMeansAttempt, AttemptIsRecorded, Attempted,
       PassWasReady, relativeRetryReady
<1> QED
  BY <1>2, <1>3

\* An attempt on the target c, refused or begun.
LEMMA AttemptStep ==
    ASSUME TablesOK, HistoryInv, NEW c, Ready(c), Attempt, ~maintenance, UNCHANGED <<clock, rows>>,
           tick' \in TickState, tick'.pc \in {"apply", "updating"}, tick'.due = tick.due, tick'.id = tick.id,
           tick'.relative = tick.relative, tick'.applied = TRUE, tick'.todo = tick.todo \ {c},
           \A j \in Once : \/ fires'[j] = fires[j]
                           \/ j = tick.id /\ fires[j] < 2 /\ fires'[j] = fires[j] + 1
    PROVE  cut' \subseteq Ids /\ tried' \in [Once \cup Relative -> Times] /\ HistoryInv'
<1>0. clock \in Nat /\ clock # Never /\ clock \in Times /\ 0 # Never /\ 0 \in Times
  BY Numbers DEF TablesOK
<1>1. c \in tick.todo /\ AtSchedule /\ tick.id \in Ids
  BY DEF Ready, AtSchedule, HistoryInv, TickPosition
<1>2. /\ tried' \in [Once \cup Relative -> Times]
      /\ \A j \in Once \cup Relative : j # tick.id => tried'[j] = tried[j]
      /\ tick.id \in Once => tried'[tick.id] = 0
      /\ tick.id \in Relative => tried'[tick.id] = clock
  BY <1>0, <1>1, Kinds DEF Attempt, TablesOK
<1>3. /\ cut' \subseteq Ids /\ \A j : j # tick.id => (j \in cut' <=> j \in cut)
      /\ tick.id \in Once => (tick.id \in cut' <=> tick.id \in cut)
  BY Kinds DEF Attempt, TablesOK
<1>4. TickPosition' /\ RowsInUse' /\ AttemptIsNoted' /\ PassWasReady'
  BY <1>0, <1>1, <1>2, Kinds DEF HistoryInv, TickPosition, RowsInUse, AttemptIsNoted, AtSchedule, PassWasReady
<1>5. \A j \in Once : fires[j] \in 0..2
  BY DEF TablesOK
<1>6. tick.id \in Once => tick'.todo = {} /\ (tick.id \in cut \/ fires[tick.id] = 0)
  BY <1>1, <1>5, Kinds DEF HistoryInv, TickPosition, FiredIsRetired, Fired
<1>7. FiredIsRetired' /\ OnceRepeatsNeedAFault'
  BY <1>1, <1>3, <1>5, <1>6, Kinds DEF HistoryInv, TickPosition, FiredIsRetired, Fired, OnceRepeatsNeedAFault
<1>8. RunMeansAttempt' /\ AttemptIsRecorded'
  BY <1>0, <1>1, <1>2, <1>3, Kinds DEF HistoryInv, RunMeansAttempt, AttemptIsRecorded, Attempted
<1> QED
  BY <1>2, <1>3, <1>4, <1>7, <1>8 DEF HistoryInv

\* In maintenance no container has an operation, so being refused because of one
\* is an attempt.
LEMMA MaintenanceIsIdle == GuardInv /\ maintenance => active = {}
  BY DEF GuardInv, MaintenanceExcludesOperations, GuardMatchesGrants

LEMMA MeetOperationStep ==
    ASSUME GuardInv, TablesOK, HistoryInv, NEW c \in Keys, MeetOperation(c)
    PROVE  TablesOK' /\ HistoryInv'
<1>1. /\ Ready(c) /\ Attempt /\ ~maintenance
      /\ UNCHANGED <<clock, rows, candidate, editor, accepted, fires>>
  BY MaintenanceIsIdle DEF MeetOperation, isMaintenanceError
<1>2. /\ tick' \in TickState /\ tick'.pc = "apply" /\ tick'.due = tick.due /\ tick'.id = tick.id
      /\ tick'.relative = tick.relative /\ tick'.applied = TRUE /\ tick'.todo = tick.todo \ {c}
  BY <1>1 DEF MeetOperation, Ready, TablesOK, TickState
<1>3. cut' \subseteq Ids /\ tried' \in [Once \cup Relative -> Times] /\ HistoryInv'
  BY <1>1, <1>2, AttemptStep
<1> QED
  BY <1>1, <1>2, <1>3 DEF TablesOK

LEMMA BeginTargetStep ==
    ASSUME TablesOK, HistoryInv, NEW c \in Keys, BeginTarget(c)
    PROVE  TablesOK' /\ HistoryInv'
<1>1. /\ Ready(c) /\ Attempt /\ ~maintenance
      /\ UNCHANGED <<clock, rows, candidate, editor, accepted>>
  BY DEF BeginTarget, begin
<1>2. /\ tick' \in TickState /\ tick'.pc = "updating" /\ tick'.due = tick.due /\ tick'.id = tick.id
      /\ tick'.relative = tick.relative /\ tick'.applied = TRUE /\ tick'.todo = tick.todo \ {c}
  BY <1>1 DEF BeginTarget, TablesOK, TickState
<1>3. /\ fires' \in [Once -> 0..2]
      /\ \A j \in Once : \/ fires'[j] = fires[j]
                         \/ j = tick.id /\ fires[j] < 2 /\ fires'[j] = fires[j] + 1
  BY DEF BeginTarget, TablesOK
<1>4. cut' \subseteq Ids /\ tried' \in [Once \cup Relative -> Times] /\ HistoryInv'
  BY <1>1, <1>2, <1>3, AttemptStep
<1> QED
  BY <1>1, <1>2, <1>3, <1>4 DEF TablesOK

LEMMA MeetMaintenanceStep ==
    ASSUME TablesOK, HistoryInv, NEW c \in Keys, MeetMaintenance(c)
    PROVE  TablesOK' /\ HistoryInv'
<1>1. /\ AtSchedule /\ (tick' = Idle \/ tick' = Resume)
      /\ UNCHANGED <<clock, rows, candidate, editor, accepted, fires, tried>>
      /\ \/ cut' = cut \cup {tick.id}
         \/ ~tick.applied /\ cut' = cut
  BY DEF MeetMaintenance, Ready, AtSchedule
<1>2. tick' \in TickState /\ cut' \subseteq Ids /\ HistoryInv'
  BY <1>1, LeaveStep
<1> QED
  BY <1>1, <1>2 DEF TablesOK

\* A crash, or the process of the self-update's replacement.
LEMMA NewProcessStep ==
    ASSUME TablesOK, HistoryInv, NewProcess
    PROVE  TablesOK' /\ HistoryInv'
<1>1. /\ tick' = Idle /\ editor' = NoId /\ accepted' = FALSE
      /\ UNCHANGED <<clock, rows, candidate, fires, tried>>
      /\ \/ AtSchedule /\ cut' = cut \cup {tick.id}
         \/ ~tick.applied /\ cut' = cut
  BY DEF NewProcess, AtSchedule, HistoryInv, TickPosition
<1>2. tick' \in TickState /\ cut' \subseteq Ids /\ HistoryInv'
  BY <1>1, LeaveStep
<1> QED
  BY <1>1, <1>2 DEF TablesOK

\* MarkScheduleRun and TouchScheduleLastRun.
LEMMA MarkRunStep ==
    ASSUME TablesOK, HistoryInv, MarkRun
    PROVE  TablesOK' /\ HistoryInv'
<1> DEFINE id == tick.id
<1>1. /\ AtSchedule /\ id \in Ids /\ tick.todo = {}
      /\ UNCHANGED <<clock, candidate, editor, accepted, fires, tried, cut>>
  BY DEF MarkRun, AtSchedule, HistoryInv, TickPosition, history
<1>2. /\ tick' \in TickState /\ tick'.pc \in {"relative", "due"}
      /\ tick'.due = tick.due /\ tick'.relative = tick.relative
      /\ tick'.id = NoId /\ tick'.todo = {} /\ tick'.applied = FALSE
  BY <1>1, ResumeFields DEF MarkRun
<1>3. /\ NoId \notin Ids /\ NoId \notin tick.due /\ NoId \notin tick.relative /\ clock \in Nat
      /\ clock \in Times /\ clock # Never /\ clock + Period \in Times
  <2>1. NoId \notin Ids /\ NoId \notin tick.due /\ NoId \notin tick.relative
    BY Numbers, Kinds DEF TablesOK, TickState
  <2>2. clock \in 0..MaxClock
    BY DEF TablesOK
  <2> QED
    BY <2>1, <2>2, Numbers
<1>4. CASE rows[id].life = "live" /\ (id \in Relative => tick.applied)
  <2>1. /\ rows' \in [Ids -> Row]
        /\ \A j \in Ids : j # id => rows'[j] = rows[j]
        /\ rows'[id].life = "live" /\ rows'[id].last = clock
        /\ id \in Once => rows'[id].next = Never /\ rows'[id].enabled = FALSE
    <3>1. /\ markedRow(id) \in Row /\ markedRow(id).life = "live" /\ markedRow(id).last = clock
          /\ id \in Once => markedRow(id).next = Never /\ markedRow(id).enabled = FALSE
      BY <1>1, <1>3, <1>4, Numbers DEF markedRow, TablesOK, Row
    <3>2. rows' = [rows EXCEPT ![id] = markedRow(id)]
      BY <1>4 DEF MarkRun
    <3> QED
      BY <1>1, <3>1, <3>2 DEF TablesOK
  <2>2. TablesOK'
    BY <1>1, <1>2, <2>1 DEF TablesOK
  <2>3. TickPosition' /\ RowsInUse' /\ AttemptIsNoted' /\ PassWasReady'
    BY <1>1, <1>2, <1>3, <2>1, Kinds DEF HistoryInv, TickPosition, RowsInUse, AttemptIsNoted, AtSchedule, PassWasReady
  <2>4. FiredIsRetired' /\ OnceRepeatsNeedAFault'
    BY <1>1, <1>2, <1>3, <2>1, Kinds DEF HistoryInv, FiredIsRetired, Fired, OnceRepeatsNeedAFault
  <2>5. RunMeansAttempt'
    BY <1>1, <1>3, <1>4, <2>1, Kinds DEF HistoryInv, AttemptIsNoted, RunMeansAttempt
  <2>6. AttemptIsRecorded'
    BY <1>1, <1>2, <1>3, <1>4, <2>1, Kinds DEF HistoryInv, AttemptIsRecorded, Attempted
  <2> QED
    BY <2>2, <2>3, <2>4, <2>5, <2>6 DEF HistoryInv
<1>5. CASE ~(rows[id].life = "live" /\ (id \in Relative => tick.applied))
  <2>1. UNCHANGED rows
    BY <1>5 DEF MarkRun
  <2>2. rows[id].life = "deleted" \/ (id \in Relative /\ ~tick.applied)
    BY <1>1, <1>5 DEF HistoryInv, RowsInUse, TablesOK, Row
  <2>3. TablesOK'
    BY <1>1, <1>2, <2>1 DEF TablesOK
  <2>4. TickPosition' /\ RowsInUse' /\ AttemptIsNoted' /\ PassWasReady'
    BY <1>1, <1>2, <1>3, <2>1, Kinds DEF HistoryInv, TickPosition, RowsInUse, AttemptIsNoted, AtSchedule, PassWasReady
  <2>5. FiredIsRetired' /\ OnceRepeatsNeedAFault' /\ RunMeansAttempt'
    BY <1>1, <1>2, <1>3, <2>1, <2>2, Kinds DEF HistoryInv, FiredIsRetired, Fired, OnceRepeatsNeedAFault, RunMeansAttempt
  <2>6. AttemptIsRecorded'
    BY <1>1, <1>2, <1>3, <2>1, <2>2, Kinds DEF HistoryInv, TickPosition, AttemptIsRecorded, Attempted
  <2> QED
    BY <2>3, <2>4, <2>5, <2>6 DEF HistoryInv
<1> QED
  BY <1>4, <1>5

-----------------------------------------------------------------------------
\* candidate' is typed wherever an operation ends or a check replaces it.
LEMMA CandidateTyped ==
    ASSUME TablesOK, NEW c, NEW t \in Times
    PROVE  [candidate EXCEPT ![c] = t] \in [Keys -> Times]
  BY DEF TablesOK

LEMMA SchedInitInv == SchedInit => SchedInv
<1> SUFFICES ASSUME SchedInit PROVE SchedInv
  OBVIOUS
<1>1. GuardInv
  BY GuardInit DEF SchedInit
<1>2. NoRow \in Row /\ NoRow.life = "unused" /\ NoRow.enabled = FALSE /\ NoRow.last = Never
  BY Numbers DEF NoRow, Row
<1>3. /\ \A id \in Ids : rows[id].life = "unused" /\ rows[id].enabled = FALSE /\ rows[id].last = Never
      /\ \A id \in Once : fires[id] = 0
      /\ \A id \in Once \cup Relative : tried[id] = Never
  BY <1>2 DEF SchedInit
<1>4. /\ rows \in [Ids -> Row] /\ candidate \in [Keys -> Times] /\ fires \in [Once -> 0..2]
      /\ tried \in [Once \cup Relative -> Times]
  BY <1>2, Numbers DEF SchedInit
<1>5. /\ clock = 0 /\ 0 \in 0..MaxClock /\ tick = Idle /\ editor = NoId /\ accepted = FALSE /\ cut = {}
  BY Numbers DEF SchedInit
<1>6. TablesOK
  BY <1>4, <1>5, IdleFields DEF TablesOK
<1>7. HistoryInv
  <2>1. /\ tick.pc = "idle" /\ tick.id = NoId /\ ~tick.applied /\ tick.due = {} /\ tick.relative = {}
        /\ NoId \notin Ids /\ NoId \notin Once /\ NoId \notin Relative
    BY <1>5, IdleFields, Numbers, Kinds
  <2>2. TickPosition /\ RowsInUse /\ AttemptIsNoted /\ PassWasReady
    BY <1>3, <2>1 DEF TickPosition, AtSchedule, RowsInUse, AttemptIsNoted, PassWasReady
  <2>3. FiredIsRetired /\ OnceRepeatsNeedAFault
    BY <1>3 DEF FiredIsRetired, Fired, OnceRepeatsNeedAFault
  <2>4. RunMeansAttempt /\ AttemptIsRecorded
    BY <1>3, Kinds DEF RunMeansAttempt, AttemptIsRecorded, Attempted
  <2> QED
    BY <2>2, <2>3, <2>4 DEF HistoryInv
<1> QED
  BY <1>1, <1>6, <1>7 DEF SchedInv

LEMMA SchedStep == SchedInv /\ [SchedNext]_schedVars => SchedInv'
<1> SUFFICES ASSUME SchedInv, [SchedNext]_schedVars PROVE SchedInv'
  OBVIOUS
<1>0. GuardInv /\ TablesOK /\ HistoryInv
  BY DEF SchedInv
<1>1. GuardInv'
  <2>1. CASE SchedNext
    BY <1>0, <2>1, SchedulerUsesGuard, GuardStep
  <2>2. CASE UNCHANGED schedVars
    BY <1>0, <2>2, GuardStep DEF schedVars, guard, vars
  <2> QED
    BY <2>1, <2>2
<1>2. CASE UNCHANGED schedVars
  <2>1. UNCHANGED <<clock, rows, candidate, tick, editor, accepted, fires, tried, cut>>
    BY <1>2 DEF schedVars, history
  <2>2. TablesOK'
    BY <1>0, <2>1 DEF TablesOK
  <2> QED
    BY <1>0, <1>1, <2>1, <2>2, QuietStep DEF SchedInv
<1>3. ASSUME TickBegin \/ CheckTick \/ TakeDue \/ LookupFails \/ RelativeBegin \/ TakeRelative
             \/ MarkRun \/ Advance
      PROVE  TablesOK' /\ HistoryInv'
  BY <1>0, <1>3, BeginStep, TakeDueStep, LookupFailsStep, RelativeBeginStep, TakeRelativeStep,
     MarkRunStep, AdvanceStep
<1>4. ASSUME TickEnd PROVE TablesOK' /\ HistoryInv'
  <2>1. /\ tick' = Idle /\ ~tick.applied /\ UNCHANGED <<clock, rows, candidate, editor, accepted, fires, tried, cut>>
    BY <1>0, <1>4 DEF TickEnd, HistoryInv, TickPosition, AtSchedule, history
  <2> QED
    BY <1>0, <2>1, LeaveStep DEF TablesOK
<1>5. ASSUME Crash \/ HandOver PROVE TablesOK' /\ HistoryInv'
  BY <1>0, <1>5, NewProcessStep DEF Crash, HandOver
<1>6. ASSUME EndTarget PROVE TablesOK' /\ HistoryInv'
  <2>1. candidate' \in [Keys -> Times]
    BY <1>0, <1>6, CandidateTyped, Numbers DEF EndTarget, TablesOK
  <2> QED
    BY <1>0, <1>6, <2>1, EndTargetStep DEF EndTarget, TablesOK, history
<1>7. ASSUME Expire PROVE TablesOK' /\ HistoryInv'
  <2>1. candidate' \in [Keys -> Times]
    BY <1>0, <1>7, CandidateTyped, Numbers DEF Expire, TablesOK
  <2>2. /\ AtSchedule /\ tick' = Idle /\ cut' = cut \cup {tick.id}
        /\ UNCHANGED <<clock, rows, editor, accepted, fires, tried>>
    BY <1>7 DEF Expire, AtSchedule
  <2> QED
    BY <1>0, <2>1, <2>2, LeaveStep DEF TablesOK
<1>8. ASSUME MarkFails PROVE TablesOK' /\ HistoryInv'
  <2>1. /\ AtSchedule /\ tick' = Resume /\ cut' = cut \cup {tick.id}
        /\ UNCHANGED <<clock, rows, candidate, editor, accepted, fires, tried>>
    BY <1>8 DEF MarkFails, AtSchedule
  <2> QED
    BY <1>0, <2>1, LeaveStep DEF TablesOK
<1>9. ASSUME NEW id \in Ids, DeleteSchedule(id) \/ \E at \in Times : CreateSchedule(id, at)
      PROVE  TablesOK' /\ HistoryInv'
  BY <1>0, <1>9, DeleteStep, CreateStep
<1>10. ASSUME NEW value \in BOOLEAN, SetScheduleEnabled(value) PROVE TablesOK' /\ HistoryInv'
  BY <1>0, <1>10, EnableStep
<1>11. ASSUME NEW c \in Keys, SkipTarget(c) \/ MeetMaintenance(c) \/ MeetOperation(c) \/ BeginTarget(c)
       PROVE  TablesOK' /\ HistoryInv'
  BY <1>0, <1>11, SkipTargetStep, MeetMaintenanceStep, MeetOperationStep, BeginTargetStep
<1>12. ASSUME NEW c \in Keys, Check(c) \/ UserOperation(c) PROVE TablesOK' /\ HistoryInv'
  <2>1. UNCHANGED <<clock, rows, tick, editor, accepted, fires, tried, cut>>
    BY <1>12 DEF Check, UserOperation, history
  <2>2. clock \in Times
    BY <1>0, Numbers DEF TablesOK
  <2>3. candidate' \in [Keys -> Times]
    BY <1>0, <1>12, <2>2, CandidateTyped, Numbers DEF Check, UserOperation, TablesOK
  <2> QED
    BY <1>0, <2>1, <2>3, QuietStep DEF TablesOK
<1>13. ASSUME UserEnd PROVE TablesOK' /\ HistoryInv'
  <2>1. UNCHANGED <<clock, rows, tick, editor, accepted, fires, tried, cut>>
    BY <1>13 DEF UserEnd, history
  <2>2. candidate' \in [Keys -> Times]
    BY <1>0, <1>13, CandidateTyped, Numbers DEF UserEnd, TablesOK
  <2> QED
    BY <1>0, <2>1, <2>2, QuietStep DEF TablesOK
<1>14. ASSUME StartSelfUpdate \/ Refuse \/ Accept \/ \E id \in Ids : LoadSchedule(id)
       PROVE  TablesOK' /\ HistoryInv'
  <2>1. /\ UNCHANGED <<clock, rows, candidate, tick, fires, tried, cut>>
        /\ accepted' \in {accepted, TRUE} /\ (editor' = editor \/ editor' \in Ids)
    BY <1>14 DEF StartSelfUpdate, Refuse, Accept, LoadSchedule, history
  <2> QED
    BY <1>0, <2>1, QuietStep DEF TablesOK
<1>15. CASE SchedNext
  <2>1. TablesOK' /\ HistoryInv'
    BY <1>3, <1>4, <1>5, <1>6, <1>7, <1>8, <1>9, <1>10, <1>11, <1>12, <1>13, <1>14, <1>15 DEF SchedNext, TickStep
  <2> QED
    BY <1>1, <2>1 DEF SchedInv
<1> QED
  BY <1>2, <1>15

-----------------------------------------------------------------------------
\* The inductive invariant of the scheduler over its tables and the gate.
THEOREM SchedulerInvariant == SchedSpec => []SchedInv
  BY SchedInitInv, SchedStep, PTL DEF SchedSpec

\* The types of the scheduler's state, the tables and the gate.
THEOREM SchedulerTypeCorrect == SchedSpec => []SchedTypeOK
<1>1. SchedInv => SchedTypeOK
  BY DEF SchedInv, GuardInv, TablesOK, SchedTypeOK
<1> QED
  BY <1>1, SchedulerInvariant, PTL

\* StartSelfUpdate closes the gate only on an idle daemon, whatever the scheduler
\* and the users do to it: the guard's promise holds in the composition.
THEOREM SchedulerKeepsGate == SchedSpec => []MaintenanceExcludesOperations
<1>1. SchedInv => MaintenanceExcludesOperations
  BY DEF SchedInv, GuardInv
<1> QED
  BY <1>1, SchedulerInvariant, PTL

\* executeOnce and MarkScheduleRun: a one-off updates its container at most once
\* unless a crash or an expired tick cut the run short before it was recorded.
THEOREM OnceIsOnce == SchedSpec => []OnceRepeatsNeedAFault
<1>1. SchedInv => OnceRepeatsNeedAFault
  BY DEF SchedInv, HistoryInv
<1> QED
  BY <1>1, SchedulerInvariant, PTL

\* MarkScheduleRun and TouchScheduleLastRun record a run only of a schedule that
\* attempted something: maintenance never consumes one.
THEOREM RecordedRunsWereAttempted == SchedSpec => []RunMeansAttempt
<1>1. SchedInv => RunMeansAttempt
  BY DEF SchedInv, HistoryInv
<1> QED
  BY <1>1, SchedulerInvariant, PTL

\* relativeRetryReady: two passes of a relative policy that attempt something lie
\* the check interval apart, unless the first was cut short unrecorded.
THEOREM RelativeRetriesAreSpaced == SchedSpec => RetriesAreSpaced
<1> DEFINE Spaced ==
      FirstAttempt /\ tried[tick.id] # Never /\ tick.id \notin cut => clock >= tried[tick.id] + Interval
<1>1. SchedInv => Spaced
  <2> SUFFICES ASSUME SchedInv, tick.id \in Relative, ~tick.applied, tried[tick.id] # Never, tick.id \notin cut
               PROVE  clock >= tried[tick.id] + Interval
    BY DEF FirstAttempt
  <2>1. rows[tick.id].last # Never /\ rows[tick.id].last >= tried[tick.id]
    BY DEF SchedInv, HistoryInv, AttemptIsRecorded, Attempted
  <2>2. clock >= rows[tick.id].last + Interval
    BY <2>1 DEF SchedInv, HistoryInv, PassWasReady, relativeRetryReady
  <2>3. clock \in Nat /\ rows[tick.id].last \in Nat /\ tried[tick.id] \in Nat /\ Interval \in Nat
    BY Numbers, Kinds DEF SchedInv, TablesOK, Row
  <2> QED
    BY <2>1, <2>2, <2>3
<1> QED
  BY <1>1, SchedulerInvariant, PTL DEF SchedSpec, RetriesAreSpaced
=============================================================================
