--------------------------- MODULE CrashLoopProofs ---------------------------
(***************************************************************************)
(* The four safety properties of CrashLoop, for any threshold, window and   *)
(* number of operations, restarts, lost events, failed statements and       *)
(* self-updates.                                                            *)
(*                                                                         *)
(* One trigger, one rollback: an arming is known by the ID of its           *)
(* container, Docker's IDs are new, and only a new arming makes a watch     *)
(* active again.  So the transition from active to triggered, which starts  *)
(* the goroutine, happens once for every ID, and the monitor that resumes a *)
(* triggered watch after a restart finds no goroutine at work.              *)
(*                                                                         *)
(* Half the threshold: the count minus the events the watch's last instant  *)
(* covers came from the restart counter, and no reconcile takes more from   *)
(* the counter than it shows.  Both parts are at most the exits.            *)
(*                                                                         *)
(* Nothing missed: a reconcile's instants are new and, while the clock is   *)
(* inside the window, so are they, so everything it records is counted, or  *)
(* noted as missed where the statement fails.                               *)
(***************************************************************************)
EXTENDS CrashLoop, FiniteSetTheorems, TLAPS

\* The operation has replaced the container and not recorded it yet.
HasReplaced(o) == o.pc \in {"read", "commit"}

\* Goroutines and finished rollbacks belong to this arming or an earlier one, and
\* the operation about to commit has a container nobody has watched.
ArmingsAreNew ==
    /\ watch.id <= host.id /\ (HasReplaced(oper) => watch.id < host.id)
    /\ \A j \in jobs : j.w <= watch.id
    /\ \A r \in rolled : r <= watch.id

\* A watch that still counts has not started its rollback yet.
CountingIsUntriggered ==
    /\ watch.status = "active" => \A j \in jobs : j.w # watch.id
    /\ watch.status \in {"active", "triggered"} => watch.id \notin rolled
    /\ watch.status = "none" => jobs = {}

\* The monitor resumes before it counts; the gate is closed only by a self-update.
ResumesAlone ==
    /\ mon.pc = "recover" => jobs = {}
    /\ guard = "maintenance" => used.self > 0

TriggerInv ==
    /\ ArmingsAreNew /\ CountingIsUntriggered /\ ResumesAlone
    /\ OneRollbackPerTrigger /\ RollbackIsNotRepeated

-----------------------------------------------------------------------------
(* Types, and the fields of the records the steps write.                    *)

LEMMA Limits ==
    /\ Threshold \in Nat /\ Threshold > 0 /\ Window \in Nat /\ Window > 0
    /\ MaxClock \in Nat
  BY ThresholdAssumption, LimitsAssumption

LEMMA NanoType == \A t \in Nat : Nano(t) \in Nat
  BY Limits DEF Nano

\* Where a subscription starts is a position.
LEMMA SinceType ==
    ASSUME TypeOK, NEW t
    PROVE  Since(t) \in Nat
<1> DEFINE S == {k \in DOMAIN log : log[k].at < t}
<1>1. DOMAIN log = 1..Len(log) /\ Len(log) \in Nat
  BY DEF TypeOK
<1>2. IsFiniteSet(1..Len(log))
  BY <1>1, FS_Interval
<1>3. IsFiniteSet(S)
  BY <1>1, <1>2, FS_Subset
<1>4. Cardinality(S) \in Nat
  BY <1>3, FS_CardinalityType
<1> QED
  BY <1>4 DEF Since

NewJob(id) == [w |-> id, id |-> 0, pc |-> "lookup"]

\* recordCrash counts the crash, and starts a goroutine on the transition, or
\* does nothing.
LEMMA RecordCrashEffect ==
    ASSUME TypeOK, NEW id \in Nat, NEW nano \in Nat, NEW at, recordCrash(id, nano, at)
    PROVE  /\ watch' \in Watch /\ jobs' \subseteq Job
           /\ watch'.id = watch.id /\ watch'.until = watch.until /\ watch'.base = watch.base
           /\ watch'.missed = watch.missed
           /\ \/ ~Counted(watch, id, nano, at) /\ UNCHANGED <<watch, jobs>>
              \/ /\ Counted(watch, id, nano, at)
                 /\ watch'.count = watch.count + 1 /\ watch'.observed = watch.observed + 1
                 /\ watch'.last = nano
                 /\ \/ /\ watch.count + 1 >= Threshold /\ watch'.status = "triggered"
                       /\ jobs' = jobs \cup {NewJob(id)}
                    \/ /\ watch.count + 1 < Threshold /\ watch'.status = "active"
                       /\ jobs' = jobs
<1>1. CASE ~Counted(watch, id, nano, at)
  BY <1>1 DEF recordCrash, TypeOK
<1>2. CASE Counted(watch, id, nano, at)
  <2>1. watch' = RecordCrash(watch, nano) /\ watch.status = "active"
    BY <1>2 DEF recordCrash, Counted
  <2>2. watch.count \in Nat /\ Threshold \in Nat
    BY Limits DEF TypeOK, Watch
  <2> DEFINE status == IF watch.count + 1 >= Threshold THEN "triggered" ELSE "active"
  <2>a. status \in Statuses
    BY DEF Statuses
  <2>b. watch' = [watch EXCEPT !.count = @ + 1, !.observed = @ + 1, !.last = nano, !.status = status]
    BY <2>1 DEF RecordCrash
  <2> HIDE DEF status
  <2>3. /\ watch' \in Watch /\ watch'.id = watch.id
        /\ watch'.until = watch.until /\ watch'.base = watch.base /\ watch'.missed = watch.missed
        /\ watch'.count = watch.count + 1 /\ watch'.observed = watch.observed + 1 /\ watch'.last = nano
        /\ watch'.status = status
    <3>0. watch \in Watch /\ watch.count + 1 \in Nat /\ watch.observed + 1 \in Nat
      BY DEF TypeOK, Watch
    <3> DEFINE c == watch.count + 1
               o == watch.observed + 1
    <3>1. watch' = [watch EXCEPT !.count = c, !.observed = o, !.last = nano, !.status = status]
      BY <2>b
    <3>2. c \in Nat /\ o \in Nat
      BY <3>0
    <3> HIDE DEF c, o
    <3>3. watch' \in Watch
      BY <3>0, <3>1, <3>2, <2>a DEF Watch
    <3>4. /\ watch'.id = watch.id /\ watch'.until = watch.until /\ watch'.base = watch.base
          /\ watch'.missed = watch.missed
          /\ watch'.count = c /\ watch'.observed = o /\ watch'.last = nano /\ watch'.status = status
      BY <3>0, <3>1 DEF Watch
    <3> QED
      BY <3>3, <3>4 DEF c, o
  <2>4. NewJob(id) \in Job
    BY DEF NewJob, Job
  <2>5. jobs' = IF watch'.status = "triggered" THEN jobs \cup {NewJob(id)} ELSE jobs
    BY <1>2 DEF recordCrash, NewJob, Counted
  <2> QED
    BY <1>2, <2>2, <2>3, <2>4, <2>5 DEF TypeOK, status
<1> QED
  BY <1>1, <1>2

LEMMA ReconciledEffect ==
    ASSUME TypeOK, NEW t, Reconciled(t)
    PROVE  /\ mon' \in MonitorState /\ mon'.pc = "select" /\ mon'.i = 0
           /\ mon'.w.id = mon.w.id /\ mon'.seen = mon.seen /\ mon'.now = 0 /\ pos' \in Nat
<1>1. mon \in MonitorState /\ mon.w.id \in Nat
  BY DEF TypeOK, MonitorState
<1> DEFINE l == Listed(mon.w.id, 0, 0)
<1>2. l \in [id : Nat, observed : Nat, until : Nat] /\ l.id = mon.w.id
  BY <1>1 DEF Listed
<1>3. mon' = [mon EXCEPT !.pc = "select", !.now = 0, !.i = 0, !.w = l]
  BY DEF Reconciled
<1> HIDE DEF l
<1>4. /\ mon' \in MonitorState /\ mon'.pc = "select" /\ mon'.i = 0
      /\ mon'.w = l /\ mon'.seen = mon.seen /\ mon'.now = 0
  BY <1>1, <1>2, <1>3 DEF MonitorState
<1>5. pos' \in Nat
  BY SinceType DEF Reconciled, TypeOK
<1> QED
  BY <1>2, <1>4, <1>5

LEMMA CompleteEffect ==
    ASSUME TypeOK, NEW status \in Statuses \ {"none", "active", "triggered"}, watch' = CompleteRollbackWatch(watch, status)
    PROVE  /\ watch' \in Watch /\ watch'.id = watch.id /\ watch'.count = watch.count
           /\ watch'.observed = watch.observed /\ watch'.last = watch.last
           /\ watch'.until = watch.until /\ watch'.base = watch.base /\ watch'.missed = watch.missed
           /\ watch.missed \in Nat /\ watch'.status \notin {"active", "triggered"}
           /\ (watch.status = "none" <=> watch'.status = "none")
  BY DEF CompleteRollbackWatch, TypeOK, Watch

-----------------------------------------------------------------------------
(* What each step does to the state the invariants are about.               *)

\* Docker forgets no event, IDs only grow, and a container's counter too.
LogGrows == \A k \in DOMAIN log : k \in DOMAIN log' /\ log'[k] = log[k]
HostMoves ==
    \/ host'.id = host.id /\ host'.restarts >= host.restarts
    \/ host'.id > host.id
DockerMoves == LogGrows /\ HostMoves

\* The gate is closed by a self-update, which is counted.
GateIsCounted ==
    /\ guard' = "maintenance" => guard = "maintenance" \/ used'.self > 0
    /\ used'.self >= used.self

\* The watch keeps its arming and what it has counted; it may be completed.
WatchKept ==
    /\ watch'.id = watch.id /\ watch'.count = watch.count /\ watch'.last = watch.last
    /\ watch'.until = watch.until /\ watch'.base = watch.base /\ watch'.missed >= watch.missed
    /\ watch.status = "none" => watch'.status = "none"
    /\ watch'.status = watch.status \/ watch'.status \notin {"none", "active", "triggered"}

\* The monitor stays where it is, or is between two reconciles; one starts with a
\* reading of the clock.
Reading == {"inspect", "record", "set"}
MonitorRests ==
    \/ mon' = mon
    \/ /\ mon.pc # "record" /\ mon'.pc \notin Reading /\ mon'.w.id = mon.w.id
       /\ mon'.i = 0 \/ (mon'.i = mon.i /\ mon.pc \notin Reading)
       /\ (mon.pc = "recover" <=> mon'.pc = "recover")
       /\ mon'.seen = mon.seen
       /\ \/ mon'.pc # "list" /\ (mon'.now = 0 \/ mon'.now = mon.now)
          \/ mon'.pc = "list" /\ mon'.now = clock' /\ clock' = clock + 1

\* A container an operation is about to record has an ID no watch has.
OperatorMoves == HasReplaced(oper') => host'.id > host.id \/ (HasReplaced(oper) /\ host'.id = host.id)

\* A step that leaves counting and goroutines alone.
Calm ==
    /\ DockerMoves /\ GateIsCounted
    /\ WatchKept /\ MonitorRests /\ OperatorMoves
    /\ watch'.observed = watch.observed /\ UNCHANGED <<jobs, rolled, dropped>>

LEMMA SpendEffect ==
    ASSUME TypeOK, NEW b \in {"ops", "exits", "self", "faults"}, NEW max, Spend(b, max)
    PROVE  /\ used' \in Used
           /\ used'.self >= used.self /\ (b = "self" => used'.self > 0)
  BY DEF TypeOK, Used, Spend

LEMMA FaultEffect == ASSUME TypeOK, Fault PROVE used' \in Used /\ used'.self >= used.self
  BY SpendEffect DEF Fault

LEMMA DiesEffect ==
    ASSUME TypeOK, NEW code \in ExitCodes, Dies(code)
    PROVE  /\ clock' \in 0..MaxClock /\ log' \in Seq(Event) /\ LogGrows
           /\ Len(log') = Len(log) + 1 /\ log'[Len(log')].id = host.id
<1> DEFINE e == [id |-> host.id, at |-> clock + 1, code |-> code]
<1>1. e \in Event /\ e.id = host.id
  BY Limits DEF TypeOK, Host, Event
<1>2. log' = Append(log, e) /\ clock' \in 0..MaxClock /\ log \in Seq(Event)
  BY Limits DEF TypeOK, Dies
<1> HIDE DEF e
<1> QED
  BY <1>1, <1>2 DEF LogGrows

LEMMA SameLog == ASSUME TypeOK, UNCHANGED log PROVE LogGrows
  BY DEF LogGrows

LEMMA RecreateEffect ==
    ASSUME TypeOK, Recreate
    PROVE  /\ host' \in Host /\ clock' \in 0..MaxClock /\ log' \in Seq(Event)
           /\ host'.id = host.id + 1 /\ host'.restarts = 0 /\ host'.state \in {"running", "created"}
           /\ host'.id > host.id /\ DockerMoves
<1>1. /\ host' \in Host /\ host'.id = host.id + 1 /\ host'.restarts = 0
      /\ host'.state \in {"running", "created"} /\ host.id \in Nat
  BY DEF TypeOK, Recreate, Host, States
<1>2. clock' \in 0..MaxClock /\ log' \in Seq(Event) /\ LogGrows
  BY DiesEffect, SameLog DEF Recreate, TypeOK
<1> QED
  BY <1>1, <1>2 DEF DockerMoves, HostMoves

\* What a step leaves alone.
LEMMA SameGate ==
    ASSUME TypeOK
    PROVE  /\ guard' # "maintenance" /\ UNCHANGED used => GateIsCounted
           /\ UNCHANGED <<guard, used>> => GateIsCounted
           /\ UNCHANGED watch => WatchKept
           /\ UNCHANGED mon => MonitorRests
  BY DEF TypeOK, Used, Watch, GateIsCounted, WatchKept, MonitorRests

\* Docker by itself.
LEMMA CrashEffect == ASSUME TypeOK, Crash PROVE TypeOK' /\ Calm
<1>1. PICK code \in ExitCodes : Dies(code)
  BY DEF Crash
<1>2. clock' \in 0..MaxClock /\ log' \in Seq(Event) /\ LogGrows
  BY <1>1, DiesEffect
<1>3. host' \in Host /\ host'.id = host.id /\ host'.restarts = host.restarts /\ host.restarts \in Nat
  BY DEF TypeOK, Crash, Host, States
<1>4. UNCHANGED <<row, watch, guard, oper, self, mon, pos, jobs, used, rolled, dropped>>
  BY DEF Crash
<1>5. TypeOK'
  BY <1>2, <1>3, <1>4 DEF TypeOK
<1>6. GateIsCounted /\ WatchKept /\ MonitorRests
  BY <1>4, SameGate
<1> QED
  BY <1>2, <1>3, <1>4, <1>5, <1>6 DEF Calm, DockerMoves, HostMoves, OperatorMoves

LEMMA AutoRestartEffect == ASSUME TypeOK, AutoRestart PROVE TypeOK' /\ Calm
<1>1. host' \in Host /\ host'.id = host.id /\ host'.restarts = host.restarts + 1 /\ host.restarts \in Nat
  <2> DEFINE n == host.restarts + 1
  <2>1. host \in Host /\ host.restarts \in Nat /\ n \in Nat
    BY DEF TypeOK, Host
  <2>2. host' = [host EXCEPT !.state = "running", !.restarts = n]
    BY DEF AutoRestart
  <2> HIDE DEF n
  <2>3. host' \in Host /\ host'.id = host.id /\ host'.restarts = n
    BY <2>1, <2>2 DEF Host, States
  <2> QED
    BY <2>1, <2>3 DEF n
<1>2. UNCHANGED <<clock, log, row, watch, guard, oper, self, mon, pos, jobs, used, rolled, dropped>>
  BY DEF AutoRestart
<1>3. TypeOK' /\ LogGrows
  BY <1>1, <1>2, SameLog DEF TypeOK
<1>4. GateIsCounted /\ WatchKept /\ MonitorRests
  BY <1>2, SameGate
<1> QED
  BY <1>1, <1>2, <1>3, <1>4 DEF Calm, DockerMoves, HostMoves, OperatorMoves

\* Docker and the guard are left alone: what is left to say of a step is the watch,
\* the monitor and the operator.
LEMMA StillEffect ==
    ASSUME TypeOK, UNCHANGED <<host, log>>, GateIsCounted, WatchKept,
           watch'.observed = watch.observed, MonitorRests, HasReplaced(oper') => HasReplaced(oper), UNCHANGED <<jobs, rolled, dropped>>
    PROVE  Calm
<1>1. LogGrows
  BY SameLog
<1>2. HostMoves
  BY DEF HostMoves, TypeOK, Host
<1> QED
  BY <1>1, <1>2 DEF Calm, DockerMoves, OperatorMoves

\* The monitor between counting: what it does besides reading and recording.
LEMMA ExpireEffect == ASSUME TypeOK, reconcileExpire PROVE TypeOK' /\ Calm
<1>1. /\ clock' \in 0..MaxClock /\ clock' \in Nat /\ clock' = clock + 1 /\ mon.pc = "expire"
      /\ mon' = [mon EXCEPT !.pc = "list", !.now = clock']
      /\ UNCHANGED <<host, log, row, guard, oper, self, pos, jobs, rolled, dropped>>
  BY Limits DEF TypeOK, reconcileExpire
<1>2. /\ watch' \in Watch /\ watch'.id = watch.id /\ watch'.count = watch.count /\ watch'.last = watch.last
      /\ watch'.observed = watch.observed /\ (watch'.status = watch.status \/ watch'.status = "expired")
      /\ (watch.status = "none" => watch'.status = "none")
      /\ watch'.until = watch.until /\ watch'.base = watch.base
      /\ watch'.missed = watch.missed /\ watch.missed \in Nat
  BY DEF reconcileExpire, ExpireRollbackWatches, TypeOK, Watch, Statuses
<1>u. used' \in Used /\ used'.self >= used.self
  BY FaultEffect DEF reconcileExpire, TypeOK, Used
<1>3. TypeOK'
  BY <1>1, <1>2, <1>u DEF TypeOK, MonitorState
<1>4. WatchKept /\ GateIsCounted
  BY <1>1, <1>2, <1>u DEF WatchKept, GateIsCounted
<1>5. MonitorRests
  <2>1. mon'.pc = "list" /\ mon'.now = clock' /\ mon'.w = mon.w /\ mon'.i = mon.i /\ mon'.seen = mon.seen
    BY <1>1 DEF TypeOK, MonitorState
  <2> QED
    BY <1>1, <2>1 DEF MonitorRests, Reading
<1> QED
  BY <1>1, <1>2, <1>3, <1>4, <1>5, StillEffect

LEMMA ReconciledRests ==
    ASSUME TypeOK, NEW t, mon.pc \notin {"recover", "record"}, Reconciled(t)
    PROVE  mon' \in MonitorState /\ pos' \in Nat /\ MonitorRests
  BY ReconciledEffect DEF MonitorRests, Reading

\* Where the log, the containers and the watch are as they were.
LEMMA MonitorOnly ==
    ASSUME TypeOK, UNCHANGED <<dockerside, row, watch, guard, oper, self, jobs, used, rolled, dropped>>,
           mon' \in MonitorState, pos' \in Nat
    PROVE  TypeOK' /\ (MonitorRests => Calm)
<1>1. TypeOK'
  BY DEF TypeOK, dockerside
<1>2. GateIsCounted /\ WatchKept
  BY SameGate
<1> QED
  BY <1>1, <1>2, StillEffect DEF dockerside

LEMMA ReadingFailsEffect == ASSUME TypeOK, readingFails \/ setFails PROVE TypeOK' /\ Calm
<1>1. UNCHANGED <<dockerside, row, watch, guard, oper, self, jobs, rolled, dropped>> /\ Fault
  BY DEF readingFails, setFails
<1>2. mon' \in MonitorState /\ pos' \in Nat /\ MonitorRests
  BY ReconciledRests DEF readingFails, setFails
<1>3. used' \in Used /\ used'.self >= used.self
  BY <1>1, FaultEffect
<1>4. TypeOK' /\ GateIsCounted
  BY <1>1, <1>2, <1>3 DEF TypeOK, dockerside, GateIsCounted
<1> QED
  BY <1>1, <1>2, <1>4, StillEffect, SameGate DEF dockerside

LEMMA ListEffect ==
    ASSUME TypeOK, reconcileList
    PROVE  /\ TypeOK' /\ UNCHANGED <<dockerside, row, watch, guard, oper, self, jobs, used, rolled, dropped>>
           /\ \/ Calm
              \/ /\ mon.pc = "list" /\ watch.status = "active"
                 /\ mon'.pc = "inspect" /\ mon'.w.id = watch.id /\ mon'.w.observed = watch.observed
                 /\ mon'.i = mon.i /\ mon'.now = mon.now /\ mon'.seen = 0
<1>1. UNCHANGED <<dockerside, row, watch, guard, oper, self, jobs, used, rolled, dropped>> /\ mon.pc = "list"
  BY DEF reconcileList
<1>2. CASE watch.status = "active"
  <2> DEFINE l == Listed(watch.id, watch.observed, watch.until)
  <2>0. l \in [id : Nat, observed : Nat, until : Nat] /\ l.id = watch.id /\ l.observed = watch.observed
    BY DEF Listed, TypeOK, Watch
  <2>1. mon' = [mon EXCEPT !.pc = "inspect", !.seen = 0, !.w = l] /\ UNCHANGED pos
    BY <1>2 DEF reconcileList
  <2> HIDE DEF l
  <2>2. /\ mon' \in MonitorState /\ mon'.pc = "inspect" /\ mon'.w.id = watch.id
        /\ mon'.w.observed = watch.observed /\ mon'.i = mon.i
        /\ mon'.now = mon.now /\ mon'.seen = 0 /\ pos' \in Nat
    BY <2>0, <2>1 DEF TypeOK, MonitorState
  <2> QED
    BY <1>1, <1>2, <2>2, MonitorOnly
<1>3. CASE watch.status # "active"
  <2>1. Reconciled(mon.now)
    BY <1>3 DEF reconcileList
  <2>2. mon' \in MonitorState /\ pos' \in Nat /\ MonitorRests
    BY <1>1, <2>1, ReconciledRests
  <2> QED
    BY <1>1, <2>2, MonitorOnly
<1> QED
  BY <1>2, <1>3

LEMMA InspectEffect ==
    ASSUME TypeOK, reconcileInspect
    PROVE  /\ TypeOK' /\ UNCHANGED <<dockerside, row, watch, guard, oper, self, jobs, used, rolled, dropped>>
           /\ \/ Calm
              \/ /\ mon.pc = "inspect" /\ mon.w.id = host.id
                 /\ mon'.pc = "record" /\ mon'.seen = host.restarts
                 /\ mon'.w = mon.w /\ mon'.i = mon.i /\ mon'.now = mon.now
<1>1. UNCHANGED <<dockerside, row, watch, guard, oper, self, jobs, used, rolled, dropped>> /\ mon.pc = "inspect"
  BY DEF reconcileInspect
<1>2. CASE mon.w.id = host.id
  <2>1. mon' = [mon EXCEPT !.pc = "record", !.seen = host.restarts] /\ UNCHANGED pos
    BY <1>2 DEF reconcileInspect
  <2>2. /\ mon' \in MonitorState /\ mon'.pc = "record" /\ mon'.seen = host.restarts
        /\ mon'.w = mon.w /\ mon'.i = mon.i /\ mon'.now = mon.now /\ pos' \in Nat
    BY <2>1 DEF TypeOK, MonitorState, Host
  <2> QED
    BY <1>1, <1>2, <2>2, MonitorOnly
<1>3. CASE mon.w.id # host.id
  <2>1. Reconciled(mon.w.until - Window)
    BY <1>3 DEF reconcileInspect
  <2>2. mon' \in MonitorState /\ pos' \in Nat /\ MonitorRests
    BY <1>1, <2>1, ReconciledRests
  <2> QED
    BY <1>1, <2>2, MonitorOnly
<1> QED
  BY <1>2, <1>3

LEMMA TickEffect == ASSUME TypeOK, expiryTick PROVE TypeOK' /\ Calm
<1>1. UNCHANGED <<dockerside, row, watch, guard, oper, self, pos, jobs, used, rolled, dropped>>
  BY DEF expiryTick
<1>2. mon' \in MonitorState /\ MonitorRests /\ pos' \in Nat
  BY <1>1 DEF expiryTick, TypeOK, MonitorState, MonitorRests, Reading
<1> QED
  BY <1>1, <1>2, MonitorOnly

LEMMA StreamEffect == ASSUME TypeOK, StreamEnds \/ EventLost PROVE TypeOK' /\ Calm
<1>1. UNCHANGED <<dockerside, row, watch, guard, oper, self, jobs, rolled, dropped>> /\ Fault
  BY DEF StreamEnds, EventLost
<1>2. mon' \in MonitorState /\ MonitorRests /\ pos' \in Nat
  BY DEF StreamEnds, EventLost, TypeOK, MonitorState, MonitorRests, Reading
<1>3. used' \in Used /\ used'.self >= used.self
  BY <1>1, FaultEffect
<1>4. TypeOK'
  BY <1>1, <1>2, <1>3 DEF TypeOK, dockerside
<1>5. GateIsCounted
  BY <1>1, <1>3 DEF GateIsCounted
<1> QED
  BY <1>1, <1>2, <1>4, <1>5, StillEffect, SameGate DEF dockerside

\* The monitor counting: recordCrash from the restart counter and from an event.
Aside == <<host, clock, log, row, guard, oper, self, used, rolled, dropped>>

\* A triggered watch that the start-up cannot list has no goroutine.
LEMMA RecoverFailsEffect ==
    ASSUME TypeOK, recoverFails
    PROVE  /\ TypeOK' /\ UNCHANGED <<host, clock, log, guard, oper, watch, jobs, rolled>> /\ mon.pc = "recover"
           /\ mon'.pc = "expire" /\ mon'.w = mon.w /\ mon'.i = mon.i
           /\ mon'.now = mon.now /\ mon'.seen = mon.seen /\ used'.self >= used.self
           /\ watch.status = "triggered" => watch.id \in dropped'
<1>1. UNCHANGED <<host, clock, log, row, watch, guard, oper, self, pos, jobs, rolled>> /\ mon.pc = "recover" /\ Fault
  BY DEF recoverFails, dockerside
<1>2. /\ mon' \in MonitorState /\ mon'.pc = "expire" /\ mon'.w = mon.w /\ mon'.i = mon.i
      /\ mon'.now = mon.now /\ mon'.seen = mon.seen
  BY DEF recoverFails, TypeOK, MonitorState
<1>3. dropped' \subseteq Nat /\ (watch.status = "triggered" => watch.id \in dropped')
  BY DEF recoverFails, TypeOK, Watch
<1>4. used' \in Used /\ used'.self >= used.self
  BY <1>1, FaultEffect
<1>5. TypeOK'
  BY <1>1, <1>2, <1>3, <1>4 DEF TypeOK
<1> QED
  BY <1>1, <1>2, <1>3, <1>4, <1>5

\* What the row keeps when a crash is not recorded.
SameCount ==
    /\ watch'.id = watch.id /\ watch'.count = watch.count /\ watch'.observed = watch.observed
    /\ watch'.last = watch.last /\ watch'.until = watch.until /\ watch'.base = watch.base
    /\ watch'.status = watch.status

LEMMA RecordFailsEffect ==
    ASSUME TypeOK, recordFails
    PROVE  /\ TypeOK' /\ UNCHANGED <<host, clock, log, guard, oper, jobs, rolled, dropped>> /\ SameCount
           /\ used'.self >= used.self
           /\ mon.pc = "record" /\ mon.i < mon.seen - mon.w.observed
           /\ mon'.pc = "record" /\ mon'.w = mon.w /\ mon'.seen = mon.seen /\ mon'.i = mon.i + 1
           /\ mon'.now = mon.now
           /\ watch'.missed = IF Counted(watch, mon.w.id, Nano(mon.now) + mon.i, mon.now)
                              THEN watch.missed + 1 ELSE watch.missed
<1>1. /\ UNCHANGED <<host, clock, log, row, guard, oper, self, pos, jobs, rolled, dropped>>
      /\ mon.pc = "record" /\ mon.i < mon.seen - mon.w.observed /\ Fault
      /\ mon' = [mon EXCEPT !.i = mon.i + 1]
  BY DEF recordFails, dockerside
<1>2. mon \in MonitorState /\ mon.i \in Nat /\ watch \in Watch /\ watch.missed \in Nat
  BY DEF TypeOK, MonitorState, Watch
<1>3. /\ mon' \in MonitorState /\ mon'.pc = "record" /\ mon'.w = mon.w /\ mon'.seen = mon.seen
      /\ mon'.i = mon.i + 1 /\ mon'.now = mon.now
  BY <1>1, <1>2 DEF MonitorState
<1> DEFINE c == Counted(watch, mon.w.id, Nano(mon.now) + mon.i, mon.now)
<1>4. watch' = IF c THEN [watch EXCEPT !.missed = watch.missed + 1] ELSE watch
  BY DEF recordFails
<1> HIDE DEF c
<1>5. watch' \in Watch /\ SameCount /\ watch'.missed = IF c THEN watch.missed + 1 ELSE watch.missed
  <2> DEFINE m == watch.missed + 1
  <2>1. m \in Nat
    BY <1>2
  <2> HIDE DEF m
  <2>2. CASE c
    <3>1. watch' = [watch EXCEPT !.missed = m]
      BY <1>4, <2>2 DEF m
    <3>2. watch' \in Watch /\ SameCount /\ watch'.missed = m
      BY <1>2, <2>1, <3>1 DEF Watch, SameCount
    <3> QED
      BY <2>2, <3>2 DEF m
  <2>3. CASE ~c
    BY <1>2, <1>4, <2>3 DEF SameCount
  <2> QED
    BY <2>2, <2>3
<1>6. used' \in Used /\ used'.self >= used.self
  BY <1>1, FaultEffect
<1>7. TypeOK'
  BY <1>1, <1>3, <1>5, <1>6 DEF TypeOK
<1> QED
  BY <1>1, <1>3, <1>5, <1>6, <1>7 DEF c

LEMMA RecoverEffect ==
    ASSUME TypeOK, recoverTriggered
    PROVE  /\ TypeOK' /\ UNCHANGED Aside /\ UNCHANGED watch /\ mon.pc = "recover"
           /\ mon'.pc = "expire" /\ mon'.w = mon.w /\ mon'.i = mon.i
           /\ mon'.now = mon.now /\ mon'.seen = mon.seen
           /\ jobs' = IF watch.status = "triggered" THEN jobs \cup {NewJob(watch.id)} ELSE jobs
<1>1. UNCHANGED <<host, clock, log, row, watch, guard, oper, self, pos, used, rolled, dropped>> /\ mon.pc = "recover"
  BY DEF recoverTriggered, dockerside
<1>2. /\ mon' \in MonitorState /\ mon'.pc = "expire" /\ mon'.w = mon.w /\ mon'.i = mon.i
      /\ mon'.now = mon.now /\ mon'.seen = mon.seen
  BY DEF recoverTriggered, TypeOK, MonitorState
<1>3. jobs' = IF watch.status = "triggered" THEN jobs \cup {NewJob(watch.id)} ELSE jobs
  BY DEF recoverTriggered, NewJob
<1>4. NewJob(watch.id) \in Job
  BY DEF NewJob, Job, TypeOK, Watch
<1>5. TypeOK'
  BY <1>1, <1>2, <1>3, <1>4 DEF TypeOK
<1> QED
  BY <1>1, <1>2, <1>3, <1>5 DEF Aside

LEMMA RecordEffect ==
    ASSUME TypeOK, reconcileRecord
    PROVE  /\ TypeOK'
           /\ \/ /\ UNCHANGED Aside /\ mon.pc = "record" /\ mon.i < mon.seen - mon.w.observed
                 /\ mon'.pc = "record" /\ mon'.w = mon.w /\ mon'.seen = mon.seen /\ mon'.i = mon.i + 1
                 /\ mon'.now = mon.now
                 /\ recordCrash(mon.w.id, Nano(mon.now) + mon.i, mon.now)
              \/ /\ UNCHANGED Aside /\ UNCHANGED <<watch, jobs>> /\ mon.pc = "record" /\ mon'.pc = "set"
                 /\ mon'.w = mon.w /\ mon'.seen = mon.seen /\ mon'.i = mon.i
                 /\ mon'.now = mon.now /\ mon.i >= mon.seen - mon.w.observed
<1>1. UNCHANGED <<host, clock, log, row, guard, oper, self, pos, used, rolled, dropped>> /\ mon.pc = "record"
  BY DEF reconcileRecord, dockerside
<1>2. /\ mon.i \in Nat /\ mon.seen \in Nat /\ mon.now \in Nat
      /\ mon.w.id \in Nat /\ mon.w.observed \in Nat /\ mon \in MonitorState
  BY DEF TypeOK, MonitorState
<1>3. CASE mon.i < mon.seen - mon.w.observed
  <2>1. recordCrash(mon.w.id, Nano(mon.now) + mon.i, mon.now) /\ mon' = [mon EXCEPT !.i = mon.i + 1]
    BY <1>3 DEF reconcileRecord
  <2>2. Nano(mon.now) + mon.i \in Nat
    BY <1>2, NanoType
  <2>3. watch' \in Watch /\ jobs' \subseteq Job
    BY <1>2, <2>1, <2>2, RecordCrashEffect
  <2>4. /\ mon' \in MonitorState /\ mon'.pc = "record" /\ mon'.w = mon.w /\ mon'.seen = mon.seen
        /\ mon'.i = mon.i + 1 /\ mon'.now = mon.now
    BY <1>1, <1>2, <2>1 DEF MonitorState
  <2>5. TypeOK'
    BY <1>1, <2>3, <2>4 DEF TypeOK
  <2> QED
    BY <1>1, <1>3, <2>1, <2>4, <2>5 DEF Aside
<1>4. CASE ~(mon.i < mon.seen - mon.w.observed)
  <2>1. mon' = [mon EXCEPT !.pc = "set"] /\ UNCHANGED <<watch, jobs>>
    BY <1>4 DEF reconcileRecord
  <2>2. /\ mon' \in MonitorState /\ mon'.pc = "set" /\ mon'.w = mon.w /\ mon'.seen = mon.seen
        /\ mon'.i = mon.i /\ mon'.now = mon.now
    BY <1>2, <2>1 DEF MonitorState
  <2>3. TypeOK'
    BY <1>1, <2>1, <2>2 DEF TypeOK
  <2>4. mon.i >= mon.seen - mon.w.observed
    BY <1>2, <1>4
  <2> QED
    BY <1>1, <2>1, <2>2, <2>3, <2>4 DEF Aside
<1> QED
  BY <1>3, <1>4

LEMMA SetEffect ==
    ASSUME TypeOK, reconcileSet
    PROVE  /\ TypeOK' /\ UNCHANGED Aside /\ UNCHANGED jobs /\ WatchKept /\ MonitorRests
           /\ mon.pc = "set" /\ mon'.pc = "select" /\ mon'.w.id = mon.w.id /\ mon'.i = 0
           /\ mon'.seen = mon.seen
           /\ watch'.observed = watch.observed \/ watch'.observed = mon.seen
           /\ mon.w.id # watch.id => watch'.observed <= watch.observed + watch'.missed - watch.missed
<1>1. /\ UNCHANGED <<host, clock, log, row, guard, oper, self, jobs, used, rolled, dropped>>
      /\ mon.pc = "set" /\ Reconciled(mon.w.until - Window)
  BY DEF reconcileSet, dockerside
<1>2. /\ mon' \in MonitorState /\ pos' \in Nat /\ MonitorRests
      /\ mon'.pc = "select" /\ mon'.w.id = mon.w.id /\ mon'.i = 0 /\ mon'.seen = mon.seen
  BY <1>1, ReconciledRests, ReconciledEffect
<1>3. mon.seen \in Nat /\ watch \in Watch /\ watch.missed \in Nat /\ watch.observed \in Nat
  BY DEF TypeOK, MonitorState, Watch
<1> DEFINE m == watch.missed + Overtaken
           v == [watch EXCEPT !.missed = m]
<1>4. /\ m \in Nat /\ m >= watch.missed
      /\ mon.w.id # watch.id => mon.seen <= watch.observed + m - watch.missed
  BY <1>3 DEF Overtaken
<1>5. watch' = SetRollbackWatchRestartCount(v, mon.seen)
  BY DEF reconcileSet
<1> HIDE DEF m
<1>6. /\ v \in Watch /\ v.id = watch.id /\ v.count = watch.count /\ v.last = watch.last
      /\ v.until = watch.until /\ v.base = watch.base /\ v.status = watch.status
      /\ v.observed = watch.observed /\ v.missed = m
  BY <1>3, <1>4 DEF Watch
<1> HIDE DEF v
<1>7. /\ watch' \in Watch /\ watch'.id = v.id /\ watch'.count = v.count /\ watch'.last = v.last
      /\ watch'.until = v.until /\ watch'.base = v.base /\ watch'.missed = v.missed
      /\ watch'.status = v.status /\ (watch'.observed = v.observed \/ watch'.observed = mon.seen)
  BY <1>3, <1>5, <1>6 DEF SetRollbackWatchRestartCount, Watch
<1>8. TypeOK'
  BY <1>1, <1>2, <1>7 DEF TypeOK
<1>9. WatchKept
  BY <1>4, <1>6, <1>7 DEF WatchKept
<1>10. mon.w.id # watch.id => watch'.observed <= watch.observed + watch'.missed - watch.missed
  BY <1>3, <1>4, <1>6, <1>7
<1> QED
  BY <1>1, <1>2, <1>6, <1>7, <1>8, <1>9, <1>10 DEF Aside

LEMMA EventFields ==
    ASSUME NEW l \in Seq(Event), NEW k \in DOMAIN l
    PROVE  l[k].id \in Nat /\ l[k].at \in Nat /\ Nano(l[k].at) \in Nat
<1>1. l[k] \in Event
  OBVIOUS
<1>2. l[k].id \in Nat /\ l[k].at \in Nat
  BY <1>1 DEF Event
<1> QED
  BY <1>2, NanoType

LEMMA EventEffect ==
    ASSUME TypeOK, handleEvent
    PROVE  /\ TypeOK' /\ UNCHANGED Aside /\ UNCHANGED mon /\ mon.pc = "select" /\ pos \in DOMAIN log
           /\ \/ UNCHANGED <<watch, jobs>>
              \/ recordCrash(log[pos].id, Nano(log[pos].at), log[pos].at)
<1>1. UNCHANGED <<host, clock, log, row, guard, oper, self, mon, used, rolled, dropped>> /\ mon.pc = "select"
  BY DEF handleEvent, dockerside
<1>2. pos \in DOMAIN log /\ pos' = pos + 1 /\ pos' \in Nat
  BY DEF handleEvent, TypeOK
<1>3. log[pos].id \in Nat /\ Nano(log[pos].at) \in Nat
  <2>1. log \in Seq(Event)
    BY DEF TypeOK
  <2> QED
    BY <1>2, <2>1, EventFields
<1>4. CASE UNCHANGED <<watch, jobs>>
  BY <1>1, <1>2, <1>4 DEF TypeOK, Aside
<1>5. CASE recordCrash(log[pos].id, Nano(log[pos].at), log[pos].at)
  <2>1. watch' \in Watch /\ jobs' \subseteq Job
    BY <1>3, <1>5, RecordCrashEffect
  <2> QED
    BY <1>1, <1>2, <1>5, <2>1 DEF TypeOK, Aside
<1> QED
  BY <1>4, <1>5 DEF handleEvent

-----------------------------------------------------------------------------
(* The operator, the self-update, the restart and the sweep.                *)

LEMMA OperBeginEffect ==
    ASSUME TypeOK, NEW kind \in {"update", "rollback"}, operBegin(kind)
    PROVE  TypeOK' /\ Calm
<1>1. /\ UNCHANGED <<dockerside, row, watch, self, mon, pos, jobs, rolled, dropped>> /\ Spend("ops", MaxOps)
      /\ guard' = "operator" /\ oper' = [IdleOper EXCEPT !.pc = "replace", !.kind = kind]
  BY DEF operBegin
<1>2. used' \in Used /\ used'.self >= used.self
  BY <1>1, SpendEffect
<1>3. oper' \in Operation /\ oper'.pc = "replace"
  BY <1>1 DEF IdleOper, Operation, States
<1>4. TypeOK' /\ GateIsCounted /\ ~HasReplaced(oper')
  BY <1>1, <1>2, <1>3 DEF TypeOK, dockerside, GateIsCounted, HasReplaced
<1> QED
  BY <1>1, <1>4, StillEffect, SameGate DEF dockerside

LEMMA OperReplaceEffect == ASSUME TypeOK, operReplace PROVE TypeOK' /\ Calm
<1>1. UNCHANGED <<row, watch, guard, self, mon, pos, jobs, used, rolled, dropped>> /\ Recreate
  BY DEF operReplace
<1>2. /\ host' \in Host /\ clock' \in 0..MaxClock /\ log' \in Seq(Event)
      /\ host'.id > host.id /\ DockerMoves
  BY <1>1, RecreateEffect
<1>3. oper' \in Operation
  BY DEF operReplace, TypeOK, Operation
<1>4. TypeOK'
  BY <1>1, <1>2, <1>3 DEF TypeOK
<1> QED
  BY <1>1, <1>2, <1>4, SameGate DEF Calm, OperatorMoves

LEMMA OperReadEffect == ASSUME TypeOK, operRead PROVE TypeOK' /\ Calm
<1>1. /\ UNCHANGED <<dockerside, row, watch, guard, self, mon, pos, jobs, used, rolled, dropped>>
      /\ HasReplaced(oper)
  BY DEF operRead, HasReplaced
<1>2. PICK n \in {host.restarts, 0} :
          oper' = [oper EXCEPT !.pc = "commit", !.state = host.state, !.restarts = n]
  BY DEF operRead
<1>3. n \in Nat /\ host.state \in States /\ oper \in Operation
  BY <1>2 DEF TypeOK, Host
<1>4. oper' \in Operation
  BY <1>2, <1>3 DEF Operation
<1>5. TypeOK'
  BY <1>1, <1>4 DEF TypeOK, dockerside
<1> QED
  BY <1>1, <1>5, StillEffect, SameGate DEF dockerside

LEMMA IdleType == IdleOper \in Operation /\ IdleOper.pc = "idle" /\ ~HasReplaced(IdleOper)
  BY DEF IdleOper, Operation, States, HasReplaced

LEMMA OperFailEffect == ASSUME TypeOK, operFail PROVE TypeOK' /\ Calm
<1>1. /\ UNCHANGED <<dockerside, row, watch, self, mon, pos, jobs, used, rolled, dropped>>
      /\ guard' = "free" /\ oper' = IdleOper
  BY DEF operFail
<1>2. TypeOK' /\ ~HasReplaced(oper')
  BY <1>1, IdleType DEF TypeOK, dockerside
<1> QED
  BY <1>1, <1>2, StillEffect, SameGate DEF dockerside

LEMMA OperRevertEffect == ASSUME TypeOK, operRevert PROVE TypeOK' /\ Calm
<1>1. /\ UNCHANGED <<watch, self, mon, pos, jobs, rolled, dropped>> /\ Recreate
      /\ guard' = "free" /\ oper' = IdleOper
  BY DEF operRevert
<1>2. /\ host' \in Host /\ clock' \in 0..MaxClock /\ log' \in Seq(Event)
      /\ host'.id > host.id /\ DockerMoves
  BY <1>1, RecreateEffect
<1>3. row' \in [id : Nat, prev : BOOLEAN]
  BY DEF operRevert, TypeOK, Host
<1>4. used' \in Used /\ used'.self >= used.self
  BY FaultEffect DEF operRevert, TypeOK, Used
<1>5. TypeOK' /\ GateIsCounted /\ ~HasReplaced(oper')
  BY <1>1, <1>2, <1>3, <1>4, IdleType DEF TypeOK, GateIsCounted
<1> QED
  BY <1>1, <1>2, <1>5, SameGate DEF Calm, OperatorMoves

\* A committed update arms the watch for its container; a rollback, or an update of
\* a container that is not running, completes it.
Arms ==
    /\ UNCHANGED dockerside /\ UNCHANGED <<self, mon, pos, jobs, used, rolled, dropped>>
    /\ oper.pc = "commit" /\ oper'.pc = "idle" /\ guard' = "free"
    /\ watch' = ArmRollbackWatch(host.id, oper.restarts)

LEMMA OperCommitEffect == ASSUME TypeOK, operCommit PROVE TypeOK' /\ (Calm \/ Arms)
<1>1. /\ UNCHANGED <<dockerside, self, mon, pos, jobs, used, rolled, dropped>> /\ oper.pc = "commit"
      /\ guard' = "free" /\ oper' = IdleOper /\ row' = [id |-> host.id, prev |-> TRUE]
  BY DEF operCommit
<1>2. row' \in [id : Nat, prev : BOOLEAN] /\ oper'.pc = "idle" /\ oper' \in Operation /\ ~HasReplaced(oper')
  BY <1>1, IdleType DEF TypeOK, Host
<1>3. ASSUME watch' \in Watch PROVE TypeOK'
  BY <1>1, <1>2, <1>3 DEF TypeOK, dockerside
<1>4. CASE watch' = ArmRollbackWatch(host.id, oper.restarts)
  <2>0. oper.restarts \in Nat
    BY DEF TypeOK, Operation
  <2>1. watch' \in Watch
    BY <1>4, <2>0, Limits DEF ArmRollbackWatch, TypeOK, Host, Watch, Statuses
  <2> QED
    BY <1>1, <1>2, <1>3, <1>4, <2>1 DEF Arms
<1>5. ASSUME NEW status \in {"manual_rollback", "not_running"}, watch' = CompleteRollbackWatch(watch, status)
      PROVE  TypeOK' /\ Calm
  <2>0. status \in Statuses \ {"none", "active", "triggered"}
    BY DEF Statuses
  <2>1. /\ watch' \in Watch /\ watch'.id = watch.id /\ watch'.count = watch.count
        /\ watch'.observed = watch.observed /\ watch'.last = watch.last
        /\ watch'.until = watch.until /\ watch'.base = watch.base
        /\ watch'.missed = watch.missed /\ watch.missed \in Nat
    BY <1>5, <2>0, CompleteEffect
  <2>2. /\ watch'.status = watch.status \/ watch'.status = status
        /\ watch.status = "none" => watch'.status = "none"
    BY <1>5 DEF CompleteRollbackWatch, TypeOK, Watch
  <2>3. WatchKept
    BY <1>5, <2>1, <2>2 DEF WatchKept
  <2> QED
    BY <1>1, <1>2, <1>3, <2>1, <2>3, StillEffect, SameGate DEF dockerside
<1> QED
  BY <1>4, <1>5 DEF operCommit

LEMMA NotRunningFailsEffect == ASSUME TypeOK, notRunningFails PROVE TypeOK' /\ Calm
<1>1. /\ UNCHANGED <<dockerside, watch, self, mon, pos, jobs, rolled, dropped>> /\ Fault
      /\ guard' = "free" /\ oper' = IdleOper /\ row' = [id |-> host.id, prev |-> TRUE]
  BY DEF notRunningFails
<1>2. row' \in [id : Nat, prev : BOOLEAN] /\ oper' \in Operation /\ ~HasReplaced(oper')
  BY <1>1, IdleType DEF TypeOK, Host
<1>3. used' \in Used /\ used'.self >= used.self
  BY <1>1, FaultEffect
<1>4. TypeOK' /\ GateIsCounted
  BY <1>1, <1>2, <1>3 DEF TypeOK, dockerside, GateIsCounted
<1> QED
  BY <1>1, <1>2, <1>4, StillEffect, SameGate DEF dockerside

LEMMA SelfEffect == ASSUME TypeOK, selfBegin \/ selfBlockers \/ selfFail PROVE TypeOK' /\ Calm
<1>1. UNCHANGED <<dockerside, row, watch, oper, mon, pos, jobs, rolled, dropped>>
  BY DEF selfBegin, selfBlockers, selfFail
<1>2. CASE selfBegin
  <2>1. /\ used' \in Used /\ used'.self >= used.self /\ used'.self > 0
    BY <1>2, SpendEffect DEF selfBegin
  <2>2. TypeOK'
    BY <1>1, <1>2, <2>1 DEF TypeOK, dockerside, selfBegin
  <2>3. GateIsCounted
    BY <1>1, <2>1 DEF GateIsCounted
  <2> QED
    BY <1>1, <2>2, <2>3, StillEffect, SameGate DEF dockerside
<1>3. CASE selfBlockers \/ selfFail
  <2>1. TypeOK' /\ UNCHANGED used /\ (guard' = guard \/ guard' = "free")
    BY <1>1, <1>3 DEF TypeOK, dockerside, selfBlockers, selfFail
  <2>2. GateIsCounted
    BY <1>1, <2>1, SameGate
  <2> QED
    BY <1>1, <2>1, <2>2, StillEffect, SameGate DEF dockerside
<1> QED
  BY <1>2, <1>3

LEMMA RestartEffect ==
    ASSUME TypeOK, selfHandOver \/ Exit
    PROVE  /\ TypeOK' /\ Restarted /\ used'.self >= used.self
           /\ ~HasReplaced(oper')
           /\ mon'.pc = "recover" /\ mon'.w.id = 0 /\ mon'.i = 0 /\ mon'.now = 0 /\ mon'.seen = 0
<1>1. /\ Restarted /\ used' \in Used
      /\ used'.self >= used.self
  BY SpendEffect DEF selfHandOver, Exit, TypeOK, Used
<1>2. mon' = NewMonitor /\ ~HasReplaced(oper') /\ oper' \in Operation
  BY <1>1, IdleType DEF Restarted
<1>3. /\ NewMonitor \in MonitorState /\ NewMonitor.pc = "recover" /\ NewMonitor.w.id = 0
      /\ NewMonitor.i = 0 /\ NewMonitor.now = 0 /\ NewMonitor.seen = 0
  BY DEF NewMonitor, MonitorState, Listed
<1>4. TypeOK'
  BY <1>1, <1>2, <1>3 DEF Restarted, TypeOK, dockerside
<1> QED
  BY <1>1, <1>2, <1>3, <1>4

LEMMA DiscoverEffect == ASSUME TypeOK, Discover PROVE TypeOK' /\ Calm
<1>1. UNCHANGED <<dockerside, watch, guard, oper, self, mon, pos, jobs, used, rolled, dropped>>
  BY DEF Discover
<1>2. TypeOK'
  BY <1>1 DEF Discover, TypeOK, dockerside, Host
<1> QED
  BY <1>1, <1>2, StillEffect, SameGate DEF dockerside

LEMMA StutterEffect == ASSUME TypeOK, UNCHANGED vars PROVE TypeOK' /\ Calm
<1>1. TypeOK'
  BY DEF TypeOK, vars
<1> QED
  BY <1>1, StillEffect, SameGate DEF vars

-----------------------------------------------------------------------------
(* The goroutines of Monitor.rollback.                                      *)

\* What a step of a rollback goroutine does to the set of them: it goes on for the
\* same arming, or ends with the watch completed, because of maintenance, or with the
\* watch as it was since the statement that completes it failed.
JobMoves(j) == rollback(j) \/ jobLookupFails(j) \/ completeFails(j)
JobGoesOn(j) == UNCHANGED <<watch, rolled, dropped>> /\ \E k \in Job : k.w = j.w /\ jobs' = (jobs \ {j}) \cup {k}
JobIsRefused(j) == UNCHANGED <<watch, rolled, dropped, guard>> /\ jobs' = jobs \ {j} /\ guard = "maintenance"
JobEnds(j) ==
    /\ WatchKept /\ watch'.status \notin {"active", "triggered"} /\ watch'.observed = watch.observed
    /\ rolled' = rolled \/ rolled' = rolled \cup {j.w}
    /\ jobs' = jobs \ {j} /\ UNCHANGED dropped
JobIsDropped(j) ==
    UNCHANGED <<watch, rolled, guard>> /\ jobs' = jobs \ {j} /\ dropped' = dropped \cup {j.w}

LEMMA JobEffect ==
    ASSUME TypeOK, NEW j \in jobs, JobMoves(j)
    PROVE  /\ TypeOK' /\ UNCHANGED <<oper, self, mon, pos>> /\ used'.self >= used.self
           /\ JobGoesOn(j) \/ JobIsRefused(j) \/ JobEnds(j) \/ JobIsDropped(j)
           /\ GateIsCounted /\ DockerMoves /\ (UNCHANGED dockerside \/ Recreate)
<1> SUFFICES /\ TypeOK' /\ UNCHANGED <<oper, self, mon, pos>> /\ used'.self >= used.self
             /\ JobGoesOn(j) \/ JobIsRefused(j) \/ JobEnds(j) \/ JobIsDropped(j)
             /\ guard' = "maintenance" => guard = "maintenance"
             /\ UNCHANGED dockerside \/ Recreate
  <2>1. UNCHANGED dockerside => DockerMoves
    BY SameLog DEF DockerMoves, HostMoves, dockerside, TypeOK, Host
  <2> QED
    BY <2>1, RecreateEffect DEF GateIsCounted, TypeOK
<1>u. UNCHANGED used => used'.self >= used.self
  BY DEF TypeOK, Used
<1>e. ASSUME NEW status \in {"automatic_rollback", "rollback_failed"},
             watch' = CompleteRollbackWatch(watch, status)
      PROVE  /\ watch' \in Watch /\ WatchKept /\ watch'.status \notin {"active", "triggered"}
             /\ watch'.observed = watch.observed
  <2>1. status \in Statuses \ {"none", "active", "triggered"}
    BY DEF Statuses
  <2>2. /\ watch'.status = watch.status \/ watch'.status = status
        /\ watch.status = "none" => watch'.status = "none"
    BY <1>e DEF CompleteRollbackWatch, TypeOK, Watch
  <2> QED
    BY <1>e, <2>1, <2>2, CompleteEffect DEF WatchKept
<1>0. j \in Job /\ row.id \in Nat /\ row \in [id : Nat, prev : BOOLEAN]
  BY DEF TypeOK
<1>m. ASSUME NEW pc \in {"begin", "replace", "commit", "complete"}, UNCHANGED <<watch, rolled, dropped>>,
             Move(j, [j EXCEPT !.pc = pc])
      PROVE  JobGoesOn(j) /\ jobs' \subseteq Job
  <2> DEFINE k == [j EXCEPT !.pc = pc]
  <2>1. k \in Job /\ k.w = j.w
    BY <1>0 DEF Job
  <2>2. jobs' = (jobs \ {j}) \cup {k}
    BY <1>m DEF Move
  <2> HIDE DEF k
  <2> QED
    BY <1>m, <2>1, <2>2 DEF JobGoesOn, TypeOK
<1>1. CASE jobLookup(j)
  <2> DEFINE k == [j EXCEPT !.pc = "begin", !.id = row.id]
  <2>1. k \in Job /\ k.w = j.w
    BY <1>0 DEF Job
  <2>2. jobs' = (jobs \ {j}) \cup {k}
    BY <1>1 DEF jobLookup, Move
  <2>3. UNCHANGED <<dockerside, row, watch, guard, oper, self, mon, pos, used, rolled, dropped>>
    BY <1>1 DEF jobLookup
  <2> HIDE DEF k
  <2>4. JobGoesOn(j) /\ jobs' \subseteq Job
    BY <2>1, <2>2, <2>3 DEF JobGoesOn, TypeOK
  <2> QED
    BY <1>u, <2>3, <2>4 DEF TypeOK, dockerside
<1>2. CASE jobBegin(j)
  <2>0. UNCHANGED <<dockerside, row, watch, oper, self, mon, pos, used, rolled, dropped>>
    BY <1>2 DEF jobBegin
  <2>1. CASE Move(j, [j EXCEPT !.pc = "complete"]) /\ UNCHANGED guard
    <3>1. JobGoesOn(j) /\ jobs' \subseteq Job
      BY <2>0, <2>1, <1>m
    <3> QED
      BY <1>u, <2>0, <2>1, <3>1 DEF TypeOK, dockerside
  <2>2. CASE guard = "maintenance" /\ jobs' = jobs \ {j} /\ UNCHANGED guard
    BY <1>u, <2>0, <2>2 DEF JobIsRefused, TypeOK, dockerside
  <2>3. CASE Move(j, [j EXCEPT !.pc = "replace"]) /\ guard' = "rollback"
    <3>1. JobGoesOn(j) /\ jobs' \subseteq Job
      BY <2>0, <2>3, <1>m
    <3> QED
      BY <1>u, <2>0, <2>3, <3>1 DEF TypeOK, dockerside
  <2> QED
    BY <1>2, <2>1, <2>2, <2>3 DEF jobBegin
<1>3. CASE jobReplace(j)
  <2>1. /\ UNCHANGED <<row, watch, guard, oper, self, mon, pos, used, rolled, dropped>> /\ Recreate
        /\ Move(j, [j EXCEPT !.pc = "commit"])
    BY <1>3 DEF jobReplace
  <2>2. JobGoesOn(j) /\ jobs' \subseteq Job
    BY <2>1, <1>m
  <2>3. host' \in Host /\ clock' \in 0..MaxClock /\ log' \in Seq(Event)
    BY <2>1, RecreateEffect
  <2> QED
    BY <1>u, <2>1, <2>2, <2>3 DEF TypeOK
<1>4. CASE jobCommit(j)
  <2>1. row' \in [id : Nat, prev : BOOLEAN] /\ rolled' \subseteq Nat /\ j.w \in Nat
    BY <1>0, <1>4 DEF jobCommit, TypeOK, Host, Job
  <2>2. /\ watch' \in Watch /\ WatchKept /\ watch'.status \notin {"active", "triggered"}
        /\ watch'.observed = watch.observed
    BY <1>4, <1>e DEF jobCommit
  <2> QED
    BY <1>u, <1>4, <2>1, <2>2 DEF jobCommit, JobEnds, TypeOK, dockerside
<1>5. CASE jobFail(j)
  <2>1. /\ UNCHANGED <<dockerside, row, watch, oper, self, mon, pos, used, rolled, dropped>> /\ guard' = "free"
        /\ Move(j, [j EXCEPT !.pc = "complete"])
    BY <1>5 DEF jobFail
  <2>2. JobGoesOn(j) /\ jobs' \subseteq Job
    BY <2>1, <1>m
  <2> QED
    BY <1>u, <2>1, <2>2 DEF TypeOK, dockerside
<1>6. CASE jobRevert(j)
  <2>1. /\ UNCHANGED <<watch, oper, self, mon, pos, rolled, dropped>> /\ Recreate /\ guard' = "free"
        /\ Move(j, [j EXCEPT !.pc = "complete"])
    BY <1>6 DEF jobRevert
  <2>2. JobGoesOn(j) /\ jobs' \subseteq Job
    BY <2>1, <1>m
  <2>3. host' \in Host /\ clock' \in 0..MaxClock /\ log' \in Seq(Event)
    BY <2>1, RecreateEffect
  <2>4. row' \in [id : Nat, prev : BOOLEAN]
    BY <1>6 DEF jobRevert, TypeOK, Host
  <2>5. used' \in Used /\ used'.self >= used.self
    BY <1>6, <1>u, FaultEffect DEF jobRevert, TypeOK
  <2> QED
    BY <2>1, <2>2, <2>3, <2>4, <2>5 DEF TypeOK
<1>7. CASE jobComplete(j)
  <2>1. /\ watch' \in Watch /\ WatchKept /\ watch'.status \notin {"active", "triggered"}
        /\ watch'.observed = watch.observed
    BY <1>7, <1>e DEF jobComplete
  <2> QED
    BY <1>u, <1>7, <2>1 DEF jobComplete, JobEnds, TypeOK, dockerside
<1>8. CASE jobLookupFails(j)
  <2>1. /\ UNCHANGED <<dockerside, row, watch, guard, oper, self, mon, pos, rolled, dropped>>
        /\ Move(j, [j EXCEPT !.pc = "complete"]) /\ Fault
    BY <1>8 DEF jobLookupFails
  <2>2. JobGoesOn(j) /\ jobs' \subseteq Job
    BY <2>1, <1>m
  <2> QED
    BY <2>1, <2>2, FaultEffect DEF TypeOK, dockerside
<1>9. CASE completeFails(j)
  <2>1. /\ UNCHANGED <<dockerside, row, watch, guard, oper, self, mon, pos, rolled>> /\ Fault
        /\ jobs' = jobs \ {j} /\ dropped' = dropped \cup {j.w}
    BY <1>9 DEF completeFails
  <2>2. dropped' \subseteq Nat
    BY <1>0, <2>1 DEF TypeOK, Job
  <2> QED
    BY <2>1, <2>2, FaultEffect DEF JobIsDropped, TypeOK, dockerside
<1> QED
  BY <1>1, <1>2, <1>3, <1>4, <1>5, <1>6, <1>7, <1>8, <1>9 DEF JobMoves, rollback

-----------------------------------------------------------------------------
(* One trigger, one rollback.                                               *)

LEMMA CalmKeepsTrigger == ASSUME TypeOK, TypeOK', TriggerInv, Calm PROVE TriggerInv'
<1>1. /\ host.id \in Nat /\ host'.id \in Nat /\ watch.id \in Nat /\ watch'.id = watch.id
      /\ used.self \in Nat /\ used'.self \in Nat /\ used'.self >= used.self
      /\ jobs' = jobs /\ rolled' = rolled /\ dropped' = dropped /\ jobs \subseteq Job
      /\ watch'.status = watch.status \/ watch'.status \notin {"none", "active", "triggered"}
      /\ mon'.pc = "recover" <=> mon.pc = "recover"
  BY DEF TypeOK, Used, Host, Watch, Calm, WatchKept, GateIsCounted, MonitorRests
<1>2. ArmingsAreNew'
  <2>1. /\ host'.id >= host.id
        /\ HasReplaced(oper') => host'.id > host.id \/ (HasReplaced(oper) /\ host'.id = host.id)
    BY <1>1 DEF Calm, DockerMoves, HostMoves, OperatorMoves
  <2>2. watch'.id <= host'.id /\ (HasReplaced(oper') => watch'.id < host'.id)
    BY <1>1, <2>1 DEF TriggerInv, ArmingsAreNew
  <2> QED
    BY <1>1, <2>2 DEF TriggerInv, ArmingsAreNew
<1>3. CountingIsUntriggered'
  BY <1>1 DEF TriggerInv, CountingIsUntriggered
<1>4. ResumesAlone'
  BY <1>1 DEF TriggerInv, ResumesAlone, Calm, GateIsCounted
<1>5. OneRollbackPerTrigger'
  BY <1>1 DEF TriggerInv, OneRollbackPerTrigger
<1>6. RollbackIsNotRepeated'
  BY <1>1 DEF TriggerInv, RollbackIsNotRepeated
<1> QED
  BY <1>2, <1>3, <1>4, <1>5, <1>6 DEF TriggerInv

\* The arming that triggers was active: no goroutine works for it yet.
LEMMA CountingKeepsTrigger ==
    ASSUME TypeOK, TypeOK', TriggerInv, UNCHANGED <<host, guard, oper, used, rolled, dropped>>,
           mon.pc # "recover", mon'.pc # "recover",
           NEW id \in Nat, NEW nano \in Nat, NEW at, recordCrash(id, nano, at)
    PROVE  TriggerInv'
<1>1. CASE UNCHANGED <<watch, jobs>>
  BY <1>1
  DEF TriggerInv, ArmingsAreNew, CountingIsUntriggered, ResumesAlone, OneRollbackPerTrigger, RollbackIsNotRepeated
<1>2. CASE /\ watch'.id = watch.id /\ watch.status = "active" /\ watch'.status = "active" /\ jobs' = jobs
  BY <1>2
  DEF TriggerInv, ArmingsAreNew, CountingIsUntriggered, ResumesAlone, OneRollbackPerTrigger, RollbackIsNotRepeated
<1>3. CASE /\ watch'.id = watch.id /\ watch.status = "active" /\ id = watch.id
           /\ watch'.status = "triggered" /\ jobs' = jobs \cup {NewJob(id)}
  <2> DEFINE n == NewJob(id)
  <2>1. n.w = watch.id /\ watch.id \in Nat
    BY <1>3 DEF NewJob
  <2>2. jobs' = jobs \cup {n}
    BY <1>3
  <2> HIDE DEF n
  <2>3. ArmingsAreNew'
    BY <1>3, <2>1, <2>2 DEF TriggerInv, ArmingsAreNew
  <2>4. CountingIsUntriggered' /\ ResumesAlone' /\ RollbackIsNotRepeated'
    BY <1>3, <2>1, <2>2 DEF TriggerInv, CountingIsUntriggered, ResumesAlone, RollbackIsNotRepeated
  <2>5. OneRollbackPerTrigger'
    BY <1>3, <2>1, <2>2 DEF TriggerInv, CountingIsUntriggered, OneRollbackPerTrigger
  <2> QED
    BY <2>3, <2>4, <2>5 DEF TriggerInv
<1> QED
  BY <1>1, <1>2, <1>3, RecordCrashEffect DEF Counted

LEMMA JobKeepsTrigger ==
    ASSUME TypeOK, TypeOK', TriggerInv, NEW j \in jobs, JobMoves(j)
    PROVE  TriggerInv'
<1>1. /\ UNCHANGED <<oper, self, mon, pos>> /\ GateIsCounted /\ DockerMoves
      /\ JobGoesOn(j) \/ JobIsRefused(j) \/ JobEnds(j) \/ JobIsDropped(j)
  BY JobEffect
<1>u. used.self \in Nat /\ used'.self \in Nat /\ used'.self >= used.self
  BY <1>1 DEF TypeOK, Used, GateIsCounted
<1>2. watch'.id = watch.id
  <2>1. JobGoesOn(j) \/ JobIsRefused(j) \/ JobIsDropped(j) => watch' = watch
    BY DEF JobGoesOn, JobIsRefused, JobIsDropped
  <2>2. JobEnds(j) => watch'.id = watch.id
    BY DEF JobEnds, WatchKept
  <2> QED
    BY <1>1, <2>1, <2>2
<1>3. /\ \A n \in jobs' : \E k \in jobs : n.w = k.w
      /\ \A r \in rolled' : r \in rolled \/ r = j.w
      /\ jobs # {} /\ host'.id >= host.id /\ host.id \in Nat /\ host'.id \in Nat /\ watch.id \in Nat
  <2>1. host'.id >= host.id /\ host.id \in Nat /\ host'.id \in Nat /\ watch.id \in Nat
    <3>1. host.id \in Nat /\ host'.id \in Nat /\ watch.id \in Nat
      BY DEF TypeOK, Host, Watch
    <3>2. host'.id = host.id \/ host'.id > host.id
      BY <1>1 DEF DockerMoves, HostMoves
    <3> QED
      BY <3>1, <3>2
  <2>2. \A n \in jobs' : \E k \in jobs : n.w = k.w
    BY <1>1 DEF JobGoesOn, JobIsRefused, JobEnds, JobIsDropped
  <2>3. \A r \in rolled' : r \in rolled \/ r = j.w
    BY <1>1 DEF JobGoesOn, JobIsRefused, JobEnds, JobIsDropped
  <2> QED
    BY <2>1, <2>2, <2>3
<1>4. mon.pc # "recover" /\ mon'.pc # "recover" /\ watch.status # "none"
  BY <1>1, <1>3 DEF TriggerInv, ResumesAlone, CountingIsUntriggered
<1>5. HasReplaced(oper') => watch.id < host'.id
  BY <1>1, <1>3 DEF TriggerInv, ArmingsAreNew
<1>6. ArmingsAreNew'
  <2>1. watch'.id = watch.id /\ watch'.id <= host'.id
    BY <1>2, <1>3 DEF TriggerInv, ArmingsAreNew
  <2>2. \A n \in jobs' : n.w <= watch'.id
    BY <1>3, <2>1 DEF TriggerInv, ArmingsAreNew
  <2>3. \A r \in rolled' : r <= watch'.id
    BY <1>3, <2>1 DEF TriggerInv, ArmingsAreNew
  <2> QED
    BY <1>5, <2>1, <2>2, <2>3 DEF ArmingsAreNew
<1>7. ResumesAlone'
  BY <1>1, <1>u, <1>4 DEF TriggerInv, ResumesAlone, GateIsCounted
<1>8. CASE JobGoesOn(j)
  <2>1. PICK k \in Job : k.w = j.w /\ jobs' = (jobs \ {j}) \cup {k}
    BY <1>8 DEF JobGoesOn
  <2>2. UNCHANGED <<watch, rolled, dropped>>
    BY <1>8 DEF JobGoesOn
  <2>3. CountingIsUntriggered' /\ RollbackIsNotRepeated'
    BY <1>4, <2>1, <2>2 DEF TriggerInv, CountingIsUntriggered, RollbackIsNotRepeated
  <2>4. \A a, b \in jobs' : a.w = b.w => a = b
    BY <2>1 DEF TriggerInv, OneRollbackPerTrigger
  <2>5. \A n \in jobs : \E m \in jobs' : m.w = n.w
    BY <2>1
  <2>6. OneRollbackPerTrigger'
    BY <1>1, <1>u, <2>2, <2>4, <2>5 DEF TriggerInv, OneRollbackPerTrigger
  <2> QED
    BY <1>6, <1>7, <2>3, <2>6 DEF TriggerInv
<1>9. CASE JobIsRefused(j)
  <2>1. UNCHANGED <<watch, rolled>> /\ jobs' = jobs \ {j} /\ used'.self > 0
    BY <1>1, <1>u, <1>9 DEF JobIsRefused, TriggerInv, ResumesAlone
  <2>2. CountingIsUntriggered' /\ RollbackIsNotRepeated'
    BY <1>4, <2>1 DEF TriggerInv, CountingIsUntriggered, RollbackIsNotRepeated
  <2>3. OneRollbackPerTrigger'
    BY <2>1 DEF TriggerInv, OneRollbackPerTrigger
  <2> QED
    BY <1>6, <1>7, <2>2, <2>3 DEF TriggerInv
<1>10. CASE JobEnds(j)
  <2>1. /\ watch'.status \notin {"none", "active", "triggered"} /\ jobs' = jobs \ {j}
        /\ rolled' = rolled \/ rolled' = rolled \cup {j.w}
    BY <1>4, <1>10 DEF JobEnds, WatchKept
  <2>2. CountingIsUntriggered' /\ RollbackIsNotRepeated' /\ OneRollbackPerTrigger'
    BY <2>1 DEF TriggerInv, CountingIsUntriggered, RollbackIsNotRepeated, OneRollbackPerTrigger
  <2> QED
    BY <1>6, <1>7, <2>2 DEF TriggerInv
<1>11. CASE JobIsDropped(j)
  <2>1. UNCHANGED <<watch, rolled>> /\ jobs' = jobs \ {j} /\ dropped' = dropped \cup {j.w}
    BY <1>11 DEF JobIsDropped
  <2>2. CountingIsUntriggered' /\ RollbackIsNotRepeated'
    BY <1>4, <2>1 DEF TriggerInv, CountingIsUntriggered, RollbackIsNotRepeated
  <2>3. OneRollbackPerTrigger'
    <3>1. \A n, k \in jobs' : n.w = k.w => n = k
      BY <2>1 DEF TriggerInv, OneRollbackPerTrigger
    <3>2. watch'.status = "triggered" => \/ used.self > 0 \/ watch.id \in dropped
                                         \/ \E k \in jobs : k.w = watch.id
      BY <1>4, <2>1 DEF TriggerInv, OneRollbackPerTrigger
    <3>3. (\E k \in jobs : k.w = watch.id) => watch.id \in dropped' \/ \E k \in jobs' : k.w = watch.id
      BY <2>1
    <3> QED
      BY <1>u, <2>1, <3>1, <3>2, <3>3 DEF OneRollbackPerTrigger
  <2> QED
    BY <1>6, <1>7, <2>2, <2>3 DEF TriggerInv
<1> QED
  BY <1>1, <1>8, <1>9, <1>10, <1>11

\* A new arming has an ID above every earlier one.
LEMMA ArmKeepsTrigger == ASSUME TypeOK, TypeOK', TriggerInv, Arms PROVE TriggerInv'
<1>1. /\ watch'.status = "active" /\ watch'.id = host.id /\ host'.id = host.id /\ watch.id < host.id
      /\ UNCHANGED <<mon, jobs, used, rolled, dropped>> /\ ~HasReplaced(oper') /\ guard' = "free"
      /\ host.id \in Nat /\ watch.id \in Nat
  BY DEF Arms, ArmRollbackWatch, dockerside, TriggerInv, ArmingsAreNew, HasReplaced, TypeOK, Host, Watch
<1>2. (\A j \in jobs : j.w \in Nat) /\ (\A r \in rolled : r \in Nat)
  BY DEF TypeOK, Job
<1>3. (\A j \in jobs : j.w < host.id) /\ (\A r \in rolled : r < host.id)
  BY <1>1, <1>2 DEF TriggerInv, ArmingsAreNew
<1>4. ArmingsAreNew' /\ CountingIsUntriggered' /\ ResumesAlone'
  BY <1>1, <1>2, <1>3 DEF TriggerInv, ArmingsAreNew, CountingIsUntriggered, ResumesAlone
<1>5. OneRollbackPerTrigger' /\ RollbackIsNotRepeated'
  BY <1>1 DEF TriggerInv, OneRollbackPerTrigger, RollbackIsNotRepeated
<1> QED
  BY <1>4, <1>5 DEF TriggerInv

LEMMA RecoverKeepsTrigger == ASSUME TypeOK, TypeOK', TriggerInv, recoverTriggered PROVE TriggerInv'
<1>1. /\ UNCHANGED Aside /\ UNCHANGED watch /\ mon.pc = "recover" /\ mon'.pc = "expire"
      /\ jobs' = IF watch.status = "triggered" THEN jobs \cup {NewJob(watch.id)} ELSE jobs
  BY RecoverEffect
<1>2. jobs = {} /\ NewJob(watch.id).w = watch.id /\ watch.id \in Nat
  BY <1>1 DEF TriggerInv, ResumesAlone, NewJob, TypeOK, Watch
<1>3. \A j \in jobs' : watch.status = "triggered" /\ j = NewJob(watch.id) /\ j.w = watch.id
  BY <1>1, <1>2
<1>4. watch.status = "triggered" => NewJob(watch.id) \in jobs'
  BY <1>1
<1>5. ArmingsAreNew' /\ CountingIsUntriggered' /\ ResumesAlone'
  BY <1>1, <1>2, <1>3 DEF Aside, TriggerInv, ArmingsAreNew, CountingIsUntriggered, ResumesAlone
<1>6. OneRollbackPerTrigger' /\ RollbackIsNotRepeated'
  BY <1>1, <1>2, <1>3, <1>4 DEF Aside, TriggerInv, CountingIsUntriggered, OneRollbackPerTrigger, RollbackIsNotRepeated
<1> QED
  BY <1>5, <1>6 DEF TriggerInv

LEMMA RecoverFailsKeepsTrigger == ASSUME TypeOK, TypeOK', TriggerInv, recoverFails PROVE TriggerInv'
<1>1. /\ UNCHANGED <<host, clock, log, guard, oper, watch, jobs, rolled>> /\ mon.pc = "recover"
      /\ mon'.pc = "expire" /\ used'.self >= used.self
      /\ watch.status = "triggered" => watch.id \in dropped'
  BY RecoverFailsEffect
<1>2. used.self \in Nat /\ used'.self \in Nat
  BY DEF TypeOK, Used
<1>3. ArmingsAreNew' /\ CountingIsUntriggered' /\ ResumesAlone'
  BY <1>1, <1>2 DEF TriggerInv, ArmingsAreNew, CountingIsUntriggered, ResumesAlone
<1>4. OneRollbackPerTrigger' /\ RollbackIsNotRepeated'
  BY <1>1 DEF TriggerInv, OneRollbackPerTrigger, RollbackIsNotRepeated
<1> QED
  BY <1>3, <1>4 DEF TriggerInv

LEMMA RecordFailsKeepsTrigger == ASSUME TypeOK, TypeOK', TriggerInv, recordFails PROVE TriggerInv'
<1>1. /\ UNCHANGED <<host, clock, log, guard, oper, jobs, rolled, dropped>> /\ SameCount
      /\ used'.self >= used.self /\ mon.pc = "record" /\ mon'.pc = "record"
  BY RecordFailsEffect
<1>2. used.self \in Nat /\ used'.self \in Nat
  BY DEF TypeOK, Used
<1>3. ArmingsAreNew' /\ CountingIsUntriggered' /\ ResumesAlone'
  BY <1>1, <1>2 DEF TriggerInv, ArmingsAreNew, CountingIsUntriggered, ResumesAlone, SameCount
<1>4. OneRollbackPerTrigger' /\ RollbackIsNotRepeated'
  BY <1>1, <1>2 DEF TriggerInv, OneRollbackPerTrigger, RollbackIsNotRepeated, SameCount
<1> QED
  BY <1>3, <1>4 DEF TriggerInv

LEMMA RestartKeepsTrigger == ASSUME TypeOK, TypeOK', TriggerInv, selfHandOver \/ Exit PROVE TriggerInv'
<1>1. /\ host' = host /\ watch' = watch /\ rolled' = rolled /\ jobs' = {} /\ guard' = "free"
      /\ ~HasReplaced(oper') /\ mon'.pc = "recover"
  BY RestartEffect DEF Restarted, dockerside
<1> QED
  BY <1>1
  DEF TriggerInv, ArmingsAreNew, CountingIsUntriggered, ResumesAlone, OneRollbackPerTrigger, RollbackIsNotRepeated

LEMMA TriggerStep == ASSUME TypeOK, TriggerInv, [Next]_vars PROVE TypeOK' /\ TriggerInv'
<1>1. CASE \/ Crash \/ AutoRestart \/ reconcileExpire \/ expiryTick \/ StreamEnds \/ EventLost
           \/ operReplace \/ operRead \/ operFail \/ operRevert \/ selfBegin \/ selfBlockers \/ selfFail \/ Discover
           \/ readingFails \/ setFails \/ notRunningFails
           \/ UNCHANGED vars
  <2>1. TypeOK' /\ Calm
    BY <1>1, CrashEffect, AutoRestartEffect, ExpireEffect, TickEffect, StreamEffect, OperReplaceEffect, OperReadEffect,
       OperFailEffect, OperRevertEffect, SelfEffect, DiscoverEffect, ReadingFailsEffect, NotRunningFailsEffect, StutterEffect
  <2> QED
    BY <2>1, CalmKeepsTrigger
<1>2. ASSUME NEW kind \in {"update", "rollback"}, operBegin(kind) PROVE TypeOK' /\ TriggerInv'
  BY <1>2, OperBeginEffect, CalmKeepsTrigger
<1>3. ASSUME reconcileList \/ reconcileInspect PROVE TypeOK' /\ TriggerInv'
  <2>1. CASE Calm
    BY <1>3, <2>1, ListEffect, InspectEffect, CalmKeepsTrigger
  <2>2. CASE ~Calm
    <3>1. /\ TypeOK' /\ UNCHANGED <<dockerside, row, watch, guard, oper, self, jobs, used, rolled, dropped>>
          /\ mon.pc # "recover" /\ mon'.pc # "recover"
      BY <1>3, <2>2, ListEffect, InspectEffect
    <3> QED
      BY <3>1
      DEF dockerside, TriggerInv, ArmingsAreNew, CountingIsUntriggered, ResumesAlone, OneRollbackPerTrigger,
          RollbackIsNotRepeated
  <2> QED
    BY <2>1, <2>2
<1>4. ASSUME reconcileRecord PROVE TypeOK' /\ TriggerInv'
  <2>1. CASE /\ UNCHANGED Aside /\ mon.pc = "record" /\ mon'.pc = "record"
             /\ recordCrash(mon.w.id, Nano(mon.now) + mon.i, mon.now)
    <3>1. mon.w.id \in Nat /\ Nano(mon.now) + mon.i \in Nat
      <4>1. mon.w.id \in Nat /\ mon.now \in Nat /\ mon.i \in Nat
        BY DEF TypeOK, MonitorState
      <4> QED
        BY <4>1, NanoType
    <3> QED
      BY <1>4, <2>1, <3>1, RecordEffect, CountingKeepsTrigger DEF Aside
  <2>2. CASE UNCHANGED Aside /\ UNCHANGED <<watch, jobs>> /\ mon.pc = "record" /\ mon'.pc = "set"
    <3>1. TypeOK'
      BY <1>4, RecordEffect
    <3> QED
      BY <2>2, <3>1
      DEF Aside, TriggerInv, ArmingsAreNew, CountingIsUntriggered, ResumesAlone, OneRollbackPerTrigger,
          RollbackIsNotRepeated
  <2> QED
    BY <1>4, <2>1, <2>2, RecordEffect
<1>5. ASSUME reconcileSet PROVE TypeOK' /\ TriggerInv'
  <2>1. /\ TypeOK' /\ UNCHANGED Aside /\ UNCHANGED jobs /\ WatchKept
        /\ mon.pc = "set" /\ mon'.pc = "select"
    BY <1>5, SetEffect
  <2> QED
    BY <2>1
    DEF Aside, WatchKept, TriggerInv, ArmingsAreNew, CountingIsUntriggered, ResumesAlone,
        OneRollbackPerTrigger, RollbackIsNotRepeated
<1>6. ASSUME handleEvent PROVE TypeOK' /\ TriggerInv'
  <2>1. TypeOK' /\ UNCHANGED Aside /\ UNCHANGED mon /\ mon.pc = "select" /\ pos \in DOMAIN log
    BY <1>6, EventEffect
  <2>2. CASE UNCHANGED <<watch, jobs>>
    BY <2>1, <2>2
    DEF Aside, TriggerInv, ArmingsAreNew, CountingIsUntriggered, ResumesAlone, OneRollbackPerTrigger,
        RollbackIsNotRepeated
  <2>3. CASE recordCrash(log[pos].id, Nano(log[pos].at), log[pos].at)
    <3>1. log[pos].id \in Nat /\ Nano(log[pos].at) \in Nat
      <4>1. log \in Seq(Event)
        BY DEF TypeOK
      <4> QED
        BY <2>1, <4>1, EventFields
    <3> QED
      BY <2>1, <2>3, <3>1, CountingKeepsTrigger DEF Aside
  <2> QED
    BY <1>6, <2>2, <2>3, EventEffect
<1>7. ASSUME NEW j \in jobs, JobMoves(j) PROVE TypeOK' /\ TriggerInv'
  BY <1>7, JobEffect, JobKeepsTrigger
<1>8. ASSUME operCommit PROVE TypeOK' /\ TriggerInv'
  BY <1>8, OperCommitEffect, CalmKeepsTrigger, ArmKeepsTrigger
<1>9. ASSUME recoverTriggered PROVE TypeOK' /\ TriggerInv'
  BY <1>9, RecoverEffect, RecoverKeepsTrigger
<1>10. ASSUME selfHandOver \/ Exit PROVE TypeOK' /\ TriggerInv'
  BY <1>10, RestartEffect, RestartKeepsTrigger
<1>11. ASSUME recoverFails \/ recordFails PROVE TypeOK' /\ TriggerInv'
  BY <1>11, RecoverFailsEffect, RecordFailsEffect, RecoverFailsKeepsTrigger, RecordFailsKeepsTrigger
<1> QED
  BY <1>1, <1>2, <1>3, <1>4, <1>5, <1>6, <1>7, <1>8, <1>9, <1>10, <1>11
  DEF Next, Monitor, Operator, Fails, JobMoves

LEMMA InitTrigger == Init => TypeOK /\ TriggerInv
<1> SUFFICES ASSUME Init PROVE TypeOK /\ TriggerInv
  OBVIOUS
<1>1. NoWatch \in Watch /\ NoWatch.id = 0 /\ NoWatch.status = "none"
  BY DEF NoWatch, Watch, Statuses
<1>2. NewMonitor \in MonitorState /\ NewMonitor.pc = "recover"
  BY DEF NewMonitor, MonitorState, Listed
<1>3. host \in Host /\ log \in Seq(Event) /\ clock \in 0..MaxClock
  BY Limits DEF Init, Host, States
<1>4. TypeOK
  BY <1>1, <1>2, <1>3, IdleType DEF Init, TypeOK, Used
<1>5. TriggerInv
  BY <1>1, <1>2, IdleType
  DEF Init, TriggerInv, ArmingsAreNew, CountingIsUntriggered, ResumesAlone, OneRollbackPerTrigger,
      RollbackIsNotRepeated
<1> QED
  BY <1>4, <1>5

-----------------------------------------------------------------------------
(* Half the threshold: how often an exit can be counted.                    *)

\* The exits of a container, and the events of a watch's container that its last
\* counted instant covers.  What the watch counted beyond the latter came from
\* the restart counter.
ExitsOf(l, id) == Cardinality({k \in DOMAIN l : l[k].id = id})
Reported(l, w) == {k \in DOMAIN l : l[k].id = w.id /\ Nano(l[k].at) <= w.last}
FromCounter(l, w) == w.count - Cardinality(Reported(l, w))

\* Docker restarts a container after an exit.
CounterIsExits ==
    /\ host.restarts <= ExitsOf(log, host.id)
    /\ host.state = "restarting" => host.restarts < ExitsOf(log, host.id)

\* What a reconcile has read is what the counter showed, of the watch it listed or of
\* one that a newer arming has replaced, with nothing counted yet.
ReadingIsExits ==
    /\ mon.pc \notin {"record", "set"} => mon.i = 0
    /\ mon.w.id <= watch.id
    /\ mon.pc \in {"record", "set"} => mon.seen <= ExitsOf(log, mon.w.id)
    /\ mon.pc \in {"record", "set"} /\ host.id = mon.w.id => mon.seen <= host.restarts
    /\ mon.pc \in Reading /\ mon.w.id # watch.id => watch.count = 0

\* No exit is counted twice from the counter: the part of the count that comes from
\* it is bounded by the counter, by what is noted as observed, and by what the
\* reconcile under way started from and has added.
CountedTwiceAtMost ==
    /\ FromCounter(log, watch) <= ExitsOf(log, watch.id)
    /\ FromCounter(log, watch) <= watch.observed
    /\ host.id = watch.id => FromCounter(log, watch) <= host.restarts
    /\ mon.pc \in Reading /\ mon.w.id = watch.id => FromCounter(log, watch) <= mon.w.observed + mon.i
    /\ mon.pc \in {"record", "set"} /\ mon.w.id = watch.id => FromCounter(log, watch) <= mon.seen

TriggerIsEarned == watch.status = "triggered" => watch.count >= Threshold

CountInv ==
    /\ CounterIsExits /\ ReadingIsExits /\ CountedTwiceAtMost /\ TriggerIsEarned
    /\ RollbackNeedsCrashes

Grows(l, m) == \A k \in DOMAIN l : k \in DOMAIN m /\ m[k] = l[k]

LEMMA EventSets ==
    ASSUME NEW l \in Seq(Event), NEW S, S \subseteq DOMAIN l
    PROVE  IsFiniteSet(S) /\ Cardinality(S) \in Nat
<1>1. DOMAIN l = 1..Len(l) /\ Len(l) \in Nat
  OBVIOUS
<1>2. IsFiniteSet(1..Len(l))
  BY <1>1, FS_Interval
<1>3. IsFiniteSet(S)
  BY <1>1, <1>2, FS_Subset
<1> QED
  BY <1>3, FS_CardinalityType

LEMMA ExitsType == ASSUME NEW l \in Seq(Event), NEW id PROVE ExitsOf(l, id) \in Nat
  BY EventSets DEF ExitsOf

LEMMA ReportedType ==
    ASSUME NEW l \in Seq(Event), NEW w
    PROVE  Cardinality(Reported(l, w)) \in Nat /\ Cardinality(Reported(l, w)) <= ExitsOf(l, w.id)
<1> DEFINE S == {k \in DOMAIN l : l[k].id = w.id}
<1>1. Reported(l, w) \subseteq S /\ S \subseteq DOMAIN l /\ Reported(l, w) \subseteq DOMAIN l
  BY DEF Reported
<1>2. IsFiniteSet(S) /\ Cardinality(S) = ExitsOf(l, w.id)
  BY <1>1, EventSets DEF ExitsOf
<1> HIDE DEF S
<1>3. Cardinality(Reported(l, w)) <= Cardinality(S)
  BY <1>1, <1>2, FS_Subset
<1> QED
  BY <1>1, <1>2, <1>3, EventSets

\* A longer log has at least the exits of the shorter one, and covers at least as much.
LEMMA ExitsGrow ==
    ASSUME NEW l \in Seq(Event), NEW m \in Seq(Event), Grows(l, m), NEW id
    PROVE  ExitsOf(l, id) <= ExitsOf(m, id)
<1> DEFINE S == {k \in DOMAIN l : l[k].id = id}
           T == {k \in DOMAIN m : m[k].id = id}
<1>1. S \subseteq T
  BY DEF Grows
<1>2. T \subseteq DOMAIN m /\ ExitsOf(l, id) = Cardinality(S) /\ ExitsOf(m, id) = Cardinality(T)
  BY DEF ExitsOf
<1> HIDE DEF S, T
<1>3. IsFiniteSet(T)
  BY <1>2, EventSets
<1> QED
  BY <1>1, <1>2, <1>3, FS_Subset

LEMMA ReportedGrows ==
    ASSUME NEW l \in Seq(Event), NEW m \in Seq(Event), Grows(l, m),
           NEW w \in Watch, NEW v \in Watch, v.id = w.id, v.last >= w.last
    PROVE  Cardinality(Reported(l, w)) <= Cardinality(Reported(m, v))
<1>0. \A k \in DOMAIN l : l[k].at \in Nat /\ Nano(l[k].at) \in Nat
  BY EventFields
<1>1. Reported(l, w) \subseteq Reported(m, v)
  <2>1. w.last \in Nat /\ v.last \in Nat
    BY DEF Watch
  <2> QED
    BY <1>0, <2>1 DEF Grows, Reported
<1>2. Reported(m, v) \subseteq DOMAIN m
  BY DEF Reported
<1> QED
  BY <1>1, <1>2, EventSets, FS_Subset

\* An event later than the last instant counted is one that was not covered.
LEMMA ReportedNew ==
    ASSUME NEW l \in Seq(Event), NEW w \in Watch, NEW v \in Watch, v.id = w.id,
           NEW k \in DOMAIN l, l[k].id = w.id, Nano(l[k].at) > w.last, v.last = Nano(l[k].at)
    PROVE  Cardinality(Reported(l, w)) + 1 <= Cardinality(Reported(l, v))
<1>0. \A n \in DOMAIN l : l[n].at \in Nat /\ Nano(l[n].at) \in Nat
  BY EventFields
<1>1. w.last \in Nat /\ v.last \in Nat
  BY DEF Watch
<1>2. k \notin Reported(l, w) /\ Reported(l, w) \cup {k} \subseteq Reported(l, v)
  BY <1>0, <1>1 DEF Reported
<1>3. Reported(l, w) \subseteq DOMAIN l /\ Reported(l, v) \subseteq DOMAIN l
  BY DEF Reported
<1>4. IsFiniteSet(Reported(l, w)) /\ IsFiniteSet(Reported(l, v))
  BY <1>3, EventSets
<1>5. Cardinality(Reported(l, w) \cup {k}) = Cardinality(Reported(l, w)) + 1
  BY <1>2, <1>4, FS_AddElement
<1> QED
  BY <1>2, <1>4, <1>5, FS_Subset

\* The exit that a "die" event reports is one more.
LEMMA ExitsNew ==
    ASSUME NEW l \in Seq(Event), NEW m \in Seq(Event), Grows(l, m), Len(m) = Len(l) + 1,
           NEW id, m[Len(m)].id = id
    PROVE  ExitsOf(l, id) + 1 <= ExitsOf(m, id)
<1> DEFINE S == {k \in DOMAIN l : l[k].id = id}
           T == {k \in DOMAIN m : m[k].id = id}
           n == Len(l) + 1
<1>1. n \in DOMAIN m /\ n \notin DOMAIN l /\ m[n].id = id
  OBVIOUS
<1>2. n \notin S /\ S \cup {n} \subseteq T
  BY <1>1 DEF Grows
<1>3. /\ S \subseteq DOMAIN l /\ T \subseteq DOMAIN m
      /\ ExitsOf(l, id) = Cardinality(S) /\ ExitsOf(m, id) = Cardinality(T)
  BY DEF ExitsOf
<1> HIDE DEF S, T, n
<1>4. IsFiniteSet(S) /\ IsFiniteSet(T)
  BY <1>3, EventSets
<1>5. Cardinality(S \cup {n}) = Cardinality(S) + 1
  BY <1>2, <1>4, FS_AddElement
<1> QED
  BY <1>2, <1>3, <1>4, <1>5, FS_Subset

\* The bounds of the invariant are numbers.
Rows == log \in Seq(Event) /\ watch \in Watch
Numbers ==
    /\ watch.id \in Nat /\ watch.count \in Nat /\ watch.observed \in Nat /\ watch.last \in Nat
    /\ mon.w.id \in Nat /\ mon.w.observed \in Nat /\ mon.i \in Nat /\ mon.seen \in Nat /\ mon.now \in Nat
    /\ host.id \in Nat /\ host.restarts \in Nat
    /\ FromCounter(log, watch) \in Int /\ FromCounter(log, watch) <= watch.count

LEMMA CountTypes == TypeOK => Rows /\ Numbers
<1> SUFFICES ASSUME TypeOK PROVE Rows /\ Numbers
  OBVIOUS
<1>1. log \in Seq(Event) /\ watch \in Watch
  BY DEF TypeOK
<1>2. /\ watch.id \in Nat /\ watch.count \in Nat /\ watch.observed \in Nat /\ watch.last \in Nat
      /\ mon.w.id \in Nat /\ mon.w.observed \in Nat
  BY <1>1 DEF TypeOK, Watch, MonitorState
<1>3. mon.i \in Nat /\ mon.seen \in Nat /\ mon.now \in Nat /\ host.id \in Nat /\ host.restarts \in Nat
  BY DEF TypeOK, MonitorState, Host
<1>4. Cardinality(Reported(log, watch)) \in Nat
  BY <1>1, ReportedType
<1> QED
  BY <1>1, <1>2, <1>3, <1>4 DEF FromCounter, Rows, Numbers

LEMMA CountTypesNext == TypeOK' => Rows' /\ Numbers'
  BY CountTypes, PTL

\* The conclusion the invariant is for: twice the exits is at least the count.
LEMMA CountIsEarned ==
    ASSUME TypeOK, FromCounter(log, watch) <= ExitsOf(log, watch.id)
    PROVE  watch.count <= 2 * ExitsOf(log, watch.id)
<1>1. /\ ExitsOf(log, watch.id) \in Nat /\ Cardinality(Reported(log, watch)) \in Nat
      /\ Cardinality(Reported(log, watch)) <= ExitsOf(log, watch.id) /\ watch.count \in Nat
  BY CountTypes, ExitsType, ReportedType DEF Rows, Numbers
<1> QED
  BY <1>1 DEF FromCounter

\* Steps that leave the container alone, and the four that do not.
LEMMA HostStep == ASSUME TypeOK, TypeOK', CounterIsExits,
                         (UNCHANGED host /\ LogGrows) \/ Crash \/ AutoRestart \/ Recreate
                  PROVE  CounterIsExits'
<1>1. /\ log \in Seq(Event) /\ log' \in Seq(Event) /\ host.restarts \in Nat /\ host'.restarts \in Nat
      /\ \A id : ExitsOf(log, id) \in Nat /\ ExitsOf(log', id) \in Nat
  BY CountTypes, CountTypesNext, ExitsType DEF Rows, Numbers
<1>2. LogGrows => \A id : ExitsOf(log, id) <= ExitsOf(log', id)
  BY <1>1, ExitsGrow DEF LogGrows, Grows
<1>3. CASE UNCHANGED host /\ LogGrows
  BY <1>1, <1>2, <1>3 DEF CounterIsExits
<1>4. CASE Crash
  <2>1. PICK code \in ExitCodes : Dies(code)
    BY <1>4 DEF Crash
  <2>2. LogGrows /\ Len(log') = Len(log) + 1 /\ log'[Len(log')].id = host.id
    BY <2>1, DiesEffect
  <2>3. ExitsOf(log, host.id) + 1 <= ExitsOf(log', host.id)
    BY <1>1, <2>2, ExitsNew DEF LogGrows, Grows
  <2>4. host'.id = host.id /\ host'.restarts = host.restarts
    BY <1>4 DEF Crash, TypeOK, Host
  <2> QED
    BY <1>1, <2>3, <2>4 DEF CounterIsExits
<1>5. CASE AutoRestart
  <2>1. UNCHANGED log /\ host.state = "restarting" /\ host'.id = host.id
    BY <1>5 DEF AutoRestart, TypeOK, Host
  <2>2. host'.restarts = host.restarts + 1 /\ host'.state = "running"
    BY <1>5 DEF AutoRestart, TypeOK, Host
  <2> QED
    BY <1>1, <2>1, <2>2 DEF CounterIsExits
<1>6. CASE Recreate
  <2>1. host'.restarts = 0 /\ host'.state \in {"running", "created"}
    BY <1>6, RecreateEffect
  <2> QED
    BY <1>1, <2>1 DEF CounterIsExits
<1> QED
  BY <1>3, <1>4, <1>5, <1>6

\* A step that counts nothing, after which the monitor reads on as before or rests.
Settled ==
    /\ DockerMoves /\ WatchKept /\ watch'.observed = watch.observed
    /\ \/ mon' = mon
       \/ /\ mon'.pc \notin Reading /\ mon'.w.id <= mon.w.id
          /\ mon'.i = 0 \/ (mon'.i = mon.i /\ mon.pc \notin Reading)
    /\ \A j \in jobs' : (\E k \in jobs : k.w = j.w) \/ (j.w = watch.id /\ watch.status = "triggered")

LEMMA SettledKeepsCount ==
    ASSUME TypeOK, TypeOK', TriggerInv, CountInv, CounterIsExits', Settled
    PROVE  CountInv'
<1>1. /\ \A id : ExitsOf(log, id) \in Nat /\ ExitsOf(log', id) \in Nat /\ ExitsOf(log, id) <= ExitsOf(log', id)
      /\ Grows(log, log')
  BY CountTypes, CountTypesNext, ExitsType, ExitsGrow DEF Rows, Settled, DockerMoves, LogGrows, Grows
<1>2. /\ watch'.id = watch.id /\ watch'.count = watch.count /\ watch'.last = watch.last
      /\ watch'.observed = watch.observed
  BY DEF Settled, WatchKept
<1>3. FromCounter(log', watch') <= FromCounter(log, watch)
  <2>a. log \in Seq(Event) /\ log' \in Seq(Event) /\ watch \in Watch /\ watch' \in Watch
    BY CountTypes, CountTypesNext DEF Rows
  <2>b. watch.last \in Nat
    BY CountTypes DEF Numbers
  <2>0. watch'.last >= watch.last
    BY <1>2, <2>b
  <2>1. Cardinality(Reported(log, watch)) <= Cardinality(Reported(log', watch'))
    BY <1>1, <1>2, <2>a, <2>0, ReportedGrows
  <2> QED
    BY <1>2, <2>1, CountTypes, CountTypesNext, ReportedType DEF FromCounter, Rows, Numbers
<1>4. \/ host'.id = host.id /\ host'.restarts >= host.restarts
      \/ host'.id > host.id
  BY DEF Settled, DockerMoves, HostMoves
<1>5. watch.id <= host.id
  BY DEF TriggerInv, ArmingsAreNew
<1>6. \/ mon' = mon
      \/ /\ mon'.pc \notin Reading /\ mon'.w.id <= mon.w.id
         /\ mon'.i = 0 \/ (mon'.i = mon.i /\ mon.pc \notin Reading)
  BY DEF Settled
<1>n. Numbers /\ Numbers'
  BY CountTypes, CountTypesNext
<1>r. ReadingIsExits /\ CountedTwiceAtMost
  BY DEF CountInv
<1>i. host'.id = watch.id \/ host'.id <= mon.w.id => host'.id = host.id /\ host'.restarts >= host.restarts
  BY <1>4, <1>5, <1>n, <1>r DEF Numbers, ReadingIsExits
<1>7. ReadingIsExits'
  <2>1. CASE mon' = mon
    <3>1. mon.pc \in {"record", "set"} => mon.seen <= ExitsOf(log', mon.w.id)
      BY <1>1, <1>n, <1>r DEF Numbers, ReadingIsExits
    <3>2. mon.pc \in {"record", "set"} /\ host'.id = mon.w.id => mon.seen <= host'.restarts
      BY <1>i, <1>n, <1>r DEF Numbers, ReadingIsExits
    <3> QED
      BY <1>2, <1>r, <2>1, <3>1, <3>2 DEF ReadingIsExits
  <2>2. CASE /\ mon'.pc \notin Reading /\ mon'.w.id <= mon.w.id
             /\ mon'.i = 0 \/ (mon'.i = mon.i /\ mon.pc \notin Reading)
    <3>1. mon'.w.id <= watch'.id /\ mon'.i = 0
      BY <1>2, <1>n, <1>r, <2>2 DEF Numbers, ReadingIsExits, Reading
    <3> QED
      BY <2>2, <3>1 DEF ReadingIsExits, Reading
  <2> QED
    BY <1>6, <2>1, <2>2
<1>8. CountedTwiceAtMost'
  <2> DEFINE f == FromCounter(log, watch)
             g == FromCounter(log', watch')
  <2>1. f \in Int /\ g \in Int /\ g <= f
    BY <1>3, <1>n DEF Numbers
  <2>2. g <= ExitsOf(log', watch'.id) /\ g <= watch'.observed
    BY <1>1, <1>2, <1>n, <1>r, <2>1 DEF Numbers, CountedTwiceAtMost
  <2>3. host'.id = watch'.id => g <= host'.restarts
    BY <1>2, <1>i, <1>n, <1>r, <2>1 DEF Numbers, CountedTwiceAtMost
  <2>4. mon'.pc \in Reading => mon' = mon
    BY <1>6
  <2>5. mon'.pc \in Reading /\ mon'.w.id = watch'.id => g <= mon'.w.observed + mon'.i
    BY <1>2, <1>n, <1>r, <2>1, <2>4 DEF Numbers, CountedTwiceAtMost
  <2>6. mon'.pc \in {"record", "set"} /\ mon'.w.id = watch'.id => g <= mon'.seen
    BY <1>2, <1>n, <1>r, <2>1, <2>4 DEF Numbers, CountedTwiceAtMost, Reading
  <2> QED
    BY <2>2, <2>3, <2>5, <2>6 DEF CountedTwiceAtMost
<1>9. TriggerIsEarned'
  BY <1>2 DEF CountInv, TriggerIsEarned, Settled, WatchKept
<1>10. RollbackNeedsCrashes'
  <2>1. watch.status = "triggered" => 2 * ExitsOf(log, watch.id) >= Threshold
    BY <1>1, CountIsEarned, CountTypes, Limits DEF Numbers, CountInv, TriggerIsEarned, CountedTwiceAtMost
  <2>2. \A k \in jobs : 2 * ExitsOf(log, k.w) >= Threshold
    BY DEF CountInv, RollbackNeedsCrashes, Exits, ExitsOf
  <2>3. \A j \in jobs' : 2 * ExitsOf(log, j.w) >= Threshold
    BY <2>1, <2>2 DEF Settled
  <2>4. \A j \in jobs' : 2 * ExitsOf(log', j.w) >= Threshold
    BY <1>1, <2>3, Limits
  <2> QED
    BY <2>4 DEF RollbackNeedsCrashes, Exits, ExitsOf
<1> QED
  BY <1>7, <1>8, <1>9, <1>10 DEF CountInv

\* The reconcile lists the watch: what it starts from is what is noted as observed.
LEMMA ListKeepsCount ==
    ASSUME TypeOK, TypeOK', CountInv, UNCHANGED <<host, log, watch, jobs>>,
           mon.pc = "list", mon'.pc = "inspect", mon'.w.id = watch.id, mon'.w.observed = watch.observed,
           mon'.i = mon.i
    PROVE  CountInv'
<1>1. Numbers /\ Numbers' /\ CounterIsExits' /\ TriggerIsEarned' /\ RollbackNeedsCrashes'
  BY CountTypes, CountTypesNext
  DEF CountInv, CounterIsExits, TriggerIsEarned, RollbackNeedsCrashes, Exits, ExitsOf
<1>2. mon'.i = 0
  BY DEF CountInv, ReadingIsExits
<1>3. ReadingIsExits'
  BY <1>1, <1>2 DEF ReadingIsExits, Numbers
<1>4. CountedTwiceAtMost'
  BY <1>1, <1>2 DEF CountInv, CountedTwiceAtMost, Numbers
<1> QED
  BY <1>1, <1>3, <1>4 DEF CountInv

\* It reads the counter of the container under watch, which is alive.
LEMMA InspectKeepsCount ==
    ASSUME TypeOK, TypeOK', CountInv, UNCHANGED <<host, log, watch, jobs>>,
           mon.pc = "inspect", mon.w.id = host.id, mon'.pc = "record", mon'.seen = host.restarts,
           mon'.w = mon.w, mon'.i = mon.i
    PROVE  CountInv'
<1>1. Numbers /\ Numbers' /\ CounterIsExits' /\ TriggerIsEarned' /\ RollbackNeedsCrashes'
  BY CountTypes, CountTypesNext
  DEF CountInv, CounterIsExits, TriggerIsEarned, RollbackNeedsCrashes, Exits, ExitsOf
<1>2. ReadingIsExits'
  BY <1>1 DEF CountInv, CounterIsExits, ReadingIsExits, Reading, Numbers
<1>3. CountedTwiceAtMost'
  BY <1>1 DEF CountInv, CountedTwiceAtMost, Reading, Numbers
<1> QED
  BY <1>1, <1>2, <1>3 DEF CountInv

\* It has recorded what the counter shows and goes on to note it.
LEMMA RecordedKeepsCount ==
    ASSUME TypeOK, TypeOK', CountInv, UNCHANGED <<host, log, watch, jobs>>,
           mon.pc = "record", mon'.pc = "set", mon'.seen = mon.seen, mon'.w = mon.w, mon'.i = mon.i
    PROVE  CountInv'
<1>1. Numbers /\ Numbers' /\ CounterIsExits' /\ TriggerIsEarned' /\ RollbackNeedsCrashes'
  BY CountTypes, CountTypesNext
  DEF CountInv, CounterIsExits, TriggerIsEarned, RollbackNeedsCrashes, Exits, ExitsOf
<1>2. ReadingIsExits'
  BY <1>1 DEF CountInv, ReadingIsExits, Reading, Numbers
<1>3. CountedTwiceAtMost'
  BY <1>1 DEF CountInv, CountedTwiceAtMost, Reading, Numbers
<1> QED
  BY <1>1, <1>2, <1>3 DEF CountInv

LEMMA SetKeepsCount ==
    ASSUME TypeOK, TypeOK', CountInv, UNCHANGED <<host, log, jobs>>, WatchKept,
           mon.pc = "set", mon'.pc = "select", mon'.w.id = mon.w.id, mon'.i = 0,
           watch'.observed = watch.observed \/ watch'.observed = mon.seen
    PROVE  CountInv'
<1>1. /\ Numbers /\ Numbers' /\ CounterIsExits' /\ RollbackNeedsCrashes'
      /\ watch'.id = watch.id /\ watch'.count = watch.count /\ watch'.last = watch.last
  BY CountTypes, CountTypesNext DEF CountInv, CounterIsExits, RollbackNeedsCrashes, Exits, ExitsOf, WatchKept
<1>2. FromCounter(log', watch') = FromCounter(log, watch)
  BY <1>1 DEF FromCounter, Reported
<1>3. FromCounter(log, watch) <= mon.seen
  BY <1>1 DEF CountInv, ReadingIsExits, Reading, CountedTwiceAtMost, Numbers
<1>4. ReadingIsExits' /\ TriggerIsEarned'
  BY <1>1 DEF CountInv, ReadingIsExits, TriggerIsEarned, Reading, Numbers, WatchKept
<1>5. CountedTwiceAtMost'
  BY <1>1, <1>2, <1>3 DEF CountInv, CountedTwiceAtMost, Reading, Numbers
<1> QED
  BY <1>1, <1>4, <1>5 DEF CountInv

\* A crash that is counted and brings the count to the threshold has earned it.
LEMMA CountedEarns ==
    ASSUME TypeOK, TypeOK', CountInv, UNCHANGED log, watch'.id = watch.id,
           FromCounter(log', watch') <= ExitsOf(log', watch'.id),
           \/ /\ watch'.count >= Threshold /\ watch'.status = "triggered"
              /\ jobs' = jobs \cup {NewJob(watch.id)}
           \/ watch'.status = "active" /\ jobs' = jobs
    PROVE  TriggerIsEarned' /\ RollbackNeedsCrashes'
<1>1. ExitsOf(log, watch.id) \in Nat /\ Threshold \in Nat /\ watch'.count \in Nat
  BY CountTypes, CountTypesNext, ExitsType, Limits DEF Rows, Numbers
<1>2. watch'.count <= 2 * ExitsOf(log, watch.id)
  <2>1. /\ Cardinality(Reported(log', watch')) \in Nat
        /\ Cardinality(Reported(log', watch')) <= ExitsOf(log', watch'.id)
    BY CountTypesNext, ReportedType DEF Rows
  <2> QED
    BY <1>1, <2>1 DEF FromCounter
<1>3. \A k \in jobs : 2 * ExitsOf(log, k.w) >= Threshold
  BY DEF CountInv, RollbackNeedsCrashes, Exits, ExitsOf
<1>4. NewJob(watch.id).w = watch.id
  BY DEF NewJob
<1>5. \A j \in jobs' : 2 * ExitsOf(log, j.w) >= Threshold
  BY <1>1, <1>2, <1>3, <1>4
<1>6. RollbackNeedsCrashes'
  BY <1>5 DEF RollbackNeedsCrashes, Exits, ExitsOf
<1> QED
  BY <1>6 DEF TriggerIsEarned

\* A restart that no event accounted for: the count and the reading move together.
LEMMA RecordKeepsCount ==
    ASSUME TypeOK, TypeOK', CountInv, UNCHANGED <<host, log>>,
           mon.pc = "record", mon.i < mon.seen - mon.w.observed,
           mon'.pc = "record", mon'.w = mon.w, mon'.seen = mon.seen, mon'.i = mon.i + 1,
           recordCrash(mon.w.id, Nano(mon.now) + mon.i, mon.now)
    PROVE  CountInv'
<1> DEFINE nano == Nano(mon.now) + mon.i
<1>1. Numbers /\ Numbers' /\ CounterIsExits' /\ nano \in Nat
  BY CountTypes, CountTypesNext, NanoType DEF CountInv, CounterIsExits, Numbers
<1> HIDE DEF nano
<1>2. CASE UNCHANGED <<watch, jobs>>
  <2>1. TriggerIsEarned' /\ RollbackNeedsCrashes'
    BY <1>2 DEF CountInv, TriggerIsEarned, RollbackNeedsCrashes, Exits, ExitsOf
  <2>2. ReadingIsExits'
    BY <1>1, <1>2 DEF CountInv, ReadingIsExits, Reading, Numbers
  <2>3. CountedTwiceAtMost'
    BY <1>1, <1>2 DEF CountInv, CountedTwiceAtMost, Reading, Numbers
  <2> QED
    BY <1>1, <2>1, <2>2, <2>3 DEF CountInv
<1>3. CASE /\ watch.id = mon.w.id /\ watch'.id = watch.id /\ nano > watch.last
           /\ watch'.count = watch.count + 1 /\ watch'.observed = watch.observed + 1 /\ watch'.last = nano
           /\ \/ /\ watch.count + 1 >= Threshold /\ watch'.status = "triggered"
                 /\ jobs' = jobs \cup {NewJob(mon.w.id)}
              \/ watch'.status = "active" /\ jobs' = jobs
  <2>1. /\ log \in Seq(Event) /\ watch \in Watch /\ watch' \in Watch /\ Grows(log, log)
        /\ ExitsOf(log, watch.id) \in Nat
    BY CountTypes, CountTypesNext, ExitsType DEF Rows, Grows
  <2>2. watch'.last >= watch.last
    BY <1>1, <1>3 DEF Numbers
  <2>3. FromCounter(log', watch') <= FromCounter(log, watch) + 1
    <3>1. Cardinality(Reported(log, watch)) <= Cardinality(Reported(log, watch'))
      BY <1>3, <2>1, <2>2, ReportedGrows
    <3>2. Cardinality(Reported(log, watch)) \in Nat /\ Cardinality(Reported(log, watch')) \in Nat
      BY <2>1, ReportedType
    <3> QED
      BY <1>1, <1>3, <3>1, <3>2 DEF FromCounter, Numbers
  <2>4. FromCounter(log, watch) + 1 <= mon.w.observed + mon.i + 1 /\ FromCounter(log, watch) + 1 <= mon.seen
    BY <1>1, <1>3 DEF CountInv, CountedTwiceAtMost, Reading, Numbers
  <2>5. mon.seen <= ExitsOf(log, watch.id) /\ (host.id = watch.id => mon.seen <= host.restarts)
    BY <1>3 DEF CountInv, ReadingIsExits
  <2>6. ReadingIsExits'
    BY <1>1, <1>3 DEF CountInv, ReadingIsExits, Reading, Numbers
  <2>7. CountedTwiceAtMost'
    <3> DEFINE f == FromCounter(log, watch)
               g == FromCounter(log', watch')
    <3>1. f \in Int /\ g \in Int /\ g <= f + 1 /\ f <= watch.observed
      BY <1>1, <2>3 DEF Numbers, CountInv, CountedTwiceAtMost
    <3> HIDE DEF f, g
    <3>2. f + 1 <= mon.w.observed + mon.i + 1 /\ f + 1 <= mon.seen
      BY <2>4 DEF f
    <3>3. /\ g <= ExitsOf(log', watch'.id) /\ g <= watch'.observed /\ g <= mon'.w.observed + mon'.i
          /\ g <= mon'.seen /\ (host'.id = watch'.id => g <= host'.restarts)
      <4>1. g <= watch'.observed /\ g <= mon'.w.observed + mon'.i
        BY <1>1, <1>3, <3>1, <3>2 DEF Numbers
      <4>2. g <= mon.seen /\ mon.seen \in Nat /\ host.restarts \in Nat
        BY <1>1, <3>1, <3>2 DEF Numbers
      <4>3. g <= ExitsOf(log, watch.id) /\ (host.id = watch.id => g <= host.restarts)
        BY <2>1, <2>5, <3>1, <4>2
      <4> QED
        BY <1>3, <4>1, <4>2, <4>3
    <3> QED
      BY <3>3 DEF g, CountedTwiceAtMost
  <2>8. TriggerIsEarned' /\ RollbackNeedsCrashes'
    <3>1. FromCounter(log', watch') <= ExitsOf(log', watch'.id)
      BY <2>7 DEF CountedTwiceAtMost
    <3> QED
      BY <1>3, <3>1, CountedEarns
  <2> QED
    BY <1>1, <2>6, <2>7, <2>8 DEF CountInv
<1> QED
  <2>1. mon.w.id \in Nat
    BY <1>1 DEF Numbers
  <2>2. recordCrash(mon.w.id, nano, mon.now)
    BY DEF nano
  <2> QED
    BY <1>1, <1>2, <1>3, <2>1, <2>2, RecordCrashEffect DEF Counted

\* An event: the watch's last instant moves over it, and nothing comes from the counter.
LEMMA EventKeepsCount ==
    ASSUME TypeOK, TypeOK', CountInv, UNCHANGED <<host, log, mon>>, mon.pc = "select", pos \in DOMAIN log,
           recordCrash(log[pos].id, Nano(log[pos].at), log[pos].at)
    PROVE  CountInv'
<1>1. Numbers /\ Numbers' /\ CounterIsExits' /\ log \in Seq(Event) /\ watch \in Watch /\ watch' \in Watch
  BY CountTypes, CountTypesNext DEF CountInv, CounterIsExits, Rows
<1>2. log[pos].id \in Nat /\ Nano(log[pos].at) \in Nat
  BY <1>1, EventFields
<1>3. CASE UNCHANGED <<watch, jobs>>
  <2>1. TriggerIsEarned' /\ RollbackNeedsCrashes'
    BY <1>3 DEF CountInv, TriggerIsEarned, RollbackNeedsCrashes, Exits, ExitsOf
  <2>2. ReadingIsExits' /\ CountedTwiceAtMost'
    BY <1>3 DEF CountInv, ReadingIsExits, CountedTwiceAtMost
  <2> QED
    BY <1>1, <2>1, <2>2 DEF CountInv
<1>4. CASE /\ watch.id = log[pos].id /\ watch'.id = watch.id /\ Nano(log[pos].at) > watch.last
           /\ watch'.count = watch.count + 1 /\ watch'.observed = watch.observed + 1
           /\ watch'.last = Nano(log[pos].at)
           /\ \/ /\ watch.count + 1 >= Threshold /\ watch'.status = "triggered"
                 /\ jobs' = jobs \cup {NewJob(log[pos].id)}
              \/ watch'.status = "active" /\ jobs' = jobs
  <2>1. FromCounter(log', watch') <= FromCounter(log, watch)
    <3>1. Cardinality(Reported(log, watch)) + 1 <= Cardinality(Reported(log, watch'))
      BY <1>1, <1>4, ReportedNew
    <3>2. Cardinality(Reported(log, watch)) \in Nat /\ Cardinality(Reported(log, watch')) \in Nat
      BY <1>1, ReportedType
    <3> QED
      BY <1>1, <1>4, <3>1, <3>2 DEF FromCounter, Numbers
  <2>2. ExitsOf(log, watch.id) \in Nat
    BY <1>1, ExitsType
  <2>3. ReadingIsExits'
    BY <1>4 DEF CountInv, ReadingIsExits, Reading
  <2>4. CountedTwiceAtMost'
    <3> DEFINE f == FromCounter(log, watch)
               g == FromCounter(log', watch')
    <3>1. /\ f \in Int /\ g \in Int /\ g <= f
          /\ f <= watch.observed /\ f <= ExitsOf(log, watch.id) /\ (host.id = watch.id => f <= host.restarts)
      BY <1>1, <2>1 DEF Numbers, CountInv, CountedTwiceAtMost
    <3> HIDE DEF f, g
    <3>2. g <= watch'.observed
      BY <1>1, <1>4, <3>1 DEF Numbers
    <3>3. host.id = watch.id => g <= host.restarts
      BY <1>1, <3>1 DEF Numbers
    <3>4. g <= ExitsOf(log, watch.id)
      BY <2>2, <3>1
    <3> QED
      BY <1>4, <3>2, <3>3, <3>4 DEF g, CountedTwiceAtMost, Reading
  <2>5. TriggerIsEarned' /\ RollbackNeedsCrashes'
    <3>1. FromCounter(log', watch') <= ExitsOf(log', watch'.id)
      BY <2>4 DEF CountedTwiceAtMost
    <3> QED
      BY <1>4, <3>1, CountedEarns
  <2> QED
    BY <1>1, <2>3, <2>4, <2>5 DEF CountInv
<1> QED
  BY <1>2, <1>3, <1>4, RecordCrashEffect DEF Counted

\* A new watch has counted nothing, and no reconcile under way is about it.
LEMMA ArmKeepsCount == ASSUME TypeOK, TypeOK', TriggerInv, CountInv, Arms PROVE CountInv'
<1>1. /\ Numbers /\ Numbers' /\ UNCHANGED <<host, log, mon, jobs>>
      /\ watch'.status = "active" /\ watch'.id = host.id /\ watch'.count = 0 /\ watch.id < host.id
  BY CountTypes, CountTypesNext DEF Arms, ArmRollbackWatch, dockerside, TriggerInv, ArmingsAreNew, HasReplaced
<1>2. CounterIsExits' /\ TriggerIsEarned' /\ RollbackNeedsCrashes'
  BY <1>1 DEF CountInv, CounterIsExits, TriggerIsEarned, RollbackNeedsCrashes, Exits, ExitsOf
<1>3. mon.w.id < watch'.id
  BY <1>1 DEF CountInv, ReadingIsExits, Numbers
<1>4. ReadingIsExits'
  BY <1>1, <1>3 DEF CountInv, ReadingIsExits, Numbers
<1>5. CountedTwiceAtMost'
  <2>1. ExitsOf(log', watch'.id) \in Nat
    BY CountTypesNext, ExitsType DEF Rows
  <2> QED
    BY <1>1, <1>3, <2>1 DEF CountedTwiceAtMost, Numbers
<1> QED
  BY <1>2, <1>4, <1>5 DEF CountInv

LEMMA HostOfStep ==
    ASSUME TypeOK, Next
    PROVE  (UNCHANGED host /\ LogGrows) \/ Crash \/ AutoRestart \/ Recreate
<1>1. ASSUME NEW j \in jobs, JobMoves(j) PROVE UNCHANGED <<host, log>> \/ Recreate
  BY <1>1, JobEffect DEF dockerside
<1>2. CASE \/ recoverTriggered \/ reconcileExpire \/ reconcileList \/ reconcileInspect \/ reconcileRecord
           \/ reconcileSet \/ handleEvent \/ expiryTick \/ StreamEnds \/ EventLost
           \/ recoverFails \/ readingFails \/ recordFails \/ setFails
  BY <1>2, SameLog
  DEF recoverTriggered, reconcileExpire, reconcileList, reconcileInspect, reconcileRecord, reconcileSet,
      handleEvent, expiryTick, StreamEnds, EventLost, recoverFails, readingFails, recordFails, setFails, dockerside
<1>3. ASSUME \/ \E kind \in {"update", "rollback"} : operBegin(kind)
             \/ operReplace \/ operRead \/ operCommit \/ operFail \/ operRevert \/ notRunningFails
      PROVE  UNCHANGED <<host, log>> \/ Recreate
  BY <1>3 DEF operBegin, operReplace, operRead, operCommit, operFail, operRevert, notRunningFails, dockerside
<1>4. CASE selfBegin \/ selfBlockers \/ selfFail \/ selfHandOver \/ Exit \/ Discover
  BY <1>4, SameLog DEF selfBegin, selfBlockers, selfFail, selfHandOver, Exit, Restarted, Discover, dockerside
<1> QED
  BY <1>1, <1>2, <1>3, <1>4, SameLog DEF Next, Monitor, Operator, Fails, JobMoves

LEMMA CalmIsSettled == ASSUME TypeOK, Calm PROVE Settled
<1>1. (mon' = mon \/ mon'.w.id = mon.w.id) /\ mon.w.id \in Nat
  BY CountTypes DEF Calm, MonitorRests, Numbers
<1> QED
  BY <1>1 DEF Calm, Settled, MonitorRests

LEMMA JobIsSettled == ASSUME TypeOK, NEW j \in jobs, JobMoves(j) PROVE Settled
<1>1. /\ mon' = mon /\ DockerMoves
      /\ JobGoesOn(j) \/ JobIsRefused(j) \/ JobEnds(j) \/ JobIsDropped(j)
  BY JobEffect
<1>2. WatchKept /\ watch'.observed = watch.observed
  <2>1. JobGoesOn(j) \/ JobIsRefused(j) \/ JobIsDropped(j) => watch' = watch
    BY DEF JobGoesOn, JobIsRefused, JobIsDropped
  <2>2. watch' = watch => WatchKept
    BY SameGate
  <2> QED
    BY <1>1, <2>1, <2>2 DEF JobEnds
<1>3. \A n \in jobs' : \E k \in jobs : k.w = n.w
  BY <1>1 DEF JobGoesOn, JobIsRefused, JobEnds, JobIsDropped
<1> QED
  BY <1>1, <1>2, <1>3 DEF Settled

LEMMA RecoverFailsIsSettled == ASSUME TypeOK, recoverFails PROVE Settled
<1>1. /\ UNCHANGED <<host, log, watch, jobs>> /\ mon.pc = "recover"
      /\ mon'.pc = "expire" /\ mon'.w = mon.w /\ mon'.i = mon.i
  BY RecoverFailsEffect
<1>2. DockerMoves /\ WatchKept /\ mon'.w.id <= mon.w.id
  BY <1>1, CountTypes, SameLog, SameGate DEF DockerMoves, HostMoves, Numbers
<1> QED
  BY <1>1, <1>2 DEF Settled, Reading

\* A crash that RecordCrash fails on leaves the count behind the reading.
LEMMA RecordFailsKeepsCount == ASSUME TypeOK, TypeOK', CountInv, recordFails PROVE CountInv'
<1>1. /\ UNCHANGED <<host, log, jobs>> /\ SameCount /\ mon.pc = "record"
      /\ mon'.pc = "record" /\ mon'.w = mon.w /\ mon'.seen = mon.seen /\ mon'.i = mon.i + 1
  BY RecordFailsEffect
<1>2. Numbers /\ Numbers' /\ CounterIsExits' /\ TriggerIsEarned' /\ RollbackNeedsCrashes'
  BY <1>1, CountTypes, CountTypesNext
  DEF CountInv, CounterIsExits, TriggerIsEarned, RollbackNeedsCrashes, Exits, ExitsOf, SameCount
<1>3. FromCounter(log', watch') = FromCounter(log, watch)
  BY <1>1 DEF FromCounter, Reported, SameCount
<1>4. ReadingIsExits'
  BY <1>1, <1>2 DEF CountInv, ReadingIsExits, Reading, Numbers, SameCount
<1>5. CountedTwiceAtMost'
  BY <1>1, <1>2, <1>3 DEF CountInv, CountedTwiceAtMost, Reading, Numbers, SameCount
<1> QED
  BY <1>2, <1>4, <1>5 DEF CountInv

LEMMA RecoverIsSettled == ASSUME TypeOK, recoverTriggered PROVE Settled
<1>1. /\ UNCHANGED Aside /\ UNCHANGED watch /\ mon.pc = "recover"
      /\ mon'.pc = "expire" /\ mon'.w = mon.w /\ mon'.i = mon.i
      /\ jobs' = IF watch.status = "triggered" THEN jobs \cup {NewJob(watch.id)} ELSE jobs
  BY RecoverEffect
<1>2. DockerMoves /\ WatchKept
  BY <1>1, CountTypes, SameLog, SameGate DEF Aside, DockerMoves, HostMoves, Numbers
<1>3. NewJob(watch.id).w = watch.id /\ mon'.w.id <= mon.w.id
  BY <1>1, CountTypes DEF NewJob, Numbers
<1> QED
  BY <1>1, <1>2, <1>3 DEF Settled, Reading

LEMMA RestartIsSettled == ASSUME TypeOK, selfHandOver \/ Exit PROVE Settled
<1>1. UNCHANGED <<host, log, watch>> /\ jobs' = {} /\ mon'.pc = "recover" /\ mon'.w.id = 0 /\ mon'.i = 0
  BY RestartEffect DEF Restarted, dockerside
<1>2. DockerMoves /\ WatchKept /\ mon'.w.id <= mon.w.id
  BY <1>1, CountTypes, SameLog, SameGate DEF DockerMoves, HostMoves, Numbers
<1> QED
  BY <1>1, <1>2 DEF Settled, Reading

LEMMA CountStep == ASSUME TypeOK, TypeOK', TriggerInv, CountInv, [Next]_vars PROVE CountInv'
<1>1. CASE UNCHANGED vars
  BY <1>1
  DEF vars, CountInv, CounterIsExits, ReadingIsExits, CountedTwiceAtMost, TriggerIsEarned, RollbackNeedsCrashes,
      Exits
<1>2. CASE Next
  <2>1. CounterIsExits'
    BY <1>2, HostOfStep, HostStep DEF CountInv
  <2>2. ASSUME Settled PROVE CountInv'
    BY <2>1, <2>2, SettledKeepsCount
  <2>3. CASE \/ Crash \/ AutoRestart \/ reconcileExpire \/ expiryTick \/ StreamEnds \/ EventLost
             \/ operReplace \/ operRead \/ operFail \/ operRevert \/ selfBegin \/ selfBlockers \/ selfFail \/ Discover
           \/ readingFails \/ setFails \/ notRunningFails
    <3>1. Calm
      BY <2>3, CrashEffect, AutoRestartEffect, ExpireEffect, TickEffect, StreamEffect, OperReplaceEffect, OperReadEffect,
         OperFailEffect, OperRevertEffect, SelfEffect, DiscoverEffect, ReadingFailsEffect, NotRunningFailsEffect
    <3> QED
      BY <2>2, <3>1, CalmIsSettled
  <2>4. ASSUME NEW kind \in {"update", "rollback"}, operBegin(kind) PROVE CountInv'
    BY <2>2, <2>4, OperBeginEffect, CalmIsSettled
  <2>5. ASSUME NEW j \in jobs, JobMoves(j) PROVE CountInv'
    BY <2>2, <2>5, JobIsSettled
  <2>6. CASE recoverTriggered \/ selfHandOver \/ Exit \/ recoverFails
    BY <2>2, <2>6, RecoverIsSettled, RestartIsSettled, RecoverFailsIsSettled
  <2>7. CASE reconcileList
    BY <2>2, <2>7, ListEffect, CalmIsSettled, ListKeepsCount DEF dockerside
  <2>8. CASE reconcileInspect
    BY <2>2, <2>8, InspectEffect, CalmIsSettled, InspectKeepsCount DEF dockerside
  <2>9. CASE reconcileRecord
    BY <2>9, RecordEffect, RecordKeepsCount, RecordedKeepsCount DEF Aside
  <2>10. CASE reconcileSet
    BY <2>10, SetEffect, SetKeepsCount DEF Aside
  <2>11. CASE handleEvent
    <3>1. UNCHANGED <<host, log, mon>> /\ mon.pc = "select" /\ pos \in DOMAIN log
      BY <2>11, EventEffect DEF Aside
    <3>2. CASE UNCHANGED <<watch, jobs>>
      BY <3>1, <3>2
      DEF CountInv, CounterIsExits, ReadingIsExits, CountedTwiceAtMost, TriggerIsEarned, RollbackNeedsCrashes,
          Exits
    <3> QED
      BY <2>11, <3>1, <3>2, EventEffect, EventKeepsCount
  <2>12. CASE operCommit
    BY <2>2, <2>12, OperCommitEffect, CalmIsSettled, ArmKeepsCount
  <2>13. CASE recordFails
    BY <2>13, RecordFailsKeepsCount
  <2> QED
    BY <1>2, <2>3, <2>4, <2>5, <2>6, <2>7, <2>8, <2>9, <2>10, <2>11, <2>12, <2>13
    DEF Next, Monitor, Operator, Fails, JobMoves
<1> QED
  BY <1>1, <1>2

LEMMA InitCount == ASSUME Init PROVE CountInv
<1>1. /\ host.id = 1 /\ host.restarts = 0 /\ host.state = "running" /\ watch.count = 0 /\ watch.status = "none"
      /\ watch.id = 0 /\ mon.pc = "recover" /\ mon.w.id = 0 /\ mon.i = 0 /\ jobs = {}
  BY DEF Init, NoWatch, NewMonitor, Listed
<1>2. TypeOK /\ Numbers /\ (\A id : ExitsOf(log, id) \in Nat)
  BY InitTrigger, CountTypes, ExitsType DEF Rows
<1> QED
  BY <1>1, <1>2
  DEF CountInv, CounterIsExits, ReadingIsExits, CountedTwiceAtMost, TriggerIsEarned, RollbackNeedsCrashes,
      Reading, Numbers

-----------------------------------------------------------------------------
(* Nothing missed: a reconcile counts every restart the counter shows.      *)

\* Every exit and every reconcile has an instant of its own.
LogIsTimed == Len(log) <= clock /\ \A k \in DOMAIN log : log[k].at <= clock

\* A reconcile's instants are later than any counted before it, and not later than
\* the clock: within the window, what it records is counted.
ReadingIsTimed ==
    /\ mon.now <= clock /\ watch.last < Nano(clock + 1)
    /\ mon.pc \in {"list", "inspect", "record"} => 0 < mon.now /\ watch.last < Nano(mon.now) + mon.i

\* Within the window the count, with what is known to be missed, keeps up with what is
\* noted as observed, with what the reconcile under way has added to it, and with what
\* the last reconcile of this container has seen.
NothingMissed ==
    watch.status = "active" /\ clock < watch.until =>
        /\ watch.observed - watch.base <= watch.count + watch.missed
        /\ mon.pc \in {"inspect", "record"} /\ mon.w.id = watch.id =>
               mon.w.observed + mon.i - watch.base <= watch.count + watch.missed
        /\ mon.pc # "record" /\ mon.w.id = watch.id => mon.seen - watch.base <= watch.count + watch.missed

CatchUpInv == LogIsTimed /\ ReadingIsTimed /\ NothingMissed

Instants ==
    /\ clock \in Nat /\ clock <= MaxClock
    /\ watch.until \in Nat /\ watch.base \in Nat /\ watch.missed \in Nat

LEMMA InstantTypes == TypeOK => Instants
  BY Limits DEF TypeOK, Watch, Instants

LEMMA InstantTypesNext == TypeOK' => Instants'
  BY InstantTypes, PTL

\* Between two instants there is room for more readings than there can be exits.
LEMMA NanoRoom ==
    /\ \A t \in Nat : Nano(t) \in Nat /\ (0 < t => 0 < Nano(t))
    /\ \A t, u \in Nat : t < u => Nano(t) + MaxClock + 2 <= Nano(u)
    /\ \A t, u \in Nat : t <= u => Nano(t) <= Nano(u)
<1> DEFINE c == MaxClock + 2
<1>1. c \in Nat /\ c > 0
  BY Limits
<1> HIDE DEF c
<1>2. \A t \in Nat : t * c \in Nat /\ (t + 1) * c = t * c + c
  BY <1>1
<1>3. \A t, d \in Nat : (t + d) * c = t * c + d * c /\ d * c \in Nat
  BY <1>1
<1>4. \A t, u \in Nat : t <= u => t * c <= u * c
  <2>1. SUFFICES ASSUME NEW t \in Nat, NEW u \in Nat, t <= u PROVE t * c <= u * c
    OBVIOUS
  <2>2. PICK d \in Nat : u = t + d
    <3>1. u - t \in Nat /\ u = t + (u - t)
      BY <2>1
    <3> QED
      BY <3>1
  <2> DEFINE x == t * c
             y == d * c
  <2>3. u * c = x + y /\ x \in Nat /\ y \in Nat
    BY <1>2, <1>3, <2>2
  <2> HIDE DEF x, y
  <2>4. x <= u * c
    BY <2>3
  <2> QED
    BY <2>4 DEF x
<1>5. \A t, u \in Nat : t < u => t * c + c <= u * c
  <2>1. SUFFICES ASSUME NEW t \in Nat, NEW u \in Nat, t < u PROVE t * c + c <= u * c
    OBVIOUS
  <2>2. t + 1 \in Nat /\ t + 1 <= u
    BY <2>1
  <2> QED
    BY <1>2, <1>4, <2>2
<1>6. \A t \in Nat : 0 < t => 0 < t * c
  <2>1. 0 * c = 0
    BY <1>1
  <2> QED
    BY <1>1, <1>2, <1>5, <2>1
<1>7. \A t \in Nat : Nano(t) = t * c
  BY DEF Nano, c
<1>8. \A t, u \in Nat : t < u => Nano(t) + c <= Nano(u)
  BY <1>5, <1>7
<1>9. \A t \in Nat : Nano(t) + MaxClock + 2 = Nano(t) + c
  BY <1>2, <1>7, Limits DEF c
<1> QED
  BY <1>2, <1>4, <1>6, <1>7, <1>8, <1>9

LEMMA ClockOfStep ==
    ASSUME TypeOK, [Next]_vars
    PROVE  \/ UNCHANGED log /\ (clock' = clock \/ clock' = clock + 1)
           \/ \E code \in ExitCodes : Dies(code)
<1>0. Recreate => UNCHANGED <<clock, log>> \/ \E code \in ExitCodes : Dies(code)
  BY DEF Recreate
<1>1. ASSUME NEW j \in jobs, JobMoves(j) PROVE UNCHANGED <<clock, log>> \/ Recreate
  BY <1>1, JobEffect DEF dockerside
<1>2. CASE \/ recoverTriggered \/ reconcileExpire \/ reconcileList \/ reconcileInspect \/ reconcileRecord
           \/ reconcileSet \/ handleEvent \/ expiryTick \/ StreamEnds \/ EventLost
           \/ recoverFails \/ readingFails \/ recordFails \/ setFails
  BY <1>2
  DEF recoverTriggered, reconcileExpire, reconcileList, reconcileInspect, reconcileRecord, reconcileSet,
      handleEvent, expiryTick, StreamEnds, EventLost, recoverFails, readingFails, recordFails, setFails, dockerside
<1>3. ASSUME \/ \E kind \in {"update", "rollback"} : operBegin(kind)
             \/ operReplace \/ operRead \/ operCommit \/ operFail \/ operRevert \/ notRunningFails
      PROVE  UNCHANGED <<clock, log>> \/ Recreate
  BY <1>3 DEF operBegin, operReplace, operRead, operCommit, operFail, operRevert, notRunningFails, dockerside
<1>4. CASE selfBegin \/ selfBlockers \/ selfFail \/ selfHandOver \/ Exit \/ Discover
  BY <1>4 DEF selfBegin, selfBlockers, selfFail, selfHandOver, Exit, Restarted, Discover, dockerside
<1>5. CASE Crash \/ AutoRestart \/ UNCHANGED vars
  BY <1>5 DEF Crash, AutoRestart, vars
<1> QED
  BY <1>0, <1>1, <1>2, <1>3, <1>4, <1>5 DEF Next, Monitor, Operator, Fails, JobMoves

LEMMA LogStep == ASSUME TypeOK, TypeOK', LogIsTimed, [Next]_vars PROVE LogIsTimed' /\ clock' >= clock
<1>1. log \in Seq(Event) /\ log' \in Seq(Event) /\ clock \in Nat /\ clock' \in Nat
  BY CountTypes, CountTypesNext, InstantTypes, InstantTypesNext DEF Rows, Instants
<1>2. \A k \in DOMAIN log : log[k].at \in Nat
  BY <1>1, EventFields
<1>3. CASE UNCHANGED log /\ (clock' = clock \/ clock' = clock + 1)
  BY <1>1, <1>2, <1>3 DEF LogIsTimed
<1>4. ASSUME NEW code \in ExitCodes, Dies(code) PROVE LogIsTimed' /\ clock' >= clock
  <2> DEFINE e == [id |-> host.id, at |-> clock + 1, code |-> code]
  <2>1. log' = Append(log, e) /\ clock' = clock + 1 /\ e.at = clock + 1
    BY <1>4 DEF Dies
  <2>2. e \in Event
    BY <1>1, CountTypes DEF Event, Numbers
  <2> HIDE DEF e
  <2>3. /\ Len(log') = Len(log) + 1
        /\ (\A k \in DOMAIN log' : (k \in DOMAIN log /\ log'[k] = log[k]) \/ log'[k] = e)
    BY <1>1, <2>1, <2>2
  <2>4. \A k \in DOMAIN log' : log'[k].at <= clock'
    BY <1>1, <1>2, <2>1, <2>3 DEF LogIsTimed
  <2> QED
    BY <1>1, <2>1, <2>3, <2>4 DEF LogIsTimed
<1> QED
  BY <1>3, <1>4, ClockOfStep

\* A container has no more exits than the log is long.
LEMMA ExitsBound == ASSUME NEW l \in Seq(Event), NEW id PROVE ExitsOf(l, id) <= Len(l)
<1> DEFINE S == {k \in DOMAIN l : l[k].id = id}
           n == Len(l)
<1>1. S \in SUBSET (1..n) /\ n \in Nat /\ ExitsOf(l, id) = Cardinality(S)
  BY DEF ExitsOf
<1> HIDE DEF S, n
<1>2. IsFiniteSet(1..n) /\ Cardinality(1..n) = IF 1 > n THEN 0 ELSE n - 1 + 1
  BY <1>1, FS_Interval
<1>3. Cardinality(1..n) = n
  BY <1>1, <1>2
<1>4. Cardinality(S) <= Cardinality(1..n)
  BY <1>1, <1>2, FS_Subset
<1> QED
  BY <1>1, <1>3, <1>4 DEF n

\* A step that counts nothing; a reconcile that starts reads the clock.
Timed ==
    /\ WatchKept /\ watch'.observed = watch.observed
    /\ \/ mon' = mon
       \/ /\ mon'.pc \notin Reading /\ mon'.seen = 0
          /\ mon'.pc # "list" /\ mon'.now = 0
       \/ MonitorRests

LEMMA TimedKeepsCatchUp ==
    ASSUME TypeOK, TypeOK', CountInv, CatchUpInv, LogIsTimed', clock' >= clock, Timed
    PROVE  CatchUpInv'
<1>1. Numbers /\ Numbers' /\ Instants /\ Instants'
  BY CountTypes, CountTypesNext, InstantTypes, InstantTypesNext
<1>2. /\ watch'.count = watch.count /\ watch'.last = watch.last /\ watch'.until = watch.until
      /\ watch'.base = watch.base /\ watch'.observed = watch.observed /\ watch'.id = watch.id
      /\ (watch'.status = "active" => watch.status = "active") /\ watch'.missed >= watch.missed
  BY DEF Timed, WatchKept
<1>4. \/ mon' = mon
      \/ /\ mon'.pc \notin Reading /\ mon'.pc # "list" /\ (mon'.now = 0 \/ mon'.now = mon.now)
         /\ mon'.seen = 0 \/ (mon'.seen = mon.seen /\ mon'.w.id = mon.w.id /\ mon.pc # "record")
      \/ /\ mon'.pc = "list" /\ mon'.now = clock' /\ clock' = clock + 1
         /\ mon'.seen = mon.seen /\ mon'.w.id = mon.w.id /\ mon.pc # "record"
  BY DEF Timed, MonitorRests
<1>5. watch.last < Nano(clock + 1) /\ mon.now <= clock
  BY DEF CatchUpInv, ReadingIsTimed
<1>6. Nano(clock + 1) \in Nat /\ Nano(clock' + 1) \in Nat /\ Nano(clock + 1) <= Nano(clock' + 1)
  BY <1>1, NanoRoom DEF Instants
<1>7. mon'.now <= clock' /\ watch'.last < Nano(clock' + 1)
  BY <1>1, <1>2, <1>4, <1>5, <1>6 DEF Numbers, Instants
<1>8. ReadingIsTimed'
  <2>1. CASE mon' = mon
    BY <1>2, <1>7, <2>1 DEF CatchUpInv, ReadingIsTimed
  <2>2. CASE mon'.pc \notin Reading /\ mon'.pc # "list"
    BY <1>7, <2>2 DEF ReadingIsTimed, Reading
  <2>3. CASE mon'.pc = "list" /\ mon'.now = clock' /\ clock' = clock + 1
    <3>1. 0 < mon'.now /\ watch'.last < Nano(mon'.now) + mon'.i
      BY <1>1, <1>2, <1>5, <1>6, <2>3 DEF Numbers, Instants
    <3> QED
      BY <1>7, <2>3, <3>1 DEF ReadingIsTimed
  <2> QED
    BY <1>4, <2>1, <2>2, <2>3
<1>9. NothingMissed'
  <2>1. SUFFICES ASSUME watch'.status = "active", clock' < watch'.until PROVE NothingMissed'
    BY DEF NothingMissed
  <2>2. /\ watch.observed - watch.base <= watch.count + watch.missed
        /\ mon.pc \in {"inspect", "record"} /\ mon.w.id = watch.id =>
               mon.w.observed + mon.i - watch.base <= watch.count + watch.missed
        /\ mon.pc # "record" /\ mon.w.id = watch.id => mon.seen - watch.base <= watch.count + watch.missed
    <3>1. watch.status = "active" /\ clock < watch.until
      BY <1>1, <1>2, <2>1 DEF Instants
    <3> QED
      BY <3>1 DEF CatchUpInv, NothingMissed
  <2>3. CASE mon' = mon
    BY <1>1, <1>2, <2>2, <2>3 DEF NothingMissed, Numbers, Instants
  <2>4. CASE /\ mon'.pc \notin Reading
             /\ mon'.seen = 0 \/ (mon'.seen = mon.seen /\ mon'.w.id = mon.w.id /\ mon.pc # "record")
    <3>1. mon'.w.id = watch'.id => mon'.seen - watch'.base <= watch'.count + watch'.missed
      BY <1>1, <1>2, <2>2, <2>4 DEF Numbers, Instants
    <3>2. watch'.observed - watch'.base <= watch'.count + watch'.missed
      BY <1>1, <1>2, <2>2 DEF Numbers, Instants
    <3> QED
      BY <2>4, <3>1, <3>2 DEF NothingMissed, Reading
  <2> QED
    BY <1>4, <2>3, <2>4 DEF Reading
<1> QED
  BY <1>8, <1>9 DEF CatchUpInv

LEMMA ListKeepsCatchUp ==
    ASSUME TypeOK, TypeOK', CountInv, CatchUpInv, UNCHANGED <<clock, log, watch>>,
           mon.pc = "list", mon'.pc = "inspect", mon'.w.id = watch.id, mon'.w.observed = watch.observed,
           mon'.i = mon.i, mon'.now = mon.now, mon'.seen = 0
    PROVE  CatchUpInv'
<1>1. Numbers /\ Instants /\ mon'.i = 0
  BY CountTypes, InstantTypes DEF CountInv, ReadingIsExits
<1>2. LogIsTimed' /\ ReadingIsTimed'
  BY DEF CatchUpInv, LogIsTimed, ReadingIsTimed
<1>3. NothingMissed'
  BY <1>1 DEF CatchUpInv, NothingMissed, Numbers, Instants
<1> QED
  BY <1>2, <1>3 DEF CatchUpInv

LEMMA InspectKeepsCatchUp ==
    ASSUME TypeOK, TypeOK', CatchUpInv, UNCHANGED <<clock, log, watch>>,
           mon.pc = "inspect", mon'.pc = "record", mon'.w = mon.w, mon'.i = mon.i, mon'.now = mon.now
    PROVE  CatchUpInv'
<1>1. LogIsTimed' /\ ReadingIsTimed'
  BY DEF CatchUpInv, LogIsTimed, ReadingIsTimed
<1>2. NothingMissed'
  BY DEF CatchUpInv, NothingMissed
<1> QED
  BY <1>1, <1>2 DEF CatchUpInv

\* Every restart the counter shows has been recorded: the count has caught up.
LEMMA RecordedKeepsCatchUp ==
    ASSUME TypeOK, TypeOK', CatchUpInv, UNCHANGED <<clock, log, watch>>,
           mon.pc = "record", mon'.pc = "set", mon'.w = mon.w, mon'.i = mon.i, mon'.now = mon.now,
           mon'.seen = mon.seen, mon.i >= mon.seen - mon.w.observed
    PROVE  CatchUpInv'
<1>1. Numbers /\ Instants
  BY CountTypes, InstantTypes
<1>2. LogIsTimed' /\ ReadingIsTimed'
  BY DEF CatchUpInv, LogIsTimed, ReadingIsTimed
<1>3. NothingMissed'
  BY <1>1 DEF CatchUpInv, NothingMissed, Numbers, Instants
<1> QED
  BY <1>2, <1>3 DEF CatchUpInv

\* The counter is noted as observed: what the container under watch showed is counted,
\* and what another one showed is missed.
LEMMA SetKeepsCatchUp ==
    ASSUME TypeOK, TypeOK', CatchUpInv, UNCHANGED <<clock, log>>, WatchKept,
           mon.pc = "set", mon'.pc = "select", mon'.seen = mon.seen, mon'.now = 0, mon'.w.id = mon.w.id,
           watch'.observed = watch.observed \/ watch'.observed = mon.seen,
           mon.w.id # watch.id => watch'.observed <= watch.observed + watch'.missed - watch.missed
    PROVE  CatchUpInv'
<1>1. Numbers /\ Numbers' /\ Instants /\ Instants'
  BY CountTypes, CountTypesNext, InstantTypes, InstantTypesNext
<1>2. /\ watch'.count = watch.count /\ watch'.last = watch.last /\ watch'.base = watch.base
      /\ watch'.until = watch.until /\ watch'.id = watch.id /\ watch'.missed >= watch.missed
      /\ (watch'.status = "active" => watch.status = "active")
  BY DEF WatchKept
<1>3. LogIsTimed' /\ ReadingIsTimed'
  BY <1>1, <1>2 DEF CatchUpInv, LogIsTimed, ReadingIsTimed, Instants
<1>4. NothingMissed'
  <2>1. SUFFICES ASSUME watch'.status = "active", clock' < watch'.until PROVE NothingMissed'
    BY DEF NothingMissed
  <2>2. /\ watch.observed - watch.base <= watch.count + watch.missed
        /\ mon.w.id = watch.id => mon.seen - watch.base <= watch.count + watch.missed
    BY <1>2, <2>1 DEF CatchUpInv, NothingMissed
  <2>3. watch'.observed - watch'.base <= watch'.count + watch'.missed
    BY <1>1, <1>2, <2>2 DEF Numbers, Instants
  <2>4. mon'.w.id = watch'.id => mon'.seen - watch'.base <= watch'.count + watch'.missed
    BY <1>1, <1>2, <2>2 DEF Numbers, Instants
  <2> QED
    BY <2>3, <2>4 DEF NothingMissed
<1> QED
  BY <1>3, <1>4 DEF CatchUpInv

\* The instants a reconcile stamps its crashes with come before the next reading.
LEMMA NanoOfReading ==
    ASSUME TypeOK, CountInv, CatchUpInv, mon.pc = "record", mon.i < mon.seen - mon.w.observed
    PROVE  /\ Nano(mon.now) + mon.i \in Nat /\ Nano(mon.now) \in Nat
           /\ Nano(mon.now) + mon.i < Nano(clock + 1) /\ Nano(clock + 1) \in Nat
<1>1. Numbers /\ Instants
  BY CountTypes, InstantTypes
<1>2. Nano(mon.now) \in Nat /\ Nano(mon.now) + mon.i \in Nat
  BY <1>1, NanoType DEF Numbers
<1>3. mon.i < MaxClock
  <2>1. /\ mon.seen <= ExitsOf(log, mon.w.id) /\ ExitsOf(log, mon.w.id) <= Len(log)
        /\ ExitsOf(log, mon.w.id) \in Nat /\ Len(log) \in Nat /\ Len(log) <= clock
    BY CountTypes, ExitsBound, ExitsType DEF Rows, CountInv, ReadingIsExits, CatchUpInv, LogIsTimed
  <2>2. mon.i < mon.seen /\ mon.seen \in Nat /\ mon.i \in Nat /\ clock \in Nat /\ clock <= MaxClock
    BY <1>1 DEF Numbers, Instants
  <2> QED
    BY <2>1, <2>2, Limits
<1>4. mon.now < clock + 1 /\ clock + 1 \in Nat
  BY <1>1 DEF CatchUpInv, ReadingIsTimed, Numbers, Instants
<1>5. Nano(mon.now) + MaxClock + 2 <= Nano(clock + 1) /\ Nano(clock + 1) \in Nat
  BY <1>1, <1>4, NanoRoom DEF Numbers
<1> QED
  BY <1>1, <1>2, <1>3, <1>5, Limits DEF Numbers

\* A restart that the reconcile records is counted while the watch is active and within
\* its window: its instant is new.
LEMMA RecordKeepsCatchUp ==
    ASSUME TypeOK, TypeOK', CountInv, CatchUpInv, UNCHANGED <<clock, log>>,
           mon.pc = "record", mon.i < mon.seen - mon.w.observed,
           mon'.pc = "record", mon'.w = mon.w, mon'.seen = mon.seen, mon'.i = mon.i + 1, mon'.now = mon.now,
           recordCrash(mon.w.id, Nano(mon.now) + mon.i, mon.now)
    PROVE  CatchUpInv'
<1> DEFINE nano == Nano(mon.now) + mon.i
<1>1. Numbers /\ Numbers' /\ Instants /\ Instants'
  BY CountTypes, CountTypesNext, InstantTypes, InstantTypesNext
<1>2. Nano(mon.now) \in Nat /\ nano \in Nat /\ nano < Nano(clock + 1) /\ Nano(clock + 1) \in Nat
  BY NanoOfReading
<1>4. 0 < mon.now /\ watch.last < nano /\ mon.now <= clock
  BY DEF CatchUpInv, ReadingIsTimed
<1>5. Nano(mon'.now) + mon'.i = nano + 1
  BY <1>1, <1>2 DEF Numbers
<1> HIDE DEF nano
<1>6. LogIsTimed'
  BY DEF CatchUpInv, LogIsTimed
<1>7. CASE UNCHANGED watch /\ ~Counted(watch, mon.w.id, nano, mon.now)
  <2>1. ReadingIsTimed'
    BY <1>1, <1>2, <1>4, <1>5, <1>7 DEF CatchUpInv, ReadingIsTimed, Numbers, Instants
  <2>2. ~(watch.status = "active" /\ clock < watch.until /\ mon.w.id = watch.id)
    BY <1>1, <1>4, <1>7 DEF Counted, Numbers, Instants
  <2> QED
    BY <1>6, <1>7, <2>1, <2>2 DEF CatchUpInv, NothingMissed
<1>8. CASE /\ watch.status = "active" /\ watch.id = mon.w.id /\ watch'.id = watch.id
           /\ watch'.until = watch.until /\ watch'.base = watch.base /\ watch'.missed = watch.missed
           /\ watch'.count = watch.count + 1 /\ watch'.observed = watch.observed + 1 /\ watch'.last = nano
           /\ watch'.status \in {"active", "triggered"}
  <2>1. ReadingIsTimed'
    <3>1. watch'.last < Nano(clock' + 1) /\ watch'.last < Nano(mon'.now) + mon'.i
      BY <1>2, <1>5, <1>8
    <3> QED
      BY <1>4, <1>8, <3>1 DEF ReadingIsTimed
  <2>2. NothingMissed'
    BY <1>1, <1>8 DEF CatchUpInv, NothingMissed, Numbers, Instants
  <2> QED
    BY <1>6, <2>1, <2>2 DEF CatchUpInv
<1> QED
  <2>1. mon.w.id \in Nat /\ nano \in Nat
    BY <1>1, <1>2 DEF Numbers
  <2>2. recordCrash(mon.w.id, nano, mon.now)
    BY DEF nano
  <2> QED
    BY <1>7, <1>8, <2>1, <2>2, RecordCrashEffect DEF Counted

\* A restart that RecordCrash fails on is missed, where it would have been counted.
LEMMA RecordFailsKeepsCatchUp ==
    ASSUME TypeOK, TypeOK', CountInv, CatchUpInv, recordFails
    PROVE  CatchUpInv'
<1> DEFINE nano == Nano(mon.now) + mon.i
<1>1. Numbers /\ Numbers' /\ Instants /\ Instants'
  BY CountTypes, CountTypesNext, InstantTypes, InstantTypesNext
<1>2. /\ UNCHANGED <<clock, log>> /\ SameCount /\ mon.pc = "record" /\ mon.i < mon.seen - mon.w.observed
      /\ mon'.pc = "record" /\ mon'.w = mon.w /\ mon'.seen = mon.seen /\ mon'.i = mon.i + 1
      /\ mon'.now = mon.now
      /\ watch'.missed = IF Counted(watch, mon.w.id, nano, mon.now) THEN watch.missed + 1 ELSE watch.missed
  BY RecordFailsEffect
<1>3. Nano(mon.now) \in Nat /\ nano \in Nat /\ nano < Nano(clock + 1) /\ Nano(clock + 1) \in Nat
  BY <1>2, NanoOfReading
<1>4. 0 < mon.now /\ watch.last < nano /\ mon.now <= clock
  BY <1>2 DEF CatchUpInv, ReadingIsTimed
<1>5. Nano(mon'.now) + mon'.i = nano + 1
  BY <1>1, <1>2, <1>3 DEF Numbers
<1> HIDE DEF nano
<1>6. LogIsTimed'
  BY <1>2 DEF CatchUpInv, LogIsTimed
<1>7. ReadingIsTimed'
  BY <1>1, <1>2, <1>3, <1>4, <1>5 DEF CatchUpInv, ReadingIsTimed, Numbers, Instants, SameCount
<1>8. NothingMissed'
  <2>1. SUFFICES ASSUME watch'.status = "active", clock' < watch'.until PROVE NothingMissed'
    BY DEF NothingMissed
  <2>2. /\ watch.status = "active" /\ clock < watch.until /\ watch'.id = watch.id /\ watch'.base = watch.base
        /\ watch'.count = watch.count /\ watch'.observed = watch.observed
    BY <1>2, <2>1 DEF SameCount
  <2>3. /\ watch.observed - watch.base <= watch.count + watch.missed
        /\ mon.w.id = watch.id => mon.w.observed + mon.i - watch.base <= watch.count + watch.missed
    BY <1>2, <2>2 DEF CatchUpInv, NothingMissed
  <2>4. mon.w.id = watch.id => Counted(watch, mon.w.id, nano, mon.now)
    BY <1>1, <1>3, <1>4, <2>2 DEF Counted, Numbers, Instants
  <2>5. /\ watch'.observed - watch'.base <= watch'.count + watch'.missed
        /\ mon'.w.id = watch'.id => mon'.w.observed + mon'.i - watch'.base <= watch'.count + watch'.missed
    BY <1>1, <1>2, <2>2, <2>3, <2>4 DEF Numbers, Instants
  <2> QED
    BY <1>2, <2>5 DEF NothingMissed
<1> QED
  BY <1>6, <1>7, <1>8 DEF CatchUpInv

LEMMA EventKeepsCatchUp ==
    ASSUME TypeOK, TypeOK', CatchUpInv, UNCHANGED <<clock, log, mon>>, mon.pc = "select",
           pos \in DOMAIN log, recordCrash(log[pos].id, Nano(log[pos].at), log[pos].at)
    PROVE  CatchUpInv'
<1>1. Numbers /\ Numbers' /\ Instants /\ Instants' /\ log \in Seq(Event)
  BY CountTypes, CountTypesNext, InstantTypes, InstantTypesNext DEF Rows
<1>2. log[pos].id \in Nat /\ log[pos].at \in Nat /\ Nano(log[pos].at) \in Nat
  BY <1>1, EventFields
<1>3. Nano(log[pos].at) < Nano(clock + 1)
  <2>1. log[pos].at < clock + 1 /\ clock + 1 \in Nat
    BY <1>1, <1>2 DEF CatchUpInv, LogIsTimed, Instants
  <2>2. Nano(log[pos].at) + MaxClock + 2 <= Nano(clock + 1) /\ Nano(clock + 1) \in Nat
    BY <1>2, <2>1, NanoRoom
  <2> QED
    BY <1>2, <2>2, Limits
<1>4. CASE UNCHANGED watch
  BY <1>4 DEF CatchUpInv, LogIsTimed, ReadingIsTimed, NothingMissed
<1>5. CASE /\ watch.status = "active" /\ watch'.base = watch.base /\ watch'.count = watch.count + 1
           /\ watch'.id = watch.id /\ watch'.until = watch.until /\ watch'.missed = watch.missed
           /\ watch'.observed = watch.observed + 1 /\ watch'.last = Nano(log[pos].at)
           /\ watch'.status \in {"active", "triggered"}
  <2>1. LogIsTimed' /\ ReadingIsTimed'
    BY <1>3, <1>5 DEF CatchUpInv, LogIsTimed, ReadingIsTimed
  <2>2. NothingMissed'
    <3>1. SUFFICES ASSUME clock < watch.until
                   PROVE  /\ watch'.observed - watch'.base <= watch'.count + watch'.missed
                          /\ mon.w.id = watch.id => mon.seen - watch'.base <= watch'.count + watch'.missed
      BY <1>5 DEF NothingMissed
    <3>2. /\ watch.observed - watch.base <= watch.count + watch.missed
          /\ mon.w.id = watch.id => mon.seen - watch.base <= watch.count + watch.missed
      BY <1>5, <3>1 DEF CatchUpInv, NothingMissed
    <3>3. /\ watch.observed \in Nat /\ watch.base \in Nat /\ watch.count \in Nat /\ mon.seen \in Nat
          /\ watch.missed \in Nat /\ watch'.missed = watch.missed
          /\ watch'.base = watch.base /\ watch'.count = watch.count + 1
          /\ watch'.observed = watch.observed + 1
      BY <1>1, <1>5 DEF Numbers, Instants
    <3> QED
      BY <3>2, <3>3
  <2> QED
    BY <2>1, <2>2 DEF CatchUpInv
<1> QED
  BY <1>2, <1>4, <1>5, RecordCrashEffect DEF Counted

\* A new watch starts with nothing counted, and no reconcile has seen its container.
LEMMA ArmKeepsCatchUp == ASSUME TypeOK, TypeOK', TriggerInv, CountInv, CatchUpInv, Arms PROVE CatchUpInv'
<1>1. Numbers /\ Numbers' /\ Instants /\ Instants' /\ oper.restarts \in Nat
  BY CountTypes, CountTypesNext, InstantTypes, InstantTypesNext DEF TypeOK, Operation
<1>2. /\ UNCHANGED <<clock, log, mon>> /\ oper.pc = "commit" /\ watch'.id = host.id
      /\ watch'.status = "active" /\ watch'.count = 0 /\ watch'.last = 0 /\ watch'.missed = 0
      /\ watch'.observed = oper.restarts /\ watch'.base = oper.restarts
  BY DEF Arms, ArmRollbackWatch, dockerside
<1>3. mon.w.id < watch'.id
  <2>1. watch.id < host.id
    BY <1>2 DEF TriggerInv, ArmingsAreNew, HasReplaced
  <2> QED
    BY <1>1, <1>2, <2>1 DEF CountInv, ReadingIsExits, Numbers
<1>4. ReadingIsTimed'
  <2>1. 0 < Nano(clock + 1) /\ (0 < mon.now => 0 < Nano(mon.now)) /\ Nano(mon.now) \in Nat
    BY <1>1, NanoRoom DEF Instants, Numbers
  <2>2. mon.now <= clock /\ (mon.pc \in {"list", "inspect", "record"} => 0 < mon.now)
    BY DEF CatchUpInv, ReadingIsTimed
  <2>3. 0 < mon.now => 0 < Nano(mon.now) + mon.i
    BY <1>1, <2>1 DEF Numbers
  <2> QED
    BY <1>2, <2>1, <2>2, <2>3 DEF ReadingIsTimed
<1>5. LogIsTimed'
  BY <1>2 DEF CatchUpInv, LogIsTimed
<1>6. NothingMissed'
  BY <1>1, <1>2, <1>3 DEF NothingMissed, Numbers, Instants
<1> QED
  BY <1>4, <1>5, <1>6 DEF CatchUpInv

LEMMA CatchUpStep ==
    ASSUME TypeOK, TypeOK', TriggerInv, CountInv, CatchUpInv, [Next]_vars
    PROVE  CatchUpInv'
<1>1. LogIsTimed' /\ clock' >= clock
  BY LogStep DEF CatchUpInv
<1>2. ASSUME Timed PROVE CatchUpInv'
  BY <1>1, <1>2, TimedKeepsCatchUp
<1>3. Calm => Timed
  BY DEF Calm, Timed
<1>4. CASE \/ Crash \/ AutoRestart \/ reconcileExpire \/ expiryTick \/ StreamEnds \/ EventLost
           \/ operReplace \/ operRead \/ operFail \/ operRevert \/ selfBegin \/ selfBlockers \/ selfFail \/ Discover
           \/ readingFails \/ setFails \/ notRunningFails
           \/ UNCHANGED vars
  <2>1. Calm
    BY <1>4, CrashEffect, AutoRestartEffect, ExpireEffect, TickEffect, StreamEffect, OperReplaceEffect, OperReadEffect,
       OperFailEffect, OperRevertEffect, SelfEffect, DiscoverEffect, ReadingFailsEffect, NotRunningFailsEffect, StutterEffect
  <2> QED
    BY <1>2, <1>3, <2>1
<1>5. ASSUME NEW kind \in {"update", "rollback"}, operBegin(kind) PROVE CatchUpInv'
  BY <1>2, <1>3, <1>5, OperBeginEffect
<1>6. ASSUME NEW j \in jobs, JobMoves(j) PROVE CatchUpInv'
  <2>1. UNCHANGED mon /\ WatchKept /\ watch'.observed = watch.observed
    BY <1>6, JobEffect, JobIsSettled DEF Settled
  <2> QED
    BY <1>2, <2>1 DEF Timed
<1>7. CASE recoverTriggered \/ recoverFails
  <2>1. /\ UNCHANGED <<watch, clock>> /\ mon.pc = "recover" /\ mon'.pc = "expire" /\ mon'.w = mon.w
        /\ mon'.now = mon.now /\ mon'.seen = mon.seen
    BY <1>7, RecoverEffect, RecoverFailsEffect DEF Aside
  <2>2. ReadingIsTimed'
    BY <2>1 DEF CatchUpInv, ReadingIsTimed
  <2>3. NothingMissed'
    BY <2>1 DEF CatchUpInv, NothingMissed
  <2> QED
    BY <1>1, <2>2, <2>3 DEF CatchUpInv
<1>8. CASE selfHandOver \/ Exit
  <2>1. UNCHANGED watch /\ mon'.pc = "recover" /\ mon'.now = 0 /\ mon'.seen = 0
    BY <1>8, RestartEffect DEF Restarted
  <2>2. WatchKept
    BY <2>1, SameGate
  <2> QED
    BY <1>2, <2>1, <2>2 DEF Timed, Reading
<1>9. CASE reconcileList
  BY <1>2, <1>3, <1>9, ListEffect, ListKeepsCatchUp DEF dockerside
<1>10. CASE reconcileInspect
  BY <1>2, <1>3, <1>10, InspectEffect, InspectKeepsCatchUp DEF dockerside
<1>11. CASE reconcileRecord
  BY <1>11, RecordEffect, RecordKeepsCatchUp, RecordedKeepsCatchUp DEF Aside
<1>12. CASE reconcileSet
  <2>1. mon'.now = 0
    BY <1>12, ReconciledEffect DEF reconcileSet
  <2> QED
    BY <1>12, <2>1, SetEffect, SetKeepsCatchUp DEF Aside
<1>13. CASE handleEvent
  <2>1. UNCHANGED <<clock, log, mon>> /\ mon.pc = "select" /\ pos \in DOMAIN log
    BY <1>13, EventEffect DEF Aside
  <2>2. CASE UNCHANGED <<watch, jobs>>
    BY <2>1, <2>2 DEF CatchUpInv, LogIsTimed, ReadingIsTimed, NothingMissed
  <2> QED
    BY <1>13, <2>1, <2>2, EventEffect, EventKeepsCatchUp
<1>14. CASE operCommit
  BY <1>2, <1>3, <1>14, OperCommitEffect, ArmKeepsCatchUp
<1>15. CASE recordFails
  BY <1>15, RecordFailsKeepsCatchUp
<1> QED
  BY <1>4, <1>5, <1>6, <1>7, <1>8, <1>9, <1>10, <1>11, <1>12, <1>13, <1>14, <1>15
  DEF Next, Monitor, Operator, Fails, JobMoves

LEMMA InitCatchUp == ASSUME Init PROVE CatchUpInv
<1>1. /\ watch.status = "none" /\ watch.last = 0 /\ mon.pc = "recover" /\ mon.now = 0
      /\ clock = 0 /\ log = <<>>
  BY DEF Init, NoWatch, NewMonitor
<1>2. 0 < Nano(clock + 1)
  BY <1>1, NanoRoom
<1>3. LogIsTimed
  BY <1>1 DEF LogIsTimed
<1> QED
  BY <1>1, <1>2, <1>3 DEF CatchUpInv, ReadingIsTimed, NothingMissed

-----------------------------------------------------------------------------
(* The theorems.                                                            *)

CrashLoopInv == TypeOK /\ TriggerInv /\ CountInv /\ CatchUpInv

\* The inductive invariant holds in every reachable state, for any threshold, window
\* and number of operations, restarts, lost events, failed statements and self-updates.
THEOREM CrashLoopInvariant == Spec => []CrashLoopInv
<1>1. Init => CrashLoopInv
  BY InitTrigger, InitCount, InitCatchUp DEF CrashLoopInv
<1>2. CrashLoopInv /\ [Next]_vars => CrashLoopInv'
  BY TriggerStep, CountStep, CatchUpStep DEF CrashLoopInv
<1> QED
  BY <1>1, <1>2, PTL DEF Spec

\* Every state of the monitor, the watch and the goroutines is well formed.
THEOREM CrashLoopTypeCorrect == Spec => []TypeOK
<1>1. CrashLoopInv => TypeOK
  BY DEF CrashLoopInv
<1> QED
  BY <1>1, CrashLoopInvariant, PTL

\* RecordCrash's "triggered is true for exactly one caller": one goroutine per
\* arming, and a triggered watch has one, or a monitor about to start it, unless a
\* self-update has closed the gate or a failed statement dropped its rollback.
THEOREM OneTriggerOneRollback == Spec => []OneRollbackPerTrigger
<1>1. CrashLoopInv => OneRollbackPerTrigger
  BY DEF CrashLoopInv, TriggerInv
<1> QED
  BY <1>1, CrashLoopInvariant, PTL

\* ReplaceContainerAndCompleteRollback: a rollback that was committed is not run
\* again by a goroutine of this process or the next.
THEOREM CommittedRollbackIsFinal == Spec => []RollbackIsNotRepeated
<1>1. CrashLoopInv => RollbackIsNotRepeated
  BY DEF CrashLoopInv, TriggerInv
<1> QED
  BY <1>1, CrashLoopInvariant, PTL

\* Monitor.recordCrash: a rollback is started only for a container that exited at
\* least half as often as the threshold, however the stream and the counter overlap.
THEOREM RollbackIsEarned == Spec => []RollbackNeedsCrashes
<1>1. CrashLoopInv => RollbackNeedsCrashes
  BY DEF CrashLoopInv, CountInv
<1> QED
  BY <1>1, CrashLoopInvariant, PTL

\* Monitor.reconcile: within the window, the count of the container under watch is at
\* least the restarts its counter showed since the arming, whatever the stream lost,
\* except the ones that a failed RecordCrash or a reading of the container before missed.
THEOREM ReconcileMissesNothing == Spec => []CrashesAreCaughtUp
<1>1. CrashLoopInv => CrashesAreCaughtUp
  <2> SUFFICES ASSUME CrashLoopInv, mon.pc = "select", mon.w.id = watch.id, watch.status = "active",
                      clock < watch.until
               PROVE  watch.count + watch.missed >= mon.seen - watch.base
    BY DEF CrashesAreCaughtUp
  <2>1. mon.seen - watch.base <= watch.count + watch.missed
    BY DEF CrashLoopInv, CatchUpInv, NothingMissed
  <2>2. Numbers /\ Instants
    BY CountTypes, InstantTypes DEF CrashLoopInv
  <2> QED
    BY <2>1, <2>2 DEF Numbers, Instants
<1> QED
  BY <1>1, CrashLoopInvariant, PTL
=============================================================================
