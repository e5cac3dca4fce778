------------------------------ MODULE CrashLoop ------------------------------
(***************************************************************************)
(* The post-update safety net: the rollback_watches row that a committed    *)
(* update arms, the monitor goroutine of internal/crashloop that counts the *)
(* container's exits from Docker's event stream and its restart counter,    *)
(* and the rollback goroutines it starts, against operators who update and  *)
(* roll back, self-updates that close the gate, and restarts of the daemon. *)
(*                                                                         *)
(* One container name: every statement on rollback_watches is by name and   *)
(* two names never meet.  An operation's Docker calls up to a healthy       *)
(* replacement are one step here (module Updater has them one by one).      *)
(* A statement that fails is an action of its own, ...Fails, and changes    *)
(* nothing in the store: SQLite rolls it back.                              *)
(* Left out: syncState's display column, log lines and metrics.             *)
(***************************************************************************)
EXTENDS Integers, Sequences, FiniteSets

CONSTANTS
    Threshold,   \* crashes that trigger the rollback
    Window,      \* length of the safety window
    ExitCodes,   \* what containers exit with: "error", "clean"
    MaxClock,    \* bound: exits and reconciles
    MaxOps,      \* bound: operator operations
    MaxExits,    \* bound: deaths of the daemon
    MaxSelf,     \* bound: self-updates started
    MaxFaults    \* bound: streams that end, lost events, failed statements

ASSUME ThresholdAssumption == Threshold \in Nat \ {0} /\ Window \in Nat \ {0}
ASSUME CodesAssumption == ExitCodes \subseteq {"error", "clean"}
ASSUME LimitsAssumption ==
    {MaxClock, MaxOps, MaxExits, MaxSelf, MaxFaults} \subseteq Nat

VARIABLES
    host,    \* Docker: the live container of that name
    clock,   \* time; every exit and every reading has an instant of its own
    log,     \* Docker: the "die" events of the name, oldest first
    row,     \* store: the containers row of the name
    watch,   \* store: the rollback_watches row
    guard,   \* who holds the operation guard
    oper,    \* the operator's Update or Rollback
    self,    \* StartSelfUpdate
    mon,     \* the monitor goroutine
    pos,     \* the next event of the stream; 0 while disconnected
    jobs,    \* the goroutines running Monitor.rollback
    rolled,  \* history: the armings whose automatic rollback was committed
    dropped, \* history: the armings whose rollback a failed statement dropped
    used     \* how much of each bound has been used

vars == <<host, clock, log, row, watch, guard, oper, self, mon, pos, jobs,
          rolled, dropped, used>>
dockerside == <<host, clock, log>>

Statuses == {"none", "active", "triggered", "expired", "not_running",
             "manual_rollback", "automatic_rollback", "rollback_failed"}
\* History: base, the restart counter the watch was armed with; missed, the
\* restarts noted as observed that a failed RecordCrash, or a reading of the
\* container before, kept from being counted.
NoWatch == [status |-> "none", id |-> 0, count |-> 0, observed |-> 0,
            last |-> 0, until |-> 0, base |-> 0, missed |-> 0]
\* state and restarts: what the operation has read of its new container.
IdleOper == [pc |-> "idle", kind |-> "update", state |-> "created", restarts |-> 0]
\* What a reconcile uses of the watch it listed.
Listed(id, observed, until) == [id |-> id, observed |-> observed, until |-> until]
NewMonitor ==
    [pc |-> "recover", now |-> 0, w |-> Listed(0, 0, 0), seen |-> 0, i |-> 0]

Init ==
    /\ host = [id |-> 1, state |-> "running", restarts |-> 0]
    /\ clock = 0 /\ log = <<>>
    /\ row = [id |-> 1, prev |-> FALSE]
    /\ watch = NoWatch
    /\ guard = "free" /\ oper = IdleOper /\ self = "idle"
    /\ mon = NewMonitor /\ pos = 0 /\ jobs = {} /\ rolled = {} /\ dropped = {}
    /\ used = [ops |-> 0, exits |-> 0, self |-> 0, faults |-> 0]

Spend(b, max) == used[b] < max /\ used' = [used EXCEPT ![b] = @ + 1]
Fault == Spend("faults", MaxFaults)

-----------------------------------------------------------------------------
(* Docker.                                                                  *)

\* Events carry nanoseconds; reconcile stamps what it finds with its own
\* reading of the clock plus 0, 1, 2...
Nano(t) == t * (MaxClock + 2)

Dies(code) ==
    /\ clock < MaxClock
    /\ clock' = clock + 1
    /\ log' = Append(log, [id |-> host.id, at |-> clock + 1, code |-> code])

Crash ==
    /\ host.state = "running"
    /\ \E code \in ExitCodes : Dies(code)
    /\ \E s \in {"restarting", "exited"} : host' = [host EXCEPT !.state = s]
    /\ UNCHANGED <<row, watch, guard, oper, self, mon, pos, jobs, used, rolled, dropped>>

\* The restart policy, whatever the exit code; the counter moves now.
AutoRestart ==
    /\ host.state = "restarting"
    /\ host' = [host EXCEPT !.state = "running", !.restarts = @ + 1]
    /\ UNCHANGED <<clock, log, row, watch, guard, oper, self, mon, pos, jobs,
                   used, rolled, dropped>>

\* recreate(): the original is stopped (an exit like any other to Docker),
\* removed and replaced; a container that was not running is not started.
Recreate ==
    /\ IF host.state = "running" THEN \E code \in ExitCodes : Dies(code)
                                 ELSE UNCHANGED <<clock, log>>
    /\ host' = [id |-> host.id + 1, restarts |-> 0,
                state |-> IF host.state = "running" THEN "running"
                                                    ELSE "created"]

-----------------------------------------------------------------------------
(* store/crashloop.go, as operators on the row.                             *)

ArmRollbackWatch(id, restarts) ==
    [status |-> "active", id |-> id, count |-> 0, observed |-> restarts,
     last |-> 0, until |-> clock + Window, base |-> restarts,
     missed |-> 0]

CompleteRollbackWatch(w, status) ==
    IF w.status = "none" THEN w ELSE [w EXCEPT !.status = status]

SetRollbackWatchRestartCount(w, n) ==
    IF w.status = "none" THEN w ELSE [w EXCEPT !.observed = n]

ExpireRollbackWatches(w, now) ==
    IF w.status = "active" /\ w.until <= now
    THEN [w EXCEPT !.status = "expired"] ELSE w

\* Mutants: a watch that has already triggered counts on; the exits of the
\* container before the update count against its replacement.
CountedTriggered(w, id, nano, at) ==
    /\ w.status \in {"active", "triggered"}
    /\ w.id = id /\ at < w.until /\ nano > w.last
CountedAnyContainer(w, id, nano, at) ==
    w.status = "active" /\ at < w.until /\ nano > w.last

Counted(w, id, nano, at) ==
    w.status = "active" /\ w.id = id /\ at < w.until /\ nano > w.last

RecordCrash(w, nano) ==
    [w EXCEPT !.count = @ + 1, !.observed = @ + 1, !.last = nano,
              !.status = IF w.count + 1 >= Threshold THEN "triggered" ELSE @]

\* Monitor.recordCrash: count, and start the rollback on the transition.
recordCrash(id, nano, at) ==
    IF Counted(watch, id, nano, at)
    THEN /\ watch' = RecordCrash(watch, nano)
         /\ jobs' = IF watch'.status = "triggered"
                    THEN jobs \cup {[w |-> watch.id, id |-> 0, pc |-> "lookup"]}
                    ELSE jobs
    ELSE UNCHANGED <<watch, jobs>>

-----------------------------------------------------------------------------
(* The monitor goroutine.                                                   *)

recoverTriggered ==
    /\ mon.pc = "recover"
    /\ mon' = [mon EXCEPT !.pc = "expire"]
    /\ jobs' = IF watch.status = "triggered"
               THEN jobs \cup {[w |-> watch.id, id |-> 0, pc |-> "lookup"]}
               ELSE jobs
    /\ UNCHANGED <<dockerside, row, watch, guard, oper, self, pos, used,
                   rolled, dropped>>

\* "if err != nil { return }": a triggered watch waits for the next start.
recoverFails ==
    /\ mon.pc = "recover" /\ Fault
    /\ mon' = [mon EXCEPT !.pc = "expire"]
    /\ dropped' = IF watch.status = "triggered" THEN dropped \cup {watch.id}
                                                ELSE dropped
    /\ UNCHANGED <<dockerside, row, watch, guard, oper, self, pos, jobs, rolled>>

\* The events since a point in time start here in the log.
Since(t) == 1 + Cardinality({k \in DOMAIN log : log[k].at < t})

\* reconcile returns; a disconnected monitor subscribes from `since'.
Reconciled(since) ==
    /\ mon' = [mon EXCEPT !.pc = "select", !.now = 0, !.i = 0,
                          !.w = Listed(mon.w.id, 0, 0)]
    /\ pos' = IF pos = 0 THEN Since(since) ELSE pos

reconcileExpire ==
    /\ mon.pc = "expire"
    /\ clock < MaxClock /\ clock' = clock + 1
    /\ mon' = [mon EXCEPT !.pc = "list", !.now = clock']
    /\ \/ watch' = ExpireRollbackWatches(watch, clock') /\ UNCHANGED used
       \/ watch' = watch /\ Fault
    /\ UNCHANGED <<host, log, row, guard, oper, self, pos, jobs, rolled, dropped>>

reconcileList ==
    /\ mon.pc = "list"
    /\ IF watch.status = "active"
       THEN /\ mon' = [mon EXCEPT !.pc = "inspect", !.seen = 0,
                          !.w = Listed(watch.id, watch.observed, watch.until)]
            /\ UNCHANGED pos
       ELSE Reconciled(mon.now)
    /\ UNCHANGED <<dockerside, row, watch, guard, oper, self, jobs, used,
                   rolled, dropped>>

\* Inspect by the watch's ID; a container that is gone is skipped.
reconcileInspect ==
    /\ mon.pc = "inspect"
    /\ IF mon.w.id = host.id
       THEN /\ mon' = [mon EXCEPT !.pc = "record", !.seen = host.restarts]
            /\ UNCHANGED pos
       ELSE Reconciled(mon.w.until - Window)
    /\ UNCHANGED <<dockerside, row, watch, guard, oper, self, jobs, used,
                   rolled, dropped>>

\* The list cannot be read, or the container cannot be inspected.
readingFails ==
    /\ Fault
    /\ \/ mon.pc = "list" /\ Reconciled(mon.now)
       \/ mon.pc = "inspect" /\ Reconciled(mon.w.until - Window)
    /\ UNCHANGED <<dockerside, row, watch, guard, oper, self, jobs, rolled,
                   dropped>>

\* Mutant: the counter is stored without counting what it shows.
reconcileNoRecord ==
    /\ mon.pc = "record"
    /\ mon' = [mon EXCEPT !.pc = "set"]
    /\ UNCHANGED <<dockerside, row, watch, guard, oper, self, pos, jobs, used,
                   rolled, dropped>>

\* One crash per restart that no event accounted for.
reconcileRecord ==
    /\ mon.pc = "record"
    /\ IF mon.i < mon.seen - mon.w.observed
       THEN /\ recordCrash(mon.w.id, Nano(mon.now) + mon.i, mon.now)
            /\ mon' = [mon EXCEPT !.i = @ + 1]
       ELSE mon' = [mon EXCEPT !.pc = "set"] /\ UNCHANGED <<watch, jobs>>
    /\ UNCHANGED <<dockerside, row, guard, oper, self, pos, used, rolled, dropped>>

\* RecordCrash fails: the loop goes on, and the counter is stored all the same.
recordFails ==
    /\ mon.pc = "record" /\ mon.i < mon.seen - mon.w.observed
    /\ Fault
    /\ watch' = IF Counted(watch, mon.w.id, Nano(mon.now) + mon.i, mon.now)
                THEN [watch EXCEPT !.missed = @ + 1] ELSE watch
    /\ mon' = [mon EXCEPT !.i = @ + 1]
    /\ UNCHANGED <<dockerside, row, guard, oper, self, pos, jobs, rolled,
                   dropped>>

\* The row is written by name: an arming since the reading takes a number that
\* was another container's.
Overtaken ==
    IF mon.w.id # watch.id /\ watch.observed < mon.seen
    THEN mon.seen - watch.observed ELSE 0

reconcileSet ==
    /\ mon.pc = "set"
    /\ watch' = SetRollbackWatchRestartCount(
                    [watch EXCEPT !.missed = @ + Overtaken], mon.seen)
    /\ Reconciled(mon.w.until - Window)
    /\ UNCHANGED <<dockerside, row, guard, oper, self, jobs, used, rolled, dropped>>

setFails ==
    /\ mon.pc = "set" /\ Fault
    /\ Reconciled(mon.w.until - Window)
    /\ UNCHANGED <<dockerside, row, watch, guard, oper, self, jobs, rolled,
                   dropped>>

handleEvent ==
    /\ mon.pc = "select" /\ pos \in DOMAIN log
    /\ IF log[pos].code = "clean" THEN UNCHANGED <<watch, jobs>>
       ELSE recordCrash(log[pos].id, Nano(log[pos].at), log[pos].at)
    /\ pos' = pos + 1
    /\ UNCHANGED <<dockerside, row, guard, oper, self, mon, used, rolled, dropped>>

\* The one-minute ticker.
expiryTick ==
    /\ mon.pc = "select"
    /\ mon' = [mon EXCEPT !.pc = "expire"]
    /\ UNCHANGED <<dockerside, row, watch, guard, oper, self, pos, jobs,
                   used, rolled, dropped>>

\* The stream ends; after the backoff Run reconciles and subscribes again.
StreamEnds ==
    /\ mon.pc = "select"
    /\ Fault
    /\ mon' = [mon EXCEPT !.pc = "expire"] /\ pos' = 0
    /\ UNCHANGED <<dockerside, row, watch, guard, oper, self, jobs, rolled, dropped>>

\* "the Docker event stream can silently drop a die event"; and a RecordCrash
\* that fails loses the event it was called for.
EventLost ==
    /\ mon.pc = "select" /\ pos \in DOMAIN log
    /\ Fault
    /\ pos' = pos + 1
    /\ UNCHANGED <<dockerside, row, watch, guard, oper, self, mon, jobs,
                   rolled, dropped>>

-----------------------------------------------------------------------------
(* Monitor.rollback, one goroutine per triggered watch.                     *)

Move(j, k) == jobs' = (jobs \ {j}) \cup {k}

\* GetContainerByName.
jobLookup(j) ==
    /\ j.pc = "lookup"
    /\ Move(j, [j EXCEPT !.pc = "begin", !.id = row.id])
    /\ UNCHANGED <<dockerside, row, watch, guard, oper, self, mon, pos, used,
                   rolled, dropped>>

\* GetContainerByName or Rollback's GetContainer fails.
jobLookupFails(j) ==
    /\ j.pc \in {"lookup", "begin"} /\ Fault
    /\ Move(j, [j EXCEPT !.pc = "complete"])
    /\ UNCHANGED <<dockerside, row, watch, guard, oper, self, mon, pos, rolled,
                   dropped>>

\* Mutant: every refusal of the guard is taken for maintenance.
jobBeginGivesUp(j) ==
    /\ j.pc = "begin"
    /\ IF row.id # j.id \/ ~row.prev
       THEN Move(j, [j EXCEPT !.pc = "complete"]) /\ UNCHANGED guard
       ELSE IF guard # "free"
       THEN jobs' = jobs \ {j} /\ UNCHANGED guard
       ELSE Move(j, [j EXCEPT !.pc = "replace"]) /\ guard' = "rollback"
    /\ UNCHANGED <<dockerside, row, watch, oper, self, mon, pos, used, rolled, dropped>>

\* Rollback up to the snapshot: the row, its previous image, the guard.  A
\* refusal because of maintenance ends the goroutine and keeps the watch.
jobBegin(j) ==
    /\ j.pc = "begin"
    /\ IF row.id # j.id \/ ~row.prev \/ guard \in {"operator", "rollback"}
       THEN Move(j, [j EXCEPT !.pc = "complete"]) /\ UNCHANGED guard
       ELSE IF guard = "maintenance"
       THEN jobs' = jobs \ {j} /\ UNCHANGED guard
       ELSE Move(j, [j EXCEPT !.pc = "replace"]) /\ guard' = "rollback"
    /\ UNCHANGED <<dockerside, row, watch, oper, self, mon, pos, used, rolled, dropped>>

jobReplace(j) ==
    /\ j.pc = "replace"
    /\ host.id = j.id /\ host.state # "restarting"
    /\ Recreate
    /\ Move(j, [j EXCEPT !.pc = "commit"])
    /\ UNCHANGED <<row, watch, guard, oper, self, mon, pos, used, rolled, dropped>>

\* Mutant: the watch is not closed in the transaction that records the
\* rolled-back container.
jobCommitRowOnly(j) ==
    /\ j.pc = "commit"
    /\ row' = [id |-> host.id, prev |-> TRUE]
    /\ rolled' = rolled \cup {j.w}
    /\ guard' = "free"
    /\ jobs' = jobs \ {j}
    /\ UNCHANGED <<dockerside, watch, oper, self, mon, pos, used, dropped>>

\* ReplaceContainerAndCompleteRollback, then finish().
jobCommit(j) ==
    /\ j.pc = "commit"
    /\ row' = [id |-> host.id, prev |-> TRUE]
    /\ watch' = CompleteRollbackWatch(watch, "automatic_rollback")
    /\ rolled' = rolled \cup {j.w}
    /\ guard' = "free"
    /\ jobs' = jobs \ {j}
    /\ UNCHANGED <<dockerside, oper, self, mon, pos, used, dropped>>

\* Any error of Rollback before the removal: a failed call, a container that
\* is still restarting after ten seconds, or one that is gone.
jobFail(j) ==
    /\ j.pc = "replace"
    /\ guard' = "free"
    /\ Move(j, [j EXCEPT !.pc = "complete"])
    /\ UNCHANGED <<dockerside, row, watch, oper, self, mon, pos, used, rolled, dropped>>

\* An error after it: revert recreates once more and records the result, if the
\* statement does not fail.
jobRevert(j) ==
    /\ j.pc = "commit"
    /\ Recreate
    /\ \/ row' = [row EXCEPT !.id = host.id + 1] /\ UNCHANGED used
       \/ row' = row /\ Fault
    /\ guard' = "free"
    /\ Move(j, [j EXCEPT !.pc = "complete"])
    /\ UNCHANGED <<watch, oper, self, mon, pos, rolled, dropped>>

jobComplete(j) ==
    /\ j.pc = "complete"
    /\ watch' = CompleteRollbackWatch(watch, "rollback_failed")
    /\ jobs' = jobs \ {j}
    /\ UNCHANGED <<dockerside, row, guard, oper, self, mon, pos, used, rolled, dropped>>

\* Its error is ignored: the row stays triggered with no goroutine.
completeFails(j) ==
    /\ j.pc = "complete" /\ Fault
    /\ jobs' = jobs \ {j} /\ dropped' = dropped \cup {j.w}
    /\ UNCHANGED <<dockerside, row, watch, guard, oper, self, mon, pos, rolled>>

rollback(j) ==
    \/ jobLookup(j) \/ jobBegin(j) \/ jobReplace(j) \/ jobCommit(j)
    \/ jobFail(j) \/ jobRevert(j) \/ jobComplete(j)

-----------------------------------------------------------------------------
(* The operator's Update and Rollback, the self-update and the sweep.       *)

operBegin(kind) ==
    /\ oper.pc = "idle" /\ guard = "free"
    /\ row.id = host.id /\ (kind = "rollback" => row.prev)
    /\ Spend("ops", MaxOps)
    /\ guard' = "operator"
    /\ oper' = [IdleOper EXCEPT !.pc = "replace", !.kind = kind]
    /\ UNCHANGED <<dockerside, row, watch, self, mon, pos, jobs, rolled, dropped>>

operReplace ==
    /\ oper.pc = "replace" /\ host.state # "restarting"
    /\ Recreate
    /\ oper' = [oper EXCEPT !.pc = "read"]
    /\ UNCHANGED <<row, watch, guard, self, mon, pos, jobs, used, rolled, dropped>>

\* The inspection of the healthy replacement, and the one for its restart
\* counter (0 when it fails).  The second counts only for a container the first
\* found running, and between the two it was running with that counter.
operRead ==
    /\ oper.pc = "read"
    /\ \E n \in {host.restarts, 0} :
           oper' = [oper EXCEPT !.pc = "commit", !.state = host.state, !.restarts = n]
    /\ UNCHANGED <<dockerside, row, watch, guard, self, mon, pos, jobs, used,
                   rolled, dropped>>

operCommit ==
    /\ oper.pc = "commit"
    /\ row' = [id |-> host.id, prev |-> TRUE]
    /\ watch' = IF oper.kind = "rollback"
                THEN CompleteRollbackWatch(watch, "manual_rollback")
                ELSE IF oper.state = "running"
                THEN ArmRollbackWatch(host.id, oper.restarts)
                ELSE CompleteRollbackWatch(watch, "not_running")
    /\ guard' = "free" /\ oper' = IdleOper
    /\ UNCHANGED <<dockerside, self, mon, pos, jobs, used, rolled, dropped>>

\* The error of CompleteRollbackWatch(..., "not_running") is ignored.
notRunningFails ==
    /\ oper.pc = "commit" /\ oper.kind = "update" /\ oper.state # "running"
    /\ Fault
    /\ row' = [id |-> host.id, prev |-> TRUE]
    /\ guard' = "free" /\ oper' = IdleOper
    /\ UNCHANGED <<dockerside, watch, self, mon, pos, jobs, rolled, dropped>>

operFail ==
    /\ oper.pc = "replace"
    /\ guard' = "free" /\ oper' = IdleOper
    /\ UNCHANGED <<dockerside, row, watch, self, mon, pos, jobs, used, rolled, dropped>>

operRevert ==
    /\ oper.pc \in {"read", "commit"}
    /\ Recreate
    /\ \/ row' = [row EXCEPT !.id = host.id + 1] /\ UNCHANGED used
       \/ row' = row /\ Fault
    /\ guard' = "free" /\ oper' = IdleOper
    /\ UNCHANGED <<watch, self, mon, pos, jobs, rolled, dropped>>

\* StartSelfUpdate: the gate first, then SelfUpdateBlockers, then the pull (a
\* refusal because of a schedule ends like a failed pull).
selfBegin ==
    /\ self = "idle" /\ guard = "free"
    /\ Spend("self", MaxSelf)
    /\ guard' = "maintenance" /\ self' = "blockers"
    /\ UNCHANGED <<dockerside, row, watch, oper, mon, pos, jobs, rolled, dropped>>

selfBlockers ==
    /\ self = "blockers"
    /\ IF watch.status = "triggered" THEN self' = "idle" /\ guard' = "free"
                                     ELSE self' = "pull" /\ UNCHANGED guard
    /\ UNCHANGED <<dockerside, row, watch, oper, mon, pos, jobs, used, rolled, dropped>>

\* The pull or the helper's start fails: endMaintenance.
selfFail ==
    /\ self = "pull"
    /\ self' = "idle" /\ guard' = "free"
    /\ UNCHANGED <<dockerside, row, watch, oper, mon, pos, jobs, used, rolled, dropped>>

\* Everything in memory goes; the new process starts its monitor.
Restarted ==
    /\ guard' = "free" /\ oper' = IdleOper /\ self' = "idle"
    /\ mon' = NewMonitor /\ pos' = 0 /\ jobs' = {}
    /\ UNCHANGED <<dockerside, row, watch, rolled, dropped>>

selfHandOver == self = "pull" /\ Restarted /\ UNCHANGED used

Exit == Spend("exits", MaxExits) /\ Restarted

\* scheduler.Check finds a container whose ID is not the recorded one: a new
\* row, without a previous image.
Discover ==
    /\ row.id # host.id
    /\ row' = [id |-> host.id, prev |-> FALSE]
    /\ UNCHANGED <<dockerside, watch, guard, oper, self, mon, pos, jobs,
                   used, rolled, dropped>>

-----------------------------------------------------------------------------
Monitor ==
    \/ recoverTriggered \/ reconcileExpire \/ reconcileList \/ reconcileInspect
    \/ reconcileRecord \/ reconcileSet

Operator == operReplace \/ operRead \/ operCommit \/ operFail \/ operRevert

\* What fails, at most MaxFaults times; nothing makes it happen.
Fails ==
    \/ recoverFails \/ readingFails \/ recordFails \/ setFails
    \/ (\E j \in jobs : jobLookupFails(j) \/ completeFails(j))
    \/ notRunningFails

Next ==
    \/ Crash \/ AutoRestart
    \/ Monitor \/ handleEvent \/ expiryTick \/ StreamEnds \/ EventLost
    \/ \E j \in jobs : rollback(j)
    \/ (\E kind \in {"update", "rollback"} : operBegin(kind)) \/ Operator
    \/ selfBegin \/ selfBlockers \/ selfFail \/ selfHandOver
    \/ Exit \/ Discover \/ Fails

Spec == Init /\ [][Next]_vars

\* Goroutines run: the monitor gets on with a reconcile, a rollback goroutine
\* with its calls, an operation returns, a self-update succeeds or fails.
FairSpec ==
    /\ Spec
    /\ WF_vars(Monitor)
    /\ WF_vars(\E j \in jobs : rollback(j))
    /\ WF_vars(Operator)
    /\ WF_vars(selfBlockers \/ selfFail \/ selfHandOver)

-----------------------------------------------------------------------------
(* Properties.                                                              *)

States == {"running", "restarting", "exited", "created"}
Host == [id : Nat, restarts : Nat, state : States]
Event == [id : Nat, at : Nat, code : ExitCodes]
Watch == [status : Statuses, id : Nat, count : Nat, observed : Nat, last : Nat, until : Nat, base : Nat,
          missed : Nat]
MonitorState ==
    [pc : {"recover", "expire", "list", "inspect", "record", "set", "select"},
     now : Nat, w : [id : Nat, observed : Nat, until : Nat], seen : Nat, i : Nat]
Job == [w : Nat, id : Nat, pc : {"lookup", "begin", "replace", "commit", "complete"}]

Operation == [pc : {"idle", "replace", "read", "commit"}, kind : {"update", "rollback"},
              state : States, restarts : Nat]
Used == [ops : Nat, exits : Nat, self : Nat, faults : Nat]

TypeOK ==
    /\ host \in Host /\ clock \in 0..MaxClock /\ log \in Seq(Event)
    /\ row \in [id : Nat, prev : BOOLEAN] /\ watch \in Watch
    /\ guard \in {"free", "operator", "rollback", "maintenance"}
    /\ oper \in Operation
    /\ self \in {"idle", "blockers", "pull"}
    /\ mon \in MonitorState /\ pos \in Nat
    /\ jobs \subseteq Job /\ rolled \subseteq Nat /\ dropped \subseteq Nat
    /\ used \in Used

\* RecordCrash: "triggered is true for exactly one caller".  One trigger, one
\* rollback: no two goroutines act on the same arming, however events and the
\* restart counter report its crashes and whenever the daemon restarts; and a
\* triggered watch has its goroutine, or a monitor about to start it ("a rollback
\* already triggered before a restart resumes automatically"), as long as no
\* self-update has closed the gate and no statement that starts or closes the
\* rollback of this very arming has failed.
OneRollbackPerTrigger ==
    /\ \A j, k \in jobs : j.w = k.w => j = k
    /\ watch.status = "triggered" =>
           \/ mon.pc = "recover" \/ \E j \in jobs : j.w = watch.id
           \/ used.self > 0 \/ watch.id \in dropped

\* ReplaceContainerAndCompleteRollback: a restart never replays a rollback
\* that was already committed.
RollbackIsNotRepeated == \A j \in jobs : j.w \notin rolled

Exits(id) == Cardinality({k \in DOMAIN log : log[k].id = id})

\* An event and the restart counter may each count the same exit, but no
\* replay, reconnection or restart of the daemon counts it a third time: an
\* automatic rollback stands for at least half as many exits as the threshold.
RollbackNeedsCrashes == \A j \in jobs : 2 * Exits(j.w) >= Threshold

\* The reconcile's purpose ("RestartCount is the only authoritative signal"):
\* once it has read the counter of the container under watch, within its window,
\* every restart since the arming is in the count, whatever the stream lost, except
\* the ones whose RecordCrash failed and the ones that a reading of the container
\* before passed over.
CrashesAreCaughtUp ==
    /\ mon.pc = "select" /\ mon.w.id = watch.id
    /\ watch.status = "active" /\ clock < watch.until
    => watch.count + watch.missed >= mon.seen - watch.base

\* Every triggered watch is acted on and leaves the triggered state, across
\* operations, lost events and a restart of the daemon, as long as no
\* self-update has closed the gate and no failed statement dropped its rollback.
TriggeredIsResolved ==
    []<>(watch.status # "triggered" \/ used.self > 0 \/ watch.id \in dropped)

-----------------------------------------------------------------------------
(* What comments and manuals say and the code does not do.                  *)

\* monitor.go:209: "The new daemon resumes it after self-update", also when there
\* is no new daemon because the self-update failed.
EveryTriggerIsResolved == []<>(watch.status # "triggered")

\* monitor.go:49: "RestartCount is the only authoritative signal", also when
\* RecordCrash fails, and for a container that an update puts under watch during a
\* reconcile of the old one.
EveryCrashIsCaughtUp ==
    /\ mon.pc = "select" /\ mon.w.id = watch.id
    /\ watch.status = "active" /\ clock < watch.until
    => watch.count >= mon.seen - watch.base

\* TestHandleEventCountsOnlyUnexpectedUniqueExit, and RecordCrash's comment
\* "Duplicate/replayed Docker events [...] are not counted": an exit counts once.
ExitsCountOnce == watch.count <= Exits(watch.id)

\* manuals/containers.md:99: "Intentional clean exits do not" increment the
\* crash guard.
CleanExitsDoNotCount ==
    watch.count > 0 =>
        \E k \in DOMAIN log : log[k].id = watch.id /\ log[k].code # "clean"

\* manuals/containers.md:92: the previous version is restored automatically
\* "if a container crashes 3 times shortly after an update": what is
\* rolled back is the container that crashed.
RollbackTargetsCrasher == \A j \in jobs : j.pc = "replace" => j.id = j.w

\* manuals/containers.md:24: "after a successful update, DoUpRo watches the
\* container for the configured safety window", until the window ends or a
\* rollback fires: no other outcome ends an active watch.
ActiveWatchIsKept ==
    [][watch.status = "active" => watch'.status # "rollback_failed"]_vars
=============================================================================
