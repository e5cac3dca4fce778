------------------------------- MODULE Updater -------------------------------
(***************************************************************************)
(* Updater.Update and Updater.Rollback (internal/updater) running against   *)
(* the Docker host, the containers table and the rollback watches, while    *)
(* scheduler.Check sweeps the same table, containers crash, tags move in    *)
(* the registry, calls fail, contexts expire and the daemon is killed.      *)
(*                                                                         *)
(* Every Docker call and every store transaction is one step; the code      *)
(* between two of them is local and belongs to the step before it.  A stop  *)
(* or a removal that returns an error may have taken effect all the same,   *)
(* and an event may fail to be written; the other calls have no effect when *)
(* they return an error.                                                    *)
(*                                                                         *)
(* Left out: networks, mounts and the other create-time settings (a failed  *)
(* fidelity check is one of the calls that may fail); events and messages   *)
(* except the image references that RecoverImageReference reads back; the   *)
(* system actor, which module CrashLoop models.                             *)
(***************************************************************************)
EXTENDS ContainerStore, FiniteSets, Functions

CONSTANTS
    Workers,      \* request handlers and the scheduler's goroutine
    Broken,       \* images whose workload does not survive
    Checked,      \* images that declare a HEALTHCHECK
    MaxID,        \* bound: the Docker IDs used are 1..MaxID
    MaxFaults,    \* bound: calls that fail for no reason of the host's
    MaxUnlogged,  \* bound: names with an event lost before the deadline
    MaxMisses,    \* bound: Update's first store lookups that fail on a known row
    MaxExpiries,  \* bound: operation contexts that reach their deadline
    MaxExits,     \* bound: deaths of the daemon
    MaxSweeps,    \* bound: discovery sweeps
    MaxPublish,   \* bound: pushes that move a tag
    MaxRestarts   \* bound: restarts by Docker of one container

ASSUME BrokenAssumption == Broken \subseteq Images /\ Checked \subseteq Images
ASSUME BoundsAssumption ==
    /\ MaxID \in Nat /\ MaxFaults \in Nat /\ MaxUnlogged \in Nat
    /\ MaxMisses \in Nat /\ MaxExpiries \in Nat
    /\ MaxExits \in Nat /\ MaxSweeps \in Nat /\ MaxPublish \in Nat
    /\ MaxRestarts \in Nat

VARIABLES
    host,      \* Docker: live containers by ID
    nextID,    \* Docker: the ID of the next container created
    local,     \* Docker: the image each tag names on this host
    registry,  \* the image each tag names in the registry
    rows,      \* store: containers
    watch,     \* store: rollback_watches, by container name
    logged,    \* store: the last mutable reference in a container's events
    active,    \* operationGuard.active
    op,        \* op[w]: the call worker w is executing
    sweep,     \* the discovery sweep in progress
    used,      \* how much of each bound has been used
    retired,   \* history: the image the last committed operation replaced
    reported,  \* history: names whose revert was reported as failed
    torn,      \* history: calls that took effect behind an unheeded error
    unlogged   \* history: names with an event that was not written

vars == <<host, nextID, local, registry, rows, watch, logged, active, op,
          sweep, used, retired, reported, torn, unlogged>>
docker == <<host, nextID, local>>
stored == <<rows, watch, logged>>
history == <<retired, reported, torn, unlogged>>

\* Docker IDs: never reused, so a counter; 0 stands for "no container".
ID == Nat \ {0}
DockerStates == {"created", "running", "restarting", "exited"}
Origins == {"operator", "update", "rollback", "revert"}

\* `by' is history: which kind of recreation made the container.
Container == [name : Names, config : Ref, image : Images,
              state : DockerStates, restarts : 0..MaxRestarts, by : Origins]

\* Docker reports State.Running for a container it is restarting.
Running(c) == c.state \in {"running", "restarting"}

\* create resolves a reference against the images already on the host.
Resolve(r) == IF r.kind = "tag" THEN local[r.of] ELSE r.of

Keys == Names \cup ID

\* Names and IDs are different strings, and neither is an empty value.
ASSUME KeysAssumption ==
    Names \cap ID = {} /\ Nil \notin Keys /\ Nil \notin Container
ASSUME FiniteAssumption == IsFiniteSet(Names) /\ IsFiniteSet(Workers)

NoWatch == [id |-> 0, status |-> "none"]
WatchStatus == {"none", "active", "not_running", "manual_rollback"}

PCs == {"idle", "lookup", "begin", "inspect", "define", "pull", "stop",
        "remove", "create", "validate", "start", "wait", "result", "commit",
        "epilogue", "restart", "reread", "record", "done"}

Outcomes == {"none", "ok", "failed", "reverted", "unrecorded", "revert_failed"}

Idle == [pc |-> "idle", kind |-> "update", phase |-> "do", id |-> 0,
         key |-> Nil, target |-> Nil, cur |-> Nil, prev |-> Nil,
         before |-> Nil, old |-> 0, new |-> 0, stopped |-> FALSE,
         removed |-> FALSE, state |-> "created", expired |-> FALSE,
         outcome |-> "none"]

\* The call in progress: id and key name the container, target and cur are
\* the image to run and the reference to record, before is the Docker inspect
\* that a revert restores, old and new are the IDs recreate() works on, and
\* stopped/removed/state are its recreationResult.
Op == [pc : PCs, kind : {"update", "rollback"}, phase : {"do", "revert"},
       id : Nat, key : Keys \cup {Nil},
       target : Ref \cup {Nil}, cur : Ref \cup {Nil},
       prev : Images \cup {Nil}, before : Container \cup {Nil},
       old : Nat, new : Nat, stopped : BOOLEAN, removed : BOOLEAN,
       state : DockerStates, expired : BOOLEAN, outcome : Outcomes]

Bounds == {"faults", "misses", "expiries", "exits", "sweeps", "publish"}

\* An original that was stopped or removed by a call that returned an error.
Tear == [name : Names, id : ID, call : {"stop", "remove"}]

NoSweep == [pc |-> "idle", seen |-> <<>>, todo |-> {}]

Init ==
    /\ registry \in [Tags -> Images \ Broken]
    /\ local = registry
    /\ \E ids \in Bijection(1..Cardinality(Names), Names),
          configs \in [Names -> [kind : {"tag"}, of : Tags]
                                \cup [kind : {"pin"}, of : Images \ Broken]],
          states \in [Names -> {"running", "exited"}] :
          host = [i \in 1..Cardinality(Names) |->
                    LET n == ids[i] IN
                    [name |-> n, config |-> configs[n],
                     image |-> Resolve(configs[n]), state |-> states[n],
                     restarts |-> 0, by |-> "operator"]]
    /\ nextID = Cardinality(Names) + 1
    /\ rows = [i \in DOMAIN host |-> [name |-> host[i].name,
                 cur |-> host[i].config, prev |-> Nil, avail |-> FALSE]]
    /\ watch = [n \in Names |-> NoWatch]
    /\ logged = [n \in Names |-> Nil]
    /\ active = {}
    /\ op = [w \in Workers |-> Idle]
    /\ sweep = NoSweep
    /\ used = [b \in Bounds |-> 0]
    /\ retired = [n \in Names |-> Nil]
    /\ reported = {}
    /\ torn = {}
    /\ unlogged = {}

-----------------------------------------------------------------------------
(* The environment: Docker's restart policy, the registry, time.            *)

Spend(b, max) == used[b] < max /\ used' = [used EXCEPT ![b] = @ + 1]

\* A workload that does not survive exits; the restart policy decides.
ContainerCrash(i) ==
    /\ host[i].state = "running"
    /\ host[i].image \in Broken
    /\ \/ host' = [host EXCEPT ![i].state = "exited"]
       \/ /\ host[i].restarts < MaxRestarts
          /\ host' = [host EXCEPT ![i].state = "restarting",
                                  ![i].restarts = @ + 1]
    /\ UNCHANGED <<nextID, local, registry, stored, active, op, sweep, used,
                   history>>

ContainerRestart(i) ==
    /\ host[i].state = "restarting"
    /\ host' = [host EXCEPT ![i].state = "running"]
    /\ UNCHANGED <<nextID, local, registry, stored, active, op, sweep, used,
                   history>>

Publish(t, c) ==
    /\ registry[t] # c
    /\ Spend("publish", MaxPublish)
    /\ registry' = [registry EXCEPT ![t] = c]
    /\ UNCHANGED <<docker, stored, active, op, sweep, history>>

\* operationContext: the deadline covers the operation and its revert.
Expire(w) ==
    /\ op[w].pc \notin {"idle", "done"}
    /\ ~op[w].expired
    /\ Spend("expiries", MaxExpiries)
    /\ op' = [op EXCEPT ![w].expired = TRUE]
    /\ UNCHANGED <<docker, registry, stored, active, sweep, history>>

\* A call needs the host to allow it and the context to be alive.
Succeeds(w, possible) ==
    possible /\ ~op[w].expired /\ UNCHANGED used

Fails(w, possible) ==
    \/ (~possible \/ op[w].expired) /\ UNCHANGED used
    \/ possible /\ ~op[w].expired /\ Spend("faults", MaxFaults)

-----------------------------------------------------------------------------
(* Requests, the guard and the snapshot.                                    *)

Become(w, o) == op' = [op EXCEPT ![w] = o]

\* Every operation creates at most two containers, its own and its revert's.
RoomForOne ==
    nextID + 2 * Cardinality({v \in Workers : op[v].pc # "idle"}) < MaxID

\* The caller (an API handler, a bulk update, a schedule) has resolved a row
\* and a target: the stored reference, a semver candidate's tag or a pin.
RequestUpdate(w) ==
    /\ op[w].pc = "idle"
    /\ RoomForOne
    /\ \E i \in DOMAIN rows :
         \E r \in {rows[i].cur} \cup {TagRef(t) : t \in Tags}
                  \cup {PinRef(registry[t]) : t \in Tags} :
            Become(w, [Idle EXCEPT !.pc = "lookup", !.kind = "update",
                                   !.id = i, !.target = r])
    /\ UNCHANGED <<docker, registry, stored, active, sweep, used, history>>

RequestRollback(w) ==
    /\ op[w].pc = "idle"
    /\ RoomForOne
    /\ \E i \in DOMAIN rows :
          Become(w, [Idle EXCEPT !.pc = "lookup", !.kind = "rollback",
                                 !.id = i])
    /\ UNCHANGED <<docker, registry, stored, active, sweep, used, history>>

\* Update: the guard's key is the row's name, or the raw ID when the lookup
\* fails for whatever reason.
LookupUpdate(w) ==
    LET o == op[w]
        known == o.id \in DOMAIN rows
    IN
    /\ o.pc = "lookup" /\ o.kind = "update"
    /\ \/ /\ Succeeds(w, known)
          /\ Become(w, [o EXCEPT !.pc = "begin", !.key = rows[o.id].name])
       \/ /\ \/ (~known \/ o.expired) /\ UNCHANGED used
             \/ known /\ ~o.expired /\ Spend("misses", MaxMisses)
          /\ Become(w, [o EXCEPT !.pc = "begin", !.key = o.id])
    /\ UNCHANGED <<docker, registry, stored, active, sweep, history>>

\* Rollback: refused without a row or without a previous image.
LookupRollback(w) ==
    LET o == op[w]
        offered == o.id \in DOMAIN rows /\ rows[o.id].prev # Nil
    IN
    /\ o.pc = "lookup" /\ o.kind = "rollback"
    /\ \/ /\ Succeeds(w, offered)
          /\ Become(w, [o EXCEPT !.pc = "begin", !.key = rows[o.id].name,
                                 !.target = IdRef(rows[o.id].prev),
                                 !.cur = rows[o.id].cur])
       \/ Fails(w, offered) /\ Become(w, Idle)
    /\ UNCHANGED <<docker, registry, stored, active, sweep, history>>

\* Mutant: the refusal is not looked at.
beginUnchecked(w) ==
    LET o == op[w] IN
    /\ o.pc = "begin"
    /\ Become(w, [o EXCEPT !.pc = "inspect"])
    /\ active' = active \cup {o.key}
    /\ UNCHANGED <<docker, registry, stored, sweep, used, history>>

beginOperation(w) ==
    LET o == op[w] IN
    /\ o.pc = "begin"
    /\ IF o.key \in active
       THEN Become(w, Idle) /\ UNCHANGED active
       ELSE /\ Become(w, [o EXCEPT !.pc = "inspect"])
            /\ active' = active \cup {o.key}
    /\ UNCHANGED <<docker, registry, stored, sweep, used, history>>

Inspect(w) ==
    LET o == op[w] IN
    /\ o.pc = "inspect"
    /\ \/ /\ Succeeds(w, o.id \in DOMAIN host)
          /\ Become(w, [o EXCEPT !.pc = "define", !.before = host[o.id]])
       \/ /\ Fails(w, o.id \in DOMAIN host)
          /\ Become(w, [o EXCEPT !.pc = "done", !.outcome = "failed"])
    /\ UNCHANGED <<docker, registry, stored, active, sweep, history>>

-----------------------------------------------------------------------------
(* recreate(), shared by the operation and by its revert.                   *)

WasRunning(o) == o.before.state = "running"

\* Where recreate() goes once the target image is on the host.
AfterPull(o) ==
    [o EXCEPT !.pc = IF o.old = 0 THEN "create"
                     ELSE IF WasRunning(o) THEN "stop" ELSE "remove"]

\* A raw image ID is already on the host and is not pulled.
BeginRecreate(o) ==
    IF o.target.kind = "id" THEN AfterPull(o) ELSE [o EXCEPT !.pc = "pull"]

\* revert: recreate again, from the ID the failed attempt left behind (if
\* any), on the image reference the snapshot was configured with.
revert(o) ==
    BeginRecreate([o EXCEPT !.phase = "revert", !.old = o.new, !.new = 0,
                            !.stopped = FALSE, !.removed = FALSE,
                            !.target = o.before.config])

\* Mutant: an error past the removal is returned like any other.
RecreateErrorNoRevert(o) ==
    IF o.phase = "revert"
    THEN [o EXCEPT !.pc = "done", !.outcome = "revert_failed"]
    ELSE IF o.stopped /\ ~o.removed THEN [o EXCEPT !.pc = "restart"]
    ELSE [o EXCEPT !.pc = "done", !.outcome = "failed"]

\* Mutant: a stopped original is not started again.
RecreateErrorNoRestart(o) ==
    IF o.phase = "revert"
    THEN [o EXCEPT !.pc = "done", !.outcome = "revert_failed"]
    ELSE IF o.removed THEN revert(o)
    ELSE [o EXCEPT !.pc = "done", !.outcome = "failed"]

\* Mutant: a revert that fails is tried again until it works.
RecreateErrorRetries(o) ==
    IF o.phase = "revert" \/ o.removed THEN revert(o)
    ELSE IF o.stopped THEN [o EXCEPT !.pc = "restart"]
    ELSE [o EXCEPT !.pc = "done", !.outcome = "failed"]

\* The three error returns: before the original was removed (restarting it if
\* it had been stopped), after, and from the revert itself.
RecreateError(o) ==
    IF o.phase = "revert"
    THEN [o EXCEPT !.pc = "done", !.outcome = "revert_failed"]
    ELSE IF o.removed THEN revert(o)
    ELSE IF o.stopped THEN [o EXCEPT !.pc = "restart"]
    ELSE [o EXCEPT !.pc = "done", !.outcome = "failed"]

\* Mutant: the event only names the new image.
LogTarget(n, from, to) ==
    logged' = [logged EXCEPT ![n] = IF IsDigestReference(to) THEN @ ELSE to]

\* update.started / rollback.manual carry the from and to references.
LogReferences(n, from, to) ==
    logged' = [logged EXCEPT ![n] =
                 IF ~IsDigestReference(from) THEN from
                 ELSE IF ~IsDigestReference(to) THEN to ELSE @]

\* recreate(), after buildRecreationPlan's refusal of a restarting container.
StartRecreate(o, cur) ==
    IF o.before.state = "restarting"
    THEN [o EXCEPT !.pc = "done", !.outcome = "failed"]
    ELSE BeginRecreate([o EXCEPT !.cur = cur, !.old = o.id])

\* Update's second lookup (the reference to record; a failed one is not an
\* error), and the started event, which Emit writes with the operation's
\* context and whose loss it does not return.
Define(w) ==
    LET o == op[w]
        known == o.id \in DOMAIN rows
    IN
    /\ o.pc = "define"
    /\ \/ /\ ~o.expired
          /\ LogReferences(o.before.name,
               IF o.kind = "rollback" THEN o.cur ELSE o.before.config, o.target)
          /\ UNCHANGED unlogged
       \/ /\ o.expired \/ Cardinality(unlogged) < MaxUnlogged
          /\ unlogged' = unlogged \cup {o.before.name}
          /\ UNCHANGED logged
    /\ \/ /\ o.kind = "rollback"
          /\ UNCHANGED used
          /\ Become(w, StartRecreate(o, o.cur))
       \/ /\ o.kind = "update"
          /\ \/ /\ Succeeds(w, known)
                /\ Become(w, StartRecreate(o,
                              stableImageReference(o.target, rows[o.id].cur)))
             \/ Fails(w, known) /\ Become(w, StartRecreate(o, o.target))
    /\ UNCHANGED <<docker, registry, rows, watch, active, sweep, retired,
                   reported, torn>>

Pull(w) ==
    LET o == op[w] IN
    /\ o.pc = "pull"
    /\ \/ /\ Succeeds(w, TRUE)
          /\ local' = IF o.target.kind = "tag"
                      THEN [local EXCEPT ![o.target.of] = registry[o.target.of]]
                      ELSE local
          /\ Become(w, AfterPull(o))
       \/ Fails(w, TRUE) /\ Become(w, RecreateError(o)) /\ UNCHANGED local
    /\ UNCHANGED <<host, nextID, registry, stored, active, sweep, history>>

\* recreate() reads an error as "not done".  The history keeps the calls that
\* were done and that the operation answers with nothing but its failure.
Tears(o, call) ==
    torn' = IF RecreateError(o).outcome = "failed"
            THEN torn \cup {[name |-> o.before.name, id |-> o.old,
                             call |-> call]}
            ELSE torn

\* Stopping a container that is not running is not an error to Docker.
Stopped(i) ==
    host' = [host EXCEPT ![i].state = IF @ = "created" THEN @ ELSE "exited"]

\* The context may end, or the answer get lost, after Docker did the work.
Stop(w) ==
    LET o == op[w]
        there == o.old \in DOMAIN host
    IN
    /\ o.pc = "stop"
    /\ \/ /\ Succeeds(w, there)
          /\ Stopped(o.old)
          /\ Become(w, [o EXCEPT !.pc = "remove", !.stopped = TRUE])
          /\ UNCHANGED torn
       \/ /\ Fails(w, there)
          /\ Become(w, RecreateError(o))
          /\ \/ UNCHANGED <<host, torn>>
             \/ there /\ Stopped(o.old) /\ Tears(o, "stop")
    /\ UNCHANGED <<nextID, local, registry, stored, active, sweep, retired,
                   reported, unlogged>>

Remove(w) ==
    LET o == op[w]
        there == o.old \in DOMAIN host
        gone == Keep(host, DOMAIN host \ {o.old})
    IN
    /\ o.pc = "remove"
    /\ \/ /\ Succeeds(w, there)
          /\ host' = gone
          /\ Become(w, [o EXCEPT !.pc = "create", !.removed = TRUE])
          /\ UNCHANGED torn
       \/ /\ Fails(w, there)
          /\ Become(w, RecreateError(o))
          /\ \/ UNCHANGED <<host, torn>>
             \/ there /\ host' = gone /\ Tears(o, "remove")
    /\ UNCHANGED <<nextID, local, registry, stored, active, sweep, retired,
                   reported, unlogged>>

\* Docker refuses a name that is in use.
NameFree(n) == \A i \in DOMAIN host : host[i].name # n

Create(w) ==
    LET o == op[w]
        n == o.before.name
        by == IF o.phase = "revert" THEN "revert" ELSE o.kind
    IN
    /\ o.pc = "create"
    /\ \/ /\ Succeeds(w, NameFree(n))
          /\ host' = Put(host, nextID,
                 [name |-> n, config |-> o.target, image |-> Resolve(o.target),
                  state |-> "created", restarts |-> 0, by |-> by])
          /\ nextID' = nextID + 1
          /\ Become(w, [o EXCEPT !.pc = "validate", !.new = nextID,
                                 !.state = "created"])
       \/ /\ Fails(w, NameFree(n))
          /\ Become(w, RecreateError(o))
          /\ UNCHANGED <<host, nextID>>
    /\ UNCHANGED <<local, registry, stored, active, sweep, history>>

\* Where a successful recreate() leaves the caller.
Recreated(o) == [o EXCEPT !.pc = IF o.phase = "do" THEN "commit" ELSE "reread"]

\* Inspect and validateRecreation; a container that was not running stays
\* created.
Validate(w) ==
    LET o == op[w] IN
    /\ o.pc = "validate"
    /\ \/ /\ Succeeds(w, o.new \in DOMAIN host)
          /\ Become(w, IF WasRunning(o) THEN [o EXCEPT !.pc = "start"]
                                        ELSE Recreated(o))
       \/ Fails(w, o.new \in DOMAIN host) /\ Become(w, RecreateError(o))
    /\ UNCHANGED <<docker, registry, stored, active, sweep, history>>

Start(w) ==
    LET o == op[w] IN
    /\ o.pc = "start"
    /\ \/ /\ Succeeds(w, o.new \in DOMAIN host)
          /\ host' = [host EXCEPT ![o.new].state = "running"]
          /\ Become(w, [o EXCEPT !.pc = "wait"])
       \/ /\ Fails(w, o.new \in DOMAIN host)
          /\ Become(w, RecreateError(o))
          /\ UNCHANGED host
    /\ UNCHANGED <<nextID, local, registry, stored, active, sweep, history>>

\* With a HEALTHCHECK Docker's verdict decides; without one, State.Running at
\* the end of the stability window does.
Healthy(c) == Running(c) /\ (c.image \in Checked => c.image \notin Broken)

WaitHealthy(w) ==
    LET o == op[w]
        healthy == o.new \in DOMAIN host /\ Healthy(host[o.new])
    IN
    /\ o.pc = "wait"
    /\ \/ Succeeds(w, healthy) /\ Become(w, [o EXCEPT !.pc = "result"])
       \/ Fails(w, healthy) /\ Become(w, RecreateError(o))
    /\ UNCHANGED <<docker, registry, stored, active, sweep, history>>

InspectResult(w) ==
    LET o == op[w] IN
    /\ o.pc = "result"
    /\ \/ /\ Succeeds(w, o.new \in DOMAIN host)
          /\ Become(w, Recreated([o EXCEPT !.state = host[o.new].state]))
       \/ Fails(w, o.new \in DOMAIN host) /\ Become(w, RecreateError(o))
    /\ UNCHANGED <<docker, registry, stored, active, sweep, history>>

-----------------------------------------------------------------------------
(* What follows recreate().                                                 *)

\* Mutants: the retired ID keeps its row; the previous image is the new one.
ReplacedKeepsOld(o, prev) ==
    replaceContainerTx(rows, o.new, o.new, o.before.name, o.cur, prev)
ReplacedForgets(o, prev) ==
    replaceContainerTx(rows, o.id, o.new, o.before.name, o.cur,
                       host[o.new].image)

Replaced(o, prev) ==
    replaceContainerTx(rows, o.id, o.new, o.before.name, o.cur, prev)

\* Mutant: the watch is armed after the transaction, not in it.
CommitUnarmed(w) ==
    LET o == op[w]
        n == o.before.name
    IN
    /\ o.pc = "commit"
    /\ \/ /\ Succeeds(w, TRUE)
          /\ rows' = Replaced(o, o.before.image)
          /\ retired' = [retired EXCEPT ![n] = o.before.image]
          /\ Become(w, [o EXCEPT !.pc = "epilogue", !.outcome = "ok"])
       \/ /\ Fails(w, TRUE)
          /\ Become(w, revert(o))
          /\ UNCHANGED <<rows, retired>>
    /\ UNCHANGED <<docker, registry, watch, logged, active, sweep, reported,
                   torn, unlogged>>

\* One transaction: ReplaceContainerAndArmRollback for a running update,
\* ReplaceContainer for one that is not running,
\* ReplaceContainerAndCompleteRollback for a rollback.
Commit(w) ==
    LET o == op[w]
        n == o.before.name
        armed == o.kind = "update" /\ o.state = "running"
    IN
    /\ o.pc = "commit"
    /\ \/ /\ Succeeds(w, TRUE)
          /\ rows' = Replaced(o, o.before.image)
          /\ watch' = [watch EXCEPT ![n] =
               IF armed THEN [id |-> o.new, status |-> "active"]
               ELSE IF o.kind = "rollback" /\ @.status # "none"
                    THEN [@ EXCEPT !.status = "manual_rollback"] ELSE @]
          /\ retired' = [retired EXCEPT ![n] = o.before.image]
          /\ Become(w, [o EXCEPT !.pc = IF armed THEN "done" ELSE "epilogue",
                                 !.outcome = "ok"])
       \/ /\ Fails(w, TRUE)
          /\ Become(w, revert(o))
          /\ UNCHANGED <<rows, watch, retired>>
    /\ UNCHANGED <<docker, registry, logged, active, sweep, reported,
                   torn, unlogged>>

\* The best-effort write after the commit: close the watch of a container that
\* was updated but is not running, or offer the update again after a rollback.
Epilogue(w) ==
    LET o == op[w]
        n == o.before.name
    IN
    /\ o.pc = "epilogue"
    /\ \/ /\ Succeeds(w, TRUE)
          /\ IF o.kind = "update"
             THEN /\ watch' = [watch EXCEPT ![n].status =
                                 IF @ = "none" THEN @ ELSE "not_running"]
                  /\ UNCHANGED rows
             ELSE /\ rows' = SetUpdateAvailable(rows, o.new, TRUE)
                  /\ UNCHANGED watch
       \/ Fails(w, TRUE) /\ UNCHANGED <<rows, watch>>
    /\ Become(w, [o EXCEPT !.pc = "done"])
    /\ UNCHANGED <<docker, registry, logged, active, sweep, history>>

\* failBeforeRemoval: the original was stopped and is started again.
RestartOriginal(w) ==
    LET o == op[w] IN
    /\ o.pc = "restart"
    /\ \/ /\ Succeeds(w, o.id \in DOMAIN host)
          /\ host' = [host EXCEPT ![o.id].state = "running"]
          /\ Become(w, [o EXCEPT !.pc = "done", !.outcome = "failed"])
       \/ /\ Fails(w, o.id \in DOMAIN host)
          /\ Become(w, [o EXCEPT !.pc = "done", !.outcome = "revert_failed"])
          /\ UNCHANGED host
    /\ UNCHANGED <<nextID, local, registry, stored, active, sweep, history>>

\* revert looks up the original's row to keep its previous image; a failed
\* lookup is not an error.
Reread(w) ==
    LET o == op[w]
        config == o.before.config
        unknown == [o EXCEPT !.pc = "record", !.prev = Nil, !.cur = config]
    IN
    /\ o.pc = "reread"
    /\ \/ /\ Succeeds(w, o.id \in DOMAIN rows)
          /\ Become(w, [o EXCEPT !.pc = "record", !.prev = rows[o.id].prev,
                          !.cur = stableImageReference(config, rows[o.id].cur)])
       \/ Fails(w, o.id \in DOMAIN rows) /\ Become(w, unknown)
    /\ UNCHANGED <<docker, registry, stored, active, sweep, history>>

RecordReverted(w) ==
    LET o == op[w] IN
    /\ o.pc = "record"
    /\ \/ /\ Succeeds(w, TRUE)
          /\ rows' = Replaced(o, o.prev)
          /\ Become(w, [o EXCEPT !.pc = "done", !.outcome = "reverted"])
       \/ /\ Fails(w, TRUE)
          /\ Become(w, [o EXCEPT !.pc = "done", !.outcome = "unrecorded"])
          /\ UNCHANGED rows
    /\ UNCHANGED <<docker, registry, watch, logged, active, sweep, history>>

\* Mutant: the return after a failed revert does not run finish().
FinishLeaks(w) ==
    LET o == op[w] IN
    /\ o.pc = "done"
    /\ active' = IF o.outcome = "revert_failed" THEN active
                 ELSE active \ {o.key}
    /\ reported' = IF o.outcome = "revert_failed"
                   THEN reported \cup {o.before.name} ELSE reported
    /\ Become(w, Idle)
    /\ UNCHANGED <<docker, registry, stored, sweep, used, retired, torn,
                   unlogged>>

\* The deferred finish() and the return to the caller.
Finish(w) ==
    LET o == op[w] IN
    /\ o.pc = "done"
    /\ active' = active \ {o.key}
    /\ reported' = IF o.outcome = "revert_failed"
                   THEN reported \cup {o.before.name} ELSE reported
    /\ Become(w, Idle)
    /\ UNCHANGED <<docker, registry, stored, sweep, used, retired, torn,
                   unlogged>>

-----------------------------------------------------------------------------
(* scheduler.Check: list, upsert each, prune, check each.  Its statements   *)
(* succeed; one that fails is logged and the next sweep repeats it.         *)

SweepList ==
    /\ sweep.pc = "idle"
    /\ Spend("sweeps", MaxSweeps)
    /\ sweep' = [pc |-> IF DOMAIN host = {} THEN "prune" ELSE "upsert",
                 seen |-> host, todo |-> DOMAIN host]
    /\ UNCHANGED <<docker, registry, stored, active, op, history>>

SweepUpsert(i) ==
    /\ sweep.pc = "upsert" /\ i \in sweep.todo
    /\ rows' = UpsertSeen(rows, i, sweep.seen[i].name, sweep.seen[i].config)
    /\ sweep' = [sweep EXCEPT !.todo = @ \ {i},
                   !.pc = IF sweep.todo = {i} THEN "prune" ELSE @]
    /\ UNCHANGED <<docker, registry, watch, logged, active, op, used, history>>

SweepPrune ==
    /\ sweep.pc = "prune"
    /\ rows' = PruneContainers(rows, DOMAIN sweep.seen)
    /\ sweep' = IF sweep.seen = <<>> THEN NoSweep
                ELSE [sweep EXCEPT !.pc = "check", !.todo = DOMAIN sweep.seen]
    /\ UNCHANGED <<docker, registry, watch, logged, active, op, used, history>>

\* checkOneContainer: the stored reference stands in for a digest, the event
\* log for a row that has none; the outcome is written by ID.  A registry
\* that does not answer leaves the row alone.
SweepCheck(i) ==
    LET c == sweep.seen[i]
        known == IF i \in DOMAIN rows
                 THEN stableImageReference(c.config, rows[i].cur) ELSE c.config
        recovered == IsDigestReference(known) /\ logged[c.name] # Nil
        ref == IF recovered THEN logged[c.name] ELSE known
        repaired == IF recovered THEN RepairCurrentImage(rows, i, ref) ELSE rows
    IN
    /\ sweep.pc = "check" /\ i \in sweep.todo
    /\ \/ rows' = repaired
       \/ /\ ~IsDigestReference(ref)
          /\ rows' = SetUpdateAvailable(repaired, i, registry[ref.of] # c.image)
    /\ sweep' = IF sweep.todo = {i} THEN NoSweep
                ELSE [sweep EXCEPT !.todo = @ \ {i}]
    /\ UNCHANGED <<docker, registry, watch, logged, active, op, used, history>>

\* The daemon dies and starts again: only Docker, the registry and the
\* database survive.
Exit ==
    /\ Spend("exits", MaxExits)
    /\ active' = {}
    /\ op' = [w \in Workers |-> Idle]
    /\ sweep' = NoSweep
    /\ UNCHANGED <<docker, registry, stored, history>>

-----------------------------------------------------------------------------
Step(w) ==
    \/ LookupUpdate(w) \/ LookupRollback(w) \/ beginOperation(w) \/ Inspect(w)
    \/ Define(w) \/ Pull(w) \/ Stop(w) \/ Remove(w) \/ Create(w) \/ Validate(w)
    \/ Start(w) \/ WaitHealthy(w) \/ InspectResult(w) \/ Commit(w)
    \/ Epilogue(w) \/ RestartOriginal(w) \/ Reread(w) \/ RecordReverted(w)
    \/ Finish(w)

Sweep ==
    \/ SweepList \/ SweepPrune
    \/ \E i \in DOMAIN sweep.seen : SweepUpsert(i) \/ SweepCheck(i)

Environment ==
    \/ \E i \in DOMAIN host : ContainerCrash(i) \/ ContainerRestart(i)
    \/ \E t \in Tags, c \in Images : Publish(t, c)
    \/ \E w \in Workers : Expire(w)
    \/ Exit

Next ==
    \/ \E w \in Workers : RequestUpdate(w) \/ RequestRollback(w) \/ Step(w)
    \/ Sweep
    \/ Environment

Spec == Init /\ [][Next]_vars

\* A started call keeps running: every Docker call and every SQL statement
\* returns, if only because the operation's context has a deadline.
FairSpec == Spec /\ \A w \in Workers : WF_vars(Step(w))

-----------------------------------------------------------------------------
(* Properties.                                                              *)

HostOK == DOMAIN host \subseteq ID /\ \A i \in DOMAIN host : host[i] \in Container
RowsOK == DOMAIN rows \subseteq ID /\ \A i \in DOMAIN rows : rows[i] \in Row
SweepOK ==
    /\ sweep = [pc |-> sweep.pc, seen |-> sweep.seen, todo |-> sweep.todo]
    /\ sweep.pc \in {"idle", "upsert", "prune", "check"}
    /\ DOMAIN sweep.seen \subseteq ID
    /\ \A i \in DOMAIN sweep.seen : sweep.seen[i] \in Container
    /\ sweep.todo \subseteq DOMAIN sweep.seen

TypeOK ==
    /\ HostOK /\ RowsOK /\ SweepOK
    /\ nextID \in ID
    /\ local \in [Tags -> Images]
    /\ registry \in [Tags -> Images]
    /\ watch \in [Names -> [id : Nat, status : WatchStatus]]
    /\ logged \in [Names -> Ref \cup {Nil}]
    /\ active \in SUBSET Keys
    /\ op \in [Workers -> Op]
    /\ used \in [Bounds -> Nat]
    /\ retired \in [Names -> Images \cup {Nil}]
    /\ reported \subseteq Names
    /\ torn \subseteq Tear
    /\ unlogged \subseteq Names

\* What is set in the call's record by the time it is used.
Working == PCs \ {"idle", "lookup", "begin", "inspect", "done"}
OpShape(o) ==
    /\ o.pc # "idle" => o.id \in ID
    /\ o.pc \notin {"idle", "lookup"} => o.key \in Keys /\ o.target \in Ref
    /\ o.pc = "lookup" /\ o.kind = "update" => o.target \in Ref
    /\ o.pc \notin {"idle", "lookup"} /\ o.kind = "rollback" => o.cur \in Ref
    /\ o.pc \in Working => o.before \in Container
    /\ o.pc \in Working \ {"define"} => o.cur \in Ref
    /\ o.pc = "done" /\ o.outcome = "revert_failed" => o.before \in Container
    /\ o.pc \in {"validate", "start", "wait", "result", "commit", "epilogue",
                 "reread", "record"} => o.new \in ID

\* The operation w runs holds the guard.
Holding(w) == op[w].pc \notin {"idle", "lookup", "begin"}

\* The guard as Update and Rollback use it, on every path: the map holds the
\* keys of the operations in progress and no two of them share one.
KeyHeldOnce ==
    /\ \A w \in Workers : Holding(w) => op[w].key \in active
    /\ \A k \in active : \E w \in Workers : Holding(w) /\ op[w].key = k
    /\ \A v, w \in Workers :
          v # w /\ Holding(v) /\ Holding(w) => op[v].key # op[w].key

\* The inductive invariant of the proofs.
UpdaterInv == TypeOK /\ (\A w \in Workers : OpShape(op[w])) /\ KeyHeldOnce

Guard == INSTANCE OperationGuard WITH
    Keys <- Names \cup 1..MaxID, None <- Nil, maintenance <- FALSE,
    held <- [w \in Workers |-> IF Holding(w) THEN op[w].key ELSE Nil],
    maintainer <- [w \in Workers |-> FALSE]

\* Update and Rollback use the guard as operations.go promises: every return
\* path, also those of a failed revert or of an expired context, releases the
\* key exactly once, and nothing is done under a key that was refused.
ImplementsGuard == Guard!Spec

\* The operation is changing its container or the record of it.
Mutating(w) == op[w].pc \in {"pull", "stop", "remove", "create", "validate",
                             "start", "wait", "result", "commit", "restart",
                             "reread", "record"}

\* The guard's purpose as far as its keys carry it: two operations that were
\* granted a container's name never work on the same container, even when the
\* IDs they were given are stale or were discovered while another one ran.
NamedOperationsAreExclusive ==
    \A v, w \in Workers :
        v # w /\ Mutating(v) /\ Mutating(w) /\ {op[v].key, op[w].key} \subseteq Names
            => op[v].before.name # op[w].before.name

\* operations.go:14: "Operation describes the single destructive operation
\* currently allowed for a container", whatever key each was granted.
OneOperationPerContainer ==
    \A v, w \in Workers :
        v # w /\ Mutating(v) /\ Mutating(w)
            => op[v].before.name # op[w].before.name

Exists(n) == \E i \in DOMAIN host : host[i].name = n

\* Docker removed a container of that name although recreate() was told it
\* had not: the one loss nothing in the code notices.
RemovedUnnoticed(n) == \E t \in torn : t.name = n /\ t.call = "remove"

\* A container never disappears in silence: once no operation is working on
\* it, it is on the host or its revert was reported as failed (the "worst
\* case" of revert), whichever calls failed and whenever the deadline struck.
\* The exception is a removal that was carried out and answered with an error,
\* of an original that was not running: one that had been stopped is started
\* again, and the failure of that is reported.
NoSilentLoss ==
    \A n \in Names : ~Exists(n) =>
        \/ n \in reported
        \/ RemovedUnnoticed(n)
        \/ \E w \in Workers : op[w].before # Nil /\ op[w].before.name = n

\* failBeforeRemoval: an operation that fails before it removed the original
\* leaves that very container, on its image, running if it was running; only
\* a call on that container that was carried out and answered with an error
\* takes this away, a stop the running and a removal the container.
FailureKeepsOriginal ==
    \A w \in Workers :
        LET o == op[w]
            tears == {t \in torn : t.id = o.id}
        IN
        /\ o.pc = "done" /\ o.outcome = "failed" /\ o.before # Nil
        /\ \A t \in tears : t.call = "stop"
        => /\ o.id \in DOMAIN host
           /\ host[o.id].image = o.before.image
           /\ /\ tears = {}
              /\ o.before.state = "running" /\ o.before.image \notin Broken
              => host[o.id].state = "running"

\* An operation that returns success or "reverted" leaves one live container
\* of that name, and the row it recorded, if still there, is that container's.
RecordedMatchesHost ==
    \A w \in Workers : LET o == op[w] IN
        o.pc = "done" /\ o.outcome \in {"ok", "reverted"} =>
            /\ {i \in DOMAIN host : host[i].name = o.before.name} = {o.new}
            /\ o.id \notin DOMAIN rows
            /\ o.new \in DOMAIN rows => rows[o.new].name = o.before.name

\* Update and Rollback record the exact content they retire, and a revert does
\* not change what "previous" means: the Rollback button of a live container,
\* when it is offered, leads back to the image the last successful operation replaced.
PreviousIsRetired ==
    \A i \in DOMAIN rows \cap DOMAIN host :
        rows[i].prev \in {Nil, retired[rows[i].name]}

\* store.go:434: a committed update and its crash-loop watch are one
\* transaction, so no death of the daemon separates them: a container an update
\* left running and recorded is watched from its first moment.
CommittedUpdateIsWatched ==
    \A i \in DOMAIN rows \cap DOMAIN host :
        host[i].by = "update" /\ rows[i].prev # Nil /\ host[i].state = "running"
            => watch[rows[i].name].id = i

\* stableImageReference's invariant, and the recovery that backs it: a name
\* whose row holds a tag loses it to a digest (a revert that could not read the
\* row, a row discovered anew) only with a tag left in its events for
\* RecoverImageReference, so the next check can find updates again, or with a
\* started event of that container that could not be written.
TagIsRecoverable ==
    [][\A i \in DOMAIN rows, j \in DOMAIN rows' :
          LET n == rows[i].name IN
          n = rows'[j].name /\ IsDigestReference(rows'[j].cur)
            => \/ IsDigestReference(rows[i].cur)
               \/ logged[n] # Nil \/ n \in unlogged]_vars

\* PruneContainers' purpose (store.go:268): after a sweep that saw the host as
\* it still is, the table lists exactly the live containers, with no stale row
\* shadowing one of them, whatever operations committed in the meantime and
\* provided none of them lost its container.
DiscoveryConverges ==
    /\ sweep.pc = "check" /\ DOMAIN sweep.seen = DOMAIN host
    /\ active = {} /\ reported = {}
    /\ \A n \in Names : ~RemovedUnnoticed(n)
    => /\ DOMAIN rows = DOMAIN host
       /\ \A i \in DOMAIN host : rows[i].name = host[i].name

\* Every started operation returns and gives its key back.
OperationsReturn ==
    \A w \in Workers : op[w].pc # "idle" ~> op[w].pc = "idle"

-----------------------------------------------------------------------------
(* What the source's comments say and the code does not do.                 *)

\* updater.go:61: "On failure, DoUpRo reverts synchronously to the image the
\* container was running before this call".
RevertRestoresImage ==
    \A w \in Workers : LET o == op[w] IN
        o.pc = "done" /\ o.outcome = "reverted"
            => host[o.new].image = o.before.image

\* updater.go:198: "a revert must not silently blank out the Rollback button's
\* target for this container".
RevertKeepsRollbackTarget ==
    \A w \in Workers : LET o == op[w] IN
        o.pc = "done" /\ o.outcome = "reverted" /\ o.new \in DOMAIN rows
            => rows[o.new].prev = retired[o.before.name]

\* README.md, "Rollback that's always there": every update that succeeded
\* keeps the previous image on record.
UpdateKeepsPrevious ==
    \A w \in Workers : LET o == op[w] IN
        o.pc = "done" /\ o.outcome = "ok"
            => o.new \in DOMAIN rows /\ rows[o.new].prev = o.before.image

\* store.go:435: "A daemon restart can therefore never see the new container
\* without also seeing the protection record".
NewContainerIsWatched ==
    \A i \in DOMAIN rows \cap DOMAIN host :
        host[i].by = "update" /\ host[i].state = "running" /\ active = {}
            => watch[rows[i].name].id = i

\* docker.go:399: without a HEALTHCHECK "the container must still be running,
\* without having restarted, once the window elapses": whenever
\* WaitHealthy would return success, Docker has not restarted the container.
StableWindow ==
    \A w \in Workers : LET i == op[w].new IN
        op[w].pc = "wait" /\ i \in DOMAIN host /\ Healthy(host[i])
            => host[i].image \in Checked \/ host[i].restarts = 0
=============================================================================
