---------------------------- MODULE UpdaterProofs ----------------------------
(***************************************************************************)
(* Proofs about Updater for any containers, images, goroutines and bounds.  *)
(*                                                                         *)
(* Type correctness is not inductive alone: most steps use a field of the   *)
(* call's record (the snapshot, the reference to record, the new ID) that   *)
(* an earlier step set.  OpShape says which fields are set at which program *)
(* counter, and UpdaterInv adds that the guard's map is the set of keys of  *)
(* the operations that hold it.                                             *)
(*                                                                         *)
(* On top of it, in this order: NameInv (keys, rows, listings and snapshots *)
(* of a live container agree on its name), KeysInBounds (for the refinement *)
(* of OperationGuard), LossInv (who answers for a name that is not on the   *)
(* host), OwnInv (what a call that holds a name can rely on), QuietInv (why *)
(* a call holds a name), PrevInv (what the rows call previous), SweepInv    *)
(* (what a sweep's listing says of the table), CalledOnce and TagInv (whose *)
(* references are in whose records) and WatchInv (which containers run).    *)
(***************************************************************************)
EXTENDS Updater, FiniteSetTheorems, TLAPS

OpInv(o) == o \in Op /\ OpShape(o)

\* What recreate() needs of the call when it starts.
Ready(o) ==
    /\ o \in Op
    /\ o.id \in ID /\ o.key \in Keys
    /\ o.target \in Ref /\ o.cur \in Ref /\ o.before \in Container

\* recreate() starts at the pull, or past it for an image ID.
LEMMA BeginRecreateType ==
    ASSUME NEW o, Ready(o)
    PROVE  OpInv(BeginRecreate(o)) /\ OpInv(AfterPull(o))
           /\ BeginRecreate(o).pc \in {"pull", "create", "stop", "remove"}
           /\ AfterPull(o).pc \in {"create", "stop", "remove"}
           /\ BeginRecreate(o).key = o.key /\ AfterPull(o).key = o.key
  BY DEF Ready, OpInv, Op, OpShape, BeginRecreate, AfterPull, WasRunning, PCs,
     Working
\* A failed commit, or a recreate() that failed past the removal, starts the
\* revert under the same key.
LEMMA RevertType ==
    ASSUME NEW o, Ready(o)
    PROVE  OpInv(revert(o)) /\ revert(o).key = o.key
           /\ revert(o).pc \in {"pull", "create", "stop", "remove"}
  <1> DEFINE r == [o EXCEPT !.phase = "revert", !.old = o.new, !.new = 0,
                            !.stopped = FALSE, !.removed = FALSE,
                            !.target = o.before.config]
  <1>1. Ready(r) /\ r.key = o.key
    BY DEF Ready, Op, Container
  <1>2. revert(o) = BeginRecreate(r)
    BY DEF revert
  <1> QED BY <1>1, <1>2, BeginRecreateType

\* Every error return of recreate() keeps the key until finish().
LEMMA RecreateErrorType ==
    ASSUME NEW o, Ready(o)
    PROVE  OpInv(RecreateError(o)) /\ RecreateError(o).key = o.key
           /\ RecreateError(o).pc \notin {"idle", "lookup", "begin"}
  <1>1. CASE o.phase = "revert"
    BY <1>1 DEF Ready, RecreateError, OpInv, Op, OpShape, Working, PCs, Outcomes
  <1>2. CASE o.phase # "revert" /\ o.removed
    BY <1>2, RevertType DEF RecreateError
  <1>3. CASE o.phase # "revert" /\ ~o.removed
    BY <1>3 DEF Ready, RecreateError, OpInv, Op, OpShape, Working, PCs, Outcomes
  <1> QED BY <1>1, <1>2, <1>3

\* At every program counter inside recreate() and after it the call is ready.
LEMMA WorkingIsReady ==
    ASSUME NEW o, OpInv(o), o.pc \in Working \ {"define"}
    PROVE  Ready(o)
  BY DEF OpInv, Ready, OpShape, Working, PCs

-----------------------------------------------------------------------------
\* What a step of worker w must establish of its new record: it is well formed
\* and the guard's map changes with it.
Moves(w, o) ==
    /\ OpInv(o)
    /\ Become(w, o)
    /\ \/ /\ o.pc \in {"idle", "lookup", "begin"} /\ ~Holding(w)
          /\ active' = active
       \/ /\ o.pc \notin {"idle", "lookup", "begin"} /\ ~Holding(w)
          /\ o.key \notin active /\ active' = active \cup {o.key}
       \/ /\ o.pc \notin {"idle", "lookup", "begin"} /\ Holding(w)
          /\ o.key = op[w].key /\ active' = active
       \/ /\ o = Idle /\ Holding(w)
          /\ active' = active \ {op[w].key}

OpsOK == op \in [Workers -> Op] /\ (\A w \in Workers : OpShape(op[w]))

\* A step of that form keeps the records well formed and the guard exclusive.
LEMMA MovesType ==
    ASSUME OpsOK, KeyHeldOnce, NEW w \in Workers, NEW o, Moves(w, o)
    PROVE  OpsOK' /\ KeyHeldOnce'
  <1>1. op' = [op EXCEPT ![w] = o] /\ o \in Op /\ OpShape(o)
    BY DEF Moves, Become, OpInv
  <1>2. op'[w] = o /\ \A v \in Workers : v # w => op'[v] = op[v]
    BY <1>1 DEF OpsOK
  <1>3. OpsOK'
    BY <1>1, <1>2 DEF OpsOK
  <1>4. \A v \in Workers : v # w => (Holding(v)' <=> Holding(v))
    BY <1>2 DEF Holding
  <1>5. Holding(w)' <=> o.pc \notin {"idle", "lookup", "begin"}
    BY <1>2 DEF Holding
  <1>6. CASE ~Holding(w) /\ active' = active /\ ~Holding(w)'
    BY <1>2, <1>3, <1>4, <1>6 DEF KeyHeldOnce, Holding
  <1>7. CASE ~Holding(w) /\ o.key \notin active /\ active' = active \cup {o.key}
             /\ Holding(w)'
    <2>1. \A v \in Workers : v # w /\ Holding(v)' => op'[v].key # o.key
      BY <1>2, <1>4, <1>7 DEF KeyHeldOnce
    <2> QED BY <1>2, <1>3, <1>4, <1>7, <2>1 DEF KeyHeldOnce, Holding
  <1>8. CASE Holding(w) /\ o.key = op[w].key /\ active' = active /\ Holding(w)'
    BY <1>2, <1>3, <1>4, <1>8 DEF KeyHeldOnce, Holding
  <1>9. CASE Holding(w) /\ active' = active \ {op[w].key} /\ ~Holding(w)'
    BY <1>2, <1>3, <1>4, <1>9 DEF KeyHeldOnce, Holding
  <1>10. o = Idle => o.pc = "idle"
    BY DEF Idle
  <1> QED BY <1>3, <1>5, <1>6, <1>7, <1>8, <1>9, <1>10 DEF Moves
-----------------------------------------------------------------------------
\* Everything but the calls in progress and the guard.
RestOK ==
    /\ HostOK /\ RowsOK /\ SweepOK
    /\ nextID \in ID
    /\ local \in [Tags -> Images]
    /\ registry \in [Tags -> Images]
    /\ watch \in [Names -> [id : Nat, status : WatchStatus]]
    /\ logged \in [Names -> Ref \cup {Nil}]
    /\ used \in [Bounds -> Nat]
    /\ retired \in [Names -> Images \cup {Nil}]
    /\ reported \subseteq Names
    /\ torn \subseteq Tear
    /\ unlogged \subseteq Names

\* The idle record is well formed.
LEMMA IdleType == OpInv(Idle)
  BY DEF OpInv, Idle, Op, OpShape, PCs, Outcomes, DockerStates, Working

\* A call may give up with "failed" at any point after it was let in.
LEMMA FailedType ==
    ASSUME NEW o, OpInv(o), o.pc \notin {"idle", "lookup"}
    PROVE  LET q == [o EXCEPT !.pc = "done", !.outcome = "failed"] IN
           OpInv(q) /\ q.pc = "done" /\ q.key = o.key
  <1> DEFINE q == [o EXCEPT !.pc = "done", !.outcome = "failed"]
  <1>a. o \in Op /\ "done" \in PCs /\ "failed" \in Outcomes
    BY DEF OpInv, PCs, Outcomes
  <1>1. q \in Op
    BY <1>a DEF Op
  <1>2. q.pc = "done" /\ q.outcome = "failed" /\ q.key = o.key /\ q.id = o.id
        /\ q.target = o.target /\ q.cur = o.cur /\ q.kind = o.kind
    BY DEF OpInv, Op
  <1>3. OpShape(q)
    BY <1>2 DEF OpInv, OpShape, Working
  <1> QED BY <1>1, <1>2, <1>3 DEF OpInv

\* Requests, the lookup, the guard and the snapshot move the call forward.
LEMMA EntryMoves ==
    ASSUME OpsOK, RestOK, NEW w \in Workers,
           RequestUpdate(w) \/ RequestRollback(w) \/ LookupUpdate(w)
           \/ LookupRollback(w) \/ beginOperation(w) \/ Inspect(w)
    PROVE  \E o : Moves(w, o)
  <1> DEFINE o == op[w]
  <1>0. OpInv(o) /\ o \in Op
    BY DEF OpsOK, OpInv
  <1>1. CASE RequestUpdate(w)
    <2>a. PICK i \in DOMAIN rows :
            \E r \in {rows[i].cur} \cup {TagRef(t) : t \in Tags}
                     \cup {PinRef(registry[t]) : t \in Tags} :
               Become(w, [Idle EXCEPT !.pc = "lookup", !.kind = "update",
                                      !.id = i, !.target = r])
      BY <1>1 DEF RequestUpdate
    <2>1. PICK r \in {rows[i].cur} \cup {TagRef(t) : t \in Tags}
                     \cup {PinRef(registry[t]) : t \in Tags} :
               Become(w, [Idle EXCEPT !.pc = "lookup", !.kind = "update",
                                      !.id = i, !.target = r])
      BY <2>a
    <2>2. i \in ID /\ r \in Ref
      BY DEF RestOK, RowsOK, Row, TagRef, PinRef, Ref
    <2> DEFINE p == [Idle EXCEPT !.pc = "lookup", !.kind = "update",
                                 !.id = i, !.target = r]
    <2>3. OpInv(p) /\ p.pc = "lookup"
      BY <2>2 DEF OpInv, Op, OpShape, Idle, PCs, Outcomes, Working, ID,
         DockerStates
    <2>4. Moves(w, p)
      BY <1>1, <2>1, <2>3 DEF RequestUpdate, Moves, Holding
    <2> QED BY <2>4
  <1>2. CASE RequestRollback(w)
    <2>1. PICK i \in DOMAIN rows :
               Become(w, [Idle EXCEPT !.pc = "lookup", !.kind = "rollback",
                                      !.id = i])
      BY <1>2 DEF RequestRollback
    <2>2. i \in ID
      BY DEF RestOK, RowsOK
    <2> DEFINE p == [Idle EXCEPT !.pc = "lookup", !.kind = "rollback", !.id = i]
    <2>3. OpInv(p) /\ p.pc = "lookup"
      BY <2>2 DEF OpInv, Op, OpShape, Idle, PCs, Outcomes, Working, ID,
         DockerStates
    <2>4. Moves(w, p)
      BY <1>2, <2>1, <2>3 DEF RequestRollback, Moves, Holding
    <2> QED BY <2>4
  <1>3. CASE LookupUpdate(w)
    <2>1. PICK k : k \in Keys /\ Become(w, [o EXCEPT !.pc = "begin", !.key = k])
      BY <1>0, <1>3 DEF LookupUpdate, Succeeds, RestOK, RowsOK, Row, Keys, OpInv,
         OpShape
    <2> DEFINE p == [o EXCEPT !.pc = "begin", !.key = k]
    <2>2. OpInv(p) /\ p.pc = "begin"
      BY <1>0, <1>3, <2>1 DEF LookupUpdate, OpInv, Op, OpShape, PCs, Working
    <2>3. Moves(w, p)
      BY <1>3, <2>1, <2>2 DEF LookupUpdate, Moves, Holding
    <2> QED BY <2>3
  <1>4. CASE LookupRollback(w)
    <2> DEFINE p == [o EXCEPT !.pc = "begin", !.key = rows[o.id].name,
                              !.target = IdRef(rows[o.id].prev),
                              !.cur = rows[o.id].cur]
    <2>1. CASE /\ o.id \in DOMAIN rows /\ rows[o.id].prev # Nil
               /\ Become(w, p)
      <3>1. rows[o.id].name \in Keys /\ rows[o.id].cur \in Ref
            /\ IdRef(rows[o.id].prev) \in Ref
        BY <2>1 DEF RestOK, RowsOK, Row, Keys, IdRef, Ref
      <3>2. OpInv(p) /\ p.pc = "begin"
        BY <1>0, <1>4, <3>1 DEF LookupRollback, OpInv, Op, OpShape, PCs, Working
      <3>3. Moves(w, p)
        BY <1>4, <2>1, <3>2 DEF LookupRollback, Moves, Holding
      <3> QED BY <3>3
    <2>2. CASE Become(w, Idle)
      <3>1. Moves(w, Idle)
        BY <1>4, <2>2, IdleType DEF LookupRollback, Moves, Holding, Idle
      <3> QED BY <3>1
    <2> QED BY <1>4, <2>1, <2>2 DEF LookupRollback, Succeeds
  <1>5. CASE beginOperation(w)
    <2> DEFINE p == [o EXCEPT !.pc = "inspect"]
    <2>1. OpInv(p) /\ p.pc = "inspect" /\ p.key = o.key
      BY <1>0, <1>5 DEF beginOperation, OpInv, Op, OpShape, PCs, Working
    <2>2. CASE o.key \in active
      <3>1. Moves(w, Idle)
        BY <1>5, <2>2, IdleType DEF beginOperation, Moves, Holding, Idle
      <3> QED BY <3>1
    <2>3. CASE o.key \notin active
      <3>1. Moves(w, p)
        BY <1>5, <2>1, <2>3 DEF beginOperation, Moves, Holding
      <3> QED BY <3>1
    <2> QED BY <2>2, <2>3
  <1>6. CASE Inspect(w)
    <2> DEFINE p == [o EXCEPT !.pc = "define", !.before = host[o.id]]
               q == [o EXCEPT !.pc = "done", !.outcome = "failed"]
    <2>0. o.pc = "inspect"
      BY <1>6 DEF Inspect
    <2>1. o.id \in DOMAIN host => OpInv(p) /\ p.pc = "define" /\ p.key = o.key
      BY <1>0, <1>6 DEF Inspect, RestOK, HostOK, OpInv, Op, OpShape, PCs, Working
    <2>2. OpInv(q) /\ q.pc = "done" /\ q.key = o.key
      BY <1>0, <2>0, FailedType
    <2>3. CASE Become(w, p) /\ o.id \in DOMAIN host
      <3>1. Moves(w, p)
        BY <1>6, <2>1, <2>3 DEF Inspect, Moves, Holding
      <3> QED BY <3>1
    <2>4. CASE Become(w, q)
      <3>1. Moves(w, q)
        BY <1>6, <2>2, <2>4 DEF Inspect, Moves, Holding
      <3> QED BY <3>1
    <2> QED BY <1>6, <2>3, <2>4 DEF Inspect, Succeeds
  <1> QED BY <1>1, <1>2, <1>3, <1>4, <1>5, <1>6
-----------------------------------------------------------------------------
\* A ready call is well formed wherever it is, once its new ID is set where it
\* is used.
LEMMA ReadyShape ==
    ASSUME NEW o, Ready(o), o.pc \notin {"idle", "lookup"},
           o.new \in ID \/ o.pc \notin {"validate", "start", "wait", "result",
                                        "commit", "epilogue", "reread", "record"}
    PROVE  OpInv(o)
  BY DEF Ready, OpInv, OpShape

\* The program counters and outcomes the steps below assign.
LEMMA Labels ==
    /\ {"remove", "create", "validate", "start", "wait", "result", "commit",
        "reread", "record", "epilogue", "restart", "done"} \subseteq PCs
    /\ {"ok", "failed", "reverted", "unrecorded", "revert_failed"}
          \subseteq Outcomes
  BY DEF PCs, Outcomes

\* A call that holds the guard moves to a well-formed record with the same key
\* without touching the map.
LEMMA KeepsKey ==
    ASSUME NEW w \in Workers, NEW p, Holding(w), OpInv(p), Become(w, p),
           p.pc \notin {"idle", "lookup", "begin"}, p.key = op[w].key,
           active' = active
    PROVE  \E o : Moves(w, o)
  <1>1. Moves(w, p)
    BY DEF Moves
  <1> QED BY <1>1

\* Define, the first step after the snapshot.
LEMMA DefineMoves ==
    ASSUME OpsOK, RestOK, NEW w \in Workers, Define(w)
    PROVE  \E o : Moves(w, o)
  <1> DEFINE o == op[w]
             q == [o EXCEPT !.pc = "done", !.outcome = "failed"]
  <1>1. OpInv(o) /\ o \in Op /\ o.pc = "define" /\ Holding(w)
    BY DEF OpsOK, OpInv, Define, Holding
  <1>2. o.id \in ID /\ o.key \in Keys /\ o.target \in Ref /\ o.before \in Container
        /\ (o.kind = "rollback" => o.cur \in Ref)
    BY <1>1 DEF OpInv, OpShape, Working, PCs
  <1>3. PICK cur : cur \in Ref /\ Become(w, StartRecreate(o, cur))
    BY <1>2 DEF Define, Succeeds, RestOK, RowsOK, Row, stableImageReference
  <1> DEFINE p == [o EXCEPT !.cur = cur, !.old = o.id]
  <1>4. p \in Op
    BY <1>1, <1>2, <1>3 DEF Op, ID
  <1>5. Ready(p) /\ p.key = o.key
    BY <1>1, <1>2, <1>3, <1>4 DEF Ready, Op
  <1>6. active' = active /\ (Become(w, q) \/ Become(w, BeginRecreate(p)))
    BY <1>3 DEF Define, StartRecreate
  <1> HIDE DEF p, q
  <1>7. CASE Become(w, q)
    <2>1. OpInv(q) /\ q.pc = "done" /\ q.key = o.key
      BY <1>1, FailedType DEF q
    <2> QED BY <1>1, <1>6, <1>7, <2>1, KeepsKey
  <1>8. CASE Become(w, BeginRecreate(p))
    <2>1. OpInv(BeginRecreate(p)) /\ BeginRecreate(p).key = o.key
          /\ BeginRecreate(p).pc \notin {"idle", "lookup", "begin"}
      BY <1>5, BeginRecreateType
    <2> QED BY <1>1, <1>6, <1>8, <2>1, KeepsKey
  <1> QED BY <1>6, <1>7, <1>8
\* The steps of recreate(): each one goes on, or takes RecreateError.
LEMMA RecreateMoves ==
    ASSUME OpsOK, RestOK, NEW w \in Workers,
           Pull(w) \/ Stop(w) \/ Remove(w) \/ Create(w) \/ Validate(w)
           \/ Start(w) \/ WaitHealthy(w) \/ InspectResult(w)
    PROVE  \E o : Moves(w, o)
  <1> DEFINE o == op[w]
  <1>1. OpInv(o) /\ o \in Op /\ o.pc \in Working \ {"define"} /\ Holding(w)
    BY DEF OpsOK, OpInv, Pull, Stop, Remove, Create, Validate, Start,
       WaitHealthy, InspectResult, Holding, Working, PCs
  <1>2. Ready(o)
    BY <1>1, WorkingIsReady
  <1>3. active' = active
    BY DEF Pull, Stop, Remove, Create, Validate, Start, WaitHealthy,
       InspectResult
  <1>4. CASE Become(w, RecreateError(o))
    <2>1. OpInv(RecreateError(o)) /\ RecreateError(o).key = o.key
          /\ RecreateError(o).pc \notin {"idle", "lookup", "begin"}
      BY <1>2, RecreateErrorType
    <2> QED BY <1>1, <1>3, <1>4, <2>1, KeepsKey
  <1>5. ASSUME NEW p, Become(w, p), Ready(p), p.key = o.key,
               p.pc \notin {"idle", "lookup", "begin"},
               p.new \in ID \/ p.pc \in {"remove", "create"}
        PROVE  \E q : Moves(w, q)
    <2>1. OpInv(p)
      BY <1>5, ReadyShape
    <2> QED BY <1>1, <1>3, <1>5, <2>1, KeepsKey
  <1>6. CASE Pull(w) /\ Become(w, AfterPull(o))
    <2>1. OpInv(AfterPull(o)) /\ AfterPull(o).key = o.key
          /\ AfterPull(o).pc \notin {"idle", "lookup", "begin"}
      BY <1>2, BeginRecreateType
    <2> QED BY <1>1, <1>3, <1>6, <2>1, KeepsKey
  <1>7. CASE Stop(w) /\ Become(w, [o EXCEPT !.pc = "remove", !.stopped = TRUE])
    <2> DEFINE p == [o EXCEPT !.pc = "remove", !.stopped = TRUE]
    <2>1. Ready(p) /\ p.key = o.key /\ p.pc = "remove"
      BY <1>2, Labels DEF Ready, Op
    <2> QED BY <1>5, <1>7, <2>1
  <1>8. CASE Remove(w) /\ Become(w, [o EXCEPT !.pc = "create", !.removed = TRUE])
    <2> DEFINE p == [o EXCEPT !.pc = "create", !.removed = TRUE]
    <2>1. Ready(p) /\ p.key = o.key /\ p.pc = "create"
      BY <1>2, Labels DEF Ready, Op
    <2> QED BY <1>5, <1>8, <2>1
  <1>9. CASE Create(w) /\ Become(w, [o EXCEPT !.pc = "validate", !.new = nextID,
                                              !.state = "created"])
    <2> DEFINE p == [o EXCEPT !.pc = "validate", !.new = nextID,
                              !.state = "created"]
    <2>1. nextID \in ID /\ nextID \in Nat /\ "created" \in DockerStates
      BY DEF RestOK, ID, DockerStates
    <2>2. Ready(p) /\ p.key = o.key /\ p.pc = "validate" /\ p.new \in ID
      BY <1>2, <2>1, Labels DEF Ready, Op
    <2> QED BY <1>5, <1>9, <2>2
  <1>10. o.pc \in {"validate", "start", "wait", "result"} => o.new \in ID
    BY <1>1 DEF OpInv, OpShape
  <1>11. ASSUME NEW r, Ready(r), r.key = o.key, r.new \in ID
         PROVE  Ready(Recreated(r)) /\ Recreated(r).key = o.key
                /\ Recreated(r).new \in ID
                /\ Recreated(r).pc \in {"commit", "reread"}
    BY <1>11, Labels DEF Recreated, Ready, Op
  <1>12. CASE Validate(w) /\ Become(w, IF WasRunning(o)
                                       THEN [o EXCEPT !.pc = "start"]
                                       ELSE Recreated(o))
    <2> DEFINE p == [o EXCEPT !.pc = "start"]
    <2>1. o.new \in ID
      BY <1>10, <1>12 DEF Validate
    <2>2. Ready(p) /\ p.key = o.key /\ p.pc = "start" /\ p.new \in ID
      BY <1>2, <2>1, Labels DEF Ready, Op
    <2>3. Ready(Recreated(o)) /\ Recreated(o).key = o.key
          /\ Recreated(o).new \in ID /\ Recreated(o).pc \in {"commit", "reread"}
      BY <1>2, <1>11, <2>1
    <2>4. Become(w, p) \/ Become(w, Recreated(o))
      BY <1>12
    <2> QED BY <1>5, <2>2, <2>3, <2>4
  <1>13. CASE Start(w) /\ Become(w, [o EXCEPT !.pc = "wait"])
    <2> DEFINE p == [o EXCEPT !.pc = "wait"]
    <2>1. o.new \in ID
      BY <1>10, <1>13 DEF Start
    <2>2. Ready(p) /\ p.key = o.key /\ p.pc = "wait" /\ p.new \in ID
      BY <1>2, <2>1, Labels DEF Ready, Op
    <2> QED BY <1>5, <1>13, <2>2
  <1>14. CASE WaitHealthy(w) /\ Become(w, [o EXCEPT !.pc = "result"])
    <2> DEFINE p == [o EXCEPT !.pc = "result"]
    <2>1. o.new \in ID
      BY <1>10, <1>14 DEF WaitHealthy
    <2>2. Ready(p) /\ p.key = o.key /\ p.pc = "result" /\ p.new \in ID
      BY <1>2, <2>1, Labels DEF Ready, Op
    <2> QED BY <1>5, <1>14, <2>2
  <1>15. CASE InspectResult(w) /\ o.new \in DOMAIN host
              /\ Become(w, Recreated([o EXCEPT !.state = host[o.new].state]))
    <2> DEFINE p == [o EXCEPT !.state = host[o.new].state]
    <2>1. o.new \in ID /\ host[o.new].state \in DockerStates
      BY <1>10, <1>15 DEF InspectResult, RestOK, HostOK, Container
    <2>2. Ready(p) /\ p.key = o.key /\ p.new \in ID
      BY <1>2, <2>1 DEF Ready, Op
    <2>3. Ready(Recreated(p)) /\ Recreated(p).key = o.key
          /\ Recreated(p).new \in ID /\ Recreated(p).pc \in {"commit", "reread"}
      BY <1>11, <2>2
    <2> QED BY <1>5, <1>15, <2>3
  <1> QED BY <1>4, <1>6, <1>7, <1>8, <1>9, <1>12, <1>13, <1>14, <1>15
          DEF Pull, Stop, Remove, Create, Validate, Start, WaitHealthy,
              InspectResult, Succeeds
\* What follows recreate(): the commit, its epilogue, the restart of the
\* original and the record of a revert.
LEMMA ReturnMoves ==
    ASSUME OpsOK, RestOK, NEW w \in Workers,
           Commit(w) \/ Epilogue(w) \/ RestartOriginal(w) \/ Reread(w)
           \/ RecordReverted(w)
    PROVE  \E o : Moves(w, o)
  <1> DEFINE o == op[w]
  <1>1. OpInv(o) /\ o \in Op /\ o.pc \in Working \ {"define"} /\ Holding(w)
    BY DEF OpsOK, OpInv, Commit, Epilogue, RestartOriginal, Reread,
       RecordReverted, Holding, Working, PCs
  <1>2. Ready(o)
    BY <1>1, WorkingIsReady
  <1>3. active' = active
    BY DEF Commit, Epilogue, RestartOriginal, Reread, RecordReverted
  <1>4. CASE Become(w, revert(o))
    BY <1>1, <1>2, <1>3, <1>4, RevertType, KeepsKey
  <1>5. ASSUME NEW p, Become(w, p), Ready(p), p.key = o.key,
               p.pc \notin {"idle", "lookup", "begin"},
               p.new \in ID \/ p.pc = "done"
        PROVE  \E q : Moves(w, q)
    <2>1. OpInv(p)
      BY <1>5, ReadyShape
    <2> QED BY <1>1, <1>3, <1>5, <2>1, KeepsKey
  <1>6. ASSUME NEW pc \in {"done", "epilogue"},
               NEW out \in {"ok", "failed", "reverted", "unrecorded",
                            "revert_failed"},
               o.new \in ID \/ pc = "done",
               Become(w, [o EXCEPT !.pc = pc, !.outcome = out])
        PROVE  \E q : Moves(w, q)
    <2> DEFINE p == [o EXCEPT !.pc = pc, !.outcome = out]
    <2>1. Ready(p) /\ p.key = o.key /\ p.pc = pc /\ p.new = o.new
      BY <1>2, <1>6, Labels DEF Ready, Op
    <2> QED BY <1>5, <1>6, <2>1
  <1>7. CASE Commit(w)
    <2>1. o.new \in ID
      BY <1>1, <1>7 DEF Commit, OpInv, OpShape
    <2>2. PICK pc \in {"done", "epilogue"} :
            Become(w, [o EXCEPT !.pc = pc, !.outcome = "ok"])
            \/ Become(w, revert(o))
      BY <1>7 DEF Commit
    <2> QED BY <1>4, <1>6, <2>1, <2>2
  <1>8. CASE Epilogue(w)
    <2> DEFINE p == [o EXCEPT !.pc = "done"]
    <2>1. Ready(p) /\ p.key = o.key /\ p.pc = "done"
      BY <1>2, Labels DEF Ready, Op
    <2>2. Become(w, p)
      BY <1>8 DEF Epilogue
    <2> QED BY <1>5, <2>1, <2>2
  <1>9. CASE RestartOriginal(w)
    <2>1. Become(w, [o EXCEPT !.pc = "done", !.outcome = "failed"])
          \/ Become(w, [o EXCEPT !.pc = "done", !.outcome = "revert_failed"])
      BY <1>9 DEF RestartOriginal
    <2> QED BY <1>6, <2>1
  <1>10. CASE Reread(w)
    <2>1. o.new \in ID /\ o.before.config \in Ref
      BY <1>1, <1>2, <1>10 DEF Reread, OpInv, OpShape, Ready, Container
    <2>2. PICK pr \in Images \cup {Nil}, c \in Ref :
            Become(w, [o EXCEPT !.pc = "record", !.prev = pr, !.cur = c])
      <3>1. CASE o.id \in DOMAIN rows
        <4>1. rows[o.id].prev \in Images \cup {Nil}
              /\ stableImageReference(o.before.config, rows[o.id].cur) \in Ref
          BY <2>1, <3>1 DEF RestOK, RowsOK, Row, stableImageReference
        <4> QED BY <1>10, <2>1, <4>1 DEF Reread
      <3>2. CASE o.id \notin DOMAIN rows
        BY <1>10, <2>1, <3>2 DEF Reread, Succeeds
      <3> QED BY <3>1, <3>2
    <2> DEFINE p == [o EXCEPT !.pc = "record", !.prev = pr, !.cur = c]
    <2>3. Ready(p) /\ p.key = o.key /\ p.pc = "record" /\ p.new = o.new
      BY <1>2, Labels DEF Ready, Op
    <2> QED BY <1>5, <2>1, <2>2, <2>3
  <1>11. CASE RecordReverted(w)
    <2>1. Become(w, [o EXCEPT !.pc = "done", !.outcome = "reverted"])
          \/ Become(w, [o EXCEPT !.pc = "done", !.outcome = "unrecorded"])
      BY <1>11 DEF RecordReverted
    <2> QED BY <1>6, <2>1
  <1> QED BY <1>7, <1>8, <1>9, <1>10, <1>11

\* finish() gives back exactly the key that was granted.
LEMMA FinishMoves ==
    ASSUME OpsOK, NEW w \in Workers, Finish(w)
    PROVE  Moves(w, Idle)
  BY IdleType DEF Finish, Moves, Holding, OpsOK

\* Every step of a worker moves its call.
LEMMA WorkerMoves ==
    ASSUME OpsOK, RestOK, NEW w \in Workers,
           RequestUpdate(w) \/ RequestRollback(w) \/ Step(w)
    PROVE  \E o : Moves(w, o)
  BY EntryMoves, DefineMoves, RecreateMoves, ReturnMoves, FinishMoves DEF Step
-----------------------------------------------------------------------------
\* A table: rows under Docker IDs.
Table(f, S) == DOMAIN f \subseteq ID /\ \A i \in DOMAIN f : f[i] \in S

\* The partial-function helpers keep a table a table.
LEMMA PutKeepType ==
    ASSUME NEW S, NEW f, Table(f, S)
    PROVE  /\ \A k \in ID : \A v \in S : Table(Put(f, k, v), S)
           /\ \A T : Table(Keep(f, T), S)
  BY DEF Table, Put, Keep

\* Every statement of the containers table yields well-formed rows.
LEMMA StoreType ==
    ASSUME NEW f, Table(f, Row), NEW id \in ID, NEW name \in Names,
           NEW image \in Ref, NEW prev \in Images \cup {Nil}
    PROVE  /\ Table(UpsertSeen(f, id, name, image), Row)
           /\ \A live : Table(PruneContainers(f, live), Row)
           /\ \A old : Table(replaceContainerTx(f, old, id, name, image, prev), Row)
           /\ \A b \in BOOLEAN : Table(SetUpdateAvailable(f, id, b), Row)
           /\ Table(RepairCurrentImage(f, id, image), Row)
  <1>1. Table(UpsertSeen(f, id, name, image), Row)
    <2> DEFINE v == IF id \in DOMAIN f
                    THEN [f[id] EXCEPT !.name = name,
                                       !.cur = stableImageReference(image, @)]
                    ELSE [name |-> name, cur |-> image, prev |-> Nil,
                          avail |-> FALSE]
    <2>1. v \in Row
      BY DEF Table, Row, stableImageReference
    <2>2. UpsertSeen(f, id, name, image) = Put(f, id, v)
      BY DEF UpsertSeen
    <2> QED BY <2>1, <2>2, PutKeepType
  <1>2. \A live : Table(PruneContainers(f, live), Row)
    BY PutKeepType DEF PruneContainers
  <1>3. ASSUME NEW old
        PROVE  Table(replaceContainerTx(f, old, id, name, image, prev), Row)
    <2> DEFINE g == Keep(f, DOMAIN f \ {old})
               v == [name |-> name, cur |-> image, prev |-> prev,
                     avail |-> FALSE]
    <2>1. Table(g, Row)
      BY PutKeepType
    <2>2. v \in Row
      BY DEF Row
    <2>3. Table(Put(g, id, v), Row)
      BY <2>1, <2>2, PutKeepType
    <2> QED BY <2>3 DEF replaceContainerTx
  <1>4. \A b \in BOOLEAN : Table(SetUpdateAvailable(f, id, b), Row)
    BY DEF Table, SetUpdateAvailable, Row
  <1>5. Table(RepairCurrentImage(f, id, image), Row)
    BY DEF Table, RepairCurrentImage, Row
  <1> QED BY <1>1, <1>2, <1>3, <1>4, <1>5

\* A bound's counter stays a number.
LEMMA SpendType ==
    ASSUME RestOK, NEW b \in Bounds,
           NEW max, Spend(b, max)
    PROVE  used' \in [Bounds -> Nat]
  BY DEF RestOK, Spend

Watch == [id : Nat, status : WatchStatus]

\* A call succeeds or fails without disturbing anything but the fault budget.
LEMMA CallType ==
    ASSUME RestOK, NEW w, NEW possible,
           Succeeds(w, possible) \/ Fails(w, possible)
    PROVE  used' \in [Bounds -> Nat]
  BY SpendType DEF RestOK, Succeeds, Fails, Bounds
-----------------------------------------------------------------------------
\* Every step of a worker keeps the host, the store and the history typed.
LEMMA WorkerRest ==
    ASSUME OpsOK, RestOK, NEW w \in Workers,
           RequestUpdate(w) \/ RequestRollback(w) \/ Step(w)
    PROVE  RestOK'
  <1> DEFINE o == op[w]
  <1>0. OpInv(o) /\ o \in Op
    BY DEF OpsOK, OpInv
  <1>a. Table(host, Container) /\ Table(rows, Row)
    BY DEF RestOK, HostOK, RowsOK, Table
  <1>b. o.pc \in Working \ {"define"} => Ready(o)
    BY <1>0, WorkingIsReady
  <1>c. o.pc \in {"commit", "epilogue", "record"} => Ready(o) /\ o.new \in ID
    BY <1>0, <1>b DEF OpInv, OpShape, Working, PCs
  <1>d. ASSUME o.pc \in {"stop", "remove"}, o.old \in DOMAIN host,
               NEW call \in {"stop", "remove"}, Tears(o, call)
        PROVE  torn' \subseteq Tear
    <2>1. o.before.name \in Names /\ o.old \in ID
      BY <1>a, <1>b, <1>d DEF Ready, Working, PCs, Table, Container
    <2> QED BY <1>d, <2>1 DEF Tears, Tear, RestOK
  <1>1. CASE RequestUpdate(w) \/ RequestRollback(w) \/ beginOperation(w)
             \/ LookupUpdate(w) \/ LookupRollback(w)
    <2>1. UNCHANGED <<docker, registry, stored, sweep, history>>
      BY <1>1 DEF RequestUpdate, RequestRollback, beginOperation, LookupUpdate,
         LookupRollback
    <2>2. used' = used \/ Spend("misses", MaxMisses)
          \/ \E possible : Succeeds(w, possible) \/ Fails(w, possible)
      BY <1>1 DEF RequestUpdate, RequestRollback, beginOperation, LookupUpdate,
         LookupRollback
    <2>3. used' \in [Bounds -> Nat]
      BY <2>2, CallType, SpendType DEF RestOK, Bounds
    <2> QED BY <2>1, <2>3 DEF docker, stored, history, RestOK, HostOK, RowsOK,
              SweepOK
  <1>2. CASE Inspect(w) \/ Validate(w) \/ WaitHealthy(w) \/ InspectResult(w)
             \/ Reread(w)
    <2>1. UNCHANGED <<docker, registry, stored, sweep, history>>
      BY <1>2 DEF Inspect, Validate, WaitHealthy, InspectResult, Reread
    <2>2. \E possible : Succeeds(w, possible) \/ Fails(w, possible)
      BY <1>2 DEF Inspect, Validate, WaitHealthy, InspectResult, Reread
    <2> QED BY <2>1, <2>2, CallType DEF docker, stored, history, RestOK,
              HostOK, RowsOK, SweepOK
  <1>3. CASE Define(w)
    <2>1. o.before \in Container /\ o.target \in Ref
          /\ (o.kind = "rollback" => o.cur \in Ref)
      BY <1>0, <1>3 DEF Define, OpInv, OpShape, Working, PCs
    <2>2. logged' \in [Names -> Ref \cup {Nil}]
      BY <1>3, <2>1 DEF Define, LogReferences, RestOK, Container
    <2>3. used' \in [Bounds -> Nat]
      BY <1>3, CallType DEF Define, RestOK
    <2>4. unlogged' \subseteq Names
      BY <1>3, <2>1 DEF Define, RestOK, Container
    <2> QED BY <1>3, <2>2, <2>3, <2>4 DEF Define, docker, RestOK, HostOK,
              RowsOK, SweepOK
  <1>4. CASE Pull(w)
    <2>1. used' \in [Bounds -> Nat]
      BY <1>4, CallType DEF Pull
    <2>2. local' \in [Tags -> Images]
      <3>1. o.target \in Ref
        BY <1>4, <1>b DEF Pull, Working, PCs, Ready
      <3> QED BY <1>4, <3>1 DEF Pull, RestOK, Ref
    <2> QED BY <1>4, <2>1, <2>2 DEF Pull, stored, history, RestOK, HostOK,
              RowsOK, SweepOK
  <1>5. ASSUME Table(host', Container),
               UNCHANGED <<local, registry, stored, sweep, retired, reported,
                           unlogged>>,
               nextID' \in ID, torn' \subseteq Tear,
               \E possible : Succeeds(w, possible) \/ Fails(w, possible)
        PROVE  RestOK'
    BY <1>5, CallType DEF Table, stored, RestOK, HostOK, RowsOK, SweepOK
  <1>6. CASE Stop(w) \/ Start(w) \/ RestartOriginal(w)
    <2>1. Table(host', Container)
      BY <1>6, <1>a DEF Stop, Stopped, Start, RestartOriginal, Table, Container,
         DockerStates
    <2>2. torn' \subseteq Tear
      BY <1>6, <1>d DEF Stop, Start, RestartOriginal, history, RestOK
    <2> QED BY <1>5, <1>6, <2>1, <2>2 DEF Stop, Start, RestartOriginal, RestOK,
              history
  <1>7. CASE Remove(w)
    <2>1. Table(host', Container)
      BY <1>7, <1>a, PutKeepType DEF Remove
    <2>2. torn' \subseteq Tear
      BY <1>7, <1>d DEF Remove, RestOK
    <2> QED BY <1>5, <1>7, <2>1, <2>2 DEF Remove, RestOK
  <1>8. CASE Create(w)
    <2> DEFINE by == IF o.phase = "revert" THEN "revert" ELSE o.kind
               c == [name |-> o.before.name, config |-> o.target,
                     image |-> Resolve(o.target), state |-> "created",
                     restarts |-> 0, by |-> by]
    <2>1. Ready(o)
      BY <1>8, <1>b DEF Create, Working, PCs
    <2>2. Resolve(o.target) \in Images
      BY <2>1 DEF Ready, Resolve, Ref, RestOK
    <2>3. by \in Origins
      BY <1>0 DEF Op, Origins
    <2>4. c \in Container
      BY <2>1, <2>2, <2>3, BoundsAssumption DEF Ready, Container, DockerStates
    <2>5. Table(Put(host, nextID, c), Container)
      BY <1>a, <2>4, PutKeepType DEF RestOK
    <2>6. Table(host', Container)
      BY <1>8, <1>a, <2>5 DEF Create
    <2>7. nextID' \in ID
      BY <1>8 DEF Create, RestOK, ID
    <2> QED BY <1>5, <1>8, <2>6, <2>7 DEF Create, history, RestOK
  <1>9. CASE Commit(w)
    <2>1. Ready(o) /\ o.new \in ID
      BY <1>9, <1>c DEF Commit
    <2>2. Table(Replaced(o, o.before.image), Row)
      BY <1>a, <2>1, StoreType DEF Replaced, Ready, Container
    <2>3. Table(rows', Row)
      BY <1>9, <1>a, <2>2 DEF Commit
    <2>4. watch' \in [Names -> Watch]
      <3> DEFINE n == o.before.name
                 a == [id |-> o.new, status |-> "active"]
                 m == [watch[n] EXCEPT !.status = "manual_rollback"]
                 v == IF o.kind = "update" /\ o.state = "running" THEN a
                      ELSE IF o.kind = "rollback" /\ watch[n].status # "none"
                           THEN m ELSE watch[n]
      <3>1. n \in Names
        BY <2>1 DEF Ready, Container
      <3>2. a \in Watch
        BY <2>1 DEF Watch, WatchStatus, ID
      <3>3. watch \in [Names -> Watch] /\ watch[n] \in Watch
        BY <3>1 DEF RestOK, Watch
      <3>4. m \in Watch
        BY <3>3 DEF Watch, WatchStatus
      <3>5. watch' = [watch EXCEPT ![n] = v] \/ watch' = watch
        BY <1>9 DEF Commit
      <3>6. v \in Watch
        BY <3>2, <3>3, <3>4
      <3> HIDE DEF v, n
      <3> QED BY <3>1, <3>3, <3>5, <3>6
    <2>5. retired' \in [Names -> Images \cup {Nil}]
      BY <1>9, <2>1 DEF Commit, RestOK, Ready, Container
    <2>6. used' \in [Bounds -> Nat]
      BY <1>9, CallType DEF Commit
    <2> QED BY <1>9, <2>3, <2>4, <2>5, <2>6 DEF Commit, docker, Table, RestOK,
              HostOK, RowsOK, SweepOK, Watch
  <1>10. CASE Epilogue(w)
    <2>1. Ready(o) /\ o.new \in ID
      BY <1>10, <1>c DEF Epilogue
    <2>2. Table(SetUpdateAvailable(rows, o.new, TRUE), Row)
      BY <1>a, <2>1, StoreType DEF Ready, Container
    <2>3. Table(rows', Row)
      BY <1>10, <1>a, <2>2 DEF Epilogue
    <2>4. watch' \in [Names -> Watch]
      <3> DEFINE n == o.before.name
                 st == IF watch[n].status = "none" THEN watch[n].status
                       ELSE "not_running"
      <3>1. n \in Names
        BY <2>1 DEF Ready, Container
      <3>2. watch \in [Names -> Watch] /\ watch[n] \in Watch
        BY <3>1 DEF RestOK, Watch
      <3>3. st \in WatchStatus
        BY <3>2 DEF Watch, WatchStatus
      <3>4. [watch[n] EXCEPT !.status = st] \in Watch
        BY <3>2, <3>3 DEF Watch
      <3>5. watch' = [watch EXCEPT ![n].status = st] \/ watch' = watch
        BY <1>10 DEF Epilogue
      <3> HIDE DEF st, n
      <3> QED BY <3>1, <3>2, <3>4, <3>5
    <2>5. used' \in [Bounds -> Nat]
      BY <1>10, CallType DEF Epilogue
    <2> QED BY <1>10, <2>3, <2>4, <2>5 DEF Epilogue, docker, history, Table,
              RestOK, HostOK, RowsOK, SweepOK, Watch
  <1>11. CASE RecordReverted(w)
    <2>1. Ready(o) /\ o.new \in ID /\ o.prev \in Images \cup {Nil}
      BY <1>11, <1>c, <1>0 DEF RecordReverted, Op
    <2>2. Table(Replaced(o, o.prev), Row)
      BY <1>a, <2>1, StoreType DEF Replaced, Ready, Container
    <2>3. Table(rows', Row)
      BY <1>11, <1>a, <2>2 DEF RecordReverted
    <2>4. used' \in [Bounds -> Nat]
      BY <1>11, CallType DEF RecordReverted
    <2> QED BY <1>11, <2>3, <2>4 DEF RecordReverted, docker, history, Table,
              RestOK, HostOK, RowsOK, SweepOK
  <1>12. CASE Finish(w)
    <2>1. o.outcome = "revert_failed" => o.before \in Container
      BY <1>0, <1>12 DEF Finish, OpInv, OpShape
    <2>2. reported' \subseteq Names
      BY <1>12, <2>1 DEF Finish, RestOK, Container
    <2> QED BY <1>12, <2>2 DEF Finish, docker, stored, RestOK, HostOK, RowsOK,
              SweepOK
  <1> QED BY <1>1, <1>2, <1>3, <1>4, <1>6, <1>7, <1>8, <1>9, <1>10, <1>11,
          <1>12 DEF Step
-----------------------------------------------------------------------------
\* A discovery sweep writes only the table, its own state and its bound.
LEMMA SweepRest ==
    ASSUME RestOK, Sweep
    PROVE  RestOK' /\ UNCHANGED <<op, active>>
  <1>1. Table(rows, Row) /\ Table(host, Container)
        /\ Table(sweep.seen, Container)
    BY DEF RestOK, HostOK, RowsOK, SweepOK, Table
  <1>2. CASE SweepList
    <2>1. SweepOK'
      BY <1>1, <1>2 DEF SweepList, SweepOK, Table
    <2>2. used' \in [Bounds -> Nat]
      BY <1>2, SpendType DEF Bounds, SweepList
    <2> QED BY <1>2, <2>1, <2>2 DEF SweepList, docker, stored, history, RestOK,
              HostOK, RowsOK
  <1>3. ASSUME Table(rows', Row), SweepOK',
               UNCHANGED <<docker, registry, watch, logged, active, op, used,
                           history>>
        PROVE  RestOK' /\ UNCHANGED <<op, active>>
    BY <1>3 DEF docker, history, RestOK, HostOK, RowsOK, Table
  <1>4. CASE SweepPrune
    <2>1. Table(rows', Row)
      BY <1>1, <1>4, PutKeepType DEF SweepPrune, PruneContainers
    <2>2. SweepOK'
      <3>1. SweepOK /\ (sweep' = NoSweep
               \/ sweep' = [sweep EXCEPT !.pc = "check",
                                         !.todo = DOMAIN sweep.seen])
        BY <1>4 DEF SweepPrune, RestOK
      <3>2. CASE sweep' = NoSweep
        BY <3>2 DEF SweepOK, NoSweep
      <3>3. CASE sweep' = [sweep EXCEPT !.pc = "check",
                                        !.todo = DOMAIN sweep.seen]
        <4>1. sweep' = [pc |-> "check", seen |-> sweep.seen,
                        todo |-> DOMAIN sweep.seen]
          BY <3>1, <3>3 DEF SweepOK
        <4> QED BY <3>1, <4>1 DEF SweepOK
      <3> QED BY <3>1, <3>2, <3>3
    <2> QED BY <1>3, <1>4, <2>1, <2>2 DEF SweepPrune
  <1>5. ASSUME NEW i \in DOMAIN sweep.seen, SweepUpsert(i)
        PROVE  RestOK' /\ UNCHANGED <<op, active>>
    <2>1. i \in ID /\ sweep.seen[i].name \in Names /\ sweep.seen[i].config \in Ref
      BY <1>1 DEF Table, Container
    <2>2. Table(rows', Row)
      BY <1>1, <1>5, <2>1, StoreType DEF SweepUpsert
    <2>3. SweepOK'
      BY <1>5 DEF SweepUpsert, RestOK, SweepOK
    <2> QED BY <1>3, <1>5, <2>2, <2>3 DEF SweepUpsert
  <1>6. ASSUME NEW i \in DOMAIN sweep.seen, SweepCheck(i)
        PROVE  RestOK' /\ UNCHANGED <<op, active>>
    <2> DEFINE c == sweep.seen[i]
               known == IF i \in DOMAIN rows
                        THEN stableImageReference(c.config, rows[i].cur)
                        ELSE c.config
               recovered == IsDigestReference(known) /\ logged[c.name] # Nil
               ref == IF recovered THEN logged[c.name] ELSE known
               repaired == IF recovered THEN RepairCurrentImage(rows, i, ref)
                           ELSE rows
    <2>1. i \in ID /\ c \in Container /\ c.name \in Names /\ c.config \in Ref
      BY <1>1 DEF Table, Container
    <2>2. known \in Ref
      BY <1>1, <2>1 DEF Table, Row, stableImageReference
    <2>3. logged[c.name] \in Ref \cup {Nil}
      BY <2>1 DEF RestOK
    <2>4. ref \in Ref
      BY <2>2, <2>3
    <2>5. Table(repaired, Row)
      BY <1>1, <2>1, <2>4, StoreType
    <2>6. \A b \in BOOLEAN : Table(SetUpdateAvailable(repaired, i, b), Row)
      <3> HIDE DEF repaired, c
      <3> QED BY <2>1, <2>4, <2>5, StoreType
    <2>7. Table(rows', Row)
      BY <1>6, <2>5, <2>6 DEF SweepCheck
    <2>8. SweepOK'
      <3>1. SweepOK /\ (sweep' = NoSweep
                        \/ sweep' = [sweep EXCEPT !.todo = @ \ {i}])
        BY <1>6 DEF SweepCheck, RestOK
      <3> QED BY <3>1 DEF SweepOK, NoSweep
    <2> QED BY <1>3, <1>6, <2>7, <2>8 DEF SweepCheck
  <1> QED BY <1>2, <1>4, <1>5, <1>6 DEF Sweep

\* Crashes, restarts by Docker, pushes, deadlines and the daemon's death.
LEMMA EnvironmentKeeps ==
    ASSUME OpsOK, RestOK, KeyHeldOnce, Environment
    PROVE  OpsOK' /\ RestOK' /\ KeyHeldOnce'
  <1>1. ASSUME NEW i \in DOMAIN host, ContainerCrash(i) \/ ContainerRestart(i)
        PROVE  OpsOK' /\ RestOK' /\ KeyHeldOnce'
    <2>1. HostOK'
      <3>1. host[i] \in Container
        BY DEF RestOK, HostOK
      <3>2. [host[i] EXCEPT !.state = "exited"] \in Container
            /\ [host[i] EXCEPT !.state = "running"] \in Container
        BY <3>1 DEF Container, DockerStates
      <3>3. host[i].restarts < MaxRestarts =>
              [host[i] EXCEPT !.state = "restarting", !.restarts = @ + 1]
                \in Container
        <4>1. host[i].restarts < MaxRestarts =>
                host[i].restarts + 1 \in 0..MaxRestarts
          BY <3>1, BoundsAssumption DEF Container
        <4>2. "restarting" \in DockerStates
          BY DEF DockerStates
        <4> QED BY <3>1, <4>1, <4>2 DEF Container
      <3>4. \/ host' = [host EXCEPT ![i] = [host[i] EXCEPT !.state = "exited"]]
            \/ host' = [host EXCEPT ![i] = [host[i] EXCEPT !.state = "running"]]
            \/ /\ host[i].restarts < MaxRestarts
               /\ host' = [host EXCEPT ![i] =
                     [host[i] EXCEPT !.state = "restarting", !.restarts = @ + 1]]
        BY <1>1, <3>1 DEF ContainerCrash, ContainerRestart, Container
      <3> QED BY <3>2, <3>3, <3>4 DEF RestOK, HostOK
    <2>2. UNCHANGED <<nextID, local, registry, stored, active, op, sweep, used,
                      history>>
      BY <1>1 DEF ContainerCrash, ContainerRestart
    <2> QED BY <2>1, <2>2 DEF stored, history, RestOK, RowsOK, SweepOK, OpsOK,
              KeyHeldOnce, Holding
  <1>2. ASSUME NEW t \in Tags, NEW c \in Images, Publish(t, c)
        PROVE  OpsOK' /\ RestOK' /\ KeyHeldOnce'
    <2>1. used' \in [Bounds -> Nat]
      BY <1>2, SpendType DEF Bounds, Publish
    <2> QED BY <1>2, <2>1 DEF Publish, docker, stored, history, RestOK, HostOK,
              RowsOK, SweepOK, OpsOK, KeyHeldOnce, Holding
  <1>3. ASSUME NEW w \in Workers, Expire(w)
        PROVE  OpsOK' /\ RestOK' /\ KeyHeldOnce'
    <2>1. used' \in [Bounds -> Nat]
      BY <1>3, SpendType DEF Bounds, Expire
    <2>2. RestOK'
      BY <1>3, <2>1 DEF Expire, docker, stored, history, RestOK, HostOK, RowsOK,
         SweepOK
    <2> DEFINE q == [op[w] EXCEPT !.expired = TRUE]
    <2>3. op[w] \in Op /\ OpShape(op[w])
      BY DEF OpsOK
    <2>4. q \in Op
      BY <2>3 DEF Op
    <2>5. /\ q.pc = op[w].pc /\ q.key = op[w].key /\ q.id = op[w].id
          /\ q.target = op[w].target /\ q.cur = op[w].cur /\ q.new = op[w].new
          /\ q.kind = op[w].kind /\ q.before = op[w].before
          /\ q.outcome = op[w].outcome
      BY <2>3 DEF Op
    <2>6. OpShape(q)
      BY <2>3, <2>5 DEF OpShape
    <2>7. op' = [op EXCEPT ![w] = q] /\ active' = active
      BY <1>3 DEF Expire
    <2>8. Moves(w, q)
      <3> HIDE DEF q
      <3> QED BY <2>4, <2>5, <2>6, <2>7 DEF Moves, OpInv, Become, Holding
    <2> QED BY <2>2, <2>8, MovesType
  <1>4. CASE Exit
    <2>1. used' \in [Bounds -> Nat]
      BY <1>4, SpendType DEF Bounds, Exit
    <2>2. SweepOK'
      BY <1>4 DEF Exit, SweepOK, NoSweep
    <2>3. RestOK'
      BY <1>4, <2>1, <2>2 DEF Exit, docker, stored, history, RestOK, HostOK,
         RowsOK
    <2>4. op' = [w \in Workers |-> Idle] /\ active' = {} /\ Idle.pc = "idle"
      BY <1>4 DEF Exit, Idle
    <2>5. OpsOK' /\ KeyHeldOnce'
      BY <2>4, IdleType DEF OpsOK, OpInv, KeyHeldOnce, Holding
    <2> QED BY <2>3, <2>5
  <1> QED BY <1>1, <1>2, <1>3, <1>4 DEF Environment

\* The host, the table and the empty guard a daemon starts from.
LEMMA UpdaterInit ==
    ASSUME Init
    PROVE  OpsOK /\ RestOK /\ KeyHeldOnce
  <1>1. OpsOK /\ KeyHeldOnce
    <2>1. op = [w \in Workers |-> Idle] /\ active = {} /\ Idle.pc = "idle"
      BY DEF Init, Idle
    <2> QED BY <2>1, IdleType DEF OpsOK, OpInv, KeyHeldOnce, Holding
  <1>2. Cardinality(Names) \in Nat
    BY FiniteAssumption, FS_CardinalityType
  <1>3. local \in [Tags -> Images] /\ registry \in [Tags -> Images]
    BY DEF Init
  <1>4. HostOK
    <2>1. PICK ids \in Bijection(1..Cardinality(Names), Names),
               configs \in [Names -> [kind : {"tag"}, of : Tags]
                                \cup [kind : {"pin"}, of : Images \ Broken]],
               states \in [Names -> {"running", "exited"}] :
          host = [i \in 1..Cardinality(Names) |->
                    LET n == ids[i] IN
                    [name |-> n, config |-> configs[n],
                     image |-> Resolve(configs[n]), state |-> states[n],
                     restarts |-> 0, by |-> "operator"]]
      BY DEF Init
    <2>2. \A i \in 1..Cardinality(Names) : ids[i] \in Names
      BY DEF Bijection, Injection
    <2>3. \A n \in Names : configs[n] \in Ref /\ Resolve(configs[n]) \in Images
      BY <1>3 DEF Ref, Resolve
    <2>4. 1..Cardinality(Names) \subseteq ID
      BY <1>2 DEF ID
    <2>5. \A i \in DOMAIN host : host[i] \in Container
      BY <2>1, <2>2, <2>3, BoundsAssumption DEF Container, DockerStates, Origins
    <2> QED BY <2>1, <2>4, <2>5 DEF HostOK
  <1>5. RowsOK
    BY <1>4 DEF Init, HostOK, RowsOK, Container, Row
  <1>6. SweepOK
    BY DEF Init, SweepOK, NoSweep
  <1>7. nextID \in ID
    BY <1>2 DEF Init, ID
  <1>8. watch \in [Names -> [id : Nat, status : WatchStatus]]
    BY DEF Init, NoWatch, WatchStatus
  <1>9. logged \in [Names -> Ref \cup {Nil}]
        /\ retired \in [Names -> Images \cup {Nil}] /\ reported \subseteq Names
        /\ torn \subseteq Tear /\ unlogged \subseteq Names
    BY DEF Init
  <1>10. used \in [Bounds -> Nat]
    BY DEF Init
  <1> QED BY <1>1, <1>3, <1>4, <1>5, <1>6, <1>7, <1>8, <1>9, <1>10 DEF RestOK
-----------------------------------------------------------------------------
\* UpdaterInv says no more and no less than its three parts: that the guard's
\* map only holds names and IDs follows from who holds its keys.
LEMMA Parts == OpsOK /\ RestOK /\ KeyHeldOnce <=> UpdaterInv
  <1>1. OpsOK /\ KeyHeldOnce => active \in SUBSET Keys
    <2> SUFFICES ASSUME OpsOK, KeyHeldOnce, NEW k \in active PROVE k \in Keys
      OBVIOUS
    <2>1. PICK w \in Workers : Holding(w) /\ op[w].key = k
      BY DEF KeyHeldOnce
    <2> QED BY <2>1 DEF OpsOK, OpShape, Holding
  <1> QED BY <1>1 DEF UpdaterInv, TypeOK, OpsOK, RestOK

\* Every step of every actor keeps UpdaterInv.
LEMMA UpdaterStep ==
    ASSUME UpdaterInv, [Next]_vars
    PROVE  UpdaterInv'
  <1>0. OpsOK /\ RestOK /\ KeyHeldOnce
    BY Parts
  <1>1. OpsOK' /\ RestOK' /\ KeyHeldOnce'
    <2>1. ASSUME NEW w \in Workers,
                 RequestUpdate(w) \/ RequestRollback(w) \/ Step(w)
          PROVE  OpsOK' /\ RestOK' /\ KeyHeldOnce'
      <3>1. PICK o : Moves(w, o)
        BY <1>0, <2>1, WorkerMoves
      <3> QED BY <1>0, <2>1, <3>1, MovesType, WorkerRest
    <2>2. CASE Sweep
      <3>1. RestOK' /\ op' = op /\ active' = active
        BY <1>0, <2>2, SweepRest
      <3> QED BY <1>0, <3>1 DEF OpsOK, KeyHeldOnce, Holding
    <2>3. CASE Environment
      BY <1>0, <2>3, EnvironmentKeeps
    <2>4. CASE UNCHANGED vars
      BY <1>0, <2>4 DEF vars, OpsOK, RestOK, HostOK, RowsOK, SweepOK,
         KeyHeldOnce, Holding
    <2> QED BY <2>1, <2>2, <2>3, <2>4 DEF Next
  <1>2. active' \in SUBSET Keys
    <2> SUFFICES ASSUME NEW k \in active' PROVE k \in Keys
      OBVIOUS
    <2>1. PICK w \in Workers : Holding(w)' /\ op'[w].key = k
      BY <1>1 DEF KeyHeldOnce
    <2> QED BY <1>1, <2>1 DEF OpsOK, OpShape, Holding
  <1> QED BY <1>1, <1>2 DEF UpdaterInv, TypeOK, OpsOK, RestOK

\* Whatever fails, expires or dies, and however operations, sweeps and the
\* daemon's restarts interleave, every table stays well formed and each field
\* of a call's record is set before the code uses it.
THEOREM UpdaterInvariant ==
    Spec => []UpdaterInv
  <1>1. Init => UpdaterInv
    BY UpdaterInit, Parts
  <1>2. UpdaterInv /\ [Next]_vars => UpdaterInv'
    BY UpdaterStep
  <1> QED BY <1>1, <1>2, PTL DEF Spec

\* Type correctness of the updater, its store and the Docker host it drives.
THEOREM UpdaterTypes ==
    Spec => []TypeOK
  <1>1. UpdaterInv => TypeOK
    BY DEF UpdaterInv
  <1> QED BY <1>1, UpdaterInvariant, PTL

\* beginOperation and finish() on every path of Update and Rollback: the
\* guard's map is exactly the keys of the operations in progress, and no two
\* operations hold the same key.
THEOREM GuardKeysAreExclusive ==
    Spec => []KeyHeldOnce
  <1>1. UpdaterInv => KeyHeldOnce
    BY DEF UpdaterInv
  <1> QED BY <1>1, UpdaterInvariant, PTL
-----------------------------------------------------------------------------
(* Two operations that were granted a name never work on one container.     *)

\* Docker never reuses an ID: all that are on record are older than the next.
OlderIDs ==
    /\ \A i \in DOMAIN host : i < nextID
    /\ \A i \in DOMAIN rows : i < nextID
    /\ \A i \in DOMAIN sweep.seen : i < nextID

\* A container keeps its name, so a row or a listing of a live one has it.
OneName ==
    \A i \in DOMAIN host :
        /\ i \in DOMAIN rows => rows[i].name = host[i].name
        /\ i \in DOMAIN sweep.seen => sweep.seen[i].name = host[i].name

\* The key and the snapshot of the call o agree on the container they name, on
\* a host h whose next ID is n.
CallNamed(o, h, n) ==
    /\ o.id < n /\ o.old < n /\ o.new < n
    /\ o.pc \notin Working \cup {"done"} => o.old = 0 /\ o.new = 0
    /\ o.pc \in {"begin", "inspect"} /\ o.key \in Names /\ o.id \in DOMAIN h
          => o.key = h[o.id].name
    /\ o.pc \in Working /\ o.key \in Names => o.before.name = o.key
    /\ o.pc \in Working => \A i \in {o.id, o.old, o.new} \cap DOMAIN h :
                                h[i].name = o.before.name

CallsAreNamed == \A w \in Workers : CallNamed(op[w], host, nextID)

NameInv == OlderIDs /\ OneName /\ CallsAreNamed

\* The host changes: containers keep their names, and a new one has a new ID.
HostNamed ==
    /\ nextID' \in {nextID, nextID + 1}
    /\ \A i \in DOMAIN host' :
          \/ i \in DOMAIN host /\ host'[i].name = host[i].name
          \/ i = nextID /\ nextID' = nextID + 1

\* The table changes: a row keeps its name or takes that of the container.
RowsNamed ==
    \A i \in DOMAIN rows' :
        \/ i \in DOMAIN rows /\ rows'[i].name = rows[i].name
        \/ i < nextID /\ (i \in DOMAIN host => rows'[i].name = host[i].name)

\* The sweep's listing changes: it is taken from the host.
SeenNamed ==
    \A i \in DOMAIN sweep'.seen :
        \/ i \in DOMAIN sweep.seen /\ sweep'.seen[i].name = sweep.seen[i].name
        \/ i \in DOMAIN host /\ sweep'.seen[i].name = host[i].name

\* The IDs and the names stay as they should under such a step.
LEMMA NamesStep ==
    ASSUME RestOK, RestOK', OlderIDs, OneName, HostNamed, RowsNamed, SeenNamed
    PROVE  OlderIDs' /\ OneName'
  <1>0. nextID \in Nat /\ DOMAIN host' \subseteq Nat /\ DOMAIN rows' \subseteq Nat
        /\ DOMAIN sweep'.seen \subseteq Nat
    BY DEF RestOK, HostOK, RowsOK, SweepOK, ID
  <1>1. \A i \in Nat : i < nextID => i < nextID'
    BY <1>0 DEF HostNamed
  <1>2. nextID' = nextID + 1 => nextID < nextID'
    BY <1>0
  <1>3. \A i \in DOMAIN host' : i < nextID'
    BY <1>0, <1>1, <1>2 DEF HostNamed, OlderIDs
  <1>4. \A i \in DOMAIN rows' : i < nextID /\ (i \in DOMAIN host =>
                                               rows'[i].name = host[i].name)
    BY DEF RowsNamed, OlderIDs, OneName
  <1>5. \A i \in DOMAIN sweep'.seen :
           i < nextID /\ (i \in DOMAIN host => sweep'.seen[i].name = host[i].name)
    BY DEF SeenNamed, OlderIDs, OneName
  <1>6. ~(nextID < nextID)
    BY <1>0
  <1>7. OlderIDs'
    BY <1>0, <1>1, <1>3, <1>4, <1>5 DEF OlderIDs
  <1>8. OneName'
    BY <1>4, <1>5, <1>6 DEF OneName, HostNamed
  <1> QED BY <1>7, <1>8

\* Nothing that happens to the host makes a call's key or snapshot wrong.
LEMMA CallStaysNamed ==
    ASSUME RestOK, HostNamed, NEW o \in Op, CallNamed(o, host, nextID)
    PROVE  CallNamed(o, host', nextID')
  <1>1. {o.id, o.old, o.new} \subseteq Nat /\ nextID \in Nat
    BY DEF Op, RestOK, ID
  <1>2. \A i \in {o.id, o.old, o.new} : i < nextID
    BY DEF CallNamed
  <1>3. \A i \in {o.id, o.old, o.new} : i < nextID' /\ i # nextID
    BY <1>1, <1>2 DEF HostNamed
  <1>4. \A i \in {o.id, o.old, o.new} : i \in DOMAIN host' =>
            i \in DOMAIN host /\ host'[i].name = host[i].name
    BY <1>3 DEF HostNamed
  <1> QED BY <1>3, <1>4 DEF CallNamed

\* One worker's call changes and the others' stay as they are.
LEMMA CallsStep ==
    ASSUME OpsOK, RestOK, HostNamed, CallsAreNamed, NEW w \in Workers, NEW p,
           Become(w, p), CallNamed(p, host', nextID')
    PROVE  CallsAreNamed'
  <1>1. op'[w] = p /\ \A v \in Workers : v # w => op'[v] = op[v]
    BY DEF Become, OpsOK
  <1>2. \A v \in Workers : v # w => CallNamed(op[v], host', nextID')
    BY CallStaysNamed DEF CallsAreNamed, OpsOK
  <1> QED BY <1>1, <1>2 DEF CallsAreNamed

-----------------------------------------------------------------------------
\* p is the call o further on: it names the same container, and works on IDs
\* that o has or on none.
Later(p, o) ==
    /\ p \in Op
    /\ p.pc \in Working \cup {"done"}
    /\ p.id = o.id /\ p.key = o.key /\ p.before = o.before
    /\ p.old \in {o.id, o.old, o.new, 0}
    /\ p.new \in {o.new, 0}

\* From the snapshot on, a call keeps its container.
LEMMA LaterIsNamed ==
    ASSUME RestOK, NEW o \in Op, o.pc \in Working,
           CallNamed(o, host, nextID), NEW p, Later(p, o)
    PROVE  CallNamed(p, host, nextID)
  <1>1. 0 \notin DOMAIN host /\ 0 < nextID
    BY DEF RestOK, HostOK, ID
  <1>2. p.id < nextID /\ p.old < nextID /\ p.new < nextID
    BY <1>1 DEF Later, CallNamed
  <1>3. p.pc \notin {"begin", "inspect"}
    BY DEF Later, Working
  <1> QED BY <1>1, <1>2, <1>3 DEF Later, CallNamed

\* recreate(), its error returns and the revert go on with the same container.
LEMMA RecreateIsLater ==
    ASSUME NEW o \in Op, Ready(o)
    PROVE  /\ Later(AfterPull(o), o)
           /\ Later(BeginRecreate(o), o)
           /\ Later(revert(o), o)
           /\ Later(RecreateError(o), o)
           /\ Later(Recreated(o), o)
  <1>0. Working \cup {"done"} = PCs \ {"idle", "lookup", "begin", "inspect"}
        /\ "done" \in PCs
    BY DEF Working, PCs
  <1>1. ASSUME NEW r \in Op
        PROVE  Later(AfterPull(r), r) /\ Later(BeginRecreate(r), r)
    <2>1. Later(AfterPull(r), r)
      BY <1>0 DEF Later, AfterPull, Op, PCs
    <2>2. Later([r EXCEPT !.pc = "pull"], r)
      BY <1>0 DEF Later, Op, PCs
    <2> QED BY <2>1, <2>2 DEF BeginRecreate
  <1>2. Later(revert(o), o)
    <2> DEFINE r == [o EXCEPT !.phase = "revert", !.old = o.new, !.new = 0,
                              !.stopped = FALSE, !.removed = FALSE,
                              !.target = o.before.config]
    <2>1. r \in Op /\ r.id = o.id /\ r.key = o.key /\ r.before = o.before
          /\ r.old = o.new /\ r.new = 0
      BY DEF Ready, Op, Container
    <2>2. revert(o) = BeginRecreate(r)
      BY DEF revert
    <2> HIDE DEF r
    <2>3. Later(BeginRecreate(r), r)
      BY <1>1, <2>1
    <2> QED BY <2>1, <2>2, <2>3 DEF Later
  <1>3. ASSUME NEW out \in Outcomes
        PROVE  Later([o EXCEPT !.pc = "done", !.outcome = out], o)
    BY <1>0, <1>3 DEF Later, Op
  <1>4. Later([o EXCEPT !.pc = "restart"], o)
    BY <1>0 DEF Later, Op, PCs
  <1>5. Later(RecreateError(o), o)
    BY <1>2, <1>3, <1>4, Labels DEF RecreateError
  <1>6. Later(Recreated(o), o)
    BY <1>0 DEF Later, Recreated, Op, PCs
  <1> QED BY <1>1, <1>2, <1>5, <1>6
-----------------------------------------------------------------------------
\* The idle record names nothing.
LEMMA IdleIsNamed ==
    ASSUME RestOK
    PROVE  CallNamed(Idle, host, nextID)
  BY DEF CallNamed, Idle, Working, RestOK, ID

\* Requests, lookups, the guard and the snapshot: the key is the name of the
\* row, the row's name is the container's, and so is the snapshot's.  The raw
\* ID that stands in for a failed lookup is no name.
LEMMA EntryIsNamed ==
    ASSUME OpsOK, RestOK, NameInv, NEW w \in Workers,
           RequestUpdate(w) \/ RequestRollback(w) \/ LookupUpdate(w)
           \/ LookupRollback(w) \/ beginOperation(w) \/ Inspect(w)
    PROVE  \E p : Become(w, p) /\ CallNamed(p, host, nextID)
  <1> DEFINE o == op[w]
  <1>0. o \in Op /\ OpShape(o) /\ CallNamed(o, host, nextID)
    BY DEF OpsOK, NameInv, CallsAreNamed
  <1>a. 0 < nextID /\ 0 \notin DOMAIN host
    BY DEF RestOK, HostOK, ID
  <1>b. o.id < nextID
    BY <1>0 DEF CallNamed
  <1>c. {"idle", "lookup", "begin", "inspect"} \cap (Working \cup {"done"}) = {}
    BY DEF Working
  <1>1. CASE RequestUpdate(w) \/ RequestRollback(w)
    <2>1. PICK i, k, r :
            /\ i \in DOMAIN rows
            /\ \/ Become(w, [Idle EXCEPT !.pc = "lookup", !.kind = k,
                                         !.id = i, !.target = r])
               \/ Become(w, [Idle EXCEPT !.pc = "lookup", !.kind = k, !.id = i])
      BY <1>1 DEF RequestUpdate, RequestRollback
    <2>2. i < nextID
      BY <2>1 DEF NameInv, OlderIDs
    <2>3. ASSUME NEW p, p.pc = "lookup", p.id = i, p.old = 0, p.new = 0
          PROVE  CallNamed(p, host, nextID)
      BY <1>a, <1>c, <2>2, <2>3 DEF CallNamed
    <2>4. CallNamed([Idle EXCEPT !.pc = "lookup", !.kind = k, !.id = i,
                                 !.target = r], host, nextID)
      BY <2>3 DEF Idle
    <2>5. CallNamed([Idle EXCEPT !.pc = "lookup", !.kind = k, !.id = i],
                    host, nextID)
      BY <2>3 DEF Idle
    <2> QED BY <2>1, <2>4, <2>5
  <1>2. CASE LookupUpdate(w) \/ LookupRollback(w)
    <2>0. o.pc = "lookup" /\ o.old = 0 /\ o.new = 0 /\ o.id \in ID
      BY <1>0, <1>2, <1>c DEF LookupUpdate, LookupRollback, CallNamed, OpShape
    <2>1. ASSUME NEW p, p.pc = "begin", p.id = o.id, p.old = 0, p.new = 0,
                 (p.key = rows[o.id].name /\ o.id \in DOMAIN rows) \/ p.key = o.id
          PROVE  CallNamed(p, host, nextID)
      <3>1. p.key \in Names /\ p.id \in DOMAIN host => p.key = host[p.id].name
        BY <2>0, <2>1, KeysAssumption DEF NameInv, OneName
      <3> QED BY <1>a, <1>b, <1>c, <2>1, <3>1 DEF CallNamed
    <2>2. CASE LookupUpdate(w)
      <3>1. PICK k : Become(w, [o EXCEPT !.pc = "begin", !.key = k])
                /\ ((k = rows[o.id].name /\ o.id \in DOMAIN rows) \/ k = o.id)
        BY <2>2 DEF LookupUpdate, Succeeds
      <3> DEFINE p == [o EXCEPT !.pc = "begin", !.key = k]
      <3>2. p.pc = "begin" /\ p.id = o.id /\ p.old = 0 /\ p.new = 0 /\ p.key = k
        BY <1>0, <2>0 DEF Op
      <3> HIDE DEF p
      <3>3. CallNamed(p, host, nextID)
        BY <2>1, <3>1, <3>2
      <3> QED BY <3>1, <3>3 DEF p
    <2>3. CASE LookupRollback(w)
      <3> DEFINE p == [o EXCEPT !.pc = "begin", !.key = rows[o.id].name,
                                !.target = IdRef(rows[o.id].prev),
                                !.cur = rows[o.id].cur]
      <3>1. (Become(w, p) /\ o.id \in DOMAIN rows) \/ Become(w, Idle)
        BY <2>3 DEF LookupRollback, Succeeds
      <3>2. p.pc = "begin" /\ p.id = o.id /\ p.old = 0 /\ p.new = 0
            /\ p.key = rows[o.id].name
        BY <1>0, <2>0 DEF Op
      <3> HIDE DEF p
      <3>3. o.id \in DOMAIN rows => CallNamed(p, host, nextID)
        BY <2>1, <3>2
      <3> QED BY <3>1, <3>3, IdleIsNamed
    <2> QED BY <1>2, <2>2, <2>3
  <1>3. CASE beginOperation(w)
    <2> DEFINE p == [o EXCEPT !.pc = "inspect"]
    <2>1. Become(w, p) \/ Become(w, Idle)
      BY <1>3 DEF beginOperation
    <2>2. o.pc = "begin" /\ o.old = 0 /\ o.new = 0
      BY <1>0, <1>3, <1>c DEF beginOperation, CallNamed
    <2>3. p.pc = "inspect" /\ p.id = o.id /\ p.old = 0 /\ p.new = 0
          /\ p.key = o.key
      BY <1>0, <2>2 DEF Op
    <2> HIDE DEF p
    <2>4. CallNamed(p, host, nextID)
      BY <1>0, <1>c, <2>2, <2>3 DEF CallNamed
    <2> QED BY <2>1, <2>4, IdleIsNamed
  <1>4. CASE Inspect(w)
    <2> DEFINE p == [o EXCEPT !.pc = "define", !.before = host[o.id]]
               q == [o EXCEPT !.pc = "done", !.outcome = "failed"]
    <2>1. (Become(w, p) /\ o.id \in DOMAIN host) \/ Become(w, q)
      BY <1>4 DEF Inspect, Succeeds
    <2>2. o.pc = "inspect" /\ o.old = 0 /\ o.new = 0
      BY <1>0, <1>4, <1>c DEF Inspect, CallNamed
    <2>3. p.pc = "define" /\ p.id = o.id /\ p.old = 0 /\ p.new = 0 /\ p.key = o.key
          /\ p.before = host[o.id]
      BY <1>0, <2>2 DEF Op
    <2>4. q.pc = "done" /\ q.id = o.id /\ q.old = 0 /\ q.new = 0
      BY <1>0, <2>2 DEF Op
    <2>5. "define" \in Working
      BY DEF Working, PCs
    <2> HIDE DEF p, q
    <2>6. o.id \in DOMAIN host => CallNamed(p, host, nextID)
      BY <1>0, <1>a, <2>2, <2>3, <2>5 DEF CallNamed
    <2>7. CallNamed(q, host, nextID)
      BY <1>a, <1>b, <2>4 DEF CallNamed, Working
    <2> QED BY <2>1, <2>6, <2>7
  <1> QED BY <1>1, <1>2, <1>3, <1>4

\* From the snapshot to the end of the call every step but the creation keeps
\* the container the call is about.
LEMMA WorkIsLater ==
    ASSUME OpsOK, RestOK, NEW w \in Workers,
           \/ Define(w) \/ Pull(w) \/ Stop(w) \/ Remove(w)
           \/ Create(w) \/ Validate(w) \/ Start(w) \/ WaitHealthy(w)
           \/ InspectResult(w) \/ Commit(w) \/ Epilogue(w)
           \/ RestartOriginal(w) \/ Reread(w) \/ RecordReverted(w)
    PROVE  \/ \E p : Become(w, p) /\ Later(p, op[w])
           \/ Create(w) /\ Become(w, [op[w] EXCEPT !.pc = "validate",
                                       !.new = nextID, !.state = "created"])
  <1> DEFINE o == op[w]
  <1>0. o \in Op /\ OpInv(o)
    BY DEF OpsOK, OpInv
  <1>1. Working \cup {"done"} = PCs \ {"idle", "lookup", "begin", "inspect"}
    BY DEF Working, PCs
  <1>2. ASSUME NEW p, Become(w, p), p \in Op,
               p.pc \notin {"idle", "lookup", "begin", "inspect"},
               p.id = o.id, p.key = o.key, p.before = o.before,
               p.old = o.old, p.new = o.new
        PROVE  \E q : Become(w, q) /\ Later(q, op[w])
    <2>1. p.pc \in PCs
      BY <1>2 DEF Op
    <2>2. Later(p, o)
      BY <1>1, <1>2, <2>1 DEF Later
    <2> QED BY <1>2, <2>2
  <1>3. CASE Define(w)
    <2>1. o.pc = "define"
      BY <1>3 DEF Define
    <2>2. o.id \in ID /\ o.key \in Keys /\ o.target \in Ref
          /\ o.before \in Container /\ (o.kind = "rollback" => o.cur \in Ref)
      BY <1>0, <2>1 DEF OpInv, OpShape, Working, PCs
    <2>3. PICK cur : cur \in Ref /\ Become(w, StartRecreate(o, cur))
      BY <1>3, <2>2 DEF Define, Succeeds, RestOK, RowsOK, Row,
         stableImageReference
    <2> DEFINE r == [o EXCEPT !.cur = cur, !.old = o.id]
               q == [o EXCEPT !.pc = "done", !.outcome = "failed"]
    <2>4. r \in Op /\ r.id = o.id /\ r.key = o.key /\ r.before = o.before
          /\ r.old = o.id /\ r.new = o.new /\ r.target = o.target
          /\ r.cur = cur
      BY <1>0, <2>2, <2>3 DEF Op, ID
    <2>5. Become(w, q) \/ Become(w, BeginRecreate(r))
      BY <2>3 DEF StartRecreate
    <2>6. q \in Op /\ q.pc = "done" /\ q.id = o.id /\ q.key = o.key
          /\ q.before = o.before /\ q.old = o.old /\ q.new = o.new
      BY <1>0, Labels DEF Op
    <2> HIDE DEF r, q
    <2>7. Ready(r)
      BY <2>2, <2>3, <2>4 DEF Ready
    <2>8. Later(BeginRecreate(r), o)
      BY <2>4, <2>7, RecreateIsLater DEF Later
    <2> QED BY <1>2, <2>5, <2>6, <2>8
  <1>4. CASE o.pc \in Working \ {"define"}
    <2>0. Ready(o)
      BY <1>0, <1>4, WorkingIsReady
    <2>1. CASE Become(w, RecreateError(o)) \/ Become(w, AfterPull(o))
               \/ Become(w, Recreated(o)) \/ Become(w, revert(o))
      BY <1>0, <2>0, <2>1, RecreateIsLater
    <2>2. ASSUME NEW pc \in {"remove", "create", "validate", "start", "wait",
                             "result", "epilogue", "done"},
                 NEW p, Become(w, p), NEW out,
                 \/ p = [o EXCEPT !.pc = pc]
                 \/ p = [o EXCEPT !.pc = pc, !.stopped = TRUE]
                 \/ p = [o EXCEPT !.pc = pc, !.removed = TRUE]
                 \/ out \in Outcomes /\ p = [o EXCEPT !.pc = pc, !.outcome = out]
          PROVE  \E q : Become(w, q) /\ Later(q, op[w])
      <3>1. pc \in PCs
        BY <2>2, Labels
      <3>2. p \in Op /\ p.pc = pc /\ p.id = o.id /\ p.key = o.key
            /\ p.before = o.before /\ p.old = o.old /\ p.new = o.new
        <4>1. CASE p = [o EXCEPT !.pc = pc]
          BY <1>0, <3>1, <4>1 DEF Op
        <4>2. CASE \/ p = [o EXCEPT !.pc = pc, !.stopped = TRUE]
                   \/ p = [o EXCEPT !.pc = pc, !.removed = TRUE]
          BY <1>0, <3>1, <4>2 DEF Op
        <4>3. CASE out \in Outcomes /\ p = [o EXCEPT !.pc = pc, !.outcome = out]
          BY <1>0, <3>1, <4>3 DEF Op
        <4> QED BY <2>2, <4>1, <4>2, <4>3
      <3> QED BY <1>2, <2>2, <3>2
    <2>3. CASE Pull(w) \/ Stop(w) \/ Remove(w) \/ Create(w)
      BY <2>1, <2>2, <2>3 DEF Pull, Stop, Remove, Create
    <2>4. CASE Validate(w) \/ Start(w) \/ WaitHealthy(w)
      BY <2>1, <2>2, <2>4 DEF Validate, Start, WaitHealthy
    <2>5. CASE InspectResult(w)
      <3> DEFINE p == [o EXCEPT !.state = host[o.new].state]
      <3>1. CASE o.new \in DOMAIN host /\ Become(w, Recreated(p))
        <4>1. host[o.new].state \in DockerStates
          BY <3>1 DEF RestOK, HostOK, Container
        <4>2. p \in Op /\ p.id = o.id /\ p.key = o.key /\ p.before = o.before
              /\ p.old = o.old /\ p.new = o.new /\ p.target = o.target
              /\ p.cur = o.cur
          BY <1>0, <4>1 DEF Op
        <4> HIDE DEF p
        <4>3. Later(Recreated(p), o)
          BY <2>0, <4>2, RecreateIsLater DEF Ready, Later
        <4> QED BY <3>1, <4>3
      <3> QED BY <2>1, <2>5, <3>1 DEF InspectResult, Succeeds
    <2>6. CASE Commit(w)
      <3>1. PICK pc \in {"done", "epilogue"} :
              Become(w, [o EXCEPT !.pc = pc, !.outcome = "ok"])
              \/ Become(w, revert(o))
        BY <2>6 DEF Commit
      <3> QED BY <2>1, <2>2, <3>1, Labels
    <2>7. CASE Epilogue(w) \/ RestartOriginal(w) \/ RecordReverted(w)
      BY <2>2, <2>7, Labels DEF Epilogue, RestartOriginal, RecordReverted
    <2>8. CASE Reread(w)
      <3>1. o.before.config \in Ref
        BY <2>0 DEF Ready, Container
      <3>2. PICK pr \in Images \cup {Nil}, c \in Ref :
              Become(w, [o EXCEPT !.pc = "record", !.prev = pr, !.cur = c])
        <4>1. CASE o.id \in DOMAIN rows
          <5>1. rows[o.id].prev \in Images \cup {Nil}
                /\ stableImageReference(o.before.config, rows[o.id].cur) \in Ref
            BY <3>1, <4>1 DEF RestOK, RowsOK, Row, stableImageReference
          <5> QED BY <2>8, <3>1, <5>1 DEF Reread
        <4>2. CASE o.id \notin DOMAIN rows
          BY <2>8, <3>1, <4>2 DEF Reread, Succeeds
        <4> QED BY <4>1, <4>2
      <3> DEFINE p == [o EXCEPT !.pc = "record", !.prev = pr, !.cur = c]
      <3>3. p \in Op /\ p.pc = "record" /\ p.id = o.id /\ p.key = o.key
            /\ p.before = o.before /\ p.old = o.old /\ p.new = o.new
        BY <1>0, Labels DEF Op
      <3> QED BY <1>2, <3>2, <3>3
    <2> QED BY <1>4, <2>3, <2>4, <2>5, <2>6, <2>7, <2>8, <1>3
  <1>5. ~Define(w) => o.pc \in Working \ {"define"}
    BY DEF Pull, Stop, Remove, Create, Validate, Start, WaitHealthy,
       InspectResult, Commit, Epilogue, RestartOriginal, Reread,
       RecordReverted, Working, PCs
  <1> QED BY <1>3, <1>4, <1>5
-----------------------------------------------------------------------------
\* A step that leaves the host, the table and the listing alone.
LEMMA NothingRenamed ==
    ASSUME RestOK
    PROVE  /\ UNCHANGED <<host, nextID>> => HostNamed
           /\ UNCHANGED rows => RowsNamed
           /\ UNCHANGED sweep => SeenNamed
  BY DEF HostNamed, RowsNamed, SeenNamed

\* The steps of a worker: only Create adds a container, under the next ID, and
\* no call renames one.
LEMMA WorkerHost ==
    ASSUME OpsOK, RestOK, NEW w \in Workers,
           RequestUpdate(w) \/ RequestRollback(w) \/ Step(w)
    PROVE  HostNamed
  <1>0. \A i \in DOMAIN host : host[i] \in Container
    BY DEF RestOK, HostOK
  <1>1. CASE Stop(w) \/ Start(w) \/ RestartOriginal(w)
    <2>1. PICK j, s : host' = [host EXCEPT ![j].state = s] \/ host' = host
      BY <1>1 DEF Stop, Stopped, Start, RestartOriginal
    <2>2. nextID' = nextID
      BY <1>1 DEF Stop, Start, RestartOriginal
    <2>3. \A i \in DOMAIN host : host'[i].name = host[i].name
      BY <1>0, <2>1 DEF Container
    <2> QED BY <2>1, <2>2, <2>3 DEF HostNamed
  <1>2. CASE Remove(w)
    BY <1>2 DEF Remove, HostNamed, Keep
  <1>3. CASE Create(w)
    <2>1. PICK c : \/ host' = Put(host, nextID, c) /\ nextID' = nextID + 1
                   \/ UNCHANGED <<host, nextID>>
      BY <1>3 DEF Create
    <2> QED BY <2>1 DEF HostNamed, Put
  <1>4. CASE ~(Stop(w) \/ Start(w) \/ RestartOriginal(w) \/ Remove(w) \/ Create(w))
    <2>1. UNCHANGED <<host, nextID>>
      BY <1>4 DEF Step, docker, RequestUpdate, RequestRollback, LookupUpdate,
         LookupRollback, beginOperation, Inspect, Define, Pull, Validate,
         WaitHealthy, InspectResult, Commit, Epilogue, Reread, RecordReverted,
         Finish
    <2> QED BY <2>1, NothingRenamed
  <1> QED BY <1>1, <1>2, <1>3, <1>4

\* The steps of a worker: a row changes its name never, and a new row is the
\* new container's, under the name the snapshot gave it.
LEMMA WorkerRows ==
    ASSUME OpsOK, RestOK, NameInv, NEW w \in Workers,
           RequestUpdate(w) \/ RequestRollback(w) \/ Step(w)
    PROVE  RowsNamed /\ SeenNamed
  <1> DEFINE o == op[w]
  <1>0. o \in Op /\ OpShape(o) /\ CallNamed(o, host, nextID)
    BY DEF OpsOK, NameInv, CallsAreNamed
  <1>1. SeenNamed
    <2>1. UNCHANGED sweep
      BY DEF Step, RequestUpdate, RequestRollback, LookupUpdate,
         LookupRollback, beginOperation, Inspect, Define, Pull, Stop, Remove,
         Create, Validate, Start, WaitHealthy, InspectResult, Commit, Epilogue,
         RestartOriginal, Reread, RecordReverted, Finish
    <2> QED BY <2>1, NothingRenamed
  <1>2. ASSUME NEW prev, rows' = Replaced(o, prev), o.pc \in Working
        PROVE  RowsNamed
    <2>1. o.new < nextID
          /\ (o.new \in DOMAIN host => o.before.name = host[o.new].name)
      BY <1>0, <1>2 DEF CallNamed
    <2>2. \A i \in DOMAIN rows' :
             \/ i = o.new /\ rows'[i].name = o.before.name
             \/ i \in DOMAIN rows /\ rows'[i] = rows[i]
      BY <1>2 DEF Replaced, replaceContainerTx, Put, Keep
    <2> QED BY <2>1, <2>2 DEF RowsNamed
  <1>3. CASE Commit(w) \/ RecordReverted(w)
    <2>1. o.pc \in Working
      BY <1>3 DEF Commit, RecordReverted, Working, PCs
    <2>2. UNCHANGED rows \/ \E prev : rows' = Replaced(o, prev)
      BY <1>3 DEF Commit, RecordReverted
    <2> QED BY <1>1, <1>2, <2>1, <2>2, NothingRenamed
  <1>4. CASE Epilogue(w)
    <2>1. UNCHANGED rows \/ rows' = SetUpdateAvailable(rows, o.new, TRUE)
      BY <1>4 DEF Epilogue
    <2>2. \A i \in DOMAIN rows : rows[i] \in Row
      BY DEF RestOK, RowsOK
    <2>3. rows' = SetUpdateAvailable(rows, o.new, TRUE) => RowsNamed
      BY <2>2 DEF RowsNamed, SetUpdateAvailable, Row
    <2> QED BY <1>1, <2>1, <2>3, NothingRenamed
  <1>5. CASE ~(Commit(w) \/ RecordReverted(w) \/ Epilogue(w))
    <2>1. UNCHANGED rows
      BY <1>5 DEF Step, stored, RequestUpdate, RequestRollback, LookupUpdate,
         LookupRollback, beginOperation, Inspect, Define, Pull, Stop, Remove,
         Create, Validate, Start, WaitHealthy, InspectResult, RestartOriginal,
         Reread, Finish
    <2> QED BY <1>1, <2>1, NothingRenamed
  <1> QED BY <1>1, <1>3, <1>4, <1>5

\* Every step of a worker keeps the names in agreement.
LEMMA WorkerNames ==
    ASSUME OpsOK, RestOK, RestOK', NameInv,
           NEW w \in Workers, RequestUpdate(w) \/ RequestRollback(w) \/ Step(w)
    PROVE  NameInv'
  <1> DEFINE o == op[w]
  <1>0. o \in Op /\ OpShape(o) /\ CallNamed(o, host, nextID)
    BY DEF OpsOK, NameInv, CallsAreNamed
  <1>1. HostNamed /\ RowsNamed /\ SeenNamed
    BY WorkerHost, WorkerRows
  <1>2. OlderIDs' /\ OneName'
    BY <1>1, NamesStep DEF NameInv
  <1>3. ASSUME NEW p \in Op, Become(w, p), CallNamed(p, host, nextID)
        PROVE  CallsAreNamed'
    BY <1>1, <1>3, CallStaysNamed, CallsStep DEF NameInv
  <1>4. CallsAreNamed'
    <2>1. CASE RequestUpdate(w) \/ RequestRollback(w) \/ LookupUpdate(w)
               \/ LookupRollback(w) \/ beginOperation(w) \/ Inspect(w)
      <3>1. PICK p : Become(w, p) /\ CallNamed(p, host, nextID)
        BY <2>1, EntryIsNamed
      <3>2. PICK q : Moves(w, q)
        BY <2>1, EntryMoves
      <3>3. p = q /\ q \in Op
        BY <3>1, <3>2 DEF Moves, Become, OpInv, OpsOK
      <3> QED BY <1>3, <3>1, <3>3
    <2>2. CASE Finish(w)
      <3>1. Become(w, Idle) /\ Idle \in Op
        BY <2>2, IdleType DEF Finish, OpInv
      <3> QED BY <1>3, <3>1, IdleIsNamed
    <2>3. CASE \/ Define(w) \/ Pull(w) \/ Stop(w) \/ Remove(w)
               \/ Create(w) \/ Validate(w) \/ Start(w) \/ WaitHealthy(w)
               \/ InspectResult(w) \/ Commit(w) \/ Epilogue(w)
               \/ RestartOriginal(w) \/ Reread(w) \/ RecordReverted(w)
      <3>0. o.pc \in Working
        BY <2>3 DEF Define, Pull, Stop, Remove, Create, Validate, Start,
           WaitHealthy, InspectResult, Commit, Epilogue, RestartOriginal,
           Reread, RecordReverted, Working, PCs
      <3>1. CASE \E p : Become(w, p) /\ Later(p, o)
        <4>1. PICK p : Become(w, p) /\ Later(p, o)
          BY <3>1
        <4>2. p \in Op /\ CallNamed(p, host, nextID)
          BY <1>0, <3>0, <4>1, LaterIsNamed DEF Later
        <4> QED BY <1>3, <4>1, <4>2
      <3> DEFINE p == [o EXCEPT !.pc = "validate", !.new = nextID,
                                !.state = "created"]
      <3>2. CASE Create(w) /\ Become(w, p)
        <4>1. p.pc = "validate" /\ p.id = o.id /\ p.key = o.key
              /\ p.before = o.before /\ p.old = o.old /\ p.new = nextID
          BY <1>0 DEF Op
        <4> HIDE DEF p
        <4>2. nextID \in Nat /\ o.old \in Nat /\ o.id \in Nat
              /\ o.id < nextID /\ o.old < nextID
          BY <1>0 DEF RestOK, ID, Op, CallNamed
        <4>3. o.key \in Names => o.before.name = o.key
          BY <1>0, <3>0 DEF CallNamed
        <4>4. \/ /\ \E c : host' = Put(host, nextID, c) /\ c.name = o.before.name
                 /\ nextID' = nextID + 1
              \/ Become(w, RecreateError(o))
          BY <3>2 DEF Create
        <4>5. CASE Become(w, RecreateError(o))
          <5>1. Later(RecreateError(o), o)
            BY <1>0, <3>2, WorkingIsReady, RecreateIsLater
               DEF Create, OpInv, Working, PCs
          <5> QED BY <3>1, <4>5, <5>1
        <4>6. CASE /\ \E c : host' = Put(host, nextID, c)
                              /\ c.name = o.before.name
                   /\ nextID' = nextID + 1
          <5>1. nextID < nextID' /\ o.id < nextID' /\ o.old < nextID'
            BY <4>2, <4>6
          <5>2. \A i \in {o.id, o.old, nextID} \cap DOMAIN host' :
                   host'[i].name = o.before.name
            BY <1>0, <3>0, <4>6 DEF Put, CallNamed
          <5>3. p.pc \in Working /\ p.pc \notin {"begin", "inspect"}
            BY <4>1 DEF Working, PCs
          <5>4. CallNamed(p, host', nextID')
            BY <4>1, <4>3, <5>1, <5>2, <5>3 DEF CallNamed
          <5> QED BY <1>1, <3>2, <5>4, CallsStep DEF NameInv
        <4> QED BY <4>4, <4>5, <4>6
      <3> QED BY <2>3, <3>1, <3>2, WorkIsLater
    <2> QED BY <2>1, <2>2, <2>3 DEF Step
  <1> QED BY <1>2, <1>4 DEF NameInv

\* A step that changes no call keeps them named, whatever it does to the host.
LEMMA CallsFrame ==
    ASSUME OpsOK, RestOK, HostNamed, CallsAreNamed, op' = op
    PROVE  CallsAreNamed'
  BY CallStaysNamed DEF CallsAreNamed, OpsOK

\* A discovery sweep copies names from the host to the table.
LEMMA SweepNames ==
    ASSUME OpsOK, RestOK, RestOK', NameInv, Sweep
    PROVE  NameInv'
  <1>0. \A i \in DOMAIN rows : rows[i] \in Row
    BY DEF RestOK, RowsOK
  <1>1. UNCHANGED <<op, host, nextID>>
    BY DEF Sweep, SweepList, SweepPrune, SweepUpsert, SweepCheck, docker
  <1>2. HostNamed
    BY <1>1, NothingRenamed
  <1>3. CallsAreNamed'
    BY <1>1, <1>2, CallsFrame DEF NameInv
  <1>4. SweepOK
    BY DEF RestOK
  <1>5. NoSweep.seen = <<>> /\ DOMAIN (<<>>) = {}
    BY DEF NoSweep
  <1>6. CASE SweepList
    <2>1. RowsNamed
      BY <1>6, NothingRenamed DEF SweepList, stored
    <2>2. SeenNamed
      BY <1>6 DEF SweepList, SeenNamed
    <2> QED BY <1>2, <1>3, <2>1, <2>2, NamesStep DEF NameInv
  <1>7. CASE SweepPrune
    <2>1. RowsNamed
      BY <1>7 DEF SweepPrune, PruneContainers, Keep, RowsNamed
    <2>2. SeenNamed
      BY <1>4, <1>5, <1>7 DEF SweepPrune, SeenNamed, SweepOK
    <2> QED BY <1>2, <1>3, <2>1, <2>2, NamesStep DEF NameInv
  <1>8. ASSUME NEW i \in DOMAIN sweep.seen, SweepUpsert(i)
        PROVE  NameInv'
    <2>1. i < nextID /\ (i \in DOMAIN host =>
                           sweep.seen[i].name = host[i].name)
      BY DEF NameInv, OlderIDs, OneName
    <2>2. \A j \in DOMAIN rows' :
             \/ j = i /\ rows'[j].name = sweep.seen[i].name
             \/ j \in DOMAIN rows /\ rows'[j] = rows[j]
      <3> DEFINE v == IF i \in DOMAIN rows
                      THEN [rows[i] EXCEPT !.name = sweep.seen[i].name,
                              !.cur = stableImageReference(sweep.seen[i].config, @)]
                      ELSE [name |-> sweep.seen[i].name,
                            cur |-> sweep.seen[i].config, prev |-> Nil,
                            avail |-> FALSE]
      <3>1. v.name = sweep.seen[i].name
        BY <1>0 DEF Row
      <3>2. rows' = Put(rows, i, v)
        BY <1>8 DEF SweepUpsert, UpsertSeen
      <3> HIDE DEF v
      <3> QED BY <3>1, <3>2 DEF Put
    <2>3. RowsNamed
      BY <2>1, <2>2 DEF RowsNamed
    <2>4. SeenNamed
      BY <1>4, <1>8 DEF SweepUpsert, SeenNamed, SweepOK
    <2> QED BY <1>2, <1>3, <2>3, <2>4, NamesStep DEF NameInv
  <1>9. ASSUME NEW i \in DOMAIN sweep.seen, SweepCheck(i)
        PROVE  NameInv'
    <2>1. ASSUME NEW f, DOMAIN f = DOMAIN rows,
                 \A j \in DOMAIN f : f[j] \in Row /\ f[j].name = rows[j].name
          PROVE  \A b : /\ DOMAIN SetUpdateAvailable(f, i, b) = DOMAIN rows
                        /\ \A j \in DOMAIN rows :
                             SetUpdateAvailable(f, i, b)[j].name = rows[j].name
      BY <2>1 DEF SetUpdateAvailable, Row
    <2>2. \A r \in Ref :
             /\ DOMAIN RepairCurrentImage(rows, i, r) = DOMAIN rows
             /\ \A j \in DOMAIN rows :
                  /\ RepairCurrentImage(rows, i, r)[j] \in Row
                  /\ RepairCurrentImage(rows, i, r)[j].name = rows[j].name
      BY <1>0 DEF RepairCurrentImage, Row
    <2> DEFINE c == sweep.seen[i]
               known == IF i \in DOMAIN rows
                        THEN stableImageReference(c.config, rows[i].cur)
                        ELSE c.config
               recovered == IsDigestReference(known) /\ logged[c.name] # Nil
               ref == IF recovered THEN logged[c.name] ELSE known
               repaired == IF recovered THEN RepairCurrentImage(rows, i, ref)
                           ELSE rows
    <2>3. recovered => ref \in Ref
      BY DEF RestOK, SweepOK, Container
    <2>4. DOMAIN repaired = DOMAIN rows
          /\ \A j \in DOMAIN rows : repaired[j] \in Row
                                    /\ repaired[j].name = rows[j].name
      BY <1>0, <2>2, <2>3
    <2>5. rows' = repaired \/ \E b : rows' = SetUpdateAvailable(repaired, i, b)
      BY <1>9 DEF SweepCheck
    <2> HIDE DEF repaired
    <2>6. RowsNamed
      BY <2>1, <2>4, <2>5 DEF RowsNamed
    <2>7. SeenNamed
      BY <1>4, <1>5, <1>9 DEF SweepCheck, SeenNamed, SweepOK
    <2> QED BY <1>2, <1>3, <2>6, <2>7, NamesStep DEF NameInv
  <1> QED BY <1>6, <1>7, <1>8, <1>9 DEF Sweep

\* Crashes, restarts, pushes, deadlines and the daemon's death rename nothing.
LEMMA EnvironmentNames ==
    ASSUME OpsOK, RestOK, RestOK', NameInv, Environment
    PROVE  NameInv'
  <1>1. RowsNamed
    BY NothingRenamed DEF Environment, ContainerCrash, ContainerRestart, Publish,
       Expire, Exit, stored
  <1>2. SeenNamed
    <2>1. sweep' = sweep \/ sweep' = NoSweep
      BY DEF Environment, ContainerCrash, ContainerRestart, Publish, Expire, Exit
    <2> QED BY <2>1, NothingRenamed DEF NoSweep, SeenNamed
  <1>3. HostNamed
    <2>1. ASSUME NEW i \in DOMAIN host, ContainerCrash(i) \/ ContainerRestart(i)
          PROVE  HostNamed
      <3>1. host[i] \in Container
        BY DEF RestOK, HostOK
      <3>2. nextID' = nextID
        BY <2>1 DEF ContainerCrash, ContainerRestart
      <3>3. PICK c : host' = [host EXCEPT ![i] = c] /\ c.name = host[i].name
        BY <2>1, <3>1 DEF ContainerCrash, ContainerRestart, Container
      <3> QED BY <3>2, <3>3 DEF HostNamed
    <2> QED BY <2>1, NothingRenamed DEF Environment, Publish, Expire, Exit, docker
  <1>4. OlderIDs' /\ OneName'
    BY <1>1, <1>2, <1>3, NamesStep DEF NameInv
  <1>5. CallsAreNamed'
    <2>1. CASE op' = op
      BY <1>3, <2>1, CallsFrame DEF NameInv
    <2>2. ASSUME NEW w \in Workers, Expire(w)
          PROVE  CallsAreNamed'
      <3> DEFINE p == [op[w] EXCEPT !.expired = TRUE]
      <3>1. op[w] \in Op /\ CallNamed(op[w], host, nextID)
        BY DEF OpsOK, NameInv, CallsAreNamed
      <3>2. p \in Op /\ p.pc = op[w].pc /\ p.id = op[w].id /\ p.key = op[w].key
            /\ p.before = op[w].before /\ p.old = op[w].old
            /\ p.new = op[w].new
        BY <3>1 DEF Op
      <3>3. Become(w, p)
        BY <2>2 DEF Expire, Become
      <3> HIDE DEF p
      <3>4. CallNamed(p, host, nextID)
        BY <3>1, <3>2 DEF CallNamed
      <3> QED BY <1>3, <3>2, <3>3, <3>4, CallStaysNamed, CallsStep DEF NameInv
    <2>3. CASE Exit
      <3>1. \A w \in Workers : op'[w] = Idle
        BY <2>3 DEF Exit
      <3>2. UNCHANGED <<host, nextID>>
        BY <2>3 DEF Exit, docker
      <3>3. CallNamed(Idle, host', nextID')
        BY <3>2, IdleIsNamed
      <3> QED BY <3>1, <3>3 DEF CallsAreNamed
    <2> QED BY <2>1, <2>2, <2>3 DEF Environment, ContainerCrash,
              ContainerRestart, Publish
  <1> QED BY <1>4, <1>5 DEF NameInv

\* The table a daemon starts from lists the host.
LEMMA NamesInit ==
    ASSUME Init
    PROVE  NameInv
  <1>1. RestOK
    BY UpdaterInit
  <1>2. Cardinality(Names) \in Nat /\ nextID = Cardinality(Names) + 1
    BY FiniteAssumption, FS_CardinalityType DEF Init
  <1>3. DOMAIN host = 1..Cardinality(Names)
    BY DEF Init
  <1>4. DOMAIN rows = DOMAIN host /\ \A i \in DOMAIN host :
                                       rows[i].name = host[i].name
    BY DEF Init
  <1>5. DOMAIN sweep.seen = {}
    BY DEF Init, NoSweep
  <1>6. OlderIDs /\ OneName
    BY <1>2, <1>3, <1>4, <1>5 DEF OlderIDs, OneName
  <1>7. \A w \in Workers : op[w] = Idle
    BY DEF Init
  <1>8. CallsAreNamed
    BY <1>1, <1>7, IdleIsNamed DEF CallsAreNamed
  <1> QED BY <1>6, <1>8 DEF NameInv

\* Names and IDs agree between the host, the table, the sweep and the calls in
\* progress, through every recreation, sweep, failure and restart.  A raw ID
\* (the key of an update whose first lookup failed) is no container's name.
THEOREM NamesAgree ==
    Spec => [](UpdaterInv /\ NameInv)
  <1>1. Init => UpdaterInv /\ NameInv
    BY UpdaterInit, Parts, NamesInit
  <1>2. UpdaterInv /\ NameInv /\ [Next]_vars => UpdaterInv' /\ NameInv'
    <2> SUFFICES ASSUME UpdaterInv, NameInv, [Next]_vars
                 PROVE  UpdaterInv' /\ NameInv'
      OBVIOUS
    <2>1. UpdaterInv'
      BY UpdaterStep
    <2>2. OpsOK /\ RestOK /\ RestOK'
      BY <2>1, Parts DEF UpdaterInv, TypeOK, RestOK
    <2>3. CASE UNCHANGED vars
      BY <2>1, <2>3 DEF vars, NameInv, OlderIDs, OneName, CallsAreNamed
    <2>4. CASE Next
      BY <2>1, <2>2, <2>4, WorkerNames, SweepNames, EnvironmentNames DEF Next
    <2> QED BY <2>1, <2>3, <2>4
  <1> QED BY <1>1, <1>2, PTL DEF Spec

\* The guard's purpose: two operations that were granted a container's name
\* never work on the same container, even when the IDs they were given are
\* stale or were discovered while another one ran.
THEOREM NamedOperationsExclude ==
    Spec => []NamedOperationsAreExclusive
  <1>1. UpdaterInv /\ NameInv => NamedOperationsAreExclusive
    <2> SUFFICES ASSUME UpdaterInv, NameInv, NEW v \in Workers, NEW w \in Workers,
                        v # w, Mutating(v), Mutating(w),
                        {op[v].key, op[w].key} \subseteq Names
                 PROVE  op[v].before.name # op[w].before.name
      BY DEF NamedOperationsAreExclusive
    <2>1. Holding(v) /\ Holding(w) /\ op[v].pc \in Working /\ op[w].pc \in Working
      BY DEF Mutating, Holding, Working, PCs
    <2>2. op[v].key # op[w].key
      BY <2>1 DEF UpdaterInv, KeyHeldOnce
    <2>3. op[v].before.name = op[v].key /\ op[w].before.name = op[w].key
      BY <2>1 DEF NameInv, CallsAreNamed, CallNamed
    <2> QED BY <2>2, <2>3
  <1> QED BY <1>1, NamesAgree, PTL
-----------------------------------------------------------------------------
(* The updater implements the guard.                                        *)

\* The key a call asks the guard for is a name or an ID within the bound.
KeyInBounds(o) ==
    /\ o.pc = "lookup" => o.id \in 1..MaxID
    /\ o.pc = "begin" => o.key \in Names \cup 1..MaxID

KeysInBounds == \A w \in Workers : KeyInBounds(op[w])

\* A request is only made while there is room for the IDs it may need.
LEMMA KeysInBoundsStep ==
    ASSUME OpsOK, RestOK, NameInv, KeysInBounds, NEW w \in Workers,
           RequestUpdate(w) \/ RequestRollback(w) \/ Step(w)
    PROVE  KeysInBounds'
  <1> DEFINE o == op[w]
  <1>0. o \in Op /\ OpShape(o) /\ KeyInBounds(o)
    BY DEF OpsOK, KeysInBounds
  <1>1. ASSUME NEW p, Become(w, p), KeyInBounds(p)
        PROVE  KeysInBounds'
    <2>1. op'[w] = p /\ \A v \in Workers : v # w => op'[v] = op[v]
      BY <1>1 DEF Become, OpsOK
    <2> QED BY <1>1, <2>1 DEF KeysInBounds
  <1>2. ASSUME NEW p, Become(w, p), p.pc \notin {"lookup", "begin"}
        PROVE  KeysInBounds'
    BY <1>1, <1>2 DEF KeyInBounds
  <1>3. CASE RequestUpdate(w) \/ RequestRollback(w)
    <2>1. PICK i, k, r :
            /\ i \in DOMAIN rows
            /\ \/ Become(w, [Idle EXCEPT !.pc = "lookup", !.kind = k,
                                         !.id = i, !.target = r])
               \/ Become(w, [Idle EXCEPT !.pc = "lookup", !.kind = k, !.id = i])
      BY <1>3 DEF RequestUpdate, RequestRollback
    <2>2. i \in ID /\ i < nextID /\ nextID \in Nat
      BY <2>1 DEF NameInv, OlderIDs, RestOK, RowsOK, ID
    <2> DEFINE busy == {v \in Workers : op[v].pc # "idle"}
    <2>3. Cardinality(busy) \in Nat
      BY FiniteAssumption, FS_Subset, FS_CardinalityType
    <2>4. nextID + 2 * Cardinality(busy) < MaxID
      BY <1>3 DEF RequestUpdate, RequestRollback, RoomForOne
    <2> HIDE DEF busy
    <2>5. nextID < MaxID
      BY <2>2, <2>3, <2>4, BoundsAssumption
    <2>6. i \in 1..MaxID
      BY <2>2, <2>5, BoundsAssumption DEF ID
    <2>7. KeyInBounds([Idle EXCEPT !.pc = "lookup", !.kind = k,
                                   !.id = i, !.target = r])
      BY <2>6 DEF KeyInBounds, Idle
    <2>8. KeyInBounds([Idle EXCEPT !.pc = "lookup", !.kind = k, !.id = i])
      BY <2>6 DEF KeyInBounds, Idle
    <2> QED BY <1>1, <2>1, <2>7, <2>8
  <1>4. CASE LookupUpdate(w) \/ LookupRollback(w)
    <2>1. o.pc = "lookup" /\ o.id \in 1..MaxID
      BY <1>0, <1>4 DEF LookupUpdate, LookupRollback, KeyInBounds
    <2>2. o.id \in DOMAIN rows => rows[o.id].name \in Names
      BY DEF RestOK, RowsOK, Row
    <2>3. PICK p : Become(w, p) /\ (p.pc = "begin" \/ p = Idle)
                   /\ (p.pc = "begin" => p.key \in Names \cup 1..MaxID)
      <3>1. CASE LookupUpdate(w)
        <4>1. PICK k \in Names \cup 1..MaxID :
                Become(w, [o EXCEPT !.pc = "begin", !.key = k])
          BY <2>1, <2>2, <3>1 DEF LookupUpdate, Succeeds
        <4> DEFINE p == [o EXCEPT !.pc = "begin", !.key = k]
        <4>2. p.pc = "begin" /\ p.key = k
          BY <1>0 DEF Op
        <4> QED BY <4>1, <4>2
      <3>2. CASE LookupRollback(w)
        <4> DEFINE p == [o EXCEPT !.pc = "begin", !.key = rows[o.id].name,
                                  !.target = IdRef(rows[o.id].prev),
                                  !.cur = rows[o.id].cur]
        <4>1. (Become(w, p) /\ o.id \in DOMAIN rows) \/ Become(w, Idle)
          BY <3>2 DEF LookupRollback, Succeeds
        <4>2. p.pc = "begin" /\ p.key = rows[o.id].name
          BY <1>0 DEF Op
        <4>3. Idle.pc # "begin"
          BY DEF Idle
        <4> HIDE DEF p
        <4> QED BY <2>2, <4>1, <4>2, <4>3
      <3> QED BY <1>4, <3>1, <3>2
    <2>4. KeyInBounds(p)
      BY <2>3 DEF KeyInBounds, Idle
    <2> QED BY <1>1, <2>3, <2>4
  <1>5. CASE beginOperation(w) \/ Inspect(w)
    <2>1. PICK p : Become(w, p) /\ p.pc \in {"idle", "inspect", "define", "done"}
      <3> DEFINE a == [o EXCEPT !.pc = "inspect"]
                 b == [o EXCEPT !.pc = "define", !.before = host[o.id]]
                 c == [o EXCEPT !.pc = "done", !.outcome = "failed"]
      <3>1. Become(w, a) \/ Become(w, b) \/ Become(w, c) \/ Become(w, Idle)
        BY <1>5 DEF beginOperation, Inspect
      <3>2. a.pc = "inspect" /\ b.pc = "define" /\ c.pc = "done"
            /\ Idle.pc = "idle"
        BY <1>0 DEF Op, Idle
      <3> HIDE DEF a, b, c
      <3> QED BY <3>1, <3>2
    <2> QED BY <1>2, <2>1
  <1>6. CASE Finish(w)
    <2>1. Become(w, Idle) /\ Idle.pc = "idle"
      BY <1>6 DEF Finish, Idle
    <2> QED BY <1>2, <2>1
  <1>7. CASE \/ Define(w) \/ Pull(w) \/ Stop(w) \/ Remove(w)
             \/ Create(w) \/ Validate(w) \/ Start(w) \/ WaitHealthy(w)
             \/ InspectResult(w) \/ Commit(w) \/ Epilogue(w)
             \/ RestartOriginal(w) \/ Reread(w) \/ RecordReverted(w)
    <2> DEFINE c == [o EXCEPT !.pc = "validate", !.new = nextID,
                              !.state = "created"]
    <2>1. c.pc = "validate"
      BY <1>0 DEF Op
    <2>2. PICK p : Become(w, p) /\ (Later(p, o) \/ p = c)
      BY <1>7, WorkIsLater
    <2>3. p.pc \notin {"lookup", "begin"}
      BY <2>1, <2>2 DEF Later, Working
    <2> QED BY <1>2, <2>2, <2>3
  <1> QED BY <1>3, <1>4, <1>5, <1>6, <1>7 DEF Step

\* What each worker holds, as the guard's specification records it.
Held == [w \in Workers |-> IF Holding(w) THEN op[w].key ELSE Nil]

\* A worker's step is a begin, an end or invisible to the guard.
LEMMA WorkerGuards ==
    ASSUME OpsOK, RestOK, KeyHeldOnce, KeysInBounds, NEW w \in Workers,
           RequestUpdate(w) \/ RequestRollback(w) \/ Step(w)
    PROVE  [Guard!Next]_(Guard!vars)
  <1> DEFINE o == op[w]
  <1>1. PICK p : Moves(w, p)
    BY WorkerMoves
  <1>2. OpsOK' /\ op'[w] = p /\ \A v \in Workers : v # w => op'[v] = op[v]
    <2>1. OpsOK'
      BY <1>1, MovesType
    <2> QED BY <1>1, <2>1 DEF Moves, Become, OpsOK
  <1>3. \A v \in Workers : v # w => Held'[v] = Held[v]
    BY <1>2 DEF Held, Holding
  <1>4. /\ Held[w] = IF Holding(w) THEN o.key ELSE Nil
        /\ Held'[w] = IF Holding(w)' THEN p.key ELSE Nil
    BY <1>2 DEF Held
  <1>5. Holding(w)' <=> p.pc \notin {"idle", "lookup", "begin"}
    BY <1>2 DEF Holding
  <1>6. Held' = [Held EXCEPT ![w] = Held'[w]] /\ DOMAIN Held = Workers
    BY <1>3 DEF Held
  <1>7. CASE active' = active /\ Held'[w] = Held[w]
    <2>1. Held' = Held
      BY <1>3, <1>7 DEF Held
    <2> QED BY <1>7, <2>1 DEF Guard!vars, Held
  <1>8. CASE ~Holding(w) /\ Holding(w)' /\ p.key \notin active
             /\ active' = active \cup {p.key}
    <2>1. active' # active /\ ~(active' \subseteq active)
      BY <1>8
    <2>2. beginOperation(w)
      BY <1>8, <2>1 DEF Step, RequestUpdate, RequestRollback, LookupUpdate,
         LookupRollback, Inspect, Define, Pull, Stop, Remove, Create,
         Validate, Start, WaitHealthy, InspectResult, Commit, Epilogue,
         RestartOriginal, Reread, RecordReverted, Finish
    <2>3. o.pc = "begin" /\ Become(w, [o EXCEPT !.pc = "inspect"])
      BY <2>1, <2>2 DEF beginOperation
    <2>4. p.key = o.key
      BY <1>2, <2>3 DEF Become, OpsOK, Op
    <2>5. p.key \in Names \cup 1..MaxID
      BY <2>3, <2>4 DEF KeysInBounds, KeyInBounds
    <2>6. Held' = [Held EXCEPT ![w] = p.key] /\ Held[w] = Nil
      BY <1>4, <1>6, <1>8
    <2>7. Guard!begin(w, p.key)
      BY <1>8, <2>6 DEF Guard!begin, Guard!Free, Held
    <2>8. Guard!Next
      BY <2>5, <2>7 DEF Guard!Next
    <2> QED BY <2>8
  <1>9. CASE Holding(w) /\ p = Idle /\ active' = active \ {o.key}
    <2>1. ~Holding(w)'
      BY <1>5, <1>9 DEF Idle
    <2>2. o.key \in Keys
      BY <1>9 DEF OpsOK, OpShape, Holding
    <2>3. Held[w] = o.key /\ o.key # Nil /\ Held' = [Held EXCEPT ![w] = Nil]
      BY <1>4, <1>6, <1>9, <2>1, <2>2, KeysAssumption
    <2>4. Guard!end(w)
      BY <1>9, <2>3 DEF Guard!end, Held
    <2>5. Guard!Next
      BY <2>4 DEF Guard!Next
    <2> QED BY <2>5
  <1> QED BY <1>1, <1>4, <1>5, <1>7, <1>8, <1>9 DEF Moves

\* Every step of the updater is a step of the guard or invisible to it.
LEMMA GuardSimulation ==
    ASSUME UpdaterInv, NameInv, KeysInBounds, [Next]_vars
    PROVE  [Guard!Next]_(Guard!vars)
  <1>0. OpsOK /\ RestOK /\ KeyHeldOnce
    BY Parts
  <1>1. CASE UNCHANGED <<op, active>>
    BY <1>1 DEF Guard!vars, Holding
  <1>2. ASSUME NEW w \in Workers,
               RequestUpdate(w) \/ RequestRollback(w) \/ Step(w)
        PROVE  [Guard!Next]_(Guard!vars)
    BY <1>0, <1>2, WorkerGuards
  <1>3. ASSUME NEW w \in Workers, Expire(w)
        PROVE  [Guard!Next]_(Guard!vars)
    <2>1. \A v \in Workers : op'[v].pc = op[v].pc /\ op'[v].key = op[v].key
      BY <1>0, <1>3 DEF Expire, OpsOK, Op
    <2>2. active' = active /\ Held' = Held
      BY <1>3, <2>1 DEF Expire, Held, Holding
    <2> QED BY <2>2 DEF Guard!vars, Held
  <1>4. CASE Exit
    <2>1. active' = {} /\ Held' = [w \in Workers |-> Nil]
      BY <1>4 DEF Exit, Held, Holding, Idle
    <2>2. Guard!Restart
      BY <2>1 DEF Guard!Restart, Held
    <2> QED BY <2>2 DEF Guard!Next
  <1>5. CASE Sweep
    BY <1>0, <1>1, <1>5, SweepRest
  <1>6. CASE Environment
    BY <1>1, <1>3, <1>4, <1>6 DEF Environment, ContainerCrash,
       ContainerRestart, Publish
  <1>7. CASE UNCHANGED vars
    BY <1>1, <1>7 DEF vars
  <1> QED BY <1>2, <1>5, <1>6, <1>7 DEF Next

\* Update and Rollback use the guard as operations.go promises, on every return
\* path, failure, deadline and death of the daemon: the updater's steps are
\* steps of the guard's own specification.
THEOREM UpdaterImplementsGuard ==
    Spec => ImplementsGuard
  <1>1. Init => Guard!Init
    <2> SUFFICES ASSUME Init PROVE Guard!Init
      OBVIOUS
    <2>1. active = {} /\ Held = [w \in Workers |-> Nil]
      BY DEF Init, Held, Holding, Idle
    <2> QED BY <2>1 DEF Guard!Init, Held
  <1>2. Init => KeysInBounds
    BY DEF Init, KeysInBounds, KeyInBounds, Idle
  <1>3. UpdaterInv /\ NameInv /\ KeysInBounds /\ [Next]_vars => KeysInBounds'
    <2> SUFFICES ASSUME UpdaterInv, NameInv, KeysInBounds, [Next]_vars
                 PROVE  KeysInBounds'
      OBVIOUS
    <2>0. OpsOK /\ RestOK
      BY Parts
    <2>1. CASE op' = op
      BY <2>1 DEF KeysInBounds
    <2>2. ASSUME NEW w \in Workers, Expire(w)
          PROVE  KeysInBounds'
      <3>1. \A v \in Workers : op'[v].pc = op[v].pc /\ op'[v].key = op[v].key
                               /\ op'[v].id = op[v].id
        BY <2>0, <2>2 DEF Expire, OpsOK, Op
      <3> QED BY <3>1 DEF KeysInBounds, KeyInBounds
    <2>3. CASE Exit
      BY <2>3 DEF Exit, KeysInBounds, KeyInBounds, Idle
    <2>4. CASE Environment
      BY <2>1, <2>2, <2>3, <2>4 DEF Environment, ContainerCrash,
         ContainerRestart, Publish
    <2>5. CASE Sweep
      BY <2>0, <2>1, <2>5, SweepRest
    <2>6. CASE UNCHANGED vars
      BY <2>1, <2>6 DEF vars
    <2> QED BY <2>0, <2>4, <2>5, <2>6, KeysInBoundsStep DEF Next
  <1>4. UpdaterInv /\ NameInv /\ KeysInBounds /\ [Next]_vars
          => [Guard!Next]_(Guard!vars)
    BY GuardSimulation
  <1> QED BY <1>1, <1>2, <1>3, <1>4, NamesAgree, PTL
          DEF Spec, ImplementsGuard, Guard!Spec
-----------------------------------------------------------------------------
(* No container disappears in silence.                                      *)

\* The call o removed the container named n, or may have without knowing it,
\* and will create or find one of that name, revert, or report that it could
\* not.
Owes(o, n) ==
    /\ o.before # Nil /\ o.before.name = n
    /\ \/ /\ o.pc \in {"pull", "stop", "remove", "create"}
          /\ o.removed \/ o.phase = "revert"
       \/ o.pc = "restart"
       \/ o.pc = "done" /\ o.outcome = "revert_failed"

Answered(n) ==
    \/ n \in reported \/ RemovedUnnoticed(n)
    \/ \E w \in Workers : Owes(op[w], n)

\* Every name of the set S is on the host or answered for.
LossIn(S) == \A n \in S : Exists(n) \/ Answered(n)

LossInv == LossIn(Names)

\* An error of recreate() past the removal reverts, and an error of the revert
\* is the one that is reported.
LEMMA ErrorOwes ==
    ASSUME NEW o, Ready(o), NEW n, o.before.name = n,
           o.removed \/ o.phase = "revert"
    PROVE  Owes(RecreateError(o), n) /\ Owes(revert(o), n)
  <1>0. o \in Op /\ o.before # Nil
    BY KeysAssumption DEF Ready
  <1> DEFINE r == [o EXCEPT !.phase = "revert", !.old = o.new, !.new = 0,
                            !.stopped = FALSE, !.removed = FALSE,
                            !.target = o.before.config]
             d == [o EXCEPT !.pc = "done", !.outcome = "revert_failed"]
  <1>1. r.phase = "revert" /\ r.before = o.before /\ DOMAIN r = DOMAIN o
        /\ "pc" \in DOMAIN r
    BY <1>0 DEF Op
  <1>2. d.pc = "done" /\ d.outcome = "revert_failed" /\ d.before = o.before
    BY <1>0 DEF Op
  <1>3. revert(o) = BeginRecreate(r)
    BY DEF revert
  <1>4. RecreateError(o) = d \/ RecreateError(o) = revert(o)
    BY DEF RecreateError
  <1>5. r \in Op
    BY <1>0 DEF Ready, Op, Container
  <1> HIDE DEF r, d
  <1>6. BeginRecreate(r).pc \in {"pull", "stop", "remove", "create"}
        /\ BeginRecreate(r).phase = r.phase /\ BeginRecreate(r).before = r.before
    BY <1>5 DEF BeginRecreate, AfterPull, Op
  <1>7. Owes(d, n)
    BY <1>0, <1>2 DEF Owes
  <1>8. Owes(revert(o), n)
    BY <1>0, <1>1, <1>3, <1>6 DEF Owes
  <1> QED BY <1>4, <1>7, <1>8

\* The step keeps every container that is on the host, and its name.
HostKept == \A i \in DOMAIN host :
    i \in DOMAIN host' /\ host'[i].name = host[i].name

\* Such a step, of a worker that owes nothing or still does, loses nothing.
LEMMA KeptIsAnswered ==
    ASSUME OpsOK, NEW S, LossIn(S), NEW w \in Workers, NEW p, Become(w, p),
           HostKept, reported \subseteq reported', torn \subseteq torn',
           \A n \in S : Owes(op[w], n) =>
               Owes(p, n) \/ n \in reported' \/ Exists(n)'
    PROVE  LossIn(S)'
  <1>1. op'[w] = p /\ \A v \in Workers : v # w => op'[v] = op[v]
    BY DEF Become, OpsOK
  <1> SUFFICES ASSUME NEW n \in S PROVE Exists(n)' \/ Answered(n)'
    BY DEF LossIn
  <1>2. CASE Exists(n)
    BY <1>2 DEF Exists, HostKept
  <1>3. CASE n \in reported \/ RemovedUnnoticed(n)
    BY <1>3 DEF Answered, RemovedUnnoticed
  <1>4. ASSUME NEW v \in Workers, Owes(op[v], n)
        PROVE  Exists(n)' \/ Answered(n)'
    BY <1>1, <1>4 DEF Answered
  <1> QED BY <1>2, <1>3, <1>4 DEF LossIn, Answered

\* The history only grows.
LEMMA TornGrows ==
    ASSUME NEW w \in Workers, RequestUpdate(w) \/ RequestRollback(w) \/ Step(w)
    PROVE  torn \subseteq torn'
  <1>1. CASE Stop(w) \/ Remove(w)
    BY <1>1 DEF Stop, Remove, Tears
  <1>2. CASE ~(Stop(w) \/ Remove(w))
    BY <1>2 DEF Step, history, RequestUpdate, RequestRollback,
       LookupUpdate, LookupRollback, beginOperation, Inspect, Define, Pull,
       Create, Validate, Start, WaitHealthy, InspectResult, Commit, Epilogue,
       RestartOriginal, Reread, RecordReverted, Finish
  <1> QED BY <1>1, <1>2

\* The steps of a worker.
LEMMA WorkerLosesNothing ==
    ASSUME OpsOK, RestOK, NameInv, NEW S, LossIn(S), NEW w \in Workers,
           RequestUpdate(w) \/ RequestRollback(w) \/ Step(w)
    PROVE  LossIn(S)'
  <1> DEFINE o == op[w]
             owing == {"pull", "stop", "remove", "create", "restart", "done"}
  <1>0. o \in Op /\ OpInv(o) /\ CallNamed(o, host, nextID)
    BY DEF OpsOK, OpInv, NameInv, CallsAreNamed
  <1>a. \A i \in DOMAIN host : host[i] \in Container /\ i < nextID /\ i \in Nat
    BY DEF RestOK, HostOK, NameInv, OlderIDs, ID
  <1>b. nextID \in Nat
    BY DEF RestOK, ID
  <1>c. o.pc \in {"pull", "stop", "remove", "create"} => Ready(o)
    BY <1>0, WorkingIsReady DEF Working, PCs
  <1>d. \A n : Owes(o, n) /\ o.pc \notin {"restart", "done"} =>
          o.before.name = n /\ (o.removed \/ o.phase = "revert")
    BY DEF Owes
  <1>e. \A n : Owes(o, n) /\ o.pc \notin {"restart", "done"} /\ Ready(o)
               => Owes(RecreateError(o), n)
    BY <1>d, ErrorOwes
  <1>f. torn \subseteq torn'
    BY TornGrows
  <1>1. CASE o.pc \notin owing
    <2>1. \A n : ~Owes(o, n)
      BY <1>1 DEF Owes
    <2>2. PICK p : Become(w, p)
      BY WorkerMoves DEF Moves
    <2>3. reported' = reported
      BY <1>1 DEF Step, history, RequestUpdate, RequestRollback, LookupUpdate,
         LookupRollback, beginOperation, Inspect, Define, Pull, Stop, Remove,
         Create, Validate, Start, WaitHealthy, InspectResult, Commit, Epilogue,
         RestartOriginal, Reread, RecordReverted, Finish
    <2>4. \E j, s : host' = host \/ host' = [host EXCEPT ![j].state = s]
      BY <1>1 DEF Step, docker, Stopped, RequestUpdate, RequestRollback, LookupUpdate,
         LookupRollback, beginOperation, Inspect, Define, Pull, Stop, Remove,
         Create, Validate, Start, WaitHealthy, InspectResult, Commit, Epilogue,
         RestartOriginal, Reread, RecordReverted, Finish
    <2>5. HostKept
      BY <1>a, <2>4 DEF HostKept, Container
    <2> QED BY <2>1, <2>2, <2>3, <2>5, <1>f, KeptIsAnswered
  <1>2. CASE Pull(w)
    <2>0. Ready(o) /\ o.pc = "pull"
      BY <1>2, <1>c DEF Pull
    <2>1. HostKept /\ reported' = reported
      BY <1>2 DEF Pull, HostKept, history
    <2>2. CASE Become(w, RecreateError(o))
      BY <1>e, <2>0, <2>1, <2>2, <1>f, KeptIsAnswered
    <2>3. CASE Become(w, AfterPull(o))
      <3>1. AfterPull(o).pc \in {"stop", "remove", "create"}
            /\ AfterPull(o).before = o.before /\ AfterPull(o).removed = o.removed
            /\ AfterPull(o).phase = o.phase
        BY <1>0 DEF AfterPull, Op
      <3>2. \A n : Owes(o, n) => Owes(AfterPull(o), n)
        BY <2>0, <3>1 DEF Owes
      <3> QED BY <2>1, <2>3, <3>2, <1>f, KeptIsAnswered
    <2> QED BY <1>2, <2>2, <2>3 DEF Pull
  <1>3. CASE Stop(w)
    <2>0. Ready(o) /\ o.pc = "stop"
      BY <1>3, <1>c DEF Stop
    <2>1. reported' = reported
      BY <1>3 DEF Stop
    <2>2. HostKept
      <3>1. \E j, s : host' = host \/ host' = [host EXCEPT ![j].state = s]
        BY <1>3 DEF Stop, Stopped
      <3> QED BY <1>a, <3>1 DEF HostKept, Container
    <2>3. CASE Become(w, RecreateError(o))
      BY <1>e, <2>0, <2>1, <2>2, <2>3, <1>f, KeptIsAnswered
    <2> DEFINE p == [o EXCEPT !.pc = "remove", !.stopped = TRUE]
    <2>4. CASE Become(w, p)
      <3>1. p.pc = "remove" /\ p.before = o.before /\ p.removed = o.removed
            /\ p.phase = o.phase
        BY <1>0 DEF Op
      <3> HIDE DEF p
      <3>2. \A n : Owes(o, n) => Owes(p, n)
        BY <2>0, <3>1 DEF Owes
      <3> QED BY <2>1, <2>2, <2>4, <3>2, <1>f, KeptIsAnswered
    <2> QED BY <1>3, <2>3, <2>4 DEF Stop
  <1>4. CASE Remove(w)
    <2>0. Ready(o) /\ o.pc = "remove" /\ o.before # Nil
      BY <1>4, <1>c, KeysAssumption DEF Remove, Ready
    <2>1. reported' = reported
      BY <1>4 DEF Remove
    <2>2. CASE Become(w, RecreateError(o)) /\ host' = host
      <3>1. HostKept
        BY <2>2 DEF HostKept
      <3> QED BY <1>e, <2>0, <2>1, <2>2, <3>1, <1>f, KeptIsAnswered
    <2> DEFINE p == [o EXCEPT !.pc = "create", !.removed = TRUE]
    <2>3. CASE /\ Become(w, p) /\ o.old \in DOMAIN host
               /\ host' = Keep(host, DOMAIN host \ {o.old})
      <3>1. p.pc = "create" /\ p.before = o.before /\ p.removed = TRUE
        BY <1>0 DEF Op
      <3>n. PICK m : m = o.before.name
        OBVIOUS
      <3> HIDE DEF p
      <3>2. Owes(p, m)
        BY <2>0, <3>1, <3>n DEF Owes
      <3>3. host[o.old].name = m
        BY <1>0, <2>0, <2>3, <3>n DEF CallNamed, Working, PCs
      <3>4. op'[w] = p /\ \A v \in Workers : v # w => op'[v] = op[v]
        BY <2>3 DEF Become, OpsOK
      <3>5. Answered(m)'
        BY <3>2, <3>4 DEF Answered
      <3>6. \A n \in S : n # m /\ Exists(n) => Exists(n)'
        BY <2>3, <3>3 DEF Exists, Keep
      <3>7. \A n \in S : n # m /\ Answered(n) => Answered(n)'
        <4>1. \A n : Owes(o, n) => n = m
          BY <3>n DEF Owes
        <4>2. \A n : RemovedUnnoticed(n) => RemovedUnnoticed(n)'
          BY <1>f DEF RemovedUnnoticed
        <4> QED BY <2>1, <3>4, <4>1, <4>2 DEF Answered
      <3> QED BY <3>5, <3>6, <3>7 DEF LossIn
    <2>4. CASE /\ Become(w, RecreateError(o)) /\ o.old \in DOMAIN host
               /\ host' = Keep(host, DOMAIN host \ {o.old})
               /\ Tears(o, "remove")
      <3> DEFINE e == RecreateError(o)
      <3>n. PICK m : m = o.before.name
        OBVIOUS
      <3>1. Owes(e, m) \/ e.outcome = "failed"
        <4>1. CASE o.removed \/ o.phase = "revert"
          BY <2>0, <3>n, <4>1, ErrorOwes
        <4>2. CASE ~o.removed /\ o.phase # "revert"
          <5> DEFINE f == [o EXCEPT !.pc = "done", !.outcome = "failed"]
                     s == [o EXCEPT !.pc = "restart"]
          <5>1. f.outcome = "failed" /\ s.pc = "restart" /\ s.before = o.before
            BY <1>0 DEF Op
          <5>2. e = f \/ e = s
            BY <4>2 DEF RecreateError
          <5> HIDE DEF f, s, e
          <5> QED BY <2>0, <3>n, <5>1, <5>2 DEF Owes
        <4> QED BY <4>1, <4>2
      <3> HIDE DEF e
      <3>2. op'[w] = e /\ \A v \in Workers : v # w => op'[v] = op[v]
        BY <2>4 DEF Become, OpsOK, e
      <3>3. host[o.old].name = m
        BY <1>0, <2>0, <2>4, <3>n DEF CallNamed, Working, PCs
      <3>4. e.outcome = "failed" => RemovedUnnoticed(m)'
        <4> DEFINE x == [name |-> o.before.name, id |-> o.old,
                         call |-> "remove"]
        <4>1. e.outcome = "failed" => x \in torn'
          BY <2>4 DEF Tears, e
        <4>2. x.name = m /\ x.call = "remove"
          BY <3>n
        <4> HIDE DEF x
        <4> QED BY <4>1, <4>2 DEF RemovedUnnoticed
      <3>5. Answered(m)'
        BY <3>1, <3>2, <3>4 DEF Answered
      <3>6. \A n \in S : n # m /\ Exists(n) => Exists(n)'
        BY <2>4, <3>3 DEF Exists, Keep
      <3>7. \A n \in S : n # m /\ Answered(n) => Answered(n)'
        <4>1. \A n : Owes(o, n) => n = m
          BY <3>n DEF Owes
        <4>2. \A n : RemovedUnnoticed(n) => RemovedUnnoticed(n)'
          BY <1>f DEF RemovedUnnoticed
        <4> QED BY <2>1, <3>2, <4>1, <4>2 DEF Answered
      <3> QED BY <3>5, <3>6, <3>7 DEF LossIn
    <2> QED BY <1>4, <2>2, <2>3, <2>4 DEF Remove, Succeeds
  <1>5. CASE Create(w)
    <2>0. Ready(o) /\ o.pc = "create"
      BY <1>5, <1>c DEF Create
    <2>1. reported' = reported
      BY <1>5 DEF Create, history
    <2>2. CASE Become(w, RecreateError(o)) /\ host' = host
      <3>1. HostKept
        BY <2>2 DEF HostKept
      <3> QED BY <1>e, <2>0, <2>1, <2>2, <3>1, <1>f, KeptIsAnswered
    <2>3. CASE \E c : host' = Put(host, nextID, c) /\ c.name = o.before.name
      <3>1. HostKept
        BY <1>a, <1>b, <2>3 DEF HostKept, Put
      <3>2. nextID \in DOMAIN host' /\ host'[nextID].name = o.before.name
        BY <2>3 DEF Put
      <3>3. \A n : Owes(o, n) => Exists(n)'
        BY <3>2 DEF Owes, Exists
      <3>4. PICK p : Become(w, p)
        BY <1>5 DEF Create
      <3> QED BY <2>1, <3>1, <3>3, <3>4, <1>f, KeptIsAnswered
    <2> QED BY <1>5, <2>2, <2>3 DEF Create
  <1>6. CASE Finish(w)
    <2>1. HostKept
      BY <1>6 DEF Finish, HostKept, docker
    <2>2. \A n : Owes(o, n) => n \in reported'
      BY <1>6 DEF Finish, Owes
    <2>3. Become(w, Idle) /\ reported \subseteq reported'
      BY <1>6 DEF Finish
    <2> QED BY <2>1, <2>2, <2>3, <1>f, KeptIsAnswered
  <1>8. CASE RestartOriginal(w)
    <2> DEFINE f == [o EXCEPT !.pc = "done", !.outcome = "failed"]
               d == [o EXCEPT !.pc = "done", !.outcome = "revert_failed"]
    <2>0. o.pc = "restart" /\ reported' = reported /\ o.before # Nil
      BY <1>0, <1>8, WorkingIsReady, KeysAssumption
         DEF RestartOriginal, history, Working, PCs, Ready
    <2>1. \/ Become(w, f) /\ o.id \in DOMAIN host
             /\ host' = [host EXCEPT ![o.id].state = "running"]
          \/ Become(w, d) /\ host' = host
      BY <1>8 DEF RestartOriginal, Succeeds
    <2>2. d.pc = "done" /\ d.outcome = "revert_failed" /\ d.before = o.before
      BY <1>0 DEF Op
    <2> HIDE DEF f, d
    <2>3. CASE Become(w, d) /\ host' = host
      <3>1. HostKept
        BY <2>3 DEF HostKept
      <3>2. \A n : Owes(o, n) => Owes(d, n)
        BY <2>2 DEF Owes
      <3> QED BY <2>0, <2>3, <3>1, <3>2, <1>f, KeptIsAnswered
    <2>4. CASE Become(w, f) /\ o.id \in DOMAIN host
               /\ host' = [host EXCEPT ![o.id].state = "running"]
      <3>1. HostKept /\ o.id \in DOMAIN host'
            /\ host'[o.id].name = host[o.id].name
        BY <1>a, <2>4 DEF HostKept, Container
      <3>2. host[o.id].name = o.before.name
        BY <1>0, <2>0, <2>4 DEF CallNamed, Working, PCs
      <3>3. \A n : Owes(o, n) => Exists(n)'
        BY <3>1, <3>2 DEF Owes, Exists
      <3> QED BY <2>0, <2>4, <3>1, <3>3, <1>f, KeptIsAnswered
    <2> QED BY <2>1, <2>3, <2>4
  <1>7. o.pc \in owing => Pull(w) \/ Stop(w) \/ Remove(w) \/ Create(w)
                          \/ Finish(w) \/ RestartOriginal(w)
    BY DEF Step, RequestUpdate, RequestRollback, LookupUpdate,
       LookupRollback, beginOperation, Inspect, Define, Validate, Start,
       WaitHealthy, InspectResult, Commit, Epilogue, Reread, RecordReverted
  <1> QED BY <1>1, <1>2, <1>3, <1>4, <1>5, <1>6, <1>7, <1>8

\* The other steps, when the daemon is not killed.
LEMMA OthersLoseNothing ==
    ASSUME OpsOK, RestOK, NEW S, LossIn(S), ~Exit,
           Sweep \/ Environment \/ UNCHANGED vars
    PROVE  LossIn(S)'
  <1>1. ~Exit
    OBVIOUS
  <1>2. reported' = reported /\ torn' = torn
    BY <1>1 DEF Sweep, SweepList, SweepPrune, SweepUpsert, SweepCheck,
       Environment, ContainerCrash, ContainerRestart, Publish, Expire, history,
       vars
  <1>3. \A v \in Workers : \A n : Owes(op[v], n) => Owes(op'[v], n)
    <2>1. CASE op' = op
      BY <2>1
    <2>2. ASSUME NEW w \in Workers, Expire(w)
          PROVE  \A v \in Workers : \A n : Owes(op[v], n) => Owes(op'[v], n)
      <3>1. \A v \in Workers :
              /\ op'[v].pc = op[v].pc /\ op'[v].before = op[v].before
              /\ op'[v].phase = op[v].phase /\ op'[v].removed = op[v].removed
              /\ op'[v].outcome = op[v].outcome
        BY <2>2 DEF Expire, OpsOK, Op
      <3> QED BY <3>1 DEF Owes
    <2> QED BY <1>1, <2>1, <2>2 DEF Sweep, SweepList, SweepPrune, SweepUpsert,
              SweepCheck, Environment, ContainerCrash, ContainerRestart, Publish,
              vars
  <1>4. HostKept
    <2>1. CASE host' = host
      BY <2>1 DEF HostKept
    <2>2. ASSUME NEW i \in DOMAIN host, ContainerCrash(i) \/ ContainerRestart(i)
          PROVE  HostKept
      <3>1. host[i] \in Container
        BY DEF RestOK, HostOK
      <3>2. PICK c : host' = [host EXCEPT ![i] = c] /\ c.name = host[i].name
        BY <2>2, <3>1 DEF ContainerCrash, ContainerRestart, Container
      <3> QED BY <3>2 DEF HostKept
    <2> QED BY <1>1, <2>1, <2>2 DEF Sweep, SweepList, SweepPrune, SweepUpsert,
              SweepCheck, Environment, Publish, Expire, docker, vars
  <1>5. \A n \in S : Exists(n) => Exists(n)'
    BY <1>4 DEF Exists, HostKept
  <1>6. \A n \in S : Answered(n) => Answered(n)'
    BY <1>2, <1>3 DEF Answered, RemovedUnnoticed
  <1> QED BY <1>5, <1>6 DEF LossIn

\* A container never disappears in silence, whichever calls fail and whenever
\* the deadline strikes: once no operation is working on it, it is on the host
\* or its revert was reported as failed, unless Docker removed a container that
\* was not running and answered with an error.  The daemon's own death between
\* the removal and the creation is the other exception, and is excluded here.
THEOREM NothingIsLostInSilence ==
    ASSUME MaxExits = 0
    PROVE  Spec => []NoSilentLoss
  <1>1. Init => LossInv
    <2> SUFFICES ASSUME Init, NEW n \in Names PROVE Exists(n)
      BY DEF LossInv, LossIn
    <2>1. PICK ids \in Bijection(1..Cardinality(Names), Names) :
            /\ DOMAIN host = 1..Cardinality(Names)
            /\ \A i \in DOMAIN host : host[i].name = ids[i]
      <3>1. PICK ids \in Bijection(1..Cardinality(Names), Names),
                 configs \in [Names -> [kind : {"tag"}, of : Tags]
                                \cup [kind : {"pin"}, of : Images \ Broken]],
                 states \in [Names -> {"running", "exited"}] :
          host = [i \in 1..Cardinality(Names) |->
                    LET b == ids[i] IN
                    [name |-> b, config |-> configs[b],
                     image |-> Resolve(configs[b]), state |-> states[b],
                     restarts |-> 0, by |-> "operator"]]
        BY DEF Init
      <3> QED BY <3>1
    <2>2. PICK i \in 1..Cardinality(Names) : ids[i] = n
      BY DEF Bijection, Surjection
    <2> QED BY <2>1, <2>2 DEF Exists
  <1>2. UpdaterInv /\ NameInv /\ LossInv /\ [Next]_vars => LossInv'
    <2> SUFFICES ASSUME UpdaterInv, NameInv, LossInv, [Next]_vars
                 PROVE  LossInv'
      OBVIOUS
    <2>1. OpsOK /\ RestOK
      BY Parts
    <2>2. ~Exit
      BY <2>1 DEF Exit, Spend, RestOK, Bounds
    <2> QED BY <2>1, <2>2, WorkerLosesNothing, OthersLoseNothing DEF Next, LossInv
  <1>3. LossInv => NoSilentLoss
    BY DEF LossInv, LossIn, Answered, Owes, NoSilentLoss
  <1> QED BY <1>1, <1>2, <1>3, NamesAgree, PTL DEF Spec
-----------------------------------------------------------------------------
(* What an operation that was granted a name can rely on.                   *)

\* The hypothesis of the results below: no call is past the snapshot under a
\* raw ID, the key of an update whose first lookup failed.
NamedGrants == \A w \in Workers : op[w].pc \in Working => op[w].key \in Names

\* Docker's names are unique.
UniqueNames == \A i, j \in DOMAIN host : host[i].name = host[j].name => i = j

\* The call has taken its snapshot.
Snap(o) == o.pc \in Working \cup {"done"} /\ o.before # Nil

Fresh(o) == o.phase = "do" /\ ~o.removed /\ ~o.stopped

\* How far recreate() got, by program counter and phase.
Control(o) ==
    /\ o.pc \notin Working \cup {"done"} => Fresh(o) /\ o.before = Nil
    /\ o.pc = "define" => Fresh(o)
    /\ o.pc \in {"pull", "stop", "remove"} /\ o.phase = "do"
          => ~o.removed /\ o.old = o.id
    /\ o.pc \in {"pull", "stop"} /\ o.phase = "do" => ~o.stopped
    /\ o.pc = "remove" /\ o.phase = "do" /\ ~o.stopped => ~WasRunning(o)
    /\ o.pc \in {"create", "validate", "start", "wait", "result"}
          => o.removed \/ o.phase = "revert"
    /\ o.pc \in {"commit", "epilogue"} => o.phase = "do" /\ o.removed
    /\ o.pc = "restart" => o.phase = "do" /\ ~o.removed
    /\ o.pc \in {"reread", "record"} => o.phase = "revert"
    /\ o.pc = "epilogue" => o.outcome = "ok"
    /\ o.pc = "done" /\ o.outcome = "ok" => o.before # Nil /\ o.removed
    /\ o.pc = "done" /\ o.outcome = "reverted"
          => o.before # Nil /\ o.phase = "revert"

\* The original has not been removed, by this call or by anyone.
Untouched(o) ==
    /\ o.pc \in {"define", "pull", "stop", "remove"}
    /\ o.phase = "do" /\ ~o.removed

Intact(o, h) == o.id \in DOMAIN h /\ h[o.id].image = o.before.image

RunsAsBefore(o, h) ==
    WasRunning(o) /\ o.before.image \notin Broken => h[o.id].state = "running"

\* The replacement exists.
Remade(o) ==
    \/ o.pc \in {"validate", "start", "wait", "result", "commit", "epilogue",
                 "reread", "record"}
    \/ o.pc = "done" /\ o.outcome \in {"ok", "reverted"}

Mine(o) == {o.id, o.old, o.new}

\* The call o on the host h: the containers it works on bear the name it was
\* granted, the original is intact until the call removes it and gone after.
Owns(o, h) ==
    /\ Snap(o) => /\ o.key = o.before.name
                  /\ \A i \in Mine(o) \cap DOMAIN h : h[i].name = o.before.name
    /\ Untouched(o) => Intact(o, h) /\ (~o.stopped => RunsAsBefore(o, h))
    /\ o.pc = "restart" /\ o.id \in DOMAIN h => h[o.id].image = o.before.image
    /\ Snap(o) /\ (o.removed \/ o.phase = "revert") => o.id \notin DOMAIN h
    /\ Remade(o) => o.new \in DOMAIN h

OwnInv ==
    /\ UniqueNames
    /\ \A w \in Workers : Control(op[w]) /\ Owns(op[w], host)

\* p is o but for its program counter, its outcome and fields not named here.
Same(p, o) ==
    /\ p.id = o.id /\ p.key = o.key /\ p.before = o.before
    /\ p.phase = o.phase /\ p.old = o.old /\ p.new = o.new
    /\ p.stopped = o.stopped /\ p.removed = o.removed

\* A well-formed call past the snapshot has one.
LEMMA WorkingHasSnap ==
    ASSUME NEW o, OpInv(o)
    PROVE  /\ o.pc \in Working => o.before # Nil
           /\ o.pc \in Working => o.pc # "done"
           /\ Untouched(o) => Snap(o)
           /\ Remade(o) /\ Control(o) => Snap(o)
  <1>1. o.pc \in Working => o.before \in Container /\ o.before # Nil
    BY KeysAssumption DEF OpInv, OpShape
  <1>2. Untouched(o) => o.pc \in Working
    BY DEF Untouched, Working, PCs
  <1>3. Remade(o) => o.pc \in Working
                     \/ (o.pc = "done" /\ o.outcome \in {"ok", "reverted"})
    BY DEF Remade, Working, PCs
  <1>4. "done" \notin Working
    BY DEF Working
  <1> QED BY <1>1, <1>2, <1>3, <1>4 DEF Snap, Control

\* The host g is h but for containers that are gone or in another state.
Within(g, h) ==
    DOMAIN g \subseteq DOMAIN h
    /\ \A i \in DOMAIN g : g[i].name = h[i].name /\ g[i].image = h[i].image

\* Two hosts that agree on a call's containers are the same to it.
Agree(o, h, g) ==
    \A i \in Mine(o) : /\ i \in DOMAIN h <=> i \in DOMAIN g
                       /\ i \in DOMAIN h => g[i] = h[i]

\* What a call relies on concerns its own containers only.
LEMMA OwnsFrame ==
    ASSUME NEW o, NEW h, NEW g, Owns(o, h), Agree(o, h, g)
    PROVE  Owns(o, g)
  BY DEF Owns, Agree, Mine, Intact, RunsAsBefore

\* A call without a snapshot relies on nothing.
LEMMA NoSnapOwns ==
    ASSUME NEW o, OpInv(o), Control(o), ~Snap(o), NEW h
    PROVE  Owns(o, h)
  <1>1. "restart" \in Working
    BY DEF Working, PCs
  <1> QED BY <1>1, WorkingHasSnap DEF Owns, Snap

\* The revert starts once the original is gone.
LEMMA RevertOwns ==
    ASSUME NEW o, Ready(o), Snap(o), o.removed \/ o.phase = "revert", NEW h,
           Owns(o, h), 0 \notin DOMAIN h, NEW g, Within(g, h)
    PROVE  Control(revert(o)) /\ Owns(revert(o), g)
  <1> DEFINE r == [o EXCEPT !.phase = "revert", !.old = o.new, !.new = 0,
                            !.stopped = FALSE, !.removed = FALSE,
                            !.target = o.before.config]
             q == BeginRecreate(r)
  <1>0. o \in Op /\ r \in Op
    BY DEF Ready, Op, Container
  <1>1. /\ r.id = o.id /\ r.key = o.key /\ r.before = o.before
        /\ r.phase = "revert" /\ r.old = o.new /\ r.new = 0
    BY <1>0 DEF Op
  <1>2. revert(o) = q
    BY DEF revert
  <1> HIDE DEF r
  <1>3. /\ q.id = r.id /\ q.key = r.key /\ q.before = r.before
        /\ q.phase = r.phase /\ q.old = r.old /\ q.new = r.new
        /\ q.pc \in {"pull", "stop", "remove", "create"}
    BY <1>0 DEF BeginRecreate, AfterPull, Op
  <1> HIDE DEF q
  <1>4. q.pc \in Working /\ q.pc # "done"
    BY <1>3 DEF Working, PCs
  <1>5. Control(q)
    BY <1>1, <1>3, <1>4 DEF Control
  <1>6. Mine(q) \cap DOMAIN g \subseteq Mine(o)
    BY <1>1, <1>3 DEF Mine, Within
  <1>7. o.key = o.before.name /\ o.id \notin DOMAIN g
        /\ \A i \in Mine(o) \cap DOMAIN g : g[i].name = o.before.name
    BY DEF Owns, Within
  <1>8. Owns(q, g)
    BY <1>1, <1>3, <1>4, <1>6, <1>7 DEF Owns, Untouched, Remade
  <1> QED BY <1>2, <1>5, <1>8

\* The three error returns of recreate(), on the host the failing call left.
LEMMA ErrorOwns ==
    ASSUME NEW o, Ready(o), Control(o), NEW h, Owns(o, h), 0 \notin DOMAIN h,
           NEW g, Within(g, h),
           o.pc \in {"pull", "stop", "remove", "create", "validate", "start",
                     "wait", "result"}
    PROVE  Control(RecreateError(o)) /\ Owns(RecreateError(o), g)
  <1>0. o \in Op /\ o.before # Nil /\ o.pc \in Working
    BY KeysAssumption DEF Ready, Working, PCs
  <1>1. Snap(o)
    BY <1>0 DEF Snap
  <1> DEFINE d == [o EXCEPT !.pc = "done", !.outcome = "revert_failed"]
             f == [o EXCEPT !.pc = "done", !.outcome = "failed"]
             s == [o EXCEPT !.pc = "restart"]
  <1>2. Same(d, o) /\ d.pc = "done" /\ d.outcome = "revert_failed"
    BY <1>0 DEF Op, Same
  <1>3. Same(f, o) /\ f.pc = "done" /\ f.outcome = "failed"
    BY <1>0 DEF Op, Same
  <1>4. Same(s, o) /\ s.pc = "restart"
    BY <1>0 DEF Op, Same
  <1>5. /\ o.phase = "revert" => RecreateError(o) = d
        /\ o.phase # "revert" /\ o.removed => RecreateError(o) = revert(o)
        /\ o.phase # "revert" /\ ~o.removed /\ o.stopped => RecreateError(o) = s
        /\ o.phase # "revert" /\ ~o.removed /\ ~o.stopped => RecreateError(o) = f
    BY DEF RecreateError
  <1>6. o.phase \in {"do", "revert"}
    BY <1>0 DEF Op
  <1> HIDE DEF d, f, s
  <1>7. o.phase # "revert" /\ ~o.removed => Untouched(o)
    BY <1>6 DEF Control, Untouched
  <1>8. /\ o.key = o.before.name
        /\ \A i \in Mine(o) \cap DOMAIN g : g[i].name = o.before.name
        /\ Untouched(o) /\ o.id \in DOMAIN g => g[o.id].image = o.before.image
        /\ o.removed \/ o.phase = "revert" => o.id \notin DOMAIN g
    BY <1>1 DEF Owns, Within, Intact
  <1>9. CASE o.phase = "revert"
    <2>1. Control(d)
      BY <1>2 DEF Control, Working
    <2>2. Mine(d) = Mine(o)
      BY <1>2 DEF Same, Mine
    <2>3. Owns(d, g)
      BY <1>2, <1>8, <1>9, <2>2 DEF Owns, Same, Untouched, Remade
    <2> QED BY <1>5, <1>9, <2>1, <2>3
  <1>10. CASE o.phase # "revert" /\ o.removed
    BY <1>1, <1>5, <1>10, RevertOwns
  <1>11. CASE o.phase # "revert" /\ ~o.removed /\ o.stopped
    <2>1. Control(s)
      BY <1>4, <1>6, <1>11 DEF Control, Same, Working, PCs
    <2>2. Mine(s) = Mine(o)
      BY <1>4 DEF Same, Mine
    <2>3. Owns(s, g)
      BY <1>4, <1>7, <1>8, <1>11, <2>2 DEF Owns, Same, Remade, Untouched
    <2> QED BY <1>5, <1>11, <2>1, <2>3
  <1>12. CASE o.phase # "revert" /\ ~o.removed /\ ~o.stopped
    <2>1. Control(f)
      BY <1>3 DEF Control, Working
    <2>2. Mine(f) = Mine(o)
      BY <1>3 DEF Same, Mine
    <2>3. Owns(f, g)
      BY <1>3, <1>7, <1>8, <1>12, <2>2 DEF Owns, Same, Remade, Untouched
    <2> QED BY <1>5, <1>12, <2>1, <2>3
  <1> QED BY <1>9, <1>10, <1>11, <1>12
-----------------------------------------------------------------------------
\* What a worker's step must establish of its own call.
OwnStep(w) == \E p : Become(w, p) /\ Control(p) /\ Owns(p, host')

\* Up to the guard a call has nothing to rely on; the snapshot describes the
\* container as it is, and finish() forgets it.
LEMMA EntryOwns ==
    ASSUME OpsOK, RestOK, NameInv, NameInv', NamedGrants', OwnInv,
           NEW w \in Workers,
           \/ RequestUpdate(w) \/ RequestRollback(w) \/ LookupUpdate(w)
           \/ LookupRollback(w) \/ beginOperation(w) \/ Inspect(w) \/ Finish(w)
    PROVE  OwnStep(w)
  <1> DEFINE o == op[w]
  <1>0. o \in Op /\ OpInv(o) /\ CallNamed(o, host, nextID) /\ Control(o)
    BY DEF OpsOK, OpInv, NameInv, CallsAreNamed, OwnInv
  <1>1. ASSUME NEW p, Become(w, p), p.pc \notin Working \cup {"done"}, Fresh(p),
               p.before = Nil
        PROVE  OwnStep(w)
    <2>1. p.pc \notin {"define", "pull", "stop", "remove", "create", "validate",
                       "start", "wait", "result", "commit", "epilogue",
                       "restart", "reread", "record", "done"}
      BY <1>1 DEF Working, PCs
    <2>2. Control(p)
      BY <1>1, <2>1 DEF Control
    <2>3. Owns(p, host')
      BY <1>1, <2>1 DEF Owns, Snap, Untouched, Remade
    <2> QED BY <1>1, <2>2, <2>3 DEF OwnStep
  <1>2. {"idle", "lookup", "begin", "inspect"} \cap (Working \cup {"done"}) = {}
    BY DEF Working
  <1>3. Fresh(Idle) /\ Idle.before = Nil /\ Idle.pc = "idle"
    BY DEF Idle, Fresh
  <1>4. CASE Become(w, Idle)
    BY <1>1, <1>2, <1>3, <1>4
  <1>5. CASE RequestUpdate(w) \/ RequestRollback(w)
    <2>1. PICK p : /\ Become(w, p) /\ p.pc = "lookup" /\ Fresh(p)
                   /\ p.before = Nil
      <3>1. PICK i, k, r :
              Become(w, [Idle EXCEPT !.pc = "lookup", !.kind = k,
                                     !.id = i, !.target = r])
              \/ Become(w, [Idle EXCEPT !.pc = "lookup", !.kind = k, !.id = i])
        BY <1>5 DEF RequestUpdate, RequestRollback
      <3> DEFINE a == [Idle EXCEPT !.pc = "lookup", !.kind = k, !.id = i,
                                   !.target = r]
                 b == [Idle EXCEPT !.pc = "lookup", !.kind = k, !.id = i]
      <3>2. a.pc = "lookup" /\ Fresh(a) /\ a.before = Nil
        BY DEF Idle, Fresh
      <3>3. b.pc = "lookup" /\ Fresh(b) /\ b.before = Nil
        BY DEF Idle, Fresh
      <3> HIDE DEF a, b
      <3> QED BY <3>1, <3>2, <3>3 DEF a, b
    <2> QED BY <1>1, <1>2, <2>1
  <1>6. ASSUME o.pc \in {"lookup", "begin"},
               NEW pc \in {"begin", "inspect"}, NEW p, Become(w, p), p.pc = pc,
               p.before = o.before, p.phase = o.phase, p.stopped = o.stopped,
               p.removed = o.removed
        PROVE  OwnStep(w)
    <2>1. Fresh(o) /\ o.before = Nil
      BY <1>0, <1>2, <1>6 DEF Control
    <2> QED BY <1>1, <1>2, <1>6, <2>1 DEF Fresh
  <1>7. CASE LookupUpdate(w)
    <2>1. PICK k : Become(w, [o EXCEPT !.pc = "begin", !.key = k])
      BY <1>7 DEF LookupUpdate
    <2> DEFINE p == [o EXCEPT !.pc = "begin", !.key = k]
    <2>2. p.pc = "begin" /\ p.before = o.before /\ p.phase = o.phase
          /\ p.stopped = o.stopped /\ p.removed = o.removed
      BY <1>0 DEF Op
    <2>3. o.pc = "lookup"
      BY <1>7 DEF LookupUpdate
    <2> HIDE DEF p
    <2> QED BY <1>6, <2>1, <2>2, <2>3 DEF p
  <1>8. CASE LookupRollback(w)
    <2> DEFINE p == [o EXCEPT !.pc = "begin", !.key = rows[o.id].name,
                              !.target = IdRef(rows[o.id].prev),
                              !.cur = rows[o.id].cur]
    <2>1. Become(w, p) \/ Become(w, Idle)
      BY <1>8 DEF LookupRollback
    <2>2. p.pc = "begin" /\ p.before = o.before /\ p.phase = o.phase
          /\ p.stopped = o.stopped /\ p.removed = o.removed
      BY <1>0 DEF Op
    <2>3. o.pc = "lookup"
      BY <1>8 DEF LookupRollback
    <2> HIDE DEF p
    <2> QED BY <1>4, <1>6, <2>1, <2>2, <2>3
  <1>9. CASE beginOperation(w)
    <2> DEFINE p == [o EXCEPT !.pc = "inspect"]
    <2>1. Become(w, p) \/ Become(w, Idle)
      BY <1>9 DEF beginOperation
    <2>2. p.pc = "inspect" /\ p.before = o.before /\ p.phase = o.phase
          /\ p.stopped = o.stopped /\ p.removed = o.removed
      BY <1>0 DEF Op
    <2>3. o.pc = "begin"
      BY <1>9 DEF beginOperation
    <2> HIDE DEF p
    <2> QED BY <1>4, <1>6, <2>1, <2>2, <2>3
  <1>10. CASE Inspect(w)
    <2>0. o.pc = "inspect" /\ Fresh(o) /\ o.before = Nil /\ o.old = 0 /\ o.new = 0
      BY <1>0, <1>2, <1>10 DEF Inspect, Control, CallNamed
    <2>a. host' = host /\ 0 \notin DOMAIN host
      BY <1>10 DEF Inspect, docker, RestOK, HostOK, ID
    <2> DEFINE p == [o EXCEPT !.pc = "define", !.before = host[o.id]]
               q == [o EXCEPT !.pc = "done", !.outcome = "failed"]
    <2>1. (Become(w, p) /\ o.id \in DOMAIN host) \/ Become(w, q)
      BY <1>10 DEF Inspect, Succeeds
    <2>2. /\ p.pc = "define" /\ p.id = o.id /\ p.old = 0 /\ p.new = 0
          /\ p.before = host[o.id] /\ p.key = o.key
          /\ p.phase = o.phase /\ p.stopped = o.stopped /\ p.removed = o.removed
      BY <1>0, <2>0 DEF Op
    <2>3. q.pc = "done" /\ q.before = Nil /\ q.outcome = "failed"
      BY <1>0, <2>0 DEF Op
    <2>4. "define" \in Working
      BY DEF Working, PCs
    <2> HIDE DEF p, q
    <2>5. CASE Become(w, p) /\ o.id \in DOMAIN host
      <3>1. op'[w] = p
        BY <2>5 DEF Become, OpsOK
      <3>2. p.key = p.before.name
        BY <2>2, <2>4, <3>1 DEF NamedGrants, NameInv, CallsAreNamed, CallNamed
      <3>3. Fresh(p)
        BY <2>0, <2>2 DEF Fresh
      <3>4. Control(p)
        BY <2>2, <2>4, <3>3 DEF Control
      <3>5. Mine(p) \cap DOMAIN host' \subseteq {o.id}
        BY <2>2, <2>a DEF Mine
      <3>6. Owns(p, host')
        BY <2>2, <2>5, <2>a, <3>2, <3>3, <3>5 DEF Owns, Fresh, Remade, Intact,
           RunsAsBefore, WasRunning
      <3> QED BY <2>5, <3>4, <3>6 DEF OwnStep
    <2>6. CASE Become(w, q)
      <3>1. Control(q)
        BY <2>3 DEF Control, Working
      <3>2. Owns(q, host')
        BY <2>3 DEF Owns, Snap, Untouched, Remade
      <3> QED BY <2>6, <3>1, <3>2 DEF OwnStep
    <2> QED BY <2>1, <2>5, <2>6
  <1>11. CASE Finish(w)
    BY <1>4, <1>11 DEF Finish
  <1> QED BY <1>5, <1>7, <1>8, <1>9, <1>10, <1>11

\* A call that goes on over an unchanged host.
LEMMA SameOwns ==
    ASSUME NEW o, NEW p, NEW h, Owns(o, h), Snap(o), Same(p, o), Control(p),
           p.pc \in Working \cup {"done"},
           Untouched(p) => Untouched(o),
           Remade(p) => Remade(o), p.pc # "restart"
    PROVE  Owns(p, h)
  <1>1. Mine(p) = Mine(o)
    BY DEF Mine, Same
  <1>2. Snap(p)
    BY DEF Snap, Same
  <1> QED BY <1>1, <1>2 DEF Owns, Same, Intact, RunsAsBefore, WasRunning

\* The steps up to the removal.
LEMMA RemovalOwns ==
    ASSUME OpsOK, RestOK, OwnInv, NEW w \in Workers,
           Define(w) \/ Pull(w) \/ Stop(w) \/ Remove(w)
    PROVE  OwnStep(w)
  <1> DEFINE o == op[w]
  <1>0. o \in Op /\ OpInv(o) /\ Control(o) /\ Owns(o, host)
    BY DEF OpsOK, OpInv, OwnInv
  <1>a. 0 \notin DOMAIN host /\ \A i \in DOMAIN host : host[i] \in Container
    BY DEF RestOK, HostOK, ID
  <1>b. o.pc \in {"define", "pull", "stop", "remove"} /\ o.pc \in Working
    BY DEF Define, Pull, Stop, Remove, Working, PCs
  <1>c. o.before \in Container /\ Snap(o) /\ o.id \in ID
    BY <1>0, <1>b, WorkingHasSnap DEF Snap, OpInv, OpShape
  <1>d. o.phase \in {"do", "revert"} /\ o.id # 0
    BY <1>0, <1>c DEF Op, ID
  <1>1. CASE Define(w)
    <2>0. o.pc = "define" /\ host' = host /\ Fresh(o) /\ Untouched(o)
      BY <1>0, <1>1 DEF Define, docker, Control, Untouched, Fresh
    <2>1. PICK cur : Become(w, StartRecreate(o, cur))
      BY <1>1 DEF Define
    <2> DEFINE f == [o EXCEPT !.pc = "done", !.outcome = "failed"]
               r == [o EXCEPT !.cur = cur, !.old = o.id]
               q == BeginRecreate(r)
    <2>2. Become(w, f) \/ Become(w, q)
      BY <2>1 DEF StartRecreate
    <2>3. Same(f, o) /\ f.pc = "done" /\ f.outcome = "failed"
      BY <1>0 DEF Op, Same
    <2>4. /\ r.id = o.id /\ r.key = o.key /\ r.before = o.before
          /\ r.phase = o.phase /\ r.old = o.id /\ r.new = o.new
          /\ r.stopped = o.stopped /\ r.removed = o.removed
          /\ DOMAIN r = DOMAIN o /\ "pc" \in DOMAIN r
      BY <1>0 DEF Op
    <2>5. /\ Same(q, r)
          /\ \/ q.pc \in {"pull", "stop"}
             \/ q.pc = "remove" /\ ~WasRunning(q)
      BY <1>d, <2>4, <1>0 DEF BeginRecreate, AfterPull, WasRunning, Same, Op
    <2> HIDE DEF f, r, q
    <2>6. CASE Become(w, f)
      <3>1. Control(f)
        BY <2>3 DEF Control, Working
      <3>2. Owns(f, host)
        BY <1>0, <1>c, <2>0, <2>3, <3>1, SameOwns DEF Fresh, Untouched, Remade
      <3> QED BY <2>0, <2>6, <3>1, <3>2 DEF OwnStep
    <2>7. CASE Become(w, q)
      <3>1. /\ q.id = o.id /\ q.key = o.key /\ q.before = o.before
            /\ q.phase = "do" /\ q.old = o.id /\ q.new = o.new
            /\ ~q.stopped /\ ~q.removed
        BY <2>0, <2>4, <2>5 DEF Same, Fresh
      <3>2. q.pc \in Working
        BY <2>5 DEF Working, PCs
      <3>3. Control(q)
        BY <2>5, <3>1, <3>2 DEF Control
      <3>4. Mine(q) \subseteq Mine(o)
        BY <3>1 DEF Mine
      <3>5. Intact(q, host) /\ RunsAsBefore(q, host)
        BY <1>0, <2>0, <3>1 DEF Owns, Fresh, Intact, RunsAsBefore, WasRunning
      <3>6. /\ q.key = q.before.name
            /\ \A i \in Mine(q) \cap DOMAIN host : host[i].name = q.before.name
        BY <1>0, <1>c, <3>1, <3>4 DEF Owns
      <3>7. Owns(q, host)
        BY <2>5, <3>1, <3>5, <3>6 DEF Owns, Remade
      <3> QED BY <2>0, <2>7, <3>3, <3>7 DEF OwnStep
    <2> QED BY <2>2, <2>6, <2>7
  <1>e. /\ host' = host => Within(host', host)
        /\ o.old \in DOMAIN host /\ Stopped(o.old) => Within(host', host)
        /\ host' = Keep(host, DOMAIN host \ {o.old}) => Within(host', host)
    <2>1. ASSUME o.old \in DOMAIN host, Stopped(o.old) PROVE Within(host', host)
      BY <1>a, <2>1 DEF Stopped, Within, Container
    <2> QED BY <2>1 DEF Within, Keep
  <1>2. CASE /\ Within(host', host) /\ Become(w, RecreateError(o))
             /\ o.pc # "define"
    <2>1. Ready(o)
      BY <1>0, <1>2, <1>b, WorkingIsReady
    <2>2. Control(RecreateError(o)) /\ Owns(RecreateError(o), host')
      BY <1>0, <1>2, <1>a, <1>b, <2>1, ErrorOwns
    <2> QED BY <1>2, <2>2 DEF OwnStep
  <1>3. CASE Pull(w) /\ Become(w, AfterPull(o))
    <2>0. o.pc = "pull" /\ host' = host
      BY <1>3 DEF Pull
    <2> DEFINE q == AfterPull(o)
    <2>a. o.phase = "do" => o.old # 0
      BY <1>0, <1>d, <2>0 DEF Control
    <2>b. Same(q, o)
      BY <1>0 DEF AfterPull, Same, Op
    <2>c. q.pc = IF o.old = 0 THEN "create"
                 ELSE IF WasRunning(o) THEN "stop" ELSE "remove"
      BY <1>0 DEF AfterPull, Op
    <2>1. /\ Same(q, o)
          /\ \/ q.pc = "stop"
             \/ q.pc = "remove" /\ ~WasRunning(q)
             \/ q.pc = "create" /\ o.phase # "do"
      BY <2>a, <2>b, <2>c DEF Same, WasRunning
    <2> HIDE DEF q
    <2>2. q.pc \in Working
      BY <2>1 DEF Working, PCs
    <2>3. Control(q)
      BY <1>0, <1>d, <2>0, <2>1, <2>2 DEF Control, Same
    <2>4. Owns(q, host)
      BY <1>0, <1>c, <2>0, <2>1, <2>2, <2>3, SameOwns DEF Untouched, Remade, Same
    <2> QED BY <1>3, <2>0, <2>3, <2>4 DEF OwnStep, q
  <1>4. CASE Stop(w) /\ o.old \in DOMAIN host
             /\ Become(w, [o EXCEPT !.pc = "remove", !.stopped = TRUE])
             /\ Stopped(o.old)
    <2> DEFINE q == [o EXCEPT !.pc = "remove", !.stopped = TRUE]
    <2>0. o.pc = "stop"
      BY <1>4 DEF Stop
    <2>1. /\ q.pc = "remove" /\ q.id = o.id /\ q.key = o.key
          /\ q.before = o.before /\ q.phase = o.phase /\ q.old = o.old
          /\ q.new = o.new /\ q.stopped = TRUE /\ q.removed = o.removed
      BY <1>0 DEF Op
    <2>2. DOMAIN host' = DOMAIN host /\ \A i \in DOMAIN host :
             host'[i].name = host[i].name /\ host'[i].image = host[i].image
      BY <1>4, <1>a DEF Stopped, Container
    <2> HIDE DEF q
    <2>3. q.pc \in Working
      BY <2>1 DEF Working, PCs
    <2>4. Control(q)
      BY <1>0, <2>0, <2>1, <2>3 DEF Control
    <2>5. Mine(q) = Mine(o)
      BY <2>1 DEF Mine
    <2>6. Untouched(q) => Intact(q, host')
      BY <1>0, <2>0, <2>1, <2>2 DEF Owns, Untouched, Intact
    <2>7. Owns(q, host')
      BY <1>0, <1>c, <2>1, <2>2, <2>5, <2>6 DEF Owns, Remade
    <2> QED BY <1>4, <2>4, <2>7 DEF OwnStep, q
  <1>5. CASE Remove(w) /\ host' = Keep(host, DOMAIN host \ {o.old})
             /\ Become(w, [o EXCEPT !.pc = "create", !.removed = TRUE])
    <2> DEFINE q == [o EXCEPT !.pc = "create", !.removed = TRUE]
    <2>0. o.pc = "remove"
      BY <1>5 DEF Remove
    <2>1. /\ q.pc = "create" /\ q.id = o.id /\ q.key = o.key
          /\ q.before = o.before /\ q.phase = o.phase /\ q.old = o.old
          /\ q.new = o.new /\ q.removed = TRUE
      BY <1>0 DEF Op
    <2>2. DOMAIN host' = DOMAIN host \ {o.old}
          /\ \A i \in DOMAIN host' : host'[i] = host[i]
      BY <1>5 DEF Keep
    <2>3. o.id \notin DOMAIN host'
      BY <1>0, <1>c, <1>d, <2>0, <2>2 DEF Control, Owns
    <2> HIDE DEF q
    <2>4. q.pc \in Working
      BY <2>1 DEF Working, PCs
    <2>5. Control(q)
      BY <2>1, <2>4 DEF Control
    <2>6. Mine(q) = Mine(o)
      BY <2>1 DEF Mine
    <2>7. Owns(q, host')
      BY <1>0, <1>c, <2>1, <2>2, <2>3, <2>6 DEF Owns, Untouched, Remade
    <2> QED BY <1>5, <2>5, <2>7 DEF OwnStep, q
  <1>6. CASE Pull(w)
    BY <1>2, <1>3, <1>6, <1>e DEF Pull
  <1>7. CASE Stop(w)
    BY <1>2, <1>4, <1>7, <1>e DEF Stop, Succeeds
  <1>8. CASE Remove(w)
    BY <1>2, <1>5, <1>8, <1>e DEF Remove
  <1> QED BY <1>1, <1>6, <1>7, <1>8
\* The steps from the creation on.
LEMMA CreationOwns ==
    ASSUME OpsOK, RestOK, NameInv, OwnInv, NEW w \in Workers,
           Create(w) \/ Validate(w) \/ Start(w) \/ WaitHealthy(w)
           \/ InspectResult(w)
    PROVE  OwnStep(w)
  <1> DEFINE o == op[w]
  <1>0. o \in Op /\ OpInv(o) /\ Control(o) /\ Owns(o, host)
    BY DEF OpsOK, OpInv, OwnInv
  <1>a. 0 \notin DOMAIN host /\ \A i \in DOMAIN host : host[i] \in Container
    BY DEF RestOK, HostOK, ID
  <1>b. o.pc \in {"create", "validate", "start", "wait", "result"}
        /\ o.pc \in Working \ {"define"}
    BY DEF Create, Validate, Start, WaitHealthy, InspectResult, Working, PCs
  <1>c. Ready(o) /\ Snap(o)
    BY <1>0, <1>b, WorkingIsReady, WorkingHasSnap DEF Snap
  <1>d. (o.removed \/ o.phase = "revert") /\ o.id \notin DOMAIN host
    BY <1>0, <1>b, <1>c DEF Control, Owns
  <1>e. o.phase \in {"do", "revert"}
    BY <1>0 DEF Op
  <1>1. CASE host' = host /\ Become(w, RecreateError(o))
    <2>1. Control(RecreateError(o)) /\ Owns(RecreateError(o), host)
      BY <1>0, <1>a, <1>b, <1>c, ErrorOwns DEF Within
    <2> QED BY <1>1, <2>1 DEF OwnStep
  <1>2. ASSUME NEW q, Become(w, q), Same(q, o), o.pc # "create",
               q.pc \in {"start", "wait", "result", "commit", "reread"},
               q.pc = "commit" => o.phase = "do",
               q.pc = "reread" => o.phase = "revert",
               DOMAIN host' = DOMAIN host,
               \A i \in DOMAIN host : host'[i].name = host[i].name
        PROVE  OwnStep(w)
    <2>1. q.pc \in Working /\ q.pc \notin {"done", "define"}
      BY <1>2 DEF Working, PCs
    <2>2. Control(q)
      BY <1>2, <1>d, <2>1 DEF Control, Same
    <2>3. o.new \in DOMAIN host
      BY <1>0, <1>2, <1>b DEF Owns, Remade
    <2>4. Mine(q) = Mine(o)
      BY <1>2 DEF Mine, Same
    <2>5. /\ o.key = o.before.name
          /\ \A i \in Mine(o) \cap DOMAIN host : host[i].name = o.before.name
      BY <1>0, <1>c DEF Owns
    <2>6. ~Untouched(q)
      BY <1>2 DEF Untouched
    <2>7. Owns(q, host')
      BY <1>2, <1>d, <2>1, <2>3, <2>4, <2>5, <2>6 DEF Owns, Same
    <2> QED BY <1>2, <2>2, <2>7 DEF OwnStep
  <1>3. CASE Create(w)
    <2> DEFINE q == [o EXCEPT !.pc = "validate", !.new = nextID,
                              !.state = "created"]
    <2>1. \/ /\ Become(w, q)
             /\ \E c : host' = Put(host, nextID, c) /\ c.name = o.before.name
          \/ host' = host /\ Become(w, RecreateError(o))
      BY <1>3 DEF Create
    <2>2. /\ q.pc = "validate" /\ q.id = o.id /\ q.key = o.key
          /\ q.before = o.before /\ q.phase = o.phase /\ q.old = o.old
          /\ q.new = nextID /\ q.removed = o.removed
      BY <1>0 DEF Op
    <2> HIDE DEF q
    <2>3. CASE /\ Become(w, q)
               /\ \E c : host' = Put(host, nextID, c) /\ c.name = o.before.name
      <3>1. /\ DOMAIN host' = DOMAIN host \cup {nextID}
            /\ host'[nextID].name = o.before.name
            /\ \A i \in DOMAIN host : i # nextID => host'[i] = host[i]
        BY <2>3 DEF Put
      <3>2. o.id \in Nat /\ nextID \in Nat /\ o.id < nextID
        BY <1>0 DEF Op, RestOK, ID, NameInv, CallsAreNamed, CallNamed
      <3>3. o.id \notin DOMAIN host'
        BY <1>d, <3>1, <3>2
      <3>4. q.pc \in Working /\ q.pc \notin {"done", "define"}
        BY <2>2 DEF Working, PCs
      <3>5. Control(q)
        BY <1>d, <2>2, <3>4 DEF Control
      <3>6. \A i \in Mine(q) \cap DOMAIN host' : host'[i].name = o.before.name
        BY <1>0, <1>c, <2>2, <3>1 DEF Owns, Mine
      <3>7. o.key = o.before.name
        BY <1>0, <1>c DEF Owns
      <3>8. Owns(q, host')
        BY <2>2, <3>1, <3>3, <3>4, <3>6, <3>7 DEF Owns, Untouched
      <3> QED BY <2>3, <3>5, <3>8 DEF OwnStep
    <2> QED BY <1>1, <2>1, <2>3
  <1>4. ASSUME NEW r \in Op, Same(r, o)
        PROVE  /\ Same(Recreated(r), o)
               /\ Recreated(r).pc = IF o.phase = "do" THEN "commit" ELSE "reread"
    BY <1>4 DEF Recreated, Same, Op
  <1>5. CASE Become(w, Recreated(o)) /\ host' = host /\ o.pc # "create"
    <2>1. Same(Recreated(o), o)
          /\ Recreated(o).pc = IF o.phase = "do" THEN "commit" ELSE "reread"
      BY <1>0, <1>4 DEF Same
    <2> QED BY <1>2, <1>5, <1>e, <2>1
  <1>6. ASSUME NEW pc \in {"start", "wait", "result"}, o.pc # "create",
               Become(w, [o EXCEPT !.pc = pc]), DOMAIN host' = DOMAIN host,
               \A i \in DOMAIN host : host'[i].name = host[i].name
        PROVE  OwnStep(w)
    <2> DEFINE q == [o EXCEPT !.pc = pc]
    <2>1. Same(q, o) /\ q.pc = pc
      BY <1>0 DEF Same, Op
    <2> HIDE DEF q
    <2> QED BY <1>2, <1>6, <2>1 DEF q
  <1>7. CASE Validate(w)
    <2>1. o.pc = "validate" /\ host' = host
      BY <1>7 DEF Validate, docker
    <2>2. \/ Become(w, [o EXCEPT !.pc = "start"]) \/ Become(w, Recreated(o))
          \/ Become(w, RecreateError(o))
      BY <1>7 DEF Validate
    <2> QED BY <1>1, <1>5, <1>6, <2>1, <2>2
  <1>8. CASE Start(w)
    <2>1. o.pc = "start"
      BY <1>8 DEF Start
    <2>2. host' = [host EXCEPT ![o.new].state = "running"] =>
            DOMAIN host' = DOMAIN host
            /\ \A i \in DOMAIN host : host'[i].name = host[i].name
      BY <1>a DEF Container
    <2> QED BY <1>1, <1>6, <1>8, <2>1, <2>2 DEF Start
  <1>9. CASE WaitHealthy(w)
    <2>1. o.pc = "wait" /\ host' = host
      BY <1>9 DEF WaitHealthy, docker
    <2> QED BY <1>1, <1>6, <1>9, <2>1 DEF WaitHealthy
  <1>10. CASE InspectResult(w)
    <2>1. o.pc = "result" /\ host' = host
      BY <1>10 DEF InspectResult, docker
    <2> DEFINE r == [o EXCEPT !.state = host[o.new].state]
    <2>2. \/ Become(w, Recreated(r)) /\ o.new \in DOMAIN host
          \/ Become(w, RecreateError(o))
      BY <1>10 DEF InspectResult, Succeeds
    <2>3. o.new \in DOMAIN host => r \in Op /\ Same(r, o)
      BY <1>0, <1>a DEF Same, Op, Container
    <2> HIDE DEF r
    <2>4. CASE Become(w, Recreated(r)) /\ o.new \in DOMAIN host
      <3>1. Same(Recreated(r), o)
            /\ Recreated(r).pc = IF o.phase = "do" THEN "commit" ELSE "reread"
        BY <1>4, <2>3, <2>4
      <3> QED BY <1>2, <1>e, <2>1, <2>4, <3>1
    <2> QED BY <1>1, <2>1, <2>2, <2>4
  <1> QED BY <1>3, <1>7, <1>8, <1>9, <1>10

\* What follows recreate().
LEMMA ReturnOwns ==
    ASSUME OpsOK, RestOK, OwnInv, NEW w \in Workers,
           Commit(w) \/ Epilogue(w) \/ RestartOriginal(w) \/ Reread(w)
           \/ RecordReverted(w)
    PROVE  OwnStep(w)
  <1> DEFINE o == op[w]
  <1>0. o \in Op /\ OpInv(o) /\ Control(o) /\ Owns(o, host)
    BY DEF OpsOK, OpInv, OwnInv
  <1>a. 0 \notin DOMAIN host /\ \A i \in DOMAIN host : host[i] \in Container
    BY DEF RestOK, HostOK, ID
  <1>b. o.pc \in {"commit", "epilogue", "restart", "reread", "record"}
        /\ o.pc \in Working \ {"define"}
    BY DEF Commit, Epilogue, RestartOriginal, Reread, RecordReverted, Working,
       PCs
  <1>c. Ready(o) /\ Snap(o)
    BY <1>0, <1>b, WorkingIsReady, WorkingHasSnap DEF Snap
  <1>1. ASSUME NEW q, Become(w, q), Same(q, o), host' = host, Control(q),
               q.pc \in {"done", "epilogue", "record"},
               Remade(q) => Remade(o)
        PROVE  OwnStep(w)
    <2>1. q.pc \in Working \cup {"done"} /\ ~Untouched(q)
      BY <1>1 DEF Working, PCs, Untouched
    <2>2. Owns(q, host)
      BY <1>0, <1>1, <1>c, <2>1, SameOwns
    <2> QED BY <1>1, <2>2 DEF OwnStep
  <1>2. CASE Commit(w)
    <2>0. o.pc = "commit" /\ host' = host /\ o.phase = "do" /\ o.removed
          /\ o.before # Nil
      BY <1>0, <1>2, <1>c DEF Commit, docker, Control, Snap
    <2>1. CASE Become(w, revert(o))
      BY <1>0, <1>a, <1>c, <2>0, <2>1, RevertOwns DEF OwnStep, Within
    <2>2. ASSUME NEW pc \in {"done", "epilogue"},
                 Become(w, [o EXCEPT !.pc = pc, !.outcome = "ok"])
          PROVE  OwnStep(w)
      <3> DEFINE q == [o EXCEPT !.pc = pc, !.outcome = "ok"]
      <3>1. Same(q, o) /\ q.pc = pc /\ q.outcome = "ok"
        BY <1>0 DEF Same, Op
      <3> HIDE DEF q
      <3>2. Control(q)
        BY <2>0, <3>1 DEF Control, Same, Working, PCs
      <3> QED BY <1>1, <2>0, <2>2, <3>1, <3>2 DEF q, Remade
    <2>3. \/ Become(w, revert(o))
          \/ \E pc \in {"done", "epilogue"} :
                Become(w, [o EXCEPT !.pc = pc, !.outcome = "ok"])
      BY <1>2 DEF Commit
    <2> QED BY <2>1, <2>2, <2>3
  <1>3. CASE Epilogue(w)
    <2>0. o.pc = "epilogue" /\ host' = host /\ o.removed /\ o.outcome = "ok"
          /\ o.before # Nil
      BY <1>0, <1>3, <1>c DEF Epilogue, docker, Control, Snap
    <2> DEFINE q == [o EXCEPT !.pc = "done"]
    <2>1. Same(q, o) /\ q.pc = "done" /\ q.outcome = "ok"
      BY <1>0, <2>0 DEF Same, Op
    <2>2. Become(w, q)
      BY <1>3 DEF Epilogue
    <2> HIDE DEF q
    <2>3. Control(q)
      BY <2>0, <2>1 DEF Control, Same, Working
    <2> QED BY <1>1, <2>0, <2>1, <2>2, <2>3 DEF Remade
  <1>4. CASE Reread(w)
    <2>0. o.pc = "reread" /\ host' = host /\ o.phase = "revert"
      BY <1>0, <1>4 DEF Reread, docker, Control
    <2>1. PICK pr, c :
            Become(w, [o EXCEPT !.pc = "record", !.prev = pr, !.cur = c])
      BY <1>4 DEF Reread
    <2> DEFINE q == [o EXCEPT !.pc = "record", !.prev = pr, !.cur = c]
    <2>2. Same(q, o) /\ q.pc = "record"
      BY <1>0 DEF Same, Op
    <2> HIDE DEF q
    <2>3. q.pc \in Working /\ Snap(q) /\ Mine(q) = Mine(o)
      BY <1>c, <2>2 DEF Working, PCs, Snap, Same, Mine
    <2>4. Control(q)
      BY <2>0, <2>2, <2>3 DEF Control, Same
    <2>5. Owns(q, host')
      BY <1>0, <1>c, <2>0, <2>2, <2>3 DEF Owns, Same, Untouched, Remade
    <2> QED BY <2>1, <2>4, <2>5 DEF q, OwnStep
  <1>5. CASE RecordReverted(w)
    <2>0. o.pc = "record" /\ host' = host /\ o.phase = "revert" /\ o.before # Nil
      BY <1>0, <1>5, <1>c DEF RecordReverted, docker, Control, Snap
    <2>1. PICK out \in {"reverted", "unrecorded"} :
            Become(w, [o EXCEPT !.pc = "done", !.outcome = out])
      BY <1>5 DEF RecordReverted
    <2> DEFINE q == [o EXCEPT !.pc = "done", !.outcome = out]
    <2>2. Same(q, o) /\ q.pc = "done" /\ q.outcome = out
      BY <1>0 DEF Same, Op
    <2> HIDE DEF q
    <2>3. Control(q)
      BY <2>0, <2>2 DEF Control, Same, Working
    <2> QED BY <1>1, <2>0, <2>1, <2>2, <2>3 DEF q, Remade
  <1>6. CASE RestartOriginal(w)
    <2>0. o.pc = "restart" /\ o.phase = "do" /\ ~o.removed
      BY <1>0, <1>6 DEF RestartOriginal, Control
    <2> DEFINE f == [o EXCEPT !.pc = "done", !.outcome = "failed"]
               d == [o EXCEPT !.pc = "done", !.outcome = "revert_failed"]
    <2>1. \/ Become(w, f) /\ o.id \in DOMAIN host
             /\ host' = [host EXCEPT ![o.id].state = "running"]
          \/ Become(w, d) /\ host' = host
      BY <1>6 DEF RestartOriginal, Succeeds
    <2>2. Same(f, o) /\ f.pc = "done" /\ f.outcome = "failed"
      BY <1>0 DEF Same, Op
    <2>3. Same(d, o) /\ d.pc = "done" /\ d.outcome = "revert_failed"
      BY <1>0 DEF Same, Op
    <2> HIDE DEF f, d
    <2>4. CASE Become(w, d) /\ host' = host
      <3>1. Control(d)
        BY <2>3 DEF Control, Working
      <3> QED BY <1>1, <2>3, <2>4, <3>1 DEF Remade
    <2>5. CASE Become(w, f) /\ o.id \in DOMAIN host
               /\ host' = [host EXCEPT ![o.id].state = "running"]
      <3>1. Control(f)
        BY <2>2 DEF Control, Working
      <3>2. /\ DOMAIN host' = DOMAIN host /\ host'[o.id].state = "running"
            /\ \A i \in DOMAIN host : host'[i].name = host[i].name
        BY <1>a, <2>5 DEF Container
      <3>4. Mine(f) = Mine(o)
        BY <2>2 DEF Mine, Same
      <3>6. Owns(f, host')
        BY <1>0, <1>c, <2>0, <2>2, <3>2, <3>4 DEF Owns, Same, Untouched, Remade
      <3> QED BY <2>5, <3>1, <3>6 DEF OwnStep
    <2> QED BY <2>1, <2>4, <2>5
  <1> QED BY <1>2, <1>3, <1>4, <1>5, <1>6
-----------------------------------------------------------------------------
\* Two calls that took a snapshot took it of different containers.
LEMMA SnapsDiffer ==
    ASSUME KeyHeldOnce, OwnInv, NEW v \in Workers, NEW w \in Workers, v # w,
           Snap(op[v]), Snap(op[w])
    PROVE  op[v].before.name # op[w].before.name
  <1>1. Holding(v) /\ Holding(w)
    BY DEF Snap, Holding, Working
  <1>2. op[v].key # op[w].key
    BY <1>1 DEF KeyHeldOnce
  <1> QED BY <1>2 DEF OwnInv, Owns

\* A worker touches only its own containers, and only past the snapshot.
LEMMA WorkerIsLocal ==
    ASSUME OpsOK, RestOK, NEW w \in Workers,
           RequestUpdate(w) \/ RequestRollback(w) \/ Step(w)
    PROVE  /\ \A i \in DOMAIN host \ Mine(op[w]) :
                 i # nextID => i \in DOMAIN host' /\ host'[i] = host[i]
           /\ \A i \in DOMAIN host' : i \in DOMAIN host \/ i = nextID
           /\ host' = host \/ op[w].pc \in Working
  <1> DEFINE o == op[w]
  <1>1. CASE Stop(w) \/ Start(w) \/ RestartOriginal(w)
    <2>1. PICK j \in Mine(o) :
            \E s : host' = [host EXCEPT ![j].state = s] \/ host' = host
      BY <1>1 DEF Stop, Stopped, Start, RestartOriginal, Mine
    <2>2. o.pc \in Working
      BY <1>1 DEF Stop, Start, RestartOriginal, Working, PCs
    <2> QED BY <2>1, <2>2
  <1>2. CASE Remove(w)
    <2>1. o.pc \in Working
      BY <1>2 DEF Remove, Working, PCs
    <2>2. host' = Keep(host, DOMAIN host \ {o.old}) \/ host' = host
      BY <1>2 DEF Remove
    <2> QED BY <2>1, <2>2 DEF Keep, Mine
  <1>3. CASE Create(w)
    <2>1. o.pc \in Working
      BY <1>3 DEF Create, Working, PCs
    <2>2. (\E c : host' = Put(host, nextID, c)) \/ host' = host
      BY <1>3 DEF Create
    <2> QED BY <2>1, <2>2 DEF Put
  <1>4. CASE ~(Stop(w) \/ Start(w) \/ RestartOriginal(w) \/ Remove(w) \/ Create(w))
    <2>1. host' = host
      BY <1>4 DEF Step, docker, RequestUpdate, RequestRollback, LookupUpdate,
         LookupRollback, beginOperation, Inspect, Define, Pull, Validate,
         WaitHealthy, InspectResult, Commit, Epilogue, Reread, RecordReverted,
         Finish
    <2> QED BY <2>1
  <1> QED BY <1>1, <1>2, <1>3, <1>4

\* It leaves the containers of the other calls alone.
LEMMA OthersAgree ==
    ASSUME UpdaterInv, NameInv, OwnInv, NEW w \in Workers,
           RequestUpdate(w) \/ RequestRollback(w) \/ Step(w),
           NEW v \in Workers, v # w, Snap(op[v])
    PROVE  Agree(op[v], host, host')
  <1>0. OpsOK /\ RestOK /\ KeyHeldOnce /\ op[v] \in Op
    BY Parts DEF OpsOK
  <1>1. CASE host' = host
    BY <1>1 DEF Agree
  <1>2. CASE op[w].pc \in Working
    <2>1. Snap(op[w])
      BY <1>0, <1>2, WorkingHasSnap DEF OpsOK, OpInv, Snap
    <2>2. op[v].before.name # op[w].before.name
      BY <1>0, <2>1, SnapsDiffer
    <2>3. \A i \in Mine(op[v]) : i \in Nat /\ i < nextID
      BY <1>0 DEF NameInv, CallsAreNamed, CallNamed, Mine, Op
    <2>4. nextID \in Nat
      BY <1>0 DEF RestOK, ID
    <2>5. \A i \in Mine(op[v]) \cap DOMAIN host : i \notin Mine(op[w])
      BY <2>1, <2>2 DEF OwnInv, Owns
    <2>6. \A i \in Mine(op[v]) : i # nextID
      BY <2>3, <2>4
    <2> QED BY <1>0, <2>5, <2>6, WorkerIsLocal DEF Agree
  <1> QED BY <1>0, <1>1, <1>2, WorkerIsLocal

\* A worker's step keeps what every call relies on.
LEMMA WorkerOwnStep ==
    ASSUME UpdaterInv, NameInv, NameInv', NamedGrants', OwnInv,
           NEW w \in Workers, RequestUpdate(w) \/ RequestRollback(w) \/ Step(w)
    PROVE  OwnInv'
  <1>0. OpsOK /\ RestOK /\ KeyHeldOnce
    BY Parts
  <1>1. OwnStep(w)
    BY <1>0, EntryOwns, RemovalOwns, CreationOwns, ReturnOwns DEF Step
  <1>2. PICK p : Become(w, p) /\ Control(p) /\ Owns(p, host')
    BY <1>1 DEF OwnStep
  <1>3. op'[w] = p /\ \A v \in Workers : v # w => op'[v] = op[v]
    BY <1>0, <1>2 DEF Become, OpsOK
  <1>4. ASSUME NEW v \in Workers, v # w
        PROVE  Control(op'[v]) /\ Owns(op'[v], host')
    <2>0. op'[v] = op[v] /\ Control(op[v]) /\ Owns(op[v], host) /\ OpInv(op[v])
          /\ op[v] \in Op
      BY <1>0, <1>3, <1>4 DEF OwnInv, OpsOK, OpInv
    <2>1. CASE ~Snap(op[v])
      BY <2>0, <2>1, NoSnapOwns
    <2>2. CASE Snap(op[v])
      BY <1>4, <2>0, <2>2, OthersAgree, OwnsFrame
    <2> QED BY <2>1, <2>2
  <1>5. UniqueNames'
    <2>1. HostNamed
      BY <1>0, WorkerHost
    <2>2. CASE nextID' # nextID + 1
      BY <2>1, <2>2 DEF HostNamed, OwnInv, UniqueNames
    <2>3. CASE Create(w)
      <3>1. PICK c : \/ /\ host' = Put(host, nextID, c) /\ NameFree(c.name)
                     \/ host' = host
        BY <2>3 DEF Create, Succeeds
      <3> QED BY <3>1 DEF Put, NameFree, OwnInv, UniqueNames
    <2>4. ~Create(w) => nextID' = nextID
      BY DEF Step, docker, RequestUpdate, RequestRollback, LookupUpdate,
         LookupRollback, beginOperation, Inspect, Define, Pull, Stop, Remove,
         Validate, Start, WaitHealthy, InspectResult, Commit, Epilogue,
         RestartOriginal, Reread, RecordReverted, Finish
    <2>5. nextID # nextID + 1
      BY <1>0 DEF RestOK, ID
    <2> QED BY <2>2, <2>3, <2>4, <2>5
  <1> QED BY <1>2, <1>3, <1>4, <1>5 DEF OwnInv

\* Docker's own steps keep every container, and running those that survive.
LEMMA CrashIsBroken ==
    ASSUME RestOK, NEW i \in DOMAIN host, ContainerCrash(i) \/ ContainerRestart(i)
    PROVE  DOMAIN host' = DOMAIN host /\ \A j \in DOMAIN host :
             /\ host'[j].name = host[j].name /\ host'[j].image = host[j].image
             /\ host[j].image \notin Broken /\ host[j].state = "running"
                   => host'[j].state = "running"
  <1>2. host[i] \in Container
    BY DEF RestOK, HostOK
  <1>3. PICK c : /\ host' = [host EXCEPT ![i] = c]
                 /\ c.name = host[i].name /\ c.image = host[i].image
                 /\ host[i].image \notin Broken /\ host[i].state = "running"
                       => c.state = "running"
    <2>1. CASE ContainerRestart(i)
      <3> DEFINE c == [host[i] EXCEPT !.state = "running"]
      <3>1. host' = [host EXCEPT ![i] = c]
        BY <2>1 DEF ContainerRestart
      <3>2. c.name = host[i].name /\ c.image = host[i].image
            /\ c.state = "running"
        BY <1>2 DEF Container
      <3> QED BY <3>1, <3>2
    <2>2. CASE ContainerCrash(i)
      <3>1. host[i].image \in Broken
        BY <2>2 DEF ContainerCrash
      <3>2. \E c : host' = [host EXCEPT ![i] = c]
                   /\ c.name = host[i].name /\ c.image = host[i].image
        BY <1>2, <2>2 DEF ContainerCrash, Container
      <3> QED BY <3>1, <3>2
    <2> QED BY <2>1, <2>2
  <1> QED BY <1>3

\* So does every other step: Docker restarts only what does not survive.
LEMMA OtherOwnStep ==
    ASSUME UpdaterInv, OwnInv, Sweep \/ Environment \/ UNCHANGED vars
    PROVE  OwnInv'
  <1>0. OpsOK /\ RestOK
    BY Parts
  <1>1. CASE UNCHANGED <<op, host>>
    BY <1>1 DEF OwnInv, UniqueNames
  <1>2. ASSUME NEW w \in Workers, Expire(w)
        PROVE  OwnInv'
    <2> DEFINE p == [op[w] EXCEPT !.expired = TRUE]
    <2>1. op[w] \in Op /\ host' = host
      BY <1>0, <1>2 DEF OpsOK, Expire, docker
    <2>2. op'[w] = p /\ \A v \in Workers : v # w => op'[v] = op[v]
      BY <1>0, <1>2 DEF Expire, OpsOK
    <2>3. Same(p, op[w]) /\ p.pc = op[w].pc /\ p.outcome = op[w].outcome
      BY <2>1 DEF Same, Op
    <2> HIDE DEF p
    <2>4. Mine(p) = Mine(op[w])
      BY <2>3 DEF Mine, Same
    <2>5. Control(op[w]) /\ Owns(op[w], host)
      BY DEF OwnInv
    <2>6. Control(p)
      BY <2>3, <2>5 DEF Control, Same, Fresh, WasRunning
    <2>7. Owns(p, host)
      BY <2>3, <2>4, <2>5 DEF Owns, Same, Snap, Untouched, Intact, RunsAsBefore,
         Remade, WasRunning
    <2> QED BY <2>1, <2>2, <2>6, <2>7 DEF OwnInv, UniqueNames
  <1>3. CASE Exit
    <2>1. host' = host /\ \A w \in Workers : op'[w] = Idle
      BY <1>3 DEF Exit, docker
    <2>2. Control(Idle)
      BY DEF Control, Idle, Fresh
    <2>3. Owns(Idle, host)
      BY DEF Owns, Idle, Snap, Untouched, Remade
    <2> QED BY <2>1, <2>2, <2>3 DEF OwnInv, UniqueNames
  <1>4. ASSUME NEW i \in DOMAIN host, ContainerCrash(i) \/ ContainerRestart(i)
        PROVE  OwnInv'
    <2>1. op' = op
      BY <1>4 DEF ContainerCrash, ContainerRestart
    <2>4. DOMAIN host' = DOMAIN host /\ \A j \in DOMAIN host :
             /\ host'[j].name = host[j].name /\ host'[j].image = host[j].image
             /\ host[j].image \notin Broken /\ host[j].state = "running"
                   => host'[j].state = "running"
      BY <1>0, <1>4, CrashIsBroken
    <2>5. ASSUME NEW w \in Workers
          PROVE  Owns(op[w], host')
      <3>1. Owns(op[w], host)
        BY DEF OwnInv
      <3>2. Intact(op[w], host) => Intact(op[w], host')
            /\ (RunsAsBefore(op[w], host) => RunsAsBefore(op[w], host'))
        BY <2>4 DEF Intact, RunsAsBefore
      <3> QED BY <2>4, <3>1, <3>2 DEF Owns
    <2> QED BY <2>1, <2>4, <2>5 DEF OwnInv, UniqueNames
  <1>5. CASE Sweep
    <2>1. UNCHANGED <<op, host>>
      BY <1>5 DEF Sweep, SweepList, SweepPrune, SweepUpsert, SweepCheck, docker
    <2> QED BY <1>1, <2>1
  <1>6. CASE Environment
    <2>1. (\E t \in Tags, c \in Images : Publish(t, c)) => UNCHANGED <<op, host>>
      BY DEF Publish, docker
    <2> QED BY <1>1, <1>2, <1>3, <1>4, <1>6, <2>1 DEF Environment
  <1>7. CASE UNCHANGED vars
    BY <1>1, <1>7 DEF vars
  <1> QED BY <1>5, <1>6, <1>7

\* The daemon starts with unique names and no calls.
LEMMA OwnInit == Init => OwnInv
  <1> SUFFICES ASSUME Init PROVE OwnInv
    OBVIOUS
  <1>1. PICK ids \in Bijection(1..Cardinality(Names), Names),
             configs \in [Names -> [kind : {"tag"}, of : Tags]
                            \cup [kind : {"pin"}, of : Images \ Broken]],
             states \in [Names -> {"running", "exited"}] :
          host = [i \in 1..Cardinality(Names) |->
                    LET b == ids[i] IN
                    [name |-> b, config |-> configs[b],
                     image |-> Resolve(configs[b]), state |-> states[b],
                     restarts |-> 0, by |-> "operator"]]
    BY DEF Init
  <1>2. DOMAIN host = 1..Cardinality(Names)
        /\ \A i \in DOMAIN host : host[i].name = ids[i]
    BY <1>1
  <1>3. \A i, j \in 1..Cardinality(Names) : ids[i] = ids[j] => i = j
    BY DEF Bijection, Injection, IsInjective
  <1>4. UniqueNames
    BY <1>2, <1>3 DEF UniqueNames
  <1>5. \A w \in Workers : op[w] = Idle
    BY DEF Init
  <1>6. Control(Idle) /\ Owns(Idle, host)
    BY DEF Control, Idle, Fresh, Owns, Snap, Untouched, Remade
  <1> QED BY <1>4, <1>5, <1>6 DEF OwnInv

\* As long as the calls that got past the snapshot were granted a name, each
\* one owns its container: nobody else stops, removes or starts it.
THEOREM NamedCallsOwnTheirContainer ==
    Spec /\ []NamedGrants => []OwnInv
  <1>1. UpdaterInv /\ NameInv /\ NameInv' /\ NamedGrants' /\ OwnInv
          /\ [Next]_vars => OwnInv'
    BY WorkerOwnStep, OtherOwnStep DEF Next
  <1> QED BY <1>1, OwnInit, NamesAgree, PTL DEF Spec

-----------------------------------------------------------------------------
(* What an operation that failed before the removal leaves behind.          *)

\* Of the call o, on the host h, with the calls t that took effect behind an
\* error.
Spared(o, h, t) ==
    /\ o.pc = "done" /\ o.outcome = "failed" /\ o.before # Nil
    /\ \A x \in t : x.id = o.id => x.call = "stop"
    => Intact(o, h) /\ ((\A x \in t : x.id # o.id) => RunsAsBefore(o, h))

SparedInv == \A w \in Workers : Spared(op[w], host, torn)

\* It concerns the call's own containers, and more such calls promise less.
LEMMA SparedFrame ==
    ASSUME NEW o, NEW h, NEW g, NEW t, NEW u, Spared(o, h, t), t \subseteq u,
           Agree(o, h, g)
    PROVE  Spared(o, g, u)
  BY DEF Spared, Agree, Mine, Intact, RunsAsBefore

\* An error of recreate(): the operation fails with the original as it was, or
\* the call that failed is one of those that took effect.
LEMMA ErrorSpares ==
    ASSUME OpsOK, RestOK, OwnInv, NEW w \in Workers,
           Pull(w) \/ Stop(w) \/ Remove(w), Become(w, RecreateError(op[w]))
    PROVE  Spared(RecreateError(op[w]), host', torn')
  <1> DEFINE o == op[w]
             p == RecreateError(o)
             f == [o EXCEPT !.pc = "done", !.outcome = "failed"]
  <1>0. o \in Op /\ OpInv(o) /\ Control(o) /\ Owns(o, host)
    BY DEF OpsOK, OpInv, OwnInv
  <1>a. o.pc \in {"pull", "stop", "remove"} /\ Ready(o)
    BY <1>0, WorkingIsReady DEF Pull, Stop, Remove, Working, PCs
  <1>b. o.phase \in {"do", "revert"}
    BY <1>0 DEF Op
  <1>1. CASE o.phase = "revert"
    BY <1>0, <1>1 DEF RecreateError, Spared, Op
  <1>2. CASE o.phase = "do" /\ o.stopped
    <2>1. p = [o EXCEPT !.pc = "restart"]
      BY <1>0, <1>2, <1>a DEF RecreateError, Control
    <2> QED BY <1>0, <2>1 DEF Spared, Op
  <1>3. CASE o.phase = "do" /\ ~o.stopped
    <2>1. p = f
      BY <1>0, <1>3, <1>a DEF RecreateError, Control
    <2>2. f.outcome = "failed" /\ f.id = o.id /\ f.before = o.before
      BY <1>0 DEF Op
    <2>3. o.old = o.id /\ Intact(o, host) /\ RunsAsBefore(o, host)
      BY <1>0, <1>3, <1>a DEF Control, Owns, Untouched
    <2> HIDE DEF f
    <2>4. CASE host' = host
      BY <2>1, <2>2, <2>3, <2>4 DEF Spared, Intact, RunsAsBefore, WasRunning
    <2>5. CASE Stopped(o.old) /\ o.old \in DOMAIN host /\ Tears(o, "stop")
      <3>1. \E x \in torn' : x.id = o.id
        <4> DEFINE x == [name |-> o.before.name, id |-> o.old, call |-> "stop"]
        <4>1. x \in torn'
          BY <2>1, <2>2, <2>5 DEF Tears
        <4>2. x.id = o.id
          BY <2>3
        <4> HIDE DEF x
        <4> QED BY <4>1, <4>2
      <3>2. DOMAIN host' = DOMAIN host /\ host'[o.id].image = host[o.id].image
        BY <2>3, <2>5 DEF Stopped, RestOK, HostOK, Container
      <3> QED BY <2>1, <2>2, <2>3, <3>1, <3>2 DEF Spared, Intact
    <2>6. CASE Tears(o, "remove")
      <3>1. \E x \in torn' : x.id = o.id /\ x.call = "remove"
        <4> DEFINE x == [name |-> o.before.name, id |-> o.old,
                         call |-> "remove"]
        <4>1. x \in torn'
          BY <2>1, <2>2, <2>6 DEF Tears
        <4>2. x.id = o.id /\ x.call = "remove"
          BY <2>3
        <4> HIDE DEF x
        <4> QED BY <4>1, <4>2
      <3> QED BY <2>1, <2>2, <3>1 DEF Spared
    <2>7. CASE Pull(w)
      BY <2>4, <2>7 DEF Pull
    <2>8. CASE Stop(w)
      <3>1. Become(w, [o EXCEPT !.pc = "remove", !.stopped = TRUE]) => FALSE
        <4>1. [o EXCEPT !.pc = "remove", !.stopped = TRUE].pc = "remove"
              /\ f.pc = "done"
          BY <1>0 DEF Op, f
        <4> QED BY <2>1, <4>1 DEF Become, OpsOK, p
      <3> QED BY <2>4, <2>5, <2>8, <3>1 DEF Stop
    <2>9. CASE Remove(w)
      <3>1. Become(w, [o EXCEPT !.pc = "create", !.removed = TRUE]) => FALSE
        <4>1. [o EXCEPT !.pc = "create", !.removed = TRUE].pc = "create"
              /\ f.pc = "done"
          BY <1>0 DEF Op, f
        <4> QED BY <2>1, <4>1 DEF Become, OpsOK, p
      <3> QED BY <2>4, <2>6, <2>9, <3>1 DEF Remove
    <2> QED BY <2>7, <2>8, <2>9
  <1> QED BY <1>1, <1>2, <1>3, <1>b

\* The step of a worker, for its own call.
LEMMA WorkerSpares ==
    ASSUME OpsOK, RestOK, OwnInv, NEW w \in Workers,
           RequestUpdate(w) \/ RequestRollback(w) \/ Step(w)
    PROVE  Spared(op'[w], host', torn')
  <1> DEFINE o == op[w]
  <1>0. o \in Op /\ OpInv(o) /\ Control(o) /\ Owns(o, host)
    BY DEF OpsOK, OpInv, OwnInv
  <1>a. ASSUME NEW p, Become(w, p) PROVE op'[w] = p
    BY <1>a DEF Become, OpsOK
  <1>1. ASSUME NEW p, Become(w, p), p.pc # "done" PROVE Spared(op'[w], host', torn')
    BY <1>1, <1>a DEF Spared
  <1>2. ASSUME NEW p, Become(w, p), p.outcome # "failed"
        PROVE  Spared(op'[w], host', torn')
    BY <1>2, <1>a DEF Spared
  <1>3. CASE \/ RequestUpdate(w) \/ RequestRollback(w) \/ LookupUpdate(w)
             \/ LookupRollback(w) \/ beginOperation(w) \/ Finish(w)
    <2>1. Idle.pc # "done"
      BY DEF Idle
    <2>2. \A k, j, i, t :
            [Idle EXCEPT !.pc = "lookup", !.kind = k, !.id = i, !.target = t].pc
              # "done"
            /\ [Idle EXCEPT !.pc = "lookup", !.kind = k, !.id = i].pc # "done"
      BY DEF Idle
    <2>3. \A k, t, c :
            /\ [o EXCEPT !.pc = "begin", !.key = k].pc = "begin"
            /\ [o EXCEPT !.pc = "begin", !.key = k, !.target = t, !.cur = c].pc
                  = "begin"
            /\ [o EXCEPT !.pc = "inspect"].pc = "inspect"
      BY <1>0 DEF Op
    <2>4. CASE RequestUpdate(w) \/ RequestRollback(w)
      BY <1>1, <2>2, <2>4 DEF RequestUpdate, RequestRollback
    <2>5. CASE LookupUpdate(w) \/ LookupRollback(w)
      BY <1>1, <2>1, <2>3, <2>5 DEF LookupUpdate, LookupRollback
    <2>6. CASE beginOperation(w) \/ Finish(w)
      BY <1>1, <2>1, <2>3, <2>6 DEF beginOperation, Finish
    <2> QED BY <1>3, <2>4, <2>5, <2>6
  <1>4. CASE Inspect(w)
    <2> DEFINE f == [o EXCEPT !.pc = "done", !.outcome = "failed"]
               q == [o EXCEPT !.pc = "define", !.before = host[o.id]]
    <2>1. f.before = o.before /\ q.pc = "define"
      BY <1>0 DEF Op
    <2>2. o.before = Nil
      BY <1>0, <1>4 DEF Inspect, Control, Working
    <2>3. Become(w, f) \/ Become(w, q)
      BY <1>4 DEF Inspect
    <2> HIDE DEF f, q
    <2> QED BY <1>1, <1>a, <2>1, <2>2, <2>3 DEF Spared
  <1>5. CASE Define(w)
    <2>0. o.pc = "define" /\ host' = host /\ Untouched(o) /\ ~o.stopped
      BY <1>0, <1>5 DEF Define, docker, Control, Untouched, Fresh
    <2>1. PICK cur : Become(w, StartRecreate(o, cur))
      BY <1>5 DEF Define
    <2> DEFINE f == [o EXCEPT !.pc = "done", !.outcome = "failed"]
               r == [o EXCEPT !.cur = cur, !.old = o.id]
               q == BeginRecreate(r)
    <2>2. Become(w, f) \/ Become(w, q)
      BY <2>1 DEF StartRecreate
    <2>3. f.id = o.id /\ f.before = o.before
      BY <1>0 DEF Op
    <2>a. DOMAIN r = DOMAIN o /\ "pc" \in DOMAIN r
      BY <1>0 DEF Op
    <2> HIDE DEF r
    <2>4. q.pc # "done"
      BY <2>a DEF BeginRecreate, AfterPull
    <2>5. Intact(o, host) /\ RunsAsBefore(o, host)
      BY <1>0, <2>0 DEF Owns
    <2> HIDE DEF f, q
    <2>6. CASE Become(w, f)
      <3>1. Intact(f, host') /\ RunsAsBefore(f, host')
        BY <2>0, <2>3, <2>5 DEF Intact, RunsAsBefore, WasRunning
      <3> QED BY <1>a, <2>6, <3>1 DEF Spared
    <2> QED BY <1>1, <2>2, <2>4, <2>6
  <1>6. CASE Pull(w) \/ Stop(w) \/ Remove(w)
    <2>1. CASE Become(w, RecreateError(o))
      BY <1>6, <1>a, <2>1, ErrorSpares
    <2>2. /\ AfterPull(o).pc # "done"
          /\ [o EXCEPT !.pc = "remove", !.stopped = TRUE].pc = "remove"
          /\ [o EXCEPT !.pc = "create", !.removed = TRUE].pc = "create"
      BY <1>0 DEF AfterPull, Op
    <2> QED BY <1>1, <1>6, <2>1, <2>2 DEF Pull, Stop, Remove
  <1>7. CASE \/ Create(w) \/ Validate(w) \/ Start(w) \/ WaitHealthy(w)
             \/ InspectResult(w) \/ Commit(w)
    <2>0. Ready(o) /\ (o.removed \/ o.phase = "revert")
      <3>1. o.pc \in {"create", "validate", "start", "wait", "result", "commit"}
        BY <1>7 DEF Create, Validate, Start, WaitHealthy, InspectResult, Commit
      <3> QED BY <1>0, <3>1, WorkingIsReady DEF Control, Working, PCs
    <2> DEFINE d == [o EXCEPT !.pc = "done", !.outcome = "revert_failed"]
               r == [o EXCEPT !.phase = "revert", !.old = o.new, !.new = 0,
                              !.stopped = FALSE, !.removed = FALSE,
                              !.target = o.before.config]
    <2>1. d.outcome = "revert_failed" /\ DOMAIN r = DOMAIN o /\ "pc" \in DOMAIN r
      BY <1>0 DEF Op
    <2>2. revert(o) = BeginRecreate(r)
          /\ (RecreateError(o) = d \/ RecreateError(o) = revert(o))
      BY <2>0 DEF revert, RecreateError
    <2> HIDE DEF d, r
    <2>3. BeginRecreate(r).pc # "done"
      BY <2>1 DEF BeginRecreate, AfterPull
    <2>4. CASE Become(w, RecreateError(o)) \/ Become(w, revert(o))
      BY <1>1, <1>2, <2>1, <2>2, <2>3, <2>4
    <2>5. \A i, s, t :
            /\ [o EXCEPT !.pc = "validate", !.new = i, !.state = s].pc # "done"
            /\ [o EXCEPT !.pc = "start"].pc # "done"
            /\ [o EXCEPT !.pc = "wait"].pc # "done"
            /\ [o EXCEPT !.pc = "result"].pc # "done"
            /\ Recreated(o).pc # "done"
            /\ Recreated([o EXCEPT !.state = s]).pc # "done"
            /\ [o EXCEPT !.pc = t, !.outcome = "ok"].outcome # "failed"
      BY <1>0 DEF Recreated, Op
    <2>6. CASE Create(w) \/ Validate(w) \/ Start(w)
      BY <1>1, <2>4, <2>5, <2>6 DEF Create, Validate, Start
    <2>7. CASE WaitHealthy(w) \/ InspectResult(w)
      BY <1>1, <2>4, <2>5, <2>7 DEF WaitHealthy, InspectResult
    <2>8. CASE Commit(w)
      BY <1>2, <2>4, <2>5, <2>8 DEF Commit
    <2> QED BY <1>7, <2>6, <2>7, <2>8
  <1>8. CASE Epilogue(w) \/ Reread(w) \/ RecordReverted(w)
    <2>1. \A x, y :
            /\ [o EXCEPT !.pc = "done"].outcome = o.outcome
            /\ [o EXCEPT !.pc = "record", !.prev = x, !.cur = y].pc # "done"
            /\ [o EXCEPT !.pc = "done", !.outcome = "reverted"].outcome # "failed"
            /\ [o EXCEPT !.pc = "done", !.outcome = "unrecorded"].outcome
                  # "failed"
      BY <1>0 DEF Op
    <2>2. CASE Epilogue(w)
      BY <1>0, <1>2, <2>1, <2>2 DEF Epilogue, Control
    <2>3. CASE Reread(w)
      BY <1>1, <2>1, <2>3 DEF Reread
    <2>4. CASE RecordReverted(w)
      BY <1>2, <2>1, <2>4 DEF RecordReverted
    <2> QED BY <1>8, <2>2, <2>3, <2>4
  <1>9. CASE RestartOriginal(w)
    <2> DEFINE f == [o EXCEPT !.pc = "done", !.outcome = "failed"]
               d == [o EXCEPT !.pc = "done", !.outcome = "revert_failed"]
    <2>1. \/ Become(w, f) /\ o.id \in DOMAIN host
             /\ host' = [host EXCEPT ![o.id].state = "running"]
          \/ Become(w, d)
      BY <1>9 DEF RestartOriginal, Succeeds
    <2>2. f.id = o.id /\ f.before = o.before /\ d.outcome = "revert_failed"
      BY <1>0 DEF Op
    <2> HIDE DEF f, d
    <2>3. CASE Become(w, f) /\ o.id \in DOMAIN host
               /\ host' = [host EXCEPT ![o.id].state = "running"]
      <3>1. host[o.id].image = o.before.image
        BY <1>0, <1>9, <2>3 DEF RestartOriginal, Owns
      <3>2. DOMAIN host' = DOMAIN host /\ host'[o.id].state = "running"
            /\ host'[o.id].image = host[o.id].image
        BY <2>3 DEF RestOK, HostOK, Container
      <3>3. Intact(f, host') /\ RunsAsBefore(f, host')
        BY <2>2, <2>3, <3>1, <3>2 DEF Intact, RunsAsBefore
      <3> QED BY <1>a, <2>3, <3>3 DEF Spared
    <2> QED BY <1>2, <2>1, <2>2, <2>3
  <1> QED BY <1>3, <1>4, <1>5, <1>6, <1>7, <1>8, <1>9 DEF Step

\* Every step keeps it for every call.
LEMMA SparedStep ==
    ASSUME UpdaterInv, NameInv, OwnInv, SparedInv, [Next]_vars
    PROVE  SparedInv'
  <1>0. OpsOK /\ RestOK
    BY Parts
  <1>1. ASSUME NEW w \in Workers,
               RequestUpdate(w) \/ RequestRollback(w) \/ Step(w)
        PROVE  SparedInv'
    <2>1. PICK p : Become(w, p)
      BY <1>0, <1>1, WorkerMoves DEF Moves
    <2>2. \A v \in Workers : v # w => op'[v] = op[v]
      BY <1>0, <2>1 DEF Become, OpsOK
    <2>3. torn \subseteq torn'
      BY <1>1, TornGrows
    <2>4. ASSUME NEW v \in Workers, v # w PROVE Spared(op[v], host', torn')
      <3>1. CASE ~Snap(op[v])
        BY <3>1 DEF Spared, Snap
      <3>2. CASE Snap(op[v])
        BY <1>1, <2>3, <2>4, <3>2, OthersAgree, SparedFrame DEF SparedInv
      <3> QED BY <3>1, <3>2
    <2>5. Spared(op'[w], host', torn')
      BY <1>0, <1>1, WorkerSpares
    <2> QED BY <2>2, <2>4, <2>5 DEF SparedInv
  <1>2. CASE UNCHANGED <<op, host, torn>>
    BY <1>2 DEF SparedInv
  <1>3. ASSUME NEW w \in Workers, Expire(w)
        PROVE  SparedInv'
    <2>1. /\ UNCHANGED <<host, torn>> /\ op[w].pc # "done"
          /\ op'[w].pc = op[w].pc
          /\ \A v \in Workers : v # w => op'[v] = op[v]
      BY <1>0, <1>3 DEF Expire, docker, history, OpsOK, Op
    <2> QED BY <2>1 DEF SparedInv, Spared
  <1>4. CASE Exit
    BY <1>4 DEF Exit, SparedInv, Spared, Idle
  <1>5. ASSUME NEW i \in DOMAIN host, ContainerCrash(i) \/ ContainerRestart(i)
        PROVE  SparedInv'
    <2>1. UNCHANGED <<op, torn>>
      BY <1>5 DEF ContainerCrash, ContainerRestart, history
    <2>2. DOMAIN host' = DOMAIN host /\ \A j \in DOMAIN host :
             /\ host'[j].image = host[j].image
             /\ host[j].image \notin Broken /\ host[j].state = "running"
                   => host'[j].state = "running"
      BY <1>0, <1>5, CrashIsBroken
    <2>3. ASSUME NEW w \in Workers PROVE Spared(op[w], host', torn)
      BY <2>2 DEF SparedInv, Spared, Intact, RunsAsBefore
    <2> QED BY <2>1, <2>3 DEF SparedInv
  <1>6. CASE Sweep
    BY <1>2, <1>6 DEF Sweep, SweepList, SweepPrune, SweepUpsert, SweepCheck,
       docker, history
  <1>7. CASE Environment
    <2>1. (\E t \in Tags, c \in Images : Publish(t, c))
            => UNCHANGED <<op, host, torn>>
      BY DEF Publish, docker, history
    <2> QED BY <1>2, <1>3, <1>4, <1>5, <1>7, <2>1 DEF Environment
  <1>8. CASE UNCHANGED vars
    BY <1>2, <1>8 DEF vars
  <1> QED BY <1>1, <1>6, <1>7, <1>8 DEF Next

\* failBeforeRemoval: an operation that fails before it removed the original
\* leaves that very container, on its image, running if it was running,
\* whatever other operations, sweeps, crashes and restarts do meanwhile, unless
\* its own stop or removal was carried out and answered with an error.  Two
\* operations on one container under a name and under its raw ID can break
\* this, so the calls past the snapshot hold names here.
THEOREM FailureLeavesTheOriginal ==
    Spec /\ []NamedGrants => []FailureKeepsOriginal
  <1>1. SparedInv => FailureKeepsOriginal
    BY DEF SparedInv, Spared, FailureKeepsOriginal, Intact, RunsAsBefore, WasRunning
  <1>2. Init => SparedInv
    BY DEF Init, SparedInv, Spared, Idle
  <1>3. UpdaterInv /\ NameInv /\ OwnInv /\ SparedInv /\ [Next]_vars => SparedInv'
    BY SparedStep
  <1> QED BY <1>1, <1>2, <1>3, NamesAgree, NamedCallsOwnTheirContainer, PTL
          DEF Spec
-----------------------------------------------------------------------------
(* What the operations that hold names write to the table.                  *)

\* Not about to record a revert, nor past a commit.
Plain(p) ==
    /\ p.pc \in Working \cup {"done"}
    /\ p.pc \notin {"record", "epilogue"}
    /\ p.pc = "done" => p.outcome \notin {"ok", "reverted"}

\* The commit, or the record of a revert, is written.
Settled(o) ==
    o.pc = "epilogue" \/ (o.pc = "done" /\ o.outcome \in {"ok", "reverted"})

\* The program counters of the steps below.
LEMMA PlainLabels ==
    /\ {"define", "pull", "stop", "remove", "create", "validate", "start",
        "wait", "result", "commit", "restart", "reread"} \subseteq Working
    /\ {"idle", "lookup", "begin", "inspect", "done"} \cap Working = {}
  BY DEF Working, PCs

\* recreate() and its error returns neither commit nor record.
LEMMA RecreateIsPlain ==
    ASSUME NEW o, Ready(o)
    PROVE  /\ Plain(AfterPull(o)) /\ Plain(BeginRecreate(o))
           /\ Plain(revert(o)) /\ Plain(RecreateError(o)) /\ Plain(Recreated(o))
  <1>1. ASSUME NEW p, p.pc \in {"pull", "stop", "remove", "create", "restart",
                                "commit", "reread"}
        PROVE  Plain(p)
    BY <1>1, PlainLabels DEF Plain
  <1>2. Plain(AfterPull(o)) /\ Plain(BeginRecreate(o)) /\ Plain(revert(o))
    BY <1>1, BeginRecreateType, RevertType
  <1>3. ASSUME NEW out \in {"failed", "revert_failed"}
        PROVE  Plain([o EXCEPT !.pc = "done", !.outcome = out])
    <2> DEFINE d == [o EXCEPT !.pc = "done", !.outcome = out]
    <2>1. d.pc = "done" /\ d.outcome = out
      BY DEF Ready, Op
    <2> HIDE DEF d
    <2>2. Plain(d)
      BY <2>1 DEF Plain
    <2> QED BY <2>2 DEF d
  <1>4. Plain([o EXCEPT !.pc = "restart"])
    <2> DEFINE s == [o EXCEPT !.pc = "restart"]
    <2>1. s.pc = "restart"
      BY DEF Ready, Op
    <2> HIDE DEF s
    <2>2. Plain(s)
      BY <1>1, <2>1
    <2> QED BY <2>2 DEF s
  <1>5. Plain(RecreateError(o))
    BY <1>2, <1>3, <1>4 DEF RecreateError
  <1>6. Plain(Recreated(o))
    <2>1. Recreated(o).pc \in {"commit", "reread"}
      BY DEF Recreated, Ready, Op, PCs
    <2> QED BY <1>1, <2>1
  <1> QED BY <1>2, <1>5, <1>6

\* Up to the commit, and on every error path.
LEMMA WorkIsPlain ==
    ASSUME OpsOK, RestOK, NEW w \in Workers,
           \/ Define(w) \/ Pull(w) \/ Stop(w) \/ Remove(w)
           \/ Create(w) \/ Validate(w) \/ Start(w) \/ WaitHealthy(w)
           \/ InspectResult(w) \/ RestartOriginal(w)
    PROVE  Plain(op'[w]) /\ UNCHANGED <<rows, retired>>
  <1> DEFINE o == op[w]
  <1>0. o \in Op /\ OpInv(o)
    BY DEF OpsOK, OpInv
  <1>1. UNCHANGED <<rows, retired>>
    BY DEF Define, Pull, Stop, Remove, Create, Validate, Start, WaitHealthy,
       InspectResult, RestartOriginal, stored, history
  <1> SUFFICES Plain(op'[w])
    BY <1>1
  <1>2. ASSUME NEW p, Become(w, p), Plain(p)
        PROVE  Plain(op'[w])
    BY <1>2 DEF Become, OpsOK
  <1>3. ASSUME NEW pc \in {"remove", "create", "validate", "start", "wait",
                           "result"},
               NEW p, Become(w, p), p.pc = pc
        PROVE  Plain(op'[w])
    BY <1>2, <1>3, PlainLabels DEF Plain
  <1>4. ASSUME NEW out \in {"failed", "revert_failed"},
               Become(w, [o EXCEPT !.pc = "done", !.outcome = out])
        PROVE  Plain(op'[w])
    <2> DEFINE d == [o EXCEPT !.pc = "done", !.outcome = out]
    <2>1. d.pc = "done" /\ d.outcome = out
      BY <1>0 DEF Op
    <2>2. Become(w, d)
      BY <1>4
    <2> HIDE DEF d
    <2> QED BY <1>2, <2>1, <2>2 DEF Plain
  <1>5. CASE Define(w)
    <2>1. o.pc = "define"
      BY <1>5 DEF Define
    <2>2. o.id \in ID /\ o.key \in Keys /\ o.target \in Ref
          /\ o.before \in Container /\ (o.kind = "rollback" => o.cur \in Ref)
      BY <1>0, <2>1, PlainLabels DEF OpInv, OpShape
    <2>3. PICK cur : cur \in Ref /\ Become(w, StartRecreate(o, cur))
      BY <1>5, <2>2 DEF Define, Succeeds, RestOK, RowsOK, Row,
         stableImageReference
    <2> DEFINE r == [o EXCEPT !.cur = cur, !.old = o.id]
    <2>4. Ready(r)
      BY <1>0, <2>2, <2>3 DEF Ready, Op, ID
    <2>5. \/ Become(w, [o EXCEPT !.pc = "done", !.outcome = "failed"])
          \/ Become(w, BeginRecreate(r))
      BY <2>3 DEF StartRecreate
    <2> HIDE DEF r
    <2> QED BY <1>2, <1>4, <2>4, <2>5, RecreateIsPlain
  <1>6. CASE ~Define(w)
    <2>0. Ready(o)
      <3>1. o.pc \in Working \ {"define"}
        BY <1>6, PlainLabels DEF Pull, Stop, Remove, Create, Validate, Start,
           WaitHealthy, InspectResult, RestartOriginal
      <3> QED BY <1>0, <3>1, WorkingIsReady
    <2>1. CASE Become(w, RecreateError(o)) \/ Become(w, AfterPull(o))
               \/ Become(w, Recreated(o))
      BY <1>2, <2>0, <2>1, RecreateIsPlain
    <2>2. ASSUME NEW pc \in {"remove", "create", "start", "wait", "result"},
                 \/ Become(w, [o EXCEPT !.pc = pc])
                 \/ Become(w, [o EXCEPT !.pc = pc, !.stopped = TRUE])
                 \/ Become(w, [o EXCEPT !.pc = pc, !.removed = TRUE])
          PROVE  Plain(op'[w])
      <3>1. /\ [o EXCEPT !.pc = pc].pc = pc
            /\ [o EXCEPT !.pc = pc, !.stopped = TRUE].pc = pc
            /\ [o EXCEPT !.pc = pc, !.removed = TRUE].pc = pc
        BY <1>0 DEF Op
      <3> QED BY <1>3, <2>2, <3>1
    <2>3. CASE Become(w, [o EXCEPT !.pc = "validate", !.new = nextID,
                                   !.state = "created"])
      <3>1. [o EXCEPT !.pc = "validate", !.new = nextID,
                      !.state = "created"].pc = "validate"
        BY <1>0 DEF Op
      <3> QED BY <1>3, <2>3, <3>1
    <2>4. CASE Pull(w) \/ Stop(w) \/ Remove(w) \/ Create(w)
      BY <2>1, <2>2, <2>3, <2>4 DEF Pull, Stop, Remove, Create
    <2>5. CASE Validate(w) \/ Start(w) \/ WaitHealthy(w)
      BY <2>1, <2>2, <2>5 DEF Validate, Start, WaitHealthy
    <2>6. CASE InspectResult(w)
      <3> DEFINE p == [o EXCEPT !.state = host[o.new].state]
      <3>1. CASE o.new \in DOMAIN host /\ Become(w, Recreated(p))
        <4>1. Ready(p)
          BY <1>0, <2>0, <3>1 DEF Ready, Op, RestOK, HostOK, Container
        <4> HIDE DEF p
        <4> QED BY <1>2, <3>1, <4>1, RecreateIsPlain
      <3> QED BY <2>1, <2>6, <3>1 DEF InspectResult, Succeeds
    <2>7. CASE RestartOriginal(w)
      BY <1>4, <2>7 DEF RestartOriginal
    <2> QED BY <1>6, <2>4, <2>5, <2>6, <2>7
  <1> QED BY <1>5, <1>6

\* What a step past the snapshot does to the call and to the table: nothing,
\* read the row of the original, replace that row, or mark the new one.
WorkCases(w) ==
    LET o == op[w]
        p == op'[w]
    IN
    \/ Plain(p) /\ UNCHANGED <<rows, retired>>
    \/ /\ p.pc = "record" /\ UNCHANGED <<rows, retired>>
       /\ p.prev = Nil \/ (o.id \in DOMAIN rows /\ p.prev = rows[o.id].prev)
    \/ /\ o.pc = "commit" /\ Settled(p) /\ UNCHANGED host
       /\ rows' = Replaced(o, o.before.image)
       /\ retired' = [retired EXCEPT ![o.before.name] = o.before.image]
    \/ /\ o.pc = "record" /\ Settled(p) /\ UNCHANGED host
       /\ rows' = Replaced(o, o.prev) /\ UNCHANGED retired
    \/ /\ Settled(o) /\ Settled(p) /\ UNCHANGED retired
       /\ DOMAIN rows' = DOMAIN rows
       /\ \A i \in DOMAIN rows : rows'[i].prev = rows[i].prev

Works(w) ==
    \/ Define(w) \/ Pull(w) \/ Stop(w) \/ Remove(w)
    \/ Create(w) \/ Validate(w) \/ Start(w) \/ WaitHealthy(w)
    \/ InspectResult(w) \/ Commit(w) \/ Epilogue(w)
    \/ RestartOriginal(w) \/ Reread(w) \/ RecordReverted(w)

\* These are all the cases, and the call keeps its container and its key.
LEMMA WorkKeeps ==
    ASSUME OpsOK, RestOK, OwnInv, NEW w \in Workers, Works(w)
    PROVE  /\ op[w].pc \in Working
           /\ op'[w].pc \in Working \cup {"done"}
           /\ op'[w].id = op[w].id /\ op'[w].key = op[w].key
           /\ op'[w].before = op[w].before
           /\ WorkCases(w)
  <1> DEFINE o == op[w]
  <1>0. o \in Op /\ OpInv(o) /\ Control(o)
    BY DEF OpsOK, OpInv, OwnInv
  <1>a. o.pc \in Working /\ (~Define(w) => o.pc # "define")
    BY DEF Works, Define, Pull, Stop, Remove, Create, Validate, Start,
       WaitHealthy, InspectResult, Commit, Epilogue, RestartOriginal, Reread,
       RecordReverted, Working, PCs
  <1>1. /\ op'[w].pc \in Working \cup {"done"} /\ op'[w].id = o.id
        /\ op'[w].key = o.key /\ op'[w].before = o.before
    <2>1. ASSUME NEW p, Become(w, p) PROVE op'[w] = p
      BY <2>1 DEF Become, OpsOK
    <2>2. ASSUME NEW p, Become(w, p), Later(p, o)
          PROVE  /\ op'[w].pc \in Working \cup {"done"} /\ op'[w].id = o.id
                 /\ op'[w].key = o.key /\ op'[w].before = o.before
      BY <2>1, <2>2 DEF Later
    <2> DEFINE c == [o EXCEPT !.pc = "validate", !.new = nextID,
                              !.state = "created"]
    <2>3. c.pc = "validate" /\ c.id = o.id /\ c.key = o.key
          /\ c.before = o.before
      BY <1>0 DEF Op
    <2>4. (\E p : Become(w, p) /\ Later(p, o)) \/ Become(w, c)
      BY WorkIsLater DEF Works
    <2> HIDE DEF c
    <2> QED BY <2>1, <2>2, <2>3, <2>4, PlainLabels
  <1>2. WorkCases(w)
    <2>1. ASSUME NEW p, Become(w, p) PROVE op'[w] = p
      BY <2>1 DEF Become, OpsOK
    <2>2. CASE \/ Define(w) \/ Pull(w) \/ Stop(w) \/ Remove(w)
               \/ Create(w) \/ Validate(w) \/ Start(w) \/ WaitHealthy(w)
               \/ InspectResult(w) \/ RestartOriginal(w)
      BY <2>2, WorkIsPlain DEF WorkCases
    <2>3. CASE Commit(w)
      <3>1. Ready(o) /\ o.pc = "commit" /\ UNCHANGED host
        BY <1>0, <2>3, WorkingIsReady, <1>a DEF Commit, docker
      <3>2. CASE Become(w, revert(o)) /\ UNCHANGED <<rows, retired>>
        BY <2>1, <3>1, <3>2, RecreateIsPlain DEF WorkCases
      <3>3. CASE /\ rows' = Replaced(o, o.before.image)
                 /\ retired' = [retired EXCEPT ![o.before.name] = o.before.image]
                 /\ \E pc \in {"done", "epilogue"} :
                       Become(w, [o EXCEPT !.pc = pc, !.outcome = "ok"])
        <4>1. PICK pc \in {"done", "epilogue"} :
                 Become(w, [o EXCEPT !.pc = pc, !.outcome = "ok"])
          BY <3>3
        <4> DEFINE q == [o EXCEPT !.pc = pc, !.outcome = "ok"]
        <4>2. q.pc = pc /\ q.outcome = "ok"
          BY <1>0 DEF Op
        <4>3. op'[w] = q
          BY <2>1, <4>1
        <4> HIDE DEF q
        <4>4. Settled(q)
          BY <4>1, <4>2 DEF Settled
        <4> QED BY <3>1, <3>3, <4>3, <4>4 DEF WorkCases
      <3> QED BY <2>3, <3>2, <3>3 DEF Commit
    <2>4. CASE Epilogue(w)
      <3>1. o.pc = "epilogue" /\ o.outcome = "ok" /\ UNCHANGED retired
            /\ Become(w, [o EXCEPT !.pc = "done"])
        BY <1>0, <2>4 DEF Epilogue, Control, history
      <3> DEFINE q == [o EXCEPT !.pc = "done"]
      <3>2. q.pc = "done" /\ q.outcome = "ok"
        BY <1>0, <3>1 DEF Op
      <3>3. op'[w] = q
        BY <2>1, <3>1
      <3> HIDE DEF q
      <3>4. Settled(o) /\ Settled(q)
        BY <3>1, <3>2 DEF Settled
      <3>5. UNCHANGED rows \/ rows' = SetUpdateAvailable(rows, o.new, TRUE)
        BY <2>4 DEF Epilogue
      <3>6. DOMAIN rows' = DOMAIN rows
            /\ \A i \in DOMAIN rows : rows'[i].prev = rows[i].prev
        BY <3>5 DEF SetUpdateAvailable, RestOK, RowsOK, Row
      <3> QED BY <3>1, <3>3, <3>4, <3>6 DEF WorkCases
    <2>5. CASE Reread(w)
      <3>1. UNCHANGED <<rows, retired>>
        BY <2>5 DEF Reread, stored, history
      <3>2. PICK pr, c :
              /\ Become(w, [o EXCEPT !.pc = "record", !.prev = pr, !.cur = c])
              /\ pr = Nil \/ (o.id \in DOMAIN rows /\ pr = rows[o.id].prev)
        BY <2>5 DEF Reread, Succeeds
      <3> DEFINE q == [o EXCEPT !.pc = "record", !.prev = pr, !.cur = c]
      <3>3. q.pc = "record" /\ q.prev = pr
        BY <1>0 DEF Op
      <3>4. op'[w] = q
        BY <2>1, <3>2
      <3> HIDE DEF q
      <3> QED BY <3>1, <3>2, <3>3, <3>4 DEF WorkCases
    <2>6. CASE RecordReverted(w)
      <3>0. o.pc = "record" /\ UNCHANGED <<retired, host>>
        BY <2>6 DEF RecordReverted, history, docker
      <3> DEFINE q == [o EXCEPT !.pc = "done", !.outcome = "reverted"]
                 u == [o EXCEPT !.pc = "done", !.outcome = "unrecorded"]
      <3>1. \/ rows' = Replaced(o, o.prev) /\ Become(w, q)
            \/ rows' = rows /\ Become(w, u)
        BY <2>6 DEF RecordReverted
      <3>2. q.pc = "done" /\ q.outcome = "reverted"
            /\ u.pc = "done" /\ u.outcome = "unrecorded"
        BY <1>0 DEF Op
      <3> HIDE DEF q, u
      <3>3. Settled(q) /\ Plain(u)
        BY <3>2 DEF Settled, Plain
      <3> QED BY <2>1, <3>0, <3>1, <3>3 DEF WorkCases
    <2> QED BY <2>2, <2>3, <2>4, <2>5, <2>6 DEF Works
  <1> QED BY <1>1, <1>2, <1>a
-----------------------------------------------------------------------------
(* Without sweeps and failed lookups every grant is a name.                 *)

\* The call o on the table r and the host h: the row a request started from
\* lives as long as its container, the key is a name unless the container is
\* gone or the deadline struck, and what is written retires the original's row.
Looked(o, r, h) ==
    /\ o.pc = "lookup" => o.id \in DOMAIN r \/ o.id \notin DOMAIN h
    /\ o.pc \in {"begin", "inspect"}
          => o.key \in Names \/ o.id \notin DOMAIN h \/ o.expired
    /\ o.pc \in Working => o.key \in Names
    /\ Settled(o) => o.id \notin DOMAIN r

QuietInv == sweep = NoSweep /\ \A w \in Workers : Looked(op[w], rows, host)

\* A row goes with its container, and a new row is a container's.
RowsFollowHost ==
    /\ \A i \in DOMAIN rows : i \in DOMAIN host => i \in DOMAIN rows'
    /\ \A i \in DOMAIN rows' : i \in DOMAIN rows \/ i \in DOMAIN host
    /\ \A i \in DOMAIN host' : i \in DOMAIN host \/ i = nextID

\* A call that committed or reverted has seen its original go.
LEMMA SettledIsGone ==
    ASSUME NEW o, OpInv(o), NEW h, Control(o), Owns(o, h), Settled(o)
    PROVE  o.id \notin DOMAIN h /\ o.new \in DOMAIN h /\ Snap(o)
  <1>1. Snap(o) /\ Remade(o)
    <2>1. Remade(o)
      BY DEF Settled, Remade
    <2> QED BY <2>1, WorkingHasSnap
  <1>2. o.removed \/ o.phase = "revert"
    BY DEF Settled, Control
  <1> QED BY <1>1, <1>2 DEF Owns

\* A call that does not move stays as it was looked up.
LEMMA LookedFrame ==
    ASSUME OpsOK, RestOK, NameInv, OwnInv, QuietInv, RowsFollowHost,
           NEW v \in Workers
    PROVE  Looked(op[v], rows', host')
  <1>0. op[v] \in Op /\ OpInv(op[v]) /\ Control(op[v]) /\ Owns(op[v], host)
        /\ Looked(op[v], rows, host)
    BY DEF OpsOK, OpInv, OwnInv, QuietInv
  <1>1. op[v].id < nextID /\ op[v].id \in Nat /\ nextID \in Nat
    BY <1>0 DEF NameInv, CallsAreNamed, CallNamed, Op, RestOK, ID
  <1>2. op[v].id \in DOMAIN host' => op[v].id \in DOMAIN host
    BY <1>1 DEF RowsFollowHost
  <1>3. Settled(op[v]) => op[v].id \notin DOMAIN host
    BY <1>0, SettledIsGone
  <1> QED BY <1>0, <1>2, <1>3 DEF Looked, RowsFollowHost

\* The idle record has nothing to look up.
LEMMA IdleIsLooked ==
    ASSUME NEW r, NEW h
    PROVE  Looked(Idle, r, h)
  BY PlainLabels DEF Looked, Idle, Settled

\* Requests, lookups, the guard and the snapshot.
LEMMA EntryIsLooked ==
    ASSUME OpsOK, RestOK, QuietInv, MaxMisses = 0, NEW w \in Workers,
           \/ RequestUpdate(w) \/ RequestRollback(w) \/ LookupUpdate(w)
           \/ LookupRollback(w) \/ beginOperation(w) \/ Inspect(w) \/ Finish(w)
    PROVE  Looked(op'[w], rows, host)
  <1> DEFINE o == op[w]
  <1>0. o \in Op /\ Looked(o, rows, host)
    BY DEF OpsOK, QuietInv
  <1>1. ASSUME NEW p, Become(w, p) PROVE op'[w] = p
    BY <1>1 DEF Become, OpsOK
  <1>2. CASE Become(w, Idle)
    BY <1>1, <1>2, IdleIsLooked
  <1>3. CASE RequestUpdate(w) \/ RequestRollback(w)
    <2>1. PICK i, k, r :
            /\ i \in DOMAIN rows
            /\ \/ Become(w, [Idle EXCEPT !.pc = "lookup", !.kind = k,
                                         !.id = i, !.target = r])
               \/ Become(w, [Idle EXCEPT !.pc = "lookup", !.kind = k, !.id = i])
      BY <1>3 DEF RequestUpdate, RequestRollback
    <2> DEFINE a == [Idle EXCEPT !.pc = "lookup", !.kind = k, !.id = i,
                                 !.target = r]
               b == [Idle EXCEPT !.pc = "lookup", !.kind = k, !.id = i]
    <2>2. a.pc = "lookup" /\ a.id = i
      BY DEF Idle
    <2>3. b.pc = "lookup" /\ b.id = i
      BY DEF Idle
    <2> HIDE DEF a, b
    <2>4. op'[w] = a \/ op'[w] = b
      BY <1>1, <2>1 DEF a, b
    <2> QED BY <2>1, <2>2, <2>3, <2>4, PlainLabels DEF Looked, Settled
  <1>4. CASE LookupUpdate(w)
    <2>1. PICK k : /\ Become(w, [o EXCEPT !.pc = "begin", !.key = k])
                   /\ \/ o.id \in DOMAIN rows /\ k = rows[o.id].name
                      \/ o.id \notin DOMAIN rows \/ o.expired
      <3>1. ~(used["misses"] < MaxMisses)
        BY DEF RestOK, Bounds
      <3> QED BY <1>4, <3>1 DEF LookupUpdate, Succeeds, Spend
    <2> DEFINE p == [o EXCEPT !.pc = "begin", !.key = k]
    <2>2. p.pc = "begin" /\ p.key = k /\ p.id = o.id /\ p.expired = o.expired
      BY <1>0 DEF Op
    <2>3. op'[w] = p
      BY <1>1, <2>1
    <2>4. o.pc = "lookup"
      BY <1>4 DEF LookupUpdate
    <2> HIDE DEF p
    <2>5. o.id \in DOMAIN rows => rows[o.id].name \in Names
      BY DEF RestOK, RowsOK, Row
    <2> QED BY <1>0, <2>1, <2>2, <2>3, <2>4, <2>5, PlainLabels
            DEF Looked, Settled
  <1>5. CASE LookupRollback(w)
    <2> DEFINE p == [o EXCEPT !.pc = "begin", !.key = rows[o.id].name,
                              !.target = IdRef(rows[o.id].prev),
                              !.cur = rows[o.id].cur]
    <2>1. (Become(w, p) /\ o.id \in DOMAIN rows) \/ Become(w, Idle)
      BY <1>5 DEF LookupRollback, Succeeds
    <2>2. p.pc = "begin" /\ p.key = rows[o.id].name
      BY <1>0 DEF Op
    <2> HIDE DEF p
    <2>3. o.id \in DOMAIN rows => rows[o.id].name \in Names
      BY DEF RestOK, RowsOK, Row
    <2> QED BY <1>1, <1>2, <2>1, <2>2, <2>3, PlainLabels DEF Looked, Settled
  <1>6. CASE beginOperation(w)
    <2> DEFINE p == [o EXCEPT !.pc = "inspect"]
    <2>1. o.pc = "begin" /\ (Become(w, p) \/ Become(w, Idle))
      BY <1>6 DEF beginOperation
    <2>2. p.pc = "inspect" /\ p.key = o.key /\ p.id = o.id
          /\ p.expired = o.expired
      BY <1>0 DEF Op
    <2> HIDE DEF p
    <2> QED BY <1>0, <1>1, <1>2, <2>1, <2>2, PlainLabels DEF Looked, Settled
  <1>7. CASE Inspect(w)
    <2> DEFINE p == [o EXCEPT !.pc = "define", !.before = host[o.id]]
               q == [o EXCEPT !.pc = "done", !.outcome = "failed"]
    <2>1. /\ o.pc = "inspect"
          /\ \/ Become(w, p) /\ o.id \in DOMAIN host /\ ~o.expired
             \/ Become(w, q)
      BY <1>7 DEF Inspect, Succeeds
    <2>2. p.pc = "define" /\ p.key = o.key
      BY <1>0 DEF Op
    <2>3. q.pc = "done" /\ q.outcome = "failed"
      BY <1>0 DEF Op
    <2> HIDE DEF p, q
    <2> QED BY <1>0, <1>1, <2>1, <2>2, <2>3, PlainLabels DEF Looked, Settled
  <1>8. CASE Finish(w)
    BY <1>2, <1>8 DEF Finish
  <1> QED BY <1>3, <1>4, <1>5, <1>6, <1>7, <1>8

\* The table changes past the snapshot only, by the rules above.
LEMMA WorkerFollows ==
    ASSUME OpsOK, RestOK, OwnInv, NEW w \in Workers,
           RequestUpdate(w) \/ RequestRollback(w) \/ Step(w)
    PROVE  RowsFollowHost /\ (~Works(w) => UNCHANGED <<rows, retired, host>>)
  <1> DEFINE o == op[w]
  <1>0. o \in Op /\ OpInv(o) /\ Control(o) /\ Owns(o, host)
    BY DEF OpsOK, OpInv, OwnInv
  <1>1. \A i \in DOMAIN host' : i \in DOMAIN host \/ i = nextID
    BY WorkerIsLocal
  <1>2. ~Works(w) => UNCHANGED <<rows, retired, host>>
    BY DEF Works, Step, RequestUpdate, RequestRollback, LookupUpdate,
       LookupRollback, beginOperation, Inspect, Finish, stored, docker, history
  <1>3. ASSUME NEW prev, rows' = Replaced(o, prev), o.pc \in {"commit", "record"}
        PROVE  RowsFollowHost
    <2>1. DOMAIN rows' = (DOMAIN rows \ {o.id}) \cup {o.new}
      BY <1>3 DEF Replaced, replaceContainerTx, Put, Keep
    <2>2. o.new \in DOMAIN host /\ o.id \notin DOMAIN host
      <3>1. Remade(o) /\ (o.removed \/ o.phase = "revert")
        BY <1>0, <1>3 DEF Remade, Control
      <3>2. Snap(o)
        BY <1>0, <3>1, WorkingHasSnap
      <3> QED BY <1>0, <3>1, <3>2 DEF Owns
    <2> QED BY <1>1, <2>1, <2>2 DEF RowsFollowHost
  <1>4. CASE Works(w)
    <2>1. WorkCases(w)
      BY <1>4, WorkKeeps
    <2> QED BY <1>1, <1>2, <1>3, <1>4, <2>1 DEF WorkCases, RowsFollowHost
  <1>5. CASE ~Works(w)
    BY <1>1, <1>2, <1>5 DEF RowsFollowHost
  <1> QED BY <1>2, <1>4, <1>5

\* Every step of a worker.
LEMMA WorkerQuiet ==
    ASSUME UpdaterInv, NameInv, OwnInv, QuietInv, MaxMisses = 0,
           NEW w \in Workers, RequestUpdate(w) \/ RequestRollback(w) \/ Step(w)
    PROVE  QuietInv'
  <1>0. OpsOK /\ RestOK
    BY Parts
  <1>1. sweep' = NoSweep
    BY DEF QuietInv, Step, RequestUpdate, RequestRollback, LookupUpdate,
       LookupRollback, beginOperation, Inspect, Define, Pull, Stop, Remove,
       Create, Validate, Start, WaitHealthy, InspectResult, Commit, Epilogue,
       RestartOriginal, Reread, RecordReverted, Finish
  <1>2. RowsFollowHost /\ (~Works(w) => UNCHANGED <<rows, retired, host>>)
    BY <1>0, WorkerFollows
  <1>3. ASSUME NEW v \in Workers, v # w
        PROVE  Looked(op'[v], rows', host')
    <2>1. op'[v] = op[v]
      <3>1. \E p : Become(w, p)
        BY <1>0, WorkerMoves DEF Moves
      <3> QED BY <1>0, <1>3, <3>1 DEF Become, OpsOK
    <2> QED BY <1>0, <1>2, <2>1, LookedFrame
  <1>4. Looked(op'[w], rows', host')
    <2>1. CASE ~Works(w)
      <3>1. Looked(op'[w], rows, host)
        BY <1>0, <2>1, EntryIsLooked DEF Works, Step
      <3> QED BY <1>2, <2>1, <3>1
    <2>2. CASE Works(w)
      <3> DEFINE o == op[w]
      <3>1. /\ o.pc \in Working /\ op'[w].pc \in Working \cup {"done"}
            /\ op'[w].id = o.id /\ op'[w].key = o.key
            /\ WorkCases(w)
        BY <1>0, <2>2, WorkKeeps
      <3>2. op'[w].pc \notin {"lookup", "begin", "inspect"} /\ o.key \in Names
        BY <3>1, PlainLabels DEF QuietInv, Looked
      <3>3. OpInv(o) /\ Control(o) /\ Owns(o, host) /\ Looked(o, rows, host)
        BY <1>0 DEF OpsOK, OpInv, OwnInv, QuietInv
      <3>4. Settled(op'[w]) => o.id \notin DOMAIN rows'
        <4>1. ASSUME NEW prev, rows' = Replaced(o, prev),
                     o.pc \in {"commit", "record"}
              PROVE  o.id \notin DOMAIN rows'
          <5>1. DOMAIN rows' = (DOMAIN rows \ {o.id}) \cup {o.new}
            BY <4>1 DEF Replaced, replaceContainerTx, Put, Keep
          <5>2. Remade(o) /\ (o.removed \/ o.phase = "revert")
            BY <3>3, <4>1 DEF Remade, Control
          <5>3. Snap(o)
            BY <3>3, <5>2, WorkingHasSnap
          <5> QED BY <3>3, <5>1, <5>2, <5>3 DEF Owns
        <4>2. Settled(o) => o.id \notin DOMAIN rows
          BY <3>3 DEF Looked
        <4>3. Settled(op'[w]) => ~Plain(op'[w]) /\ op'[w].pc # "record"
          BY DEF Settled, Plain
        <4> QED BY <3>1, <4>1, <4>2, <4>3 DEF WorkCases
      <3> QED BY <3>1, <3>2, <3>4 DEF Looked
    <2> QED BY <2>1, <2>2
  <1> QED BY <1>1, <1>3, <1>4 DEF QuietInv

\* Every other step: there is no sweep to take rows away.
LEMMA OtherQuiet ==
    ASSUME UpdaterInv, NameInv, OwnInv, QuietInv, MaxSweeps = 0,
           Sweep \/ Environment \/ UNCHANGED vars
    PROVE  QuietInv'
  <1>0. OpsOK /\ RestOK
    BY Parts
  <1>1. CASE UNCHANGED <<op, rows, sweep>> /\ DOMAIN host' = DOMAIN host
    BY <1>1 DEF QuietInv, Looked
  <1>2. ASSUME NEW w \in Workers, Expire(w)
        PROVE  QuietInv'
    <2> DEFINE p == [op[w] EXCEPT !.expired = TRUE]
    <2>1. op[w] \in Op /\ Looked(op[w], rows, host)
          /\ UNCHANGED <<host, rows, sweep>>
      BY <1>0, <1>2 DEF OpsOK, Expire, docker, stored, QuietInv
    <2>2. op'[w] = p /\ \A v \in Workers : v # w => op'[v] = op[v]
      BY <1>0, <1>2 DEF Expire, OpsOK
    <2>3. p.pc = op[w].pc /\ p.id = op[w].id /\ p.key = op[w].key
          /\ p.expired = TRUE /\ p.outcome = op[w].outcome
      BY <2>1 DEF Op
    <2> HIDE DEF p
    <2>4. Looked(p, rows, host)
      BY <2>1, <2>3 DEF Looked, Settled
    <2> QED BY <2>1, <2>2, <2>4 DEF QuietInv
  <1>3. CASE Exit
    BY <1>3, IdleIsLooked DEF Exit, QuietInv
  <1>4. CASE Sweep
    <2>1. ~(used["sweeps"] < MaxSweeps)
      BY <1>0 DEF RestOK, Bounds
    <2> QED BY <1>4, <2>1 DEF Sweep, SweepList, SweepPrune, SweepUpsert,
            SweepCheck, Spend, QuietInv, NoSweep
  <1>5. CASE Environment
    <2>1. ASSUME NEW i \in DOMAIN host, ContainerCrash(i) \/ ContainerRestart(i)
          PROVE  QuietInv'
      BY <1>1, <2>1 DEF ContainerCrash, ContainerRestart, stored
    <2>2. ASSUME NEW t \in Tags, NEW c \in Images, Publish(t, c)
          PROVE  QuietInv'
      BY <1>1, <2>2 DEF Publish, docker, stored
    <2> QED BY <1>2, <1>3, <1>5, <2>1, <2>2 DEF Environment
  <1>6. CASE UNCHANGED vars
    BY <1>1, <1>6 DEF vars
  <1> QED BY <1>4, <1>5, <1>6

\* The hypothesis of the results above is met where nothing but the operations
\* changes the table and Update's lookups fail only with the context: whatever
\* calls fail, contexts expire and daemons die, no call gets past the snapshot
\* under a raw ID, and each one owns its container.
THEOREM GrantsAreNamed ==
    ASSUME MaxSweeps = 0, MaxMisses = 0
    PROVE  Spec => [](UpdaterInv /\ NameInv /\ OwnInv /\ QuietInv /\ NamedGrants)
  <1>1. QuietInv => NamedGrants
    BY DEF QuietInv, Looked, NamedGrants
  <1>2. Init => QuietInv
    <2> SUFFICES ASSUME Init PROVE QuietInv
      OBVIOUS
    <2>1. sweep = NoSweep /\ op = [w \in Workers |-> Idle]
      BY DEF Init
    <2> QED BY <2>1, IdleIsLooked DEF QuietInv
  <1>3. UpdaterInv /\ NameInv /\ OwnInv /\ QuietInv /\ [Next]_vars => QuietInv'
    BY WorkerQuiet, OtherQuiet DEF Next
  <1>4. QuietInv' => NamedGrants'
    BY <1>1, PTL
  <1>5. UpdaterInv /\ NameInv /\ NameInv' /\ NamedGrants' /\ OwnInv
          /\ [Next]_vars => OwnInv'
    BY WorkerOwnStep, OtherOwnStep DEF Next
  <1> QED BY <1>1, <1>2, <1>3, <1>4, <1>5, OwnInit, NamesAgree, PTL DEF Spec

\* So an operation that fails before the removal leaves the original, with no
\* condition on the keys.
THEOREM UnsweptFailureIsHarmless ==
    ASSUME MaxSweeps = 0, MaxMisses = 0
    PROVE  Spec => []FailureKeepsOriginal
  BY GrantsAreNamed, FailureLeavesTheOriginal, PTL

\* An operation that returns success or "reverted" leaves one live container
\* of that name and no row of the one it retired, and the row it recorded is
\* the new container's.
THEOREM RecordsMatchTheHost ==
    ASSUME MaxSweeps = 0, MaxMisses = 0
    PROVE  Spec => []RecordedMatchesHost
  <1>1. UpdaterInv /\ NameInv /\ OwnInv /\ QuietInv => RecordedMatchesHost
    <2> SUFFICES ASSUME UpdaterInv, NameInv, OwnInv, QuietInv, NEW w \in Workers,
                        op[w].pc = "done", op[w].outcome \in {"ok", "reverted"}
                 PROVE  LET o == op[w] IN
                        /\ {i \in DOMAIN host : host[i].name = o.before.name}
                              = {o.new}
                        /\ o.id \notin DOMAIN rows
                        /\ o.new \in DOMAIN rows
                              => rows[o.new].name = o.before.name
      BY DEF RecordedMatchesHost
    <2> DEFINE o == op[w]
    <2>1. OpInv(o) /\ Control(o) /\ Owns(o, host) /\ Looked(o, rows, host)
          /\ Settled(o)
      BY Parts DEF OpsOK, OpInv, OwnInv, QuietInv, Settled
    <2>2. o.new \in DOMAIN host /\ Snap(o)
      BY <2>1, SettledIsGone
    <2>3. host[o.new].name = o.before.name
      BY <2>1, <2>2 DEF Owns, Mine
    <2>4. {i \in DOMAIN host : host[i].name = o.before.name} = {o.new}
      BY <2>2, <2>3 DEF OwnInv, UniqueNames
    <2>5. o.new \in DOMAIN rows => rows[o.new].name = host[o.new].name
      BY <2>2 DEF NameInv, OneName
    <2> QED BY <2>1, <2>3, <2>4, <2>5 DEF Looked
  <1> QED BY <1>1, GrantsAreNamed, PTL
-----------------------------------------------------------------------------
(* What the Rollback button leads back to.                                  *)

\* The call o on the table r, where t is what the last operations retired.
KeepsPrev(o, r, t) ==
    /\ Snap(o) /\ o.id \in DOMAIN r => r[o.id].prev \in {Nil, t[o.before.name]}
    /\ o.pc = "record" => o.prev \in {Nil, t[o.before.name]}

\* PreviousIsRetired for the rows of live containers, and for the row a revert
\* reads once its container is gone.
PrevInv ==
    /\ \A i \in DOMAIN rows \cap DOMAIN host :
          rows[i].prev \in {Nil, retired[host[i].name]}
    /\ \A w \in Workers : KeepsPrev(op[w], rows, retired)

\* The step keeps the previous image of every row, or blanks it.
PrevKept ==
    /\ UNCHANGED retired
    /\ \A i \in DOMAIN rows' :
          \/ rows'[i].prev = Nil
          \/ i \in DOMAIN rows /\ rows'[i].prev = rows[i].prev

\* Such a step changes nothing for the rows and for the calls that do not move.
LEMMA PrevFrame ==
    ASSUME RestOK, NameInv, PrevInv, HostNamed, PrevKept
    PROVE  /\ \A i \in DOMAIN rows' \cap DOMAIN host' :
                 rows'[i].prev \in {Nil, retired'[host'[i].name]}
           /\ \A v \in Workers : KeepsPrev(op[v], rows', retired')
  <1>1. nextID \in Nat /\ \A i \in DOMAIN rows : i \in Nat /\ i < nextID
    BY DEF RestOK, RowsOK, ID, NameInv, OlderIDs
  <1>2. \A i \in DOMAIN rows : i # nextID
    BY <1>1
  <1>3. \A i \in DOMAIN rows \cap DOMAIN host' :
           i \in DOMAIN host /\ host'[i].name = host[i].name
    BY <1>2 DEF HostNamed
  <1>4. \A i \in DOMAIN rows' \cap DOMAIN host' :
           rows'[i].prev \in {Nil, retired'[host'[i].name]}
    BY <1>3 DEF PrevKept, PrevInv
  <1>5. \A v \in Workers : KeepsPrev(op[v], rows', retired')
    BY DEF PrevKept, PrevInv, KeepsPrev
  <1> QED BY <1>4, <1>5

\* Before the snapshot a call has nothing to look back to.
LEMMA EntryStays ==
    ASSUME OpsOK, NEW w \in Workers,
           \/ RequestUpdate(w) \/ RequestRollback(w) \/ LookupUpdate(w)
           \/ LookupRollback(w) \/ beginOperation(w) \/ Finish(w)
    PROVE  op'[w].pc \in {"idle", "lookup", "begin", "inspect"}
  <1> DEFINE o == op[w]
  <1>0. o \in Op
    BY DEF OpsOK
  <1>1. ASSUME NEW p, Become(w, p) PROVE op'[w] = p
    BY <1>1 DEF Become, OpsOK
  <1>2. Idle.pc = "idle"
    BY DEF Idle
  <1>3. CASE RequestUpdate(w) \/ RequestRollback(w)
    <2>1. PICK i, k, r :
            Become(w, [Idle EXCEPT !.pc = "lookup", !.kind = k,
                                   !.id = i, !.target = r])
            \/ Become(w, [Idle EXCEPT !.pc = "lookup", !.kind = k, !.id = i])
      BY <1>3 DEF RequestUpdate, RequestRollback
    <2>2. /\ [Idle EXCEPT !.pc = "lookup", !.kind = k, !.id = i,
                          !.target = r].pc = "lookup"
          /\ [Idle EXCEPT !.pc = "lookup", !.kind = k, !.id = i].pc = "lookup"
      BY DEF Idle
    <2> QED BY <1>1, <2>1, <2>2
  <1>4. CASE LookupUpdate(w)
    <2>1. PICK k : Become(w, [o EXCEPT !.pc = "begin", !.key = k])
      BY <1>4 DEF LookupUpdate
    <2>2. [o EXCEPT !.pc = "begin", !.key = k].pc = "begin"
      BY <1>0 DEF Op
    <2> QED BY <1>1, <2>1, <2>2
  <1>5. CASE LookupRollback(w)
    <2> DEFINE p == [o EXCEPT !.pc = "begin", !.key = rows[o.id].name,
                              !.target = IdRef(rows[o.id].prev),
                              !.cur = rows[o.id].cur]
    <2>1. Become(w, p) \/ Become(w, Idle)
      BY <1>5 DEF LookupRollback
    <2>2. p.pc = "begin"
      BY <1>0 DEF Op
    <2> HIDE DEF p
    <2> QED BY <1>1, <1>2, <2>1, <2>2
  <1>6. CASE beginOperation(w)
    <2>1. Become(w, [o EXCEPT !.pc = "inspect"]) \/ Become(w, Idle)
      BY <1>6 DEF beginOperation
    <2>2. [o EXCEPT !.pc = "inspect"].pc = "inspect"
      BY <1>0 DEF Op
    <2> QED BY <1>1, <1>2, <2>1, <2>2
  <1>7. CASE Finish(w)
    BY <1>1, <1>2, <1>7 DEF Finish
  <1> QED BY <1>3, <1>4, <1>5, <1>6, <1>7

\* The replacement's row says what the operation retired, or what the row of
\* the original said; every other live container has another name.
LEMMA ReplacedPrev ==
    ASSUME UpdaterInv, NameInv, OwnInv, PrevInv, NEW w \in Workers,
           op[w].pc \in {"commit", "record"}, UNCHANGED host,
           NEW pr, rows' = Replaced(op[w], pr),
           pr \in {Nil, retired'[op[w].before.name]},
           \A m \in Names : m # op[w].before.name => retired'[m] = retired[m]
    PROVE  /\ \A i \in DOMAIN rows' \cap DOMAIN host' :
                 rows'[i].prev \in {Nil, retired'[host'[i].name]}
           /\ \A v \in Workers : v # w => KeepsPrev(op[v], rows', retired')
           /\ op[w].id \notin DOMAIN rows'
  <1> DEFINE o == op[w]
             n == o.before.name
  <1>0. OpsOK /\ RestOK /\ KeyHeldOnce
    BY Parts
  <1>1. OpInv(o) /\ Control(o) /\ Owns(o, host)
    BY <1>0 DEF OpsOK, OpInv, OwnInv
  <1>2. Remade(o) /\ (o.removed \/ o.phase = "revert")
    BY <1>1 DEF Remade, Control
  <1>3. Snap(o)
    BY <1>1, <1>2, WorkingHasSnap
  <1>4. o.new \in DOMAIN host /\ o.id \notin DOMAIN host /\ host[o.new].name = n
    BY <1>1, <1>2, <1>3 DEF Owns, Mine
  <1>5. /\ DOMAIN rows' = (DOMAIN rows \ {o.id}) \cup {o.new}
        /\ rows'[o.new].prev = pr
        /\ \A i \in DOMAIN rows' : i # o.new => rows'[i] = rows[i]
    BY DEF Replaced, replaceContainerTx, Put, Keep
  <1>6. ASSUME NEW i \in DOMAIN rows' \cap DOMAIN host'
        PROVE  rows'[i].prev \in {Nil, retired'[host'[i].name]}
    <2>1. CASE i = o.new
      BY <1>4, <1>5, <2>1
    <2>2. CASE i # o.new
      <3>1. i \in DOMAIN rows \cap DOMAIN host /\ rows'[i] = rows[i]
        BY <1>5, <1>6, <2>2
      <3>2. host[i].name # n /\ host[i].name \in Names
        BY <1>0, <1>4, <2>2, <3>1 DEF OwnInv, UniqueNames, RestOK, HostOK,
           Container
      <3> QED BY <3>1, <3>2 DEF PrevInv
    <2> QED BY <2>1, <2>2
  <1>7. ASSUME NEW v \in Workers, v # w
        PROVE  KeepsPrev(op[v], rows', retired')
    <2>0. OpInv(op[v]) /\ Owns(op[v], host) /\ KeepsPrev(op[v], rows, retired)
          /\ op[v] \in Op
      BY <1>0 DEF OpsOK, OpInv, OwnInv, PrevInv
    <2>1. CASE Snap(op[v])
      <3>1. op[v].before.name # n
        BY <1>0, <1>3, <1>7, <2>1, SnapsDiffer
      <3>2. op[v].id # o.new
        BY <1>4, <2>0, <2>1, <3>1 DEF Owns, Mine
      <3>3. op[v].before.name \in Names
        BY <2>0, <2>1, KeysAssumption DEF Snap, OpInv, Op, Container
      <3> QED BY <1>5, <2>0, <2>1, <3>1, <3>2, <3>3 DEF KeepsPrev
    <2>2. CASE ~Snap(op[v])
      <3>1. op[v].pc # "record"
        BY <2>0, <2>2, WorkingHasSnap DEF Snap, Working, PCs
      <3> QED BY <2>2, <3>1 DEF KeepsPrev
    <2> QED BY <2>1, <2>2
  <1>8. o.id \notin DOMAIN rows'
    BY <1>4, <1>5
  <1> QED BY <1>6, <1>7, <1>8

\* Every step of a worker.
LEMMA WorkerPrev ==
    ASSUME UpdaterInv, NameInv, OwnInv, PrevInv,
           NEW w \in Workers, RequestUpdate(w) \/ RequestRollback(w) \/ Step(w)
    PROVE  PrevInv'
  <1> DEFINE o == op[w]
  <1>0. OpsOK /\ RestOK /\ OpInv(o) /\ o \in Op /\ Control(o) /\ Owns(o, host)
        /\ KeepsPrev(o, rows, retired)
    BY Parts DEF OpsOK, OpInv, OwnInv, PrevInv
  <1>1. \A v \in Workers : v # w => op'[v] = op[v]
    <2>1. \E p : Become(w, p)
      BY <1>0, WorkerMoves DEF Moves
    <2> QED BY <1>0, <2>1 DEF Become, OpsOK
  <1>2. HostNamed
    BY <1>0, WorkerHost
  <1>3. ASSUME PrevKept, KeepsPrev(op'[w], rows', retired')
        PROVE  PrevInv'
    BY <1>0, <1>1, <1>2, <1>3, PrevFrame DEF PrevInv
  <1>4. CASE ~Works(w)
    <2>1. UNCHANGED <<rows, retired, host>>
      BY <1>0, <1>4, WorkerFollows
    <2>2. PrevKept
      BY <2>1 DEF PrevKept
    <2>3. CASE ~Inspect(w)
      <3>1. op'[w].pc \in {"idle", "lookup", "begin", "inspect"}
        BY <1>0, <1>4, <2>3, EntryStays DEF Works, Step
      <3>2. KeepsPrev(op'[w], rows', retired')
        BY <3>1, PlainLabels DEF KeepsPrev, Snap
      <3> QED BY <1>3, <2>2, <3>2
    <2>4. CASE Inspect(w)
      <3> DEFINE p == [o EXCEPT !.pc = "define", !.before = host[o.id]]
                 q == [o EXCEPT !.pc = "done", !.outcome = "failed"]
      <3>0. o.pc = "inspect" /\ o.before = Nil
        BY <1>0, <2>4, PlainLabels DEF Inspect, Control
      <3>1. (Become(w, p) /\ o.id \in DOMAIN host) \/ Become(w, q)
        BY <2>4 DEF Inspect, Succeeds
      <3>2. p.pc = "define" /\ p.id = o.id /\ p.before = host[o.id]
        BY <1>0 DEF Op
      <3>3. q.pc = "done" /\ q.before = Nil
        BY <1>0, <3>0 DEF Op
      <3> HIDE DEF p, q
      <3>4. (op'[w] = p /\ o.id \in DOMAIN host) \/ op'[w] = q
        BY <1>0, <3>1 DEF Become, OpsOK
      <3>5. KeepsPrev(op'[w], rows, retired)
        BY <3>2, <3>3, <3>4 DEF KeepsPrev, PrevInv, Snap
      <3> QED BY <1>3, <2>1, <2>2, <3>5
    <2> QED BY <2>3, <2>4
  <1>5. CASE Works(w)
    <2>1. /\ o.pc \in Working /\ op'[w].id = o.id
          /\ op'[w].before = o.before /\ WorkCases(w)
      BY <1>0, <1>5, WorkKeeps
    <2>2. Snap(o)
      BY <1>0, <2>1, WorkingHasSnap DEF Snap
    <2>3. CASE Plain(op'[w]) /\ UNCHANGED <<rows, retired>>
      <3>1. PrevKept
        BY <2>3 DEF PrevKept
      <3>2. KeepsPrev(op'[w], rows', retired')
        BY <1>0, <2>1, <2>2, <2>3 DEF KeepsPrev, Plain
      <3> QED BY <1>3, <3>1, <3>2
    <2>4. CASE /\ op'[w].pc = "record" /\ UNCHANGED <<rows, retired>>
               /\ \/ op'[w].prev = Nil
                  \/ o.id \in DOMAIN rows /\ op'[w].prev = rows[o.id].prev
      <3>1. PrevKept
        BY <2>4 DEF PrevKept
      <3>2. KeepsPrev(op'[w], rows', retired')
        BY <1>0, <2>1, <2>2, <2>4 DEF KeepsPrev
      <3> QED BY <1>3, <3>1, <3>2
    <2>5. CASE /\ o.pc = "commit" /\ Settled(op'[w]) /\ UNCHANGED host
               /\ rows' = Replaced(o, o.before.image)
               /\ retired' = [retired EXCEPT ![o.before.name] = o.before.image]
      <3>1. o.before.name \in Names
        BY <1>0, <2>1 DEF OpInv, OpShape, Container
      <3>2. /\ retired'[o.before.name] = o.before.image
            /\ \A m \in Names : m # o.before.name => retired'[m] = retired[m]
        BY <1>0, <2>5, <3>1 DEF RestOK
      <3>3. /\ \A i \in DOMAIN rows' \cap DOMAIN host' :
                  rows'[i].prev \in {Nil, retired'[host'[i].name]}
            /\ \A v \in Workers : v # w => KeepsPrev(op[v], rows', retired')
            /\ o.id \notin DOMAIN rows'
        BY <2>5, <3>2, ReplacedPrev
      <3>4. KeepsPrev(op'[w], rows', retired')
        BY <2>1, <2>5, <3>3 DEF KeepsPrev, Settled
      <3> QED BY <1>1, <3>3, <3>4 DEF PrevInv
    <2>6. CASE /\ o.pc = "record" /\ Settled(op'[w]) /\ UNCHANGED host
               /\ rows' = Replaced(o, o.prev) /\ UNCHANGED retired
      <3>1. o.prev \in {Nil, retired[o.before.name]}
        BY <1>0, <2>6 DEF KeepsPrev
      <3>2. /\ \A i \in DOMAIN rows' \cap DOMAIN host' :
                  rows'[i].prev \in {Nil, retired'[host'[i].name]}
            /\ \A v \in Workers : v # w => KeepsPrev(op[v], rows', retired')
            /\ o.id \notin DOMAIN rows'
        BY <2>6, <3>1, ReplacedPrev
      <3>3. KeepsPrev(op'[w], rows', retired')
        BY <2>1, <2>6, <3>2 DEF KeepsPrev, Settled
      <3> QED BY <1>1, <3>2, <3>3 DEF PrevInv
    <2>7. CASE /\ Settled(op'[w]) /\ UNCHANGED retired
               /\ DOMAIN rows' = DOMAIN rows
               /\ \A i \in DOMAIN rows : rows'[i].prev = rows[i].prev
      <3>1. PrevKept
        BY <2>7 DEF PrevKept
      <3>2. KeepsPrev(op'[w], rows', retired')
        BY <1>0, <2>1, <2>2, <2>7 DEF KeepsPrev, Settled
      <3> QED BY <1>3, <3>1, <3>2
    <2> QED BY <2>1, <2>3, <2>4, <2>5, <2>6, <2>7 DEF WorkCases
  <1> QED BY <1>4, <1>5

\* A sweep refreshes names and references, never the previous image.
LEMMA SweepKeepsPrev ==
    ASSUME RestOK, Sweep
    PROVE  PrevKept
  <1>0. UNCHANGED retired /\ \A i \in DOMAIN rows : rows[i] \in Row
    BY DEF Sweep, SweepList, SweepPrune, SweepUpsert, SweepCheck,
       history, RestOK, RowsOK
  <1>1. ASSUME \A i \in DOMAIN rows' :
                  \/ rows'[i].prev = Nil
                  \/ i \in DOMAIN rows /\ rows'[i].prev = rows[i].prev
        PROVE  PrevKept
    BY <1>0, <1>1 DEF PrevKept
  <1>2. CASE SweepList
    BY <1>1, <1>2 DEF SweepList, stored
  <1>3. CASE SweepPrune
    BY <1>1, <1>3 DEF SweepPrune, PruneContainers, Keep
  <1>4. ASSUME NEW i, SweepUpsert(i)
        PROVE  PrevKept
    <2>1. PICK n, c : rows' = UpsertSeen(rows, i, n, c)
      BY <1>4 DEF SweepUpsert
    <2> DEFINE a == [rows[i] EXCEPT !.name = n,
                                    !.cur = stableImageReference(c, @)]
               b == [name |-> n, cur |-> c, prev |-> Nil, avail |-> FALSE]
    <2>2. i \in DOMAIN rows => a.prev = rows[i].prev
      BY <1>0 DEF Row
    <2>3. b.prev = Nil
      OBVIOUS
    <2>4. rows' = Put(rows, i, IF i \in DOMAIN rows THEN a ELSE b)
      BY <2>1 DEF UpsertSeen
    <2> HIDE DEF a, b
    <2>5. \A j \in DOMAIN rows' :
             \/ rows'[j].prev = Nil
             \/ j \in DOMAIN rows /\ rows'[j].prev = rows[j].prev
      BY <2>2, <2>3, <2>4 DEF Put
    <2> QED BY <1>1, <2>5
  <1>5. ASSUME NEW i, SweepCheck(i)
        PROVE  PrevKept
    <2>1. PICK r, a, rep : /\ rep = rows \/ rep = RepairCurrentImage(rows, i, r)
                           /\ rows' = rep \/ rows' = SetUpdateAvailable(rep, i, a)
      BY <1>5 DEF SweepCheck
    <2>2. DOMAIN rep = DOMAIN rows /\ \A j \in DOMAIN rows :
             rep[j].prev = rows[j].prev /\ "prev" \in DOMAIN rep[j]
      <3>1. \A j \in DOMAIN rows : "prev" \in DOMAIN rows[j]
        BY <1>0 DEF Row
      <3> QED BY <2>1, <3>1 DEF RepairCurrentImage
    <2>3. DOMAIN rows' = DOMAIN rep /\ \A j \in DOMAIN rep :
             rows'[j].prev = rep[j].prev
      BY <2>1, <2>2 DEF SetUpdateAvailable
    <2> QED BY <1>1, <2>2, <2>3
  <1> QED BY <1>2, <1>3, <1>4, <1>5 DEF Sweep

\* So it keeps what the rows call previous.
LEMMA SweepPrev ==
    ASSUME RestOK, NameInv, PrevInv, Sweep
    PROVE  PrevInv'
  <1>1. UNCHANGED <<op, host, nextID>>
    BY DEF Sweep, SweepList, SweepPrune, SweepUpsert, SweepCheck, docker
  <1>2. HostNamed
    BY <1>1, NothingRenamed
  <1>3. PrevKept
    BY SweepKeepsPrev
  <1> QED BY <1>1, <1>2, <1>3, PrevFrame DEF PrevInv

\* Neither do crashes, restarts, pushes, deadlines and the daemon's death.
LEMMA EnvironmentPrev ==
    ASSUME OpsOK, RestOK, NameInv, PrevInv, Environment \/ UNCHANGED vars
    PROVE  PrevInv'
  <1>1. UNCHANGED <<rows, retired, nextID>>
    BY DEF Environment, ContainerCrash, ContainerRestart, Publish, Expire, Exit,
       docker, stored, history, vars
  <1>2. HostNamed
    <2>1. CASE UNCHANGED host
      BY <1>1, <2>1, NothingRenamed
    <2>2. ASSUME NEW i \in DOMAIN host, ContainerCrash(i) \/ ContainerRestart(i)
          PROVE  HostNamed
      <3>1. host[i] \in Container
        BY DEF RestOK, HostOK
      <3>2. PICK c : host' = [host EXCEPT ![i] = c] /\ c.name = host[i].name
        <4>1. CASE ContainerCrash(i)
          BY <3>1, <4>1 DEF ContainerCrash, Container
        <4>2. CASE ContainerRestart(i)
          <5> DEFINE c == [host[i] EXCEPT !.state = "running"]
          <5>1. host' = [host EXCEPT ![i] = c] /\ c.name = host[i].name
            BY <3>1, <4>2 DEF ContainerRestart, Container
          <5> QED BY <5>1
        <4> QED BY <2>2, <4>1, <4>2
      <3> QED BY <1>1, <3>2 DEF HostNamed
    <2> QED BY <2>1, <2>2 DEF Environment, Publish, Expire, Exit, docker, vars
  <1>3. PrevKept
    BY <1>1 DEF PrevKept
  <1>4. CASE UNCHANGED op
    BY <1>2, <1>3, <1>4, PrevFrame DEF PrevInv
  <1>5. ASSUME NEW w \in Workers, Expire(w)
        PROVE  PrevInv'
    <2> DEFINE p == [op[w] EXCEPT !.expired = TRUE]
    <2>1. op[w] \in Op /\ KeepsPrev(op[w], rows, retired)
      BY DEF OpsOK, PrevInv
    <2>2. op'[w] = p /\ \A v \in Workers : v # w => op'[v] = op[v]
      BY <1>5 DEF Expire, OpsOK
    <2>3. p.pc = op[w].pc /\ p.id = op[w].id /\ p.before = op[w].before
          /\ p.prev = op[w].prev
      BY <2>1 DEF Op
    <2> HIDE DEF p
    <2>4. KeepsPrev(p, rows, retired)
      BY <2>1, <2>3 DEF KeepsPrev, Snap
    <2> QED BY <1>1, <1>2, <1>3, <2>2, <2>4, PrevFrame DEF PrevInv
  <1>6. CASE Exit
    <2>1. \A w \in Workers : op'[w] = Idle
      BY <1>6 DEF Exit
    <2>2. KeepsPrev(Idle, rows', retired')
      BY DEF KeepsPrev, Idle, Snap
    <2> QED BY <1>2, <1>3, <2>1, <2>2, PrevFrame DEF PrevInv
  <1> QED BY <1>4, <1>5, <1>6 DEF Environment, ContainerCrash,
          ContainerRestart, Publish, vars

\* As long as the calls past the snapshot hold names, the Rollback button of a
\* live container, when it is offered, leads back to the image the last
\* committed operation on it replaced: whatever was reverted, swept, killed or
\* left unrecorded since.
THEOREM RollbackLeadsBack ==
    Spec /\ []NamedGrants => []PreviousIsRetired
  <1>1. Init => PrevInv
    <2> SUFFICES ASSUME Init PROVE PrevInv
      OBVIOUS
    <2>1. op = [w \in Workers |-> Idle]
      BY DEF Init
    <2>2. \A i \in DOMAIN rows : rows[i].prev = Nil
      <3>1. rows = [i \in DOMAIN host |-> [name |-> host[i].name,
                      cur |-> host[i].config, prev |-> Nil, avail |-> FALSE]]
        BY DEF Init
      <3> QED BY <3>1
    <2>3. KeepsPrev(Idle, rows, retired)
      BY DEF KeepsPrev, Idle, Snap
    <2> QED BY <2>1, <2>2, <2>3 DEF PrevInv
  <1>2. UpdaterInv /\ NameInv /\ OwnInv /\ PrevInv /\ [Next]_vars => PrevInv'
    <2>1. UpdaterInv => OpsOK /\ RestOK
      BY Parts
    <2> QED BY <2>1, WorkerPrev, SweepPrev, EnvironmentPrev DEF Next
  <1>3. NameInv /\ PrevInv => PreviousIsRetired
    BY DEF NameInv, OneName, PrevInv, PreviousIsRetired
  <1> QED BY <1>1, <1>2, <1>3, NamesAgree, NamedCallsOwnTheirContainer, PTL
          DEF Spec

\* In particular where the grants are named.
THEOREM UnsweptRollbackLeadsBack ==
    ASSUME MaxSweeps = 0, MaxMisses = 0
    PROVE  Spec => []PreviousIsRetired
  BY GrantsAreNamed, RollbackLeadsBack, PTL
-----------------------------------------------------------------------------
(* After a sweep that saw the host as it still is, the table is the host.    *)

\* A container the sweep has listed is gone.
Stale == \E i \in DOMAIN sweep.seen : i \notin DOMAIN host

\* The sweep has listed no container named n.
Unlisted(n) == \A i \in DOMAIN sweep.seen : sweep.seen[i].name # n

\* Containers and listings are tables.
Tables ==
    /\ host = [i \in DOMAIN host |-> host[i]]
    /\ sweep.seen = [i \in DOMAIN sweep.seen |-> sweep.seen[i]]

\* A container created since the listing has a name that was free: either the
\* listing lacks it, or what the listing calls by it is gone.
Newcomers ==
    \A i \in DOMAIN host : i \notin DOMAIN sweep.seen
        => Stale \/ Unlisted(host[i].name)

\* The listed containers that the sweep has upserted have a row while they live.
Upserted ==
    \A i \in DOMAIN sweep.seen :
        /\ i \in DOMAIN host
        /\ sweep.pc = "upsert" => i \notin sweep.todo
        => i \in DOMAIN rows

\* A row that was written after the prune is a newcomer's, and its name is on
\* the host or somebody answers for it.
Unpruned ==
    \A i \in DOMAIN rows : i \notin DOMAIN sweep.seen
        => /\ Stale \/ Unlisted(rows[i].name)
           /\ LossIn({rows[i].name})

SweepInv ==
    /\ Tables
    /\ sweep.pc # "idle" => Newcomers /\ Upserted
    /\ sweep.pc = "check" => Unpruned

\* What a step of a worker does to the table.
LEMMA WorkerTable ==
    ASSUME OpsOK, NEW w \in Workers,
           RequestUpdate(w) \/ RequestRollback(w) \/ Step(w)
    PROVE  \/ UNCHANGED rows
           \/ /\ op[w].pc \in {"commit", "record"} /\ UNCHANGED host
              /\ \E pr : rows' = Replaced(op[w], pr)
           \/ \E i, b : rows' = SetUpdateAvailable(rows, i, b)
  <1>1. CASE Commit(w) \/ RecordReverted(w)
    BY <1>1 DEF Commit, RecordReverted, docker
  <1>2. CASE Epilogue(w)
    BY <1>2 DEF Epilogue
  <1>3. CASE \/ RequestUpdate(w) \/ RequestRollback(w) \/ LookupUpdate(w)
             \/ LookupRollback(w) \/ beginOperation(w) \/ Inspect(w) \/ Define(w)
             \/ Pull(w) \/ Stop(w) \/ Remove(w)
    BY <1>3 DEF RequestUpdate, RequestRollback, LookupUpdate, LookupRollback,
       beginOperation, Inspect, Define, Pull, Stop, Remove, stored
  <1>4. CASE \/ Create(w) \/ Validate(w) \/ Start(w) \/ WaitHealthy(w)
             \/ InspectResult(w) \/ RestartOriginal(w) \/ Reread(w) \/ Finish(w)
    BY <1>4 DEF Create, Validate, Start, WaitHealthy, InspectResult,
       RestartOriginal, Reread, Finish, stored
  <1> QED BY <1>1, <1>2, <1>3, <1>4 DEF Step

\* The host changes in place, or loses the container of the call, or gains one
\* under a name that was free.
LEMMA WorkerChangesHost ==
    ASSUME OpsOK, RestOK, NEW w \in Workers,
           RequestUpdate(w) \/ RequestRollback(w) \/ Step(w)
    PROVE  \/ UNCHANGED host
           \/ \E j, s : host' = [host EXCEPT ![j].state = s]
           \/ \E j : host' = Keep(host, DOMAIN host \ {j})
           \/ \E c : /\ host' = Put(host, nextID, c) /\ NameFree(c.name)
                     /\ op[w].pc = "create" /\ c.name = op[w].before.name
                     /\ c.config = op[w].target
  <1>1. CASE Create(w)
    BY <1>1 DEF Create, Succeeds
  <1>2. CASE Remove(w)
    BY <1>2 DEF Remove
  <1>3. CASE Stop(w) \/ Start(w) \/ RestartOriginal(w)
    BY <1>3 DEF Stop, Stopped, Start, RestartOriginal
  <1>4. CASE \/ RequestUpdate(w) \/ RequestRollback(w) \/ LookupUpdate(w)
             \/ LookupRollback(w) \/ beginOperation(w) \/ Inspect(w) \/ Define(w)
             \/ Pull(w)
    BY <1>4 DEF RequestUpdate, RequestRollback, LookupUpdate, LookupRollback,
       beginOperation, Inspect, Define, Pull, docker
  <1>5. CASE \/ Validate(w) \/ WaitHealthy(w) \/ InspectResult(w) \/ Commit(w)
             \/ Epilogue(w) \/ Reread(w) \/ RecordReverted(w) \/ Finish(w)
    BY <1>5 DEF Validate, WaitHealthy, InspectResult, Commit, Epilogue, Reread,
       RecordReverted, Finish, docker
  <1> QED BY <1>1, <1>2, <1>3, <1>4, <1>5 DEF Step

\* What gone containers and free names mean for the listing of a sweep.
LEMMA ListingAges ==
    ASSUME RestOK, NameInv, HostNamed, UNCHANGED sweep,
           \A i \in DOMAIN host' : i \notin DOMAIN host => NameFree(host'[i].name)
    PROVE  /\ Stale => Stale'
           /\ \A n : Unlisted(n)' <=> Unlisted(n)
           /\ Newcomers => Newcomers'
           /\ \A i \in DOMAIN sweep.seen : i \in DOMAIN host' => i \in DOMAIN host
  <1>1. nextID \in Nat /\ \A i \in DOMAIN sweep.seen : i \in Nat /\ i < nextID
    BY DEF RestOK, SweepOK, ID, NameInv, OlderIDs
  <1>2. \A i \in DOMAIN sweep.seen : i # nextID
    BY <1>1
  <1>3. \A i \in DOMAIN sweep.seen : i \in DOMAIN host' => i \in DOMAIN host
    BY <1>2 DEF HostNamed
  <1>4. Stale => Stale'
    BY <1>3 DEF Stale
  <1>5. \A n : Unlisted(n)' <=> Unlisted(n)
    BY DEF Unlisted
  <1>6. \A n : NameFree(n) => Stale \/ Unlisted(n)
    BY DEF NameFree, Stale, Unlisted, NameInv, OneName
  <1>7. ASSUME Newcomers, NEW i \in DOMAIN host', i \notin DOMAIN sweep.seen
        PROVE  Stale \/ Unlisted(host'[i].name)
    <2>1. CASE i \in DOMAIN host
      <3>1. i # nextID \/ host'[i].name = host[i].name
        <4>1. \A j \in DOMAIN host : j \in Nat /\ j < nextID
          BY DEF RestOK, HostOK, ID, NameInv, OlderIDs
        <4> QED BY <1>1, <2>1, <4>1
      <3> QED BY <1>7, <2>1, <3>1 DEF Newcomers, HostNamed
    <2>2. CASE i \notin DOMAIN host
      BY <1>6, <2>2
    <2> QED BY <2>1, <2>2
  <1>8. Newcomers => Newcomers'
    BY <1>4, <1>5, <1>7 DEF Newcomers
  <1> QED BY <1>3, <1>4, <1>5, <1>8

\* A step of a worker.
LEMMA WorkerSweepInv ==
    ASSUME UpdaterInv, NameInv, OwnInv, SweepInv,
           NEW w \in Workers, RequestUpdate(w) \/ RequestRollback(w) \/ Step(w)
    PROVE  SweepInv'
  <1> DEFINE o == op[w]
  <1>0. OpsOK /\ RestOK /\ o \in Op /\ OpInv(o)
    BY Parts DEF OpsOK, OpInv
  <1>1. UNCHANGED sweep
    BY DEF Step, RequestUpdate, RequestRollback, LookupUpdate,
       LookupRollback, beginOperation, Inspect, Define, Pull, Stop, Remove,
       Create, Validate, Start, WaitHealthy, InspectResult, Commit, Epilogue,
       RestartOriginal, Reread, RecordReverted, Finish
  <1>2. HostNamed
    BY <1>0, WorkerHost
  <1>a. \A i \in DOMAIN host : host[i] \in Container
    BY <1>0 DEF RestOK, HostOK
  <1>3. /\ \A i \in DOMAIN host' : i \notin DOMAIN host => NameFree(host'[i].name)
        /\ host' = [i \in DOMAIN host' |-> host'[i]]
    <2>1. CASE UNCHANGED host
      BY <2>1 DEF SweepInv, Tables
    <2>2. ASSUME NEW j, NEW s, host' = [host EXCEPT ![j].state = s]
          PROVE  <1>3
      <3>1. DOMAIN host' = DOMAIN host
        BY <2>2
      <3>2. host' = [i \in DOMAIN host' |-> host'[i]]
        BY <2>2 DEF SweepInv, Tables
      <3> QED BY <3>1, <3>2
    <2>3. ASSUME NEW j, host' = Keep(host, DOMAIN host \ {j})
          PROVE  <1>3
      BY <2>3 DEF Keep
    <2>4. ASSUME NEW c, host' = Put(host, nextID, c), NameFree(c.name)
          PROVE  <1>3
      BY <2>4 DEF Put
    <2> QED BY <1>0, <2>1, <2>2, <2>3, <2>4, WorkerChangesHost
  <1>4. /\ Stale => Stale'
        /\ \A n : Unlisted(n)' <=> Unlisted(n)
        /\ Newcomers => Newcomers'
        /\ \A i \in DOMAIN sweep.seen : i \in DOMAIN host' => i \in DOMAIN host
    BY <1>0, <1>1, <1>2, <1>3, ListingAges
  <1>5. /\ \A i \in DOMAIN rows : i \in DOMAIN rows' \/ i \notin DOMAIN host
        /\ \A i \in DOMAIN rows' :
              \/ i \in DOMAIN rows /\ rows'[i].name = rows[i].name
              \/ /\ i \in DOMAIN host /\ rows'[i].name = host[i].name
                 /\ UNCHANGED host
    <2>1. CASE UNCHANGED rows
      BY <2>1
    <2>2. ASSUME o.pc \in {"commit", "record"}, UNCHANGED host,
                 NEW pr, rows' = Replaced(o, pr)
          PROVE  <1>5
      <3>1. Control(o) /\ Owns(o, host)
        BY DEF OwnInv
      <3>2. Snap(o) /\ Remade(o) /\ (o.removed \/ o.phase = "revert")
        BY <1>0, <2>2, <3>1, WorkingHasSnap DEF Control, Remade
      <3>3. o.id \notin DOMAIN host /\ o.new \in DOMAIN host
            /\ host[o.new].name = o.before.name
        BY <3>1, <3>2 DEF Owns, Mine
      <3>4. /\ DOMAIN rows' = (DOMAIN rows \ {o.id}) \cup {o.new}
            /\ rows'[o.new].name = o.before.name
            /\ \A i \in DOMAIN rows' : i # o.new => rows'[i] = rows[i]
        BY <2>2 DEF Replaced, replaceContainerTx, Put, Keep
      <3> QED BY <2>2, <3>3, <3>4
    <2>3. ASSUME NEW i, NEW b, rows' = SetUpdateAvailable(rows, i, b)
          PROVE  <1>5
      <3>1. \A j \in DOMAIN rows : rows[j] \in Row
        BY <1>0 DEF RestOK, RowsOK
      <3> QED BY <2>3, <3>1 DEF SetUpdateAvailable, Row
    <2> QED BY <1>0, <2>1, <2>2, <2>3, WorkerTable
  <1>6. Tables'
    BY <1>1, <1>3 DEF SweepInv, Tables
  <1>7. Upserted => Upserted'
    BY <1>1, <1>4, <1>5 DEF Upserted
  <1>8. ASSUME Newcomers, Unpruned
        PROVE  Unpruned'
    <2> SUFFICES ASSUME NEW i \in DOMAIN rows', i \notin DOMAIN sweep.seen
                 PROVE  /\ Stale' \/ Unlisted(rows'[i].name)
                        /\ LossIn({rows[i].name})'
      BY <1>1, <1>4 DEF Unpruned
    <2>1. CASE i \in DOMAIN rows /\ rows'[i].name = rows[i].name
      <3> DEFINE n == rows[i].name
      <3>1. LossIn({n}) /\ (Stale \/ Unlisted(n))
        BY <1>8, <2>1 DEF Unpruned
      <3>2. ASSUME NEW m, LossIn({m}) PROVE LossIn({m})'
        BY <1>0, <3>2, WorkerLosesNothing
      <3>3. LossIn({rows[i].name})'
        BY <2>1, <3>1, <3>2 DEF LossIn
      <3> QED BY <1>4, <2>1, <3>1, <3>3
    <2>2. CASE /\ i \in DOMAIN host /\ rows'[i].name = host[i].name
               /\ UNCHANGED host
      BY <1>4, <1>8, <2>2 DEF Newcomers, LossIn, Exists
    <2> QED BY <1>5, <2>1, <2>2
  <1> QED BY <1>1, <1>4, <1>6, <1>7, <1>8 DEF SweepInv

\* The steps of the sweep itself: the listing is the host, an upsert adds a
\* row, the prune keeps the listed ones and a check changes none.
LEMMA SweepKeepsSweepInv ==
    ASSUME UpdaterInv, NameInv, SweepInv, Sweep
    PROVE  SweepInv'
  <1>0. RestOK /\ UNCHANGED <<host, nextID, op, reported, torn>>
    BY Parts DEF Sweep, SweepList, SweepPrune, SweepUpsert, SweepCheck, docker,
       history
  <1>a. \A n : LossIn({n})' <=> LossIn({n})
    BY <1>0 DEF LossIn, Exists, Answered, RemovedUnnoticed
  <1>b. /\ sweep = [pc |-> sweep.pc, seen |-> sweep.seen, todo |-> sweep.todo]
        /\ sweep.todo \subseteq DOMAIN sweep.seen
    BY <1>0 DEF RestOK, SweepOK
  <1>c. NoSweep.pc = "idle" /\ NoSweep.seen = <<>>
    BY DEF NoSweep
  <1>d. <<>> = [i \in DOMAIN <<>> |-> <<>>[i]]
    OBVIOUS
  <1>1. CASE SweepList
    <2>1. /\ sweep'.seen = host /\ sweep'.todo = DOMAIN host
          /\ sweep'.pc \in {"prune", "upsert"}
          /\ sweep'.pc = "prune" => DOMAIN host = {}
      BY <1>1 DEF SweepList
    <2>2. Tables'
      BY <1>0, <2>1 DEF SweepInv, Tables
    <2>3. Newcomers' /\ Upserted'
      BY <1>0, <2>1 DEF Newcomers, Upserted
    <2> QED BY <2>1, <2>2, <2>3 DEF SweepInv
  <1>2. ASSUME NEW i, SweepUpsert(i)
        PROVE  SweepInv'
    <2>1. /\ sweep'.seen = sweep.seen /\ sweep'.todo = sweep.todo \ {i}
          /\ sweep'.pc \in {"upsert", "prune"}
          /\ sweep'.pc = "prune" => sweep.todo = {i}
          /\ sweep.pc = "upsert"
      BY <1>2, <1>b DEF SweepUpsert
    <2>2. DOMAIN rows' = DOMAIN rows \cup {i}
      BY <1>2 DEF SweepUpsert, UpsertSeen, Put
    <2>3. Tables'
      BY <1>0, <2>1 DEF SweepInv, Tables
    <2>4. Newcomers'
      BY <1>0, <2>1 DEF SweepInv, Newcomers, Stale, Unlisted
    <2>5. Upserted'
      BY <1>0, <2>1, <2>2 DEF SweepInv, Upserted
    <2> QED BY <2>1, <2>3, <2>4, <2>5 DEF SweepInv
  <1>3. CASE SweepPrune
    <2>1. CASE sweep.seen = <<>>
      <3>1. sweep' = NoSweep
        BY <1>3, <2>1 DEF SweepPrune
      <3> QED BY <1>0, <1>c, <1>d, <3>1 DEF SweepInv, Tables
    <2>2. CASE sweep.seen # <<>>
      <3>1. /\ sweep'.seen = sweep.seen /\ sweep'.pc = "check"
            /\ sweep.pc = "prune"
        BY <1>3, <1>b, <2>2 DEF SweepPrune
      <3>2. DOMAIN sweep.seen # {}
        <4>1. [i \in {} |-> sweep.seen[i]] = [i \in {} |-> <<>>[i]]
          OBVIOUS
        <4>2. DOMAIN <<>> = {}
          OBVIOUS
        <4> QED BY <1>d, <2>2, <4>1, <4>2, Zenon DEF SweepInv, Tables
      <3>3. DOMAIN rows' = DOMAIN rows \cap DOMAIN sweep.seen
        BY <1>3, <3>2 DEF SweepPrune, PruneContainers, Keep
      <3>4. Tables'
        BY <1>0, <3>1 DEF SweepInv, Tables
      <3>5. Newcomers'
        BY <1>0, <3>1 DEF SweepInv, Newcomers, Stale, Unlisted
      <3>6. Upserted'
        BY <1>0, <3>1, <3>3 DEF SweepInv, Upserted
      <3>7. Unpruned'
        BY <3>1, <3>3 DEF Unpruned
      <3> QED BY <3>4, <3>5, <3>6, <3>7 DEF SweepInv
    <2> QED BY <2>1, <2>2
  <1>4. ASSUME NEW i, SweepCheck(i)
        PROVE  SweepInv'
    <2>1. DOMAIN rows' = DOMAIN rows
          /\ \A j \in DOMAIN rows : rows'[j].name = rows[j].name
      <3>1. PICK r, a, rep :
              /\ rep = rows \/ rep = RepairCurrentImage(rows, i, r)
              /\ rows' = rep \/ rows' = SetUpdateAvailable(rep, i, a)
        BY <1>4 DEF SweepCheck
      <3>2. \A j \in DOMAIN rows : DOMAIN rows[j] = {"name", "cur", "prev", "avail"}
        BY <1>0 DEF RestOK, RowsOK, Row
      <3>3. DOMAIN rep = DOMAIN rows /\ \A j \in DOMAIN rows :
               rep[j].name = rows[j].name /\ "name" \in DOMAIN rep[j]
        BY <3>1, <3>2 DEF RepairCurrentImage
      <3> QED BY <3>1, <3>3 DEF SetUpdateAvailable
    <2>2. CASE sweep' = NoSweep
      BY <1>0, <1>c, <1>d, <2>2 DEF SweepInv, Tables
    <2>3. CASE sweep' = [sweep EXCEPT !.todo = @ \ {i}]
      <3>1. sweep'.seen = sweep.seen /\ sweep'.pc = "check" /\ sweep.pc = "check"
        BY <1>4, <1>b, <2>3 DEF SweepCheck
      <3>2. Tables'
        BY <1>0, <3>1 DEF SweepInv, Tables
      <3>3. Newcomers'
        BY <1>0, <3>1 DEF SweepInv, Newcomers, Stale, Unlisted
      <3>4. Upserted'
        BY <1>0, <2>1, <3>1 DEF SweepInv, Upserted
      <3>5. Unpruned'
        <4>1. Unpruned
          BY <3>1 DEF SweepInv
        <4>2. \A n : (Stale' <=> Stale) /\ (Unlisted(n)' <=> Unlisted(n))
          BY <1>0, <3>1 DEF Stale, Unlisted
        <4> QED BY <1>a, <2>1, <3>1, <4>1, <4>2 DEF Unpruned
      <3> QED BY <3>2, <3>3, <3>4, <3>5 DEF SweepInv
    <2> QED BY <1>4, <2>2, <2>3 DEF SweepCheck
  <1> QED BY <1>1, <1>2, <1>3, <1>4 DEF Sweep

\* A death of the daemon ends the sweep, and nothing else that happens around
\* it removes a container or changes a row.
LEMMA EnvironmentKeepsSweepInv ==
    ASSUME UpdaterInv, NameInv, SweepInv, Environment \/ UNCHANGED vars
    PROVE  SweepInv'
  <1>0. OpsOK /\ RestOK /\ UNCHANGED rows
    BY Parts DEF Environment, ContainerCrash, ContainerRestart, Publish, Expire,
       Exit, stored, vars
  <1>1. CASE Exit
    <2>1. UNCHANGED host /\ sweep' = NoSweep
      BY <1>1 DEF Exit, docker
    <2>2. NoSweep.pc = "idle" /\ NoSweep.seen = <<>>
          /\ <<>> = [i \in DOMAIN <<>> |-> <<>>[i]]
      BY DEF NoSweep
    <2> QED BY <2>1, <2>2 DEF SweepInv, Tables
  <1>2. CASE ~Exit
    <2>1. UNCHANGED <<sweep, nextID>>
      BY <1>2 DEF Environment, ContainerCrash, ContainerRestart, Publish, Expire,
         docker, vars
    <2>2. /\ DOMAIN host' = DOMAIN host
          /\ \A i \in DOMAIN host : host'[i].name = host[i].name
          /\ host' = [i \in DOMAIN host' |-> host'[i]]
      <3>1. CASE UNCHANGED host
        BY <3>1 DEF SweepInv, Tables
      <3>2. ASSUME NEW i \in DOMAIN host, ContainerCrash(i) \/ ContainerRestart(i)
            PROVE  <2>2
        <4>1. host[i] \in Container
          BY <1>0 DEF RestOK, HostOK
        <4>2. PICK c : host' = [host EXCEPT ![i] = c] /\ c.name = host[i].name
          <5>1. CASE ContainerCrash(i)
            BY <4>1, <5>1 DEF ContainerCrash, Container
          <5>2. CASE ContainerRestart(i)
            <6> DEFINE c == [host[i] EXCEPT !.state = "running"]
            <6>1. host' = [host EXCEPT ![i] = c] /\ c.name = host[i].name
              BY <4>1, <5>2 DEF ContainerRestart, Container
            <6> QED BY <6>1
          <5> QED BY <3>2, <5>1, <5>2
        <4> QED BY <4>2 DEF SweepInv, Tables
      <3> QED BY <1>2, <3>1, <3>2 DEF Environment, Publish, Expire, docker, vars
    <2>3. HostNamed
      BY <2>1, <2>2 DEF HostNamed
    <2>4. /\ Stale => Stale'
          /\ \A n : Unlisted(n)' <=> Unlisted(n)
          /\ Newcomers => Newcomers'
          /\ \A i \in DOMAIN sweep.seen : i \in DOMAIN host' => i \in DOMAIN host
      BY <1>0, <2>1, <2>2, <2>3, ListingAges
    <2>5. ASSUME NEW n, LossIn({n}) PROVE LossIn({n})'
      BY <1>0, <1>2, <2>5, OthersLoseNothing
    <2>6. Unpruned => Unpruned'
      BY <1>0, <2>1, <2>4, <2>5 DEF Unpruned
    <2>7. Upserted => Upserted'
      BY <1>0, <2>1, <2>2 DEF Upserted
    <2> QED BY <2>1, <2>2, <2>4, <2>6, <2>7 DEF SweepInv, Tables
  <1> QED BY <1>1, <1>2

\* The table lists exactly the live containers once a sweep that saw the host
\* as it still is has pruned it, whatever was committed, reverted or killed
\* while it ran, as long as the calls past the snapshot hold names.  Without
\* that a call can record a container another call has removed.
THEOREM DiscoveryFindsTheHost ==
    Spec /\ []NamedGrants => []DiscoveryConverges
  <1>1. Init => SweepInv
    <2> SUFFICES ASSUME Init PROVE SweepInv
      OBVIOUS
    <2>1. sweep.pc = "idle" /\ sweep.seen = <<>>
      BY DEF Init, NoSweep
    <2>2. <<>> = [i \in DOMAIN <<>> |-> <<>>[i]]
      OBVIOUS
    <2>3. host = [i \in DOMAIN host |-> host[i]]
      <3>1. PICK ids \in Bijection(1..Cardinality(Names), Names),
                 configs \in [Names -> [kind : {"tag"}, of : Tags]
                                \cup [kind : {"pin"}, of : Images \ Broken]],
                 states \in [Names -> {"running", "exited"}] :
          host = [i \in 1..Cardinality(Names) |->
                    LET n == ids[i] IN
                    [name |-> n, config |-> configs[n],
                     image |-> Resolve(configs[n]), state |-> states[n],
                     restarts |-> 0, by |-> "operator"]]
        BY DEF Init
      <3> QED BY <3>1
    <2> QED BY <2>1, <2>2, <2>3 DEF SweepInv, Tables
  <1>2. UpdaterInv /\ NameInv /\ OwnInv /\ SweepInv /\ [Next]_vars => SweepInv'
    BY WorkerSweepInv, SweepKeepsSweepInv, EnvironmentKeepsSweepInv DEF Next
  <1>3. UpdaterInv /\ NameInv /\ SweepInv => DiscoveryConverges
    <2> SUFFICES ASSUME UpdaterInv, NameInv, SweepInv, sweep.pc = "check",
                        DOMAIN sweep.seen = DOMAIN host, active = {},
                        reported = {}, \A n \in Names : ~RemovedUnnoticed(n)
                 PROVE  /\ DOMAIN rows = DOMAIN host
                        /\ \A i \in DOMAIN host : rows[i].name = host[i].name
      BY DEF DiscoveryConverges
    <2>1. Upserted /\ Unpruned /\ ~Stale
      BY DEF SweepInv, Stale
    <2>2. DOMAIN host \subseteq DOMAIN rows
      BY <2>1 DEF Upserted
    <2>3. ASSUME NEW i \in DOMAIN rows, i \notin DOMAIN host
          PROVE  FALSE
      <3> DEFINE n == rows[i].name
      <3>1. Unlisted(n) /\ (Exists(n) \/ Answered(n))
        BY <2>1, <2>3 DEF Unpruned, LossIn
      <3>2. ~Exists(n)
        BY <3>1 DEF Exists, Unlisted, NameInv, OneName
      <3>a. n \in Names
        BY <2>3, Parts DEF RestOK, RowsOK, Row
      <3>3. PICK v \in Workers : Owes(op[v], n)
        BY <3>1, <3>2, <3>a DEF Answered
      <3>4. Holding(v)
        BY <3>3 DEF Owes, Holding
      <3> QED BY <3>4 DEF UpdaterInv, KeyHeldOnce
    <2> QED BY <2>2, <2>3 DEF NameInv, OneName
  <1> QED BY <1>1, <1>2, <1>3, NamesAgree, NamedCallsOwnTheirContainer, PTL
          DEF Spec
-----------------------------------------------------------------------------
(* A tag is lost only where the events still have one.                      *)

\* Some record says that the container i is called n.
Called(i, n) ==
    \/ i \in DOMAIN host /\ host[i].name = n
    \/ i \in DOMAIN rows /\ rows[i].name = n
    \/ i \in DOMAIN sweep.seen /\ sweep.seen[i].name = n
    \/ \E w \in Workers : /\ op[w].pc \in Working /\ op[w].before.name = n
                          /\ i \in {op[w].id, op[w].new}

\* All records of a container agree on its name, also when it is gone.
CalledOnce == \A i \in ID : \A n, m : Called(i, n) /\ Called(i, m) => n = m

\* Records are copies of records, or about the container just created.
LEMMA CalledStep ==
    ASSUME UpdaterInv, NameInv, CalledOnce, NEW k,
           \A i \in ID : \A n : Called(i, n)' =>
               Called(i, n) \/ (i = nextID /\ n = k)
    PROVE  CalledOnce'
  <1>0. OpsOK /\ RestOK
    BY Parts
  <1>1. nextID \in Nat
    BY <1>0 DEF RestOK, ID
  <1>2. \A n : ~Called(nextID, n)
    <2>1. \A w \in Workers : op[w].id \in Nat /\ op[w].new \in Nat
                             /\ op[w].id < nextID /\ op[w].new < nextID
      BY <1>0 DEF OpsOK, Op, NameInv, CallsAreNamed, CallNamed
    <2> QED BY <1>1, <2>1 DEF Called, NameInv, OlderIDs
  <1> QED BY <1>2 DEF CalledOnce

\* The steps between the snapshot and the return.
LEMMA WorksIsWorking ==
    ASSUME NEW w \in Workers, Works(w)
    PROVE  op[w].pc \in Working
  BY DEF Works, Define, Pull, Stop, Remove, Create, Validate, Start, WaitHealthy,
     InspectResult, Commit, Epilogue, RestartOriginal, Reread, RecordReverted,
     Working, PCs

\* A worker's step copies names, and names what it creates after its snapshot.
LEMMA WorkerCalls ==
    ASSUME UpdaterInv, NameInv, NEW w \in Workers,
           RequestUpdate(w) \/ RequestRollback(w) \/ Step(w)
    PROVE  \A i \in ID : \A n : Called(i, n)' =>
               Called(i, n) \/ (i = nextID /\ n = op[w].before.name)
  <1> DEFINE o == op[w]
             OK(i, n) == Called(i, n) \/ (i = nextID /\ n = op[w].before.name)
  <1>0. OpsOK /\ RestOK /\ o \in Op /\ OpInv(o) /\ CallNamed(o, host, nextID)
    BY Parts DEF OpsOK, OpInv, NameInv, CallsAreNamed
  <1>1. UNCHANGED sweep
    BY DEF Step, RequestUpdate, RequestRollback, LookupUpdate,
       LookupRollback, beginOperation, Inspect, Define, Pull, Stop, Remove,
       Create, Validate, Start, WaitHealthy, InspectResult, Commit, Epilogue,
       RestartOriginal, Reread, RecordReverted, Finish
  <1>2. ASSUME NEW i \in DOMAIN host' PROVE OK(i, host'[i].name)
    <2>a. \A j \in DOMAIN host : host[j] \in Container
      BY <1>0 DEF RestOK, HostOK
    <2>1. CASE UNCHANGED host
      BY <2>1 DEF Called
    <2>2. ASSUME NEW j, NEW s, host' = [host EXCEPT ![j].state = s]
          PROVE  OK(i, host'[i].name)
      BY <2>2, <2>a DEF Called, Container
    <2>3. ASSUME NEW j, host' = Keep(host, DOMAIN host \ {j})
          PROVE  OK(i, host'[i].name)
      BY <2>3 DEF Called, Keep
    <2>4. ASSUME NEW c, host' = Put(host, nextID, c), c.name = o.before.name
          PROVE  OK(i, host'[i].name)
      BY <2>4 DEF Called, Put
    <2> QED BY <1>0, <2>1, <2>2, <2>3, <2>4, WorkerChangesHost
  <1>3. ASSUME NEW i \in DOMAIN rows' PROVE OK(i, rows'[i].name)
    <2>1. CASE UNCHANGED rows
      BY <2>1 DEF Called
    <2>2. ASSUME o.pc \in {"commit", "record"}, NEW pr, rows' = Replaced(o, pr)
          PROVE  OK(i, rows'[i].name)
      <3>1. Called(o.new, o.before.name)
        BY <2>2 DEF Called, Working, PCs
      <3> QED BY <2>2, <3>1 DEF Called, Replaced, replaceContainerTx, Put, Keep
    <2>3. ASSUME NEW j, NEW b, rows' = SetUpdateAvailable(rows, j, b)
          PROVE  OK(i, rows'[i].name)
      <3>1. \A k \in DOMAIN rows : rows[k] \in Row
        BY <1>0 DEF RestOK, RowsOK
      <3> QED BY <2>3, <3>1 DEF SetUpdateAvailable, Row, Called
    <2> QED BY <1>0, <2>1, <2>2, <2>3, WorkerTable
  <1>4. ASSUME NEW v \in Workers, NEW i \in ID, op'[v].pc \in Working,
               i \in {op'[v].id, op'[v].new}
        PROVE  OK(i, op'[v].before.name)
    <2>0. \A u \in Workers : u # w => op'[u] = op[u]
      <3>1. \E p : Become(w, p)
        BY <1>0, WorkerMoves DEF Moves
      <3> QED BY <1>0, <3>1 DEF Become, OpsOK
    <2>1. CASE v # w
      BY <1>4, <2>0, <2>1 DEF Called
    <2>2. CASE v = w /\ Works(w)
      <3>1. o.pc \in Working
        BY <2>2, WorksIsWorking
      <3>2. CASE \E p : Become(w, p) /\ Later(p, o)
        <4>1. /\ op'[w].id = o.id /\ op'[w].before = o.before
              /\ op'[w].new \in {o.new, 0}
          BY <1>0, <3>2 DEF Become, OpsOK, Later
        <4>2. i \in {o.id, o.new}
          BY <1>4, <2>2, <4>1 DEF ID
        <4>3. Called(i, o.before.name)
          BY <3>1, <4>2 DEF Called
        <4> QED BY <2>2, <4>1, <4>3
      <3>3. CASE Become(w, [o EXCEPT !.pc = "validate", !.new = nextID,
                                     !.state = "created"])
        <4>1. /\ op'[w].id = o.id /\ op'[w].before = o.before
              /\ op'[w].new = nextID
          BY <1>0, <3>3 DEF Become, OpsOK, Op
        <4> QED BY <1>4, <2>2, <3>1, <4>1 DEF Called
      <3> QED BY <1>0, <2>2, <3>2, <3>3, WorkIsLater DEF Works
    <2>3. CASE v = w /\ Inspect(w)
      <3> DEFINE p == [o EXCEPT !.pc = "define", !.before = host[o.id]]
                 q == [o EXCEPT !.pc = "done", !.outcome = "failed"]
      <3>1. (op'[w] = p /\ o.id \in DOMAIN host) \/ op'[w] = q
        BY <1>0, <2>3 DEF Inspect, Become, OpsOK, Succeeds
      <3>2. p.id = o.id /\ p.new = o.new /\ p.before = host[o.id] /\ q.pc = "done"
        BY <1>0 DEF Op
      <3>3. o.new = 0 /\ "done" \notin Working
        BY <1>0, <2>3 DEF Inspect, CallNamed, Working
      <3> HIDE DEF p, q
      <3>4. op'[w] = p /\ o.id \in DOMAIN host
        BY <1>4, <2>3, <3>1, <3>2, <3>3
      <3>5. i = o.id
        BY <1>4, <2>3, <3>2, <3>3, <3>4 DEF ID
      <3> QED BY <2>3, <3>2, <3>4, <3>5 DEF Called
    <2>4. CASE v = w /\ ~Works(w) /\ ~Inspect(w)
      <3>1. op'[w].pc \in {"idle", "lookup", "begin", "inspect"}
        BY <1>0, <2>4, EntryStays DEF Step, Works
      <3> QED BY <1>4, <2>4, <3>1, PlainLabels
    <2> QED BY <2>1, <2>2, <2>3, <2>4
  <1>5. ASSUME NEW i \in DOMAIN sweep'.seen PROVE OK(i, sweep'.seen[i].name)
    BY <1>1 DEF Called
  <1>6. \A i \in ID : \A n : Called(i, n)' => OK(i, n)
    <2> SUFFICES ASSUME NEW i \in ID, NEW n, Called(i, n)' PROVE OK(i, n)
      OBVIOUS
    <2> HIDE DEF OK
    <2> QED BY <1>2, <1>3, <1>4, <1>5 DEF Called
  <1> QED BY <1>6

\* A listing is taken from the host and kept until the next one.
LEMMA SeenIsListed ==
    ASSUME RestOK, Sweep \/ Environment \/ UNCHANGED vars
    PROVE  \/ sweep'.seen = sweep.seen \/ sweep'.seen = host
           \/ sweep'.seen = <<>>
  <1> DEFINE Listed == \/ sweep'.seen = sweep.seen \/ sweep'.seen = host
                       \/ sweep'.seen = <<>>
  <1>1. sweep = [pc |-> sweep.pc, seen |-> sweep.seen, todo |-> sweep.todo]
    BY DEF RestOK, SweepOK
  <1>2. NoSweep.seen = <<>>
    BY DEF NoSweep
  <1>3. CASE SweepList
    BY <1>3 DEF SweepList
  <1>4. CASE SweepPrune
    BY <1>1, <1>2, <1>4 DEF SweepPrune
  <1>5. ASSUME NEW j, SweepUpsert(j)
        PROVE  Listed
    BY <1>1, <1>5 DEF SweepUpsert
  <1>6. ASSUME NEW j, SweepCheck(j)
        PROVE  Listed
    BY <1>1, <1>2, <1>6 DEF SweepCheck
  <1>7. CASE Environment \/ UNCHANGED vars
    BY <1>2, <1>7 DEF Environment, ContainerCrash, ContainerRestart, Publish,
       Expire, Exit, vars
  <1> QED BY <1>3, <1>4, <1>5, <1>6, <1>7 DEF Sweep

\* So do the sweep and everything else that happens.
LEMMA OthersCall ==
    ASSUME UpdaterInv, Sweep \/ Environment \/ UNCHANGED vars
    PROVE  \A i \in ID : \A n : Called(i, n)' => Called(i, n)
  <1>0. OpsOK /\ RestOK
    BY Parts
  <1>a. /\ \A i \in DOMAIN rows : rows[i] \in Row
        /\ \A i \in DOMAIN host : host[i] \in Container
    BY <1>0 DEF RestOK, RowsOK, HostOK
  <1>1. ASSUME NEW i \in DOMAIN host'
        PROVE  i \in DOMAIN host /\ host'[i].name = host[i].name
    <2>1. CASE UNCHANGED host
      BY <2>1
    <2>2. ASSUME NEW j \in DOMAIN host, ContainerCrash(j) \/ ContainerRestart(j)
          PROVE  i \in DOMAIN host /\ host'[i].name = host[i].name
      BY <1>a, <2>2 DEF ContainerCrash, ContainerRestart, Container
    <2> QED BY <2>1, <2>2 DEF Environment, Publish, Expire, Exit, docker, vars,
            Sweep, SweepList, SweepPrune, SweepUpsert, SweepCheck
  <1>2. ASSUME NEW i \in DOMAIN rows'
        PROVE  \/ i \in DOMAIN rows /\ rows'[i].name = rows[i].name
               \/ i \in DOMAIN sweep.seen /\ rows'[i].name = sweep.seen[i].name
    <2>1. CASE UNCHANGED rows
      BY <2>1
    <2>2. CASE SweepPrune
      BY <2>2 DEF SweepPrune, PruneContainers, Keep
    <2>3. ASSUME NEW j \in DOMAIN sweep.seen, SweepUpsert(j)
          PROVE  <1>2!2
      <3>1. rows' = UpsertSeen(rows, j, sweep.seen[j].name, sweep.seen[j].config)
        BY <2>3 DEF SweepUpsert
      <3> QED BY <1>a, <2>3, <3>1 DEF UpsertSeen, Put, Row
    <2>4. ASSUME NEW j, SweepCheck(j)
          PROVE  <1>2!2
      <3>1. PICK r, a, rep :
              /\ rep = rows \/ rep = RepairCurrentImage(rows, j, r)
              /\ rows' = rep \/ rows' = SetUpdateAvailable(rep, j, a)
        BY <2>4 DEF SweepCheck
      <3>2. \A k \in DOMAIN rows : DOMAIN rows[k] = {"name", "cur", "prev", "avail"}
        BY <1>a DEF Row
      <3>3. DOMAIN rep = DOMAIN rows /\ \A k \in DOMAIN rows :
               rep[k].name = rows[k].name /\ "name" \in DOMAIN rep[k]
        BY <3>1, <3>2 DEF RepairCurrentImage
      <3> QED BY <3>1, <3>3 DEF SetUpdateAvailable
    <2> QED BY <2>1, <2>2, <2>3, <2>4 DEF Environment, ContainerCrash,
            ContainerRestart, Publish, Expire, Exit, stored, vars, Sweep, SweepList
  <1>3. ASSUME NEW i \in DOMAIN sweep'.seen
        PROVE  \/ i \in DOMAIN sweep.seen /\ sweep'.seen[i].name = sweep.seen[i].name
               \/ i \in DOMAIN host /\ sweep'.seen[i].name = host[i].name
    <2>1. \/ sweep'.seen = sweep.seen \/ sweep'.seen = host \/ sweep'.seen = <<>>
      BY <1>0, SeenIsListed
    <2> QED BY <2>1
  <1>4. ASSUME NEW v \in Workers, op'[v].pc \in Working
        PROVE  /\ op[v].pc \in Working /\ op[v].before = op'[v].before
               /\ op[v].id = op'[v].id /\ op[v].new = op'[v].new
    <2>1. CASE UNCHANGED op
      BY <1>4, <2>1
    <2>2. CASE \E w \in Workers : Expire(w)
      <3>1. PICK w \in Workers : op' = [op EXCEPT ![w].expired = TRUE]
        BY <2>2 DEF Expire
      <3> QED BY <1>0, <1>4, <3>1 DEF OpsOK, Op
    <2>3. CASE Exit
      <3>1. op'[v].pc = "idle"
        BY <2>3 DEF Exit, Idle
      <3> QED BY <1>4, <3>1, PlainLabels
    <2>4. CASE Sweep
      <3>1. UNCHANGED op
        BY <2>4 DEF Sweep, SweepList, SweepPrune, SweepUpsert, SweepCheck
      <3> QED BY <2>1, <3>1
    <2>5. CASE Environment
      <3>1. UNCHANGED op \/ Exit \/ \E w \in Workers : Expire(w)
        BY <2>5 DEF Environment, ContainerCrash, ContainerRestart, Publish
      <3> QED BY <2>1, <2>2, <2>3, <3>1
    <2>6. CASE UNCHANGED vars
      <3>1. UNCHANGED op
        BY <2>6 DEF vars
      <3> QED BY <2>1, <3>1
    <2> QED BY <2>4, <2>5, <2>6
  <1> QED BY <1>1, <1>2, <1>3, <1>4 DEF Called

\* The call o is past the definition of what it will run and record.
Past(o) == o.pc \in Working \ {"define"}

\* The call o will run, record or restore the reference r for the name n.
CallRefers(o, n, r) ==
    \/ o.pc \in Working /\ o.before.name = n /\ r = o.before.config
    \/ Past(o) /\ o.before.name = n /\ r \in {o.cur, o.target}
    \/ /\ o.pc \in {"begin", "inspect", "define"} /\ o.kind = "rollback"
       /\ o.key = n /\ r = o.cur

\* The reference r is the name n's, on the host, in the table, in the listing
\* of a sweep or in a call.
Refers(n, r) ==
    \/ \E i \in DOMAIN host : host[i].name = n /\ host[i].config = r
    \/ \E i \in DOMAIN rows : rows[i].name = n /\ rows[i].cur = r
    \/ \E i \in DOMAIN sweep.seen :
          sweep.seen[i].name = n /\ sweep.seen[i].config = r
    \/ \E w \in Workers : CallRefers(op[w], n, r)

\* A rollback's key is the name its lookup read.
RollbackKeyed(o) ==
    o.pc \in {"begin", "inspect", "define"} /\ o.kind = "rollback"
        => o.key \in Names

\* As long as its events have no tag and none of them was lost, a name's
\* references are all tags or all digests: only an operation that leaves its tag
\* in the events mixes them.
TagInv ==
    /\ \A w \in Workers : RollbackKeyed(op[w])
    /\ \A n \in Names : logged[n] = Nil /\ n \notin unlogged =>
          \A r, s : Refers(n, r) /\ Refers(n, s)
              => (IsDigestReference(r) <=> IsDigestReference(s))

\* p goes on with the references of the call o.
Onward(p, o) ==
    /\ p.pc \notin {"begin", "inspect", "define"}
    /\ p.before = o.before /\ p.cur = o.cur
    /\ p.target \in {o.target, o.before.config}

\* recreate(), its error returns and the revert do.
LEMMA RecreateIsOnward ==
    ASSUME NEW o, Ready(o), o.pc # "define"
    PROVE  /\ Onward(AfterPull(o), o) /\ Onward(BeginRecreate(o), o)
           /\ Onward(revert(o), o) /\ Onward(RecreateError(o), o)
           /\ Onward(Recreated(o), o)
  <1>1. ASSUME NEW r \in Op
        PROVE  Onward(AfterPull(r), r) /\ Onward(BeginRecreate(r), r)
    BY DEF Onward, AfterPull, BeginRecreate, Op
  <1>2. Onward(revert(o), o)
    <2> DEFINE r == [o EXCEPT !.phase = "revert", !.old = o.new, !.new = 0,
                              !.stopped = FALSE, !.removed = FALSE,
                              !.target = o.before.config]
    <2>1. r \in Op /\ r.cur = o.cur /\ r.before = o.before
          /\ r.target = o.before.config
      BY DEF Ready, Op, Container
    <2>2. revert(o) = BeginRecreate(r)
      BY DEF revert
    <2> HIDE DEF r
    <2>3. Onward(BeginRecreate(r), r)
      BY <1>1, <2>1
    <2> QED BY <2>1, <2>2, <2>3 DEF Onward
  <1>3. ASSUME NEW x PROVE Onward([o EXCEPT !.pc = "done", !.outcome = x], o)
    BY DEF Onward, Ready, Op
  <1>4. Onward([o EXCEPT !.pc = "restart"], o)
    BY DEF Onward, Ready, Op
  <1>5. Onward(RecreateError(o), o)
    BY <1>2, <1>3, <1>4 DEF RecreateError
  <1>6. Onward(Recreated(o), o)
    BY DEF Onward, Recreated, Ready, Op
  <1> QED BY <1>1, <1>2, <1>5, <1>6 DEF Ready

\* Past its definition a call's references are those it has, except that a
\* revert reads the row of the original once more.
LEMMA WorkIsOnward ==
    ASSUME OpsOK, RestOK, NEW w \in Workers, Works(w), ~Define(w)
    PROVE  /\ Past(op[w])
           /\ \/ Onward(op'[w], op[w])
              \/ /\ op'[w].pc = "record" /\ op'[w].before = op[w].before
                 /\ op'[w].target = op[w].target
                 /\ \/ op'[w].cur = op[w].before.config
                    \/ /\ op[w].id \in DOMAIN rows
                       /\ op'[w].cur = rows[op[w].id].cur
  <1> DEFINE o == op[w]
  <1>1. o \in Op /\ OpInv(o) /\ Past(o)
    BY WorksIsWorking DEF OpsOK, OpInv, Past, Works, Pull, Stop, Remove, Create,
       Validate, Start, WaitHealthy, InspectResult, Commit, Epilogue,
       RestartOriginal, Reread, RecordReverted
  <1>2. Ready(o) /\ o.pc # "define" /\ o.pc \notin {"begin", "inspect", "define"}
    BY <1>1, WorkingIsReady DEF Past, Working
  <1>3. ASSUME NEW p, Become(w, p) PROVE op'[w] = p
    BY <1>3 DEF Become, OpsOK
  <1>4. ASSUME NEW p, Become(w, p), Onward(p, o)
        PROVE  Onward(op'[w], o)
    BY <1>3, <1>4
  <1>5. \A p : Onward(p, o) /\ Become(w, p) => Onward(op'[w], o)
    BY <1>4
  <1>6. \A x, y : /\ Onward([o EXCEPT !.pc = "done", !.outcome = x], o)
                  /\ Onward([o EXCEPT !.pc = "epilogue", !.outcome = x], o)
                  /\ Onward([o EXCEPT !.pc = "done"], o)
                  /\ Onward([o EXCEPT !.pc = "remove", !.stopped = y], o)
                  /\ Onward([o EXCEPT !.pc = "create", !.removed = y], o)
                  /\ Onward([o EXCEPT !.pc = "start"], o)
                  /\ Onward([o EXCEPT !.pc = "wait"], o)
                  /\ Onward([o EXCEPT !.pc = "result"], o)
                  /\ Onward([o EXCEPT !.pc = "validate", !.new = x,
                                      !.state = y], o)
    BY <1>1 DEF Onward, Op
  <1>7. /\ Onward(AfterPull(o), o) /\ Onward(revert(o), o)
        /\ Onward(RecreateError(o), o) /\ Onward(Recreated(o), o)
    BY <1>2, RecreateIsOnward
  <1>8. CASE \/ Pull(w) \/ Stop(w) \/ Remove(w) \/ Create(w)
             \/ Validate(w) \/ Start(w) \/ WaitHealthy(w)
    <2>1. \/ Become(w, AfterPull(o)) \/ Become(w, RecreateError(o))
          \/ Become(w, [o EXCEPT !.pc = "remove", !.stopped = TRUE])
          \/ Become(w, [o EXCEPT !.pc = "create", !.removed = TRUE])
          \/ Become(w, [o EXCEPT !.pc = "validate", !.new = nextID,
                                 !.state = "created"])
          \/ Become(w, [o EXCEPT !.pc = "start"]) \/ Become(w, Recreated(o))
          \/ Become(w, [o EXCEPT !.pc = "wait"])
          \/ Become(w, [o EXCEPT !.pc = "result"])
      BY <1>8 DEF Pull, Stop, Remove, Create, Validate, Start, WaitHealthy
    <2> QED BY <1>1, <1>5, <1>6, <1>7, <2>1
  <1>9. CASE InspectResult(w)
    <2> DEFINE p == [o EXCEPT !.state = host[o.new].state]
    <2>1. CASE o.new \in DOMAIN host /\ Become(w, Recreated(p))
      <3>1. Onward(Recreated(p), o)
        BY <1>1 DEF Recreated, Onward, Op
      <3> QED BY <1>1, <1>5, <2>1, <3>1
    <2> QED BY <1>1, <1>5, <1>7, <1>9, <2>1 DEF InspectResult, Succeeds
  <1>10. CASE Commit(w) \/ RestartOriginal(w) \/ RecordReverted(w)
    <2>1. \/ Become(w, revert(o))
          \/ \E x : Become(w, [o EXCEPT !.pc = "done", !.outcome = x])
          \/ \E x : Become(w, [o EXCEPT !.pc = "epilogue", !.outcome = x])
      BY <1>10 DEF Commit, RestartOriginal, RecordReverted
    <2> QED BY <1>1, <1>5, <1>6, <1>7, <2>1
  <1>11. CASE Epilogue(w)
    BY <1>1, <1>5, <1>6, <1>11 DEF Epilogue
  <1>12. CASE Reread(w)
    <2>1. PICK pr, c :
            /\ Become(w, [o EXCEPT !.pc = "record", !.prev = pr, !.cur = c])
            /\ \/ c = o.before.config
               \/ o.id \in DOMAIN rows /\ c = rows[o.id].cur
      BY <1>12 DEF Reread, Succeeds, stableImageReference
    <2> DEFINE q == [o EXCEPT !.pc = "record", !.prev = pr, !.cur = c]
    <2>2. q.pc = "record" /\ q.before = o.before /\ q.target = o.target
          /\ q.cur = c
      BY <1>1 DEF Op
    <2>3. op'[w] = q
      BY <1>3, <2>1
    <2> HIDE DEF q
    <2> QED BY <1>1, <2>1, <2>2, <2>3
  <1> QED BY <1>1, <1>8, <1>9, <1>10, <1>11, <1>12 DEF Works

\* Before the definition a call only copies: a rollback the reference of its
\* row, under the row's name, and the snapshot that of its container.
LEMMA EntryRefers ==
    ASSUME OpsOK, RestOK, NameInv, NEW w \in Workers, RollbackKeyed(op[w]),
           \/ RequestUpdate(w) \/ RequestRollback(w) \/ LookupUpdate(w)
           \/ LookupRollback(w) \/ beginOperation(w) \/ Inspect(w) \/ Finish(w)
    PROVE  /\ RollbackKeyed(op'[w])
           /\ \A n, r : CallRefers(op'[w], n, r) => Refers(n, r)
  <1> DEFINE o == op[w]
             Good(p) == /\ RollbackKeyed(p)
                        /\ \A n, r : CallRefers(p, n, r) => Refers(n, r)
  <1>0. o \in Op /\ OpInv(o)
    BY DEF OpsOK, OpInv
  <1>1. ASSUME NEW p, Become(w, p) PROVE op'[w] = p
    BY <1>1 DEF Become, OpsOK
  <1>2. ASSUME NEW p, p.pc \in {"idle", "lookup", "done"} PROVE Good(p)
    <2>1. p.pc \notin Working /\ p.pc \notin {"begin", "inspect", "define"}
      BY <1>2, PlainLabels
    <2> QED BY <2>1 DEF RollbackKeyed, CallRefers, Past
  <1>3. Good(Idle)
    BY <1>2 DEF Idle
  <1>4. CASE RequestUpdate(w) \/ RequestRollback(w)
    <2>1. PICK i, k, r :
            Become(w, [Idle EXCEPT !.pc = "lookup", !.kind = k,
                                   !.id = i, !.target = r])
            \/ Become(w, [Idle EXCEPT !.pc = "lookup", !.kind = k, !.id = i])
      BY <1>4 DEF RequestUpdate, RequestRollback
    <2>2. /\ [Idle EXCEPT !.pc = "lookup", !.kind = k, !.id = i,
                          !.target = r].pc = "lookup"
          /\ [Idle EXCEPT !.pc = "lookup", !.kind = k, !.id = i].pc = "lookup"
      BY DEF Idle
    <2>3. op'[w].pc = "lookup"
      BY <1>1, <2>1, <2>2
    <2> QED BY <1>2, <2>3
  <1>5. CASE LookupUpdate(w)
    <2>1. PICK k : Become(w, [o EXCEPT !.pc = "begin", !.key = k])
      BY <1>5 DEF LookupUpdate
    <2>2. op'[w].pc = "begin" /\ op'[w].kind = "update"
      <3>1. op'[w] = [o EXCEPT !.pc = "begin", !.key = k]
        BY <1>1, <2>1
      <3> QED BY <1>0, <1>5, <3>1 DEF Op, LookupUpdate
    <2> QED BY <2>2, PlainLabels DEF RollbackKeyed, CallRefers, Past
  <1>6. CASE LookupRollback(w)
    <2> DEFINE p == [o EXCEPT !.pc = "begin", !.key = rows[o.id].name,
                              !.target = IdRef(rows[o.id].prev),
                              !.cur = rows[o.id].cur]
    <2>1. (o.id \in DOMAIN rows /\ op'[w] = p) \/ op'[w] = Idle
      BY <1>1, <1>6 DEF LookupRollback, Succeeds
    <2>2. p.pc = "begin" /\ p.key = rows[o.id].name /\ p.cur = rows[o.id].cur
      BY <1>0 DEF Op
    <2> HIDE DEF p
    <2>3. ASSUME o.id \in DOMAIN rows PROVE Good(p)
      <3>1. rows[o.id].name \in Names
        BY <2>3 DEF RestOK, RowsOK, Row
      <3>2. p.pc \notin Working
        BY <2>2, PlainLabels
      <3> QED BY <2>2, <2>3, <3>1, <3>2 DEF RollbackKeyed, CallRefers, Past, Refers
    <2> QED BY <1>3, <2>1, <2>3
  <1>7. CASE beginOperation(w)
    <2> DEFINE p == [o EXCEPT !.pc = "inspect"]
    <2>1. op'[w] = p \/ op'[w] = Idle
      BY <1>1, <1>7 DEF beginOperation
    <2>2. p.pc = "inspect" /\ p.key = o.key /\ p.cur = o.cur /\ p.kind = o.kind
      BY <1>0 DEF Op
    <2>3. o.pc = "begin"
      BY <1>7 DEF beginOperation
    <2> HIDE DEF p
    <2>4. Good(p)
      <3>1. p.pc \notin Working
        BY <2>2, PlainLabels
      <3> QED BY <2>2, <2>3, <3>1 DEF RollbackKeyed, CallRefers, Past, Refers
    <2> QED BY <1>3, <2>1, <2>4
  <1>8. CASE Inspect(w)
    <2> DEFINE p == [o EXCEPT !.pc = "define", !.before = host[o.id]]
               q == [o EXCEPT !.pc = "done", !.outcome = "failed"]
    <2>1. (o.id \in DOMAIN host /\ op'[w] = p) \/ op'[w] = q
      BY <1>1, <1>8 DEF Inspect, Succeeds
    <2>2. /\ p.pc = "define" /\ p.key = o.key /\ p.cur = o.cur /\ p.kind = o.kind
          /\ p.before = host[o.id] /\ q.pc = "done"
      BY <1>0 DEF Op
    <2>3. o.pc = "inspect"
      BY <1>8 DEF Inspect
    <2> HIDE DEF p, q
    <2>4. ASSUME o.id \in DOMAIN host PROVE Good(p)
      <3>1. ~Past(p)
        BY <2>2 DEF Past
      <3>2. RollbackKeyed(p)
        BY <2>2, <2>3 DEF RollbackKeyed
      <3>3. ASSUME NEW n, NEW r, CallRefers(p, n, r) PROVE Refers(n, r)
        <4>1. CASE host[o.id].name = n /\ r = host[o.id].config
          BY <2>4, <4>1 DEF Refers
        <4>2. CASE p.kind = "rollback" /\ p.key = n /\ r = p.cur
          BY <2>2, <2>3, <4>2 DEF Refers, CallRefers
        <4> QED BY <2>2, <3>1, <3>3, <4>1, <4>2 DEF CallRefers
      <3> QED BY <3>2, <3>3
    <2>5. Good(q)
      BY <1>2, <2>2
    <2> QED BY <2>1, <2>4, <2>5
  <1>9. CASE Finish(w)
    BY <1>1, <1>3, <1>9 DEF Finish
  <1> QED BY <1>4, <1>5, <1>6, <1>7, <1>8, <1>9

\* Every step of a worker but the definition keeps the events, and copies the
\* references of a name to the same name.
LEMMA WorkerRefers ==
    ASSUME UpdaterInv, NameInv, CalledOnce, TagInv, NEW w \in Workers,
           RequestUpdate(w) \/ RequestRollback(w) \/ Step(w), ~Define(w)
    PROVE  /\ UNCHANGED <<logged, unlogged>> /\ RollbackKeyed(op'[w])
           /\ \A n, r : Refers(n, r)' => Refers(n, r)
  <1> DEFINE o == op[w]
  <1>0. OpsOK /\ RestOK /\ o \in Op /\ OpInv(o)
    BY Parts DEF OpsOK, OpInv
  <1>1. UNCHANGED <<sweep, logged, unlogged>>
    BY DEF Step, RequestUpdate, RequestRollback, LookupUpdate, stored, history,
       LookupRollback, beginOperation, Inspect, Pull, Stop, Remove,
       Create, Validate, Start, WaitHealthy, InspectResult, Commit, Epilogue,
       RestartOriginal, Reread, RecordReverted, Finish
  <1>2. ASSUME NEW i \in DOMAIN host' PROVE Refers(host'[i].name, host'[i].config)
    <2>a. \A j \in DOMAIN host : host[j] \in Container
      BY <1>0 DEF RestOK, HostOK
    <2>1. CASE UNCHANGED host
      BY <2>1 DEF Refers
    <2>2. ASSUME NEW j, NEW s, host' = [host EXCEPT ![j].state = s]
          PROVE  Refers(host'[i].name, host'[i].config)
      BY <2>2, <2>a DEF Refers, Container
    <2>3. ASSUME NEW j, host' = Keep(host, DOMAIN host \ {j})
          PROVE  Refers(host'[i].name, host'[i].config)
      BY <2>3 DEF Refers, Keep
    <2>4. ASSUME NEW c, host' = Put(host, nextID, c), c.name = o.before.name,
                 c.config = o.target, o.pc = "create"
          PROVE  Refers(host'[i].name, host'[i].config)
      <3>1. CallRefers(o, c.name, c.config)
        BY <2>4, PlainLabels DEF CallRefers, Past
      <3> QED BY <2>4, <3>1 DEF Refers, Put
    <2> QED BY <1>0, <2>1, <2>2, <2>3, <2>4, WorkerChangesHost
  <1>3. ASSUME NEW i \in DOMAIN rows' PROVE Refers(rows'[i].name, rows'[i].cur)
    <2>1. CASE UNCHANGED rows
      BY <2>1 DEF Refers
    <2>2. ASSUME o.pc \in {"commit", "record"}, NEW pr, rows' = Replaced(o, pr)
          PROVE  Refers(rows'[i].name, rows'[i].cur)
      <3>1. CallRefers(o, o.before.name, o.cur)
        BY <2>2 DEF CallRefers, Past, Working, PCs
      <3>2. CASE i = o.new
        <4>1. rows'[i].name = o.before.name /\ rows'[i].cur = o.cur
          BY <2>2, <3>2 DEF Replaced, replaceContainerTx, Put
        <4> QED BY <3>1, <4>1 DEF Refers
      <3>3. CASE i # o.new
        <4>1. i \in DOMAIN rows /\ rows'[i] = rows[i]
          BY <2>2, <3>3 DEF Replaced, replaceContainerTx, Put, Keep
        <4> QED BY <4>1 DEF Refers
      <3> QED BY <3>2, <3>3
    <2>3. ASSUME NEW j, NEW b, rows' = SetUpdateAvailable(rows, j, b)
          PROVE  Refers(rows'[i].name, rows'[i].cur)
      <3>1. i \in DOMAIN rows /\ rows[i] \in Row
        BY <1>0, <2>3 DEF RestOK, RowsOK, SetUpdateAvailable
      <3>2. rows'[i].name = rows[i].name /\ rows'[i].cur = rows[i].cur
        BY <2>3, <3>1 DEF SetUpdateAvailable, Row
      <3> QED BY <3>1, <3>2 DEF Refers
    <2> QED BY <1>0, <2>1, <2>2, <2>3, WorkerTable
  <1>4. RollbackKeyed(op'[w]) /\ \A n, r : CallRefers(op'[w], n, r) => Refers(n, r)
    <2>1. CASE Works(w)
      <3>1. Past(o) /\ o.pc \in Working /\ o.pc \notin {"begin", "inspect", "define"}
        BY <1>0, <2>1, WorkIsOnward, PlainLabels DEF Past
      <3>2. op'[w].pc \notin {"begin", "inspect", "define"}
            /\ op'[w].before = o.before
        BY <1>0, <2>1, WorkIsOnward DEF Onward
      <3>3. \A n, r : CallRefers(o, n, r) => Refers(n, r)
        BY DEF Refers
      <3>4. \A r \in {o.before.config, o.cur, o.target} : Refers(o.before.name, r)
        BY <3>1, <3>3 DEF CallRefers
      <3>5. o.id \in DOMAIN rows => Refers(o.before.name, rows[o.id].cur)
        <4> SUFFICES ASSUME o.id \in DOMAIN rows
                     PROVE  rows[o.id].name = o.before.name
          BY DEF Refers
        <4>1. Called(o.id, rows[o.id].name) /\ Called(o.id, o.before.name)
          BY <3>1 DEF Called
        <4>2. o.id \in ID
          BY <1>0 DEF RestOK, RowsOK
        <4> QED BY <4>1, <4>2 DEF CalledOnce
      <3>6. Refers(o.before.name, op'[w].cur) /\ Refers(o.before.name, op'[w].target)
        BY <1>0, <2>1, <3>4, <3>5, WorkIsOnward DEF Onward
      <3> QED BY <3>2, <3>4, <3>6 DEF RollbackKeyed, CallRefers
    <2>2. CASE ~Works(w)
      BY <1>0, <2>2, EntryRefers DEF Works, Step, TagInv
    <2> QED BY <2>1, <2>2
  <1>5. \A v \in Workers : v # w => op'[v] = op[v]
    <2>1. \E p : Become(w, p)
      BY <1>0, WorkerMoves DEF Moves
    <2> QED BY <1>0, <2>1 DEF Become, OpsOK
  <1>6. ASSUME NEW n, NEW r, Refers(n, r)' PROVE Refers(n, r)
    <2>1. CASE \E i \in DOMAIN host' : host'[i].name = n /\ host'[i].config = r
      BY <1>2, <2>1
    <2>2. CASE \E i \in DOMAIN rows' : rows'[i].name = n /\ rows'[i].cur = r
      BY <1>3, <2>2
    <2>3. CASE \E i \in DOMAIN sweep'.seen :
                  sweep'.seen[i].name = n /\ sweep'.seen[i].config = r
      BY <1>1, <2>3 DEF Refers
    <2>4. CASE \E v \in Workers : CallRefers(op'[v], n, r)
      BY <1>4, <1>5, <2>4 DEF Refers
    <2> QED BY <1>6, <2>1, <2>2, <2>3, <2>4 DEF Refers, CallRefers, Past
  <1> QED BY <1>1, <1>4, <1>6

\* Nor does anything else that happens mix the references of two names.
LEMMA OthersRefer ==
    ASSUME UpdaterInv, NameInv, CalledOnce, TagInv,
           Sweep \/ Environment \/ UNCHANGED vars
    PROVE  /\ UNCHANGED <<logged, unlogged>>
           /\ \A w \in Workers : RollbackKeyed(op'[w])
           /\ \A n : logged[n] = Nil => \A r : Refers(n, r)' => Refers(n, r)
  <1>0. OpsOK /\ RestOK
    BY Parts
  <1>a. /\ \A i \in DOMAIN rows : rows[i] \in Row
        /\ \A i \in DOMAIN host : host[i] \in Container
    BY <1>0 DEF RestOK, RowsOK, HostOK
  <1>1. UNCHANGED <<logged, unlogged>>
    BY DEF Environment, ContainerCrash, ContainerRestart, Publish, Expire, Exit,
       vars, stored, history, Sweep, SweepList, SweepPrune, SweepUpsert, SweepCheck
  <1>2. ASSUME NEW i \in DOMAIN host'
        PROVE  /\ i \in DOMAIN host /\ host'[i].name = host[i].name
               /\ host'[i].config = host[i].config
    <2>1. CASE UNCHANGED host
      BY <2>1
    <2>2. ASSUME NEW j \in DOMAIN host, ContainerCrash(j) \/ ContainerRestart(j)
          PROVE  /\ i \in DOMAIN host /\ host'[i].name = host[i].name
                 /\ host'[i].config = host[i].config
      BY <1>a, <2>2 DEF ContainerCrash, ContainerRestart, Container
    <2> QED BY <2>1, <2>2 DEF Environment, Publish, Expire, Exit, docker, vars,
            Sweep, SweepList, SweepPrune, SweepUpsert, SweepCheck
  <1>3. ASSUME NEW i \in DOMAIN rows', logged[rows'[i].name] = Nil
        PROVE  Refers(rows'[i].name, rows'[i].cur)
    <2>1. CASE UNCHANGED rows
      BY <2>1 DEF Refers
    <2>2. CASE SweepPrune
      BY <2>2 DEF SweepPrune, PruneContainers, Keep, Refers
    <2>3. ASSUME NEW j \in DOMAIN sweep.seen, SweepUpsert(j)
          PROVE  Refers(rows'[i].name, rows'[i].cur)
      <3> DEFINE c == sweep.seen[j]
      <3>1. rows' = UpsertSeen(rows, j, c.name, c.config)
        BY <2>3 DEF SweepUpsert
      <3>2. j \in DOMAIN rows => rows[j].name = c.name
        <4>1. j \in ID
          BY <1>0 DEF RestOK, SweepOK
        <4>2. j \in DOMAIN rows => Called(j, rows[j].name) /\ Called(j, c.name)
          BY DEF Called
        <4> QED BY <4>1, <4>2 DEF CalledOnce
      <3>3. CASE i # j
        <4>1. i \in DOMAIN rows /\ rows'[i] = rows[i]
          BY <3>1, <3>3 DEF UpsertSeen, Put
        <4> QED BY <4>1 DEF Refers
      <3>4. CASE i = j
        <4>1. rows'[i].name = c.name /\ (rows'[i].cur = c.config
                 \/ (j \in DOMAIN rows /\ rows'[i].cur = rows[j].cur))
          BY <1>a, <3>1, <3>4 DEF UpsertSeen, Put, Row, stableImageReference
        <4> QED BY <3>2, <4>1 DEF Refers
      <3> QED BY <3>3, <3>4
    <2>4. ASSUME NEW j \in DOMAIN sweep.seen, SweepCheck(j)
          PROVE  Refers(rows'[i].name, rows'[i].cur)
      <3> DEFINE c == sweep.seen[j]
      <3>1. PICK rep, r, a :
              /\ \/ rep = rows
                 \/ rep = RepairCurrentImage(rows, j, r) /\ logged[c.name] # Nil
              /\ rows' = rep \/ rows' = SetUpdateAvailable(rep, j, a)
        BY <2>4 DEF SweepCheck
      <3>2. DOMAIN rep = DOMAIN rows /\ \A k \in DOMAIN rows :
               /\ rep[k].name = rows[k].name
               /\ k # j => rep[k].cur = rows[k].cur
               /\ DOMAIN rep[k] = {"name", "cur", "prev", "avail"}
        BY <1>a, <3>1 DEF RepairCurrentImage, Row
      <3>3. i \in DOMAIN rows /\ rows'[i].name = rows[i].name
            /\ rows'[i].cur = rep[i].cur
        BY <3>1, <3>2 DEF SetUpdateAvailable
      <3>4. CASE rep = rows \/ i # j
        BY <3>2, <3>3, <3>4 DEF Refers
      <3>5. CASE rep # rows /\ i = j
        <4>1. Called(j, rows[j].name) /\ Called(j, c.name) /\ j \in ID
          BY <1>0, <3>3, <3>5 DEF RestOK, SweepOK, Called
        <4>2. rows[j].name = c.name
          BY <4>1 DEF CalledOnce
        <4> QED BY <1>3, <3>1, <3>3, <3>5, <4>2
      <3> QED BY <3>4, <3>5
    <2> QED BY <2>1, <2>2, <2>3, <2>4 DEF Environment, ContainerCrash,
            ContainerRestart, Publish, Expire, Exit, stored, vars, Sweep, SweepList
  <1>4. ASSUME NEW i \in DOMAIN sweep'.seen
        PROVE  Refers(sweep'.seen[i].name, sweep'.seen[i].config)
    <2>1. \/ sweep'.seen = sweep.seen \/ sweep'.seen = host \/ sweep'.seen = <<>>
      BY <1>0, SeenIsListed
    <2> QED BY <2>1 DEF Refers
  <1>5. ASSUME NEW v \in Workers
        PROVE  /\ RollbackKeyed(op'[v])
               /\ \A n, r : CallRefers(op'[v], n, r) => CallRefers(op[v], n, r)
    <2>1. CASE UNCHANGED op
      BY <2>1 DEF TagInv
    <2>2. CASE \E w \in Workers : Expire(w)
      <3>1. PICK w \in Workers : op' = [op EXCEPT ![w].expired = TRUE]
        BY <2>2 DEF Expire
      <3>2. /\ op'[v].pc = op[v].pc /\ op'[v].kind = op[v].kind
            /\ op'[v].key = op[v].key /\ op'[v].before = op[v].before
            /\ op'[v].cur = op[v].cur /\ op'[v].target = op[v].target
        BY <1>0, <3>1 DEF OpsOK, Op
      <3> QED BY <3>2 DEF TagInv, RollbackKeyed, CallRefers, Past
    <2>3. CASE Exit
      <3>1. op'[v].pc = "idle"
        BY <2>3 DEF Exit, Idle
      <3> QED BY <3>1, PlainLabels DEF RollbackKeyed, CallRefers, Past
    <2>4. UNCHANGED op \/ Exit \/ \E w \in Workers : Expire(w)
      BY DEF Environment, ContainerCrash, ContainerRestart, Publish, vars, Sweep,
         SweepList, SweepPrune, SweepUpsert, SweepCheck
    <2> QED BY <2>1, <2>2, <2>3, <2>4
  <1>6. ASSUME NEW n, logged[n] = Nil, NEW r, Refers(n, r)' PROVE Refers(n, r)
    <2>1. CASE \E i \in DOMAIN host' : host'[i].name = n /\ host'[i].config = r
      BY <1>2, <2>1 DEF Refers
    <2>2. CASE \E i \in DOMAIN rows' : rows'[i].name = n /\ rows'[i].cur = r
      BY <1>3, <1>6, <2>2
    <2>3. CASE \E i \in DOMAIN sweep'.seen :
                  sweep'.seen[i].name = n /\ sweep'.seen[i].config = r
      BY <1>4, <2>3
    <2>4. CASE \E v \in Workers : CallRefers(op'[v], n, r)
      BY <1>5, <2>4 DEF Refers
    <2> QED BY <1>6, <2>1, <2>2, <2>3, <2>4 DEF Refers, CallRefers, Past
  <1> QED BY <1>1, <1>5, <1>6

\* The definition leaves a tag it works with in the events unless the event is
\* lost, so a name that lost none and has no tag in them goes on with digests
\* only.
LEMMA DefineRefers ==
    ASSUME UpdaterInv, NameInv, CalledOnce, TagInv, NEW w \in Workers, Define(w)
    PROVE  /\ RollbackKeyed(op'[w]) /\ UNCHANGED <<host, rows, sweep>>
           /\ \A n \in Names : logged'[n] = Nil /\ n \notin unlogged' =>
                 /\ logged[n] = Nil /\ n \notin unlogged
                 /\ \/ \A r : Refers(n, r)' => Refers(n, r)
                    \/ \A r : Refers(n, r)' => IsDigestReference(r)
  <1> DEFINE o == op[w]
             m == o.before.name
             from == IF o.kind = "rollback" THEN o.cur ELSE o.before.config
             q == [o EXCEPT !.pc = "done", !.outcome = "failed"]
  <1>0. OpsOK /\ RestOK /\ o \in Op /\ OpInv(o)
    BY Parts DEF OpsOK, OpInv
  <1>1. o.pc = "define" /\ o.pc \in Working /\ UNCHANGED <<host, rows, sweep>>
    BY PlainLabels DEF Define, docker
  <1>2. /\ o.id \in ID /\ o.target \in Ref /\ o.before \in Container
        /\ o.kind = "rollback" => o.cur \in Ref
    BY <1>0, <1>1 DEF OpInv, OpShape, Working, PCs
  <1>3. from \in Ref /\ m \in Names /\ o.before.config \in Ref
    BY <1>2 DEF Container
  <1>4. Refers(m, from) /\ Refers(m, o.before.config)
    <2>1. CallRefers(o, m, o.before.config)
      BY <1>1 DEF CallRefers
    <2>2. o.kind = "rollback" => o.key = m
      BY <1>1 DEF TagInv, RollbackKeyed, NameInv, CallsAreNamed, CallNamed
    <2>3. CallRefers(o, m, from)
      BY <1>1, <2>1, <2>2 DEF CallRefers
    <2> QED BY <2>1, <2>3 DEF Refers
  <1>5. PICK cur : /\ Become(w, StartRecreate(o, cur))
                   /\ \/ o.kind = "rollback" /\ cur = o.cur
                      \/ /\ o.kind = "update"
                         /\ \/ cur = o.target
                            \/ /\ o.id \in DOMAIN rows
                               /\ cur = stableImageReference(o.target,
                                                             rows[o.id].cur)
    BY DEF Define, Succeeds
  <1> DEFINE p == [o EXCEPT !.cur = cur, !.old = o.id]
  <1>6. /\ op'[w] = q \/ op'[w] = BeginRecreate(p)
        /\ \A v \in Workers : v # w => op'[v] = op[v]
    BY <1>0, <1>5 DEF StartRecreate, Become, OpsOK
  <1>7. /\ q.pc = "done" /\ p \in [DOMAIN o -> UNION {{p[x]} : x \in DOMAIN o}]
        /\ p.before = o.before /\ p.target = o.target /\ p.cur = cur
        /\ DOMAIN p = DOMAIN o
    BY <1>0 DEF Op
  <1>8. \/ op'[w].pc = "done"
        \/ /\ op'[w].pc \in {"pull", "stop", "remove", "create"}
           /\ op'[w].before = o.before /\ op'[w].target = o.target
           /\ op'[w].cur = cur
    <2>1. /\ BeginRecreate(p).pc \in {"pull", "stop", "remove", "create"}
          /\ BeginRecreate(p).before = p.before
          /\ BeginRecreate(p).target = p.target /\ BeginRecreate(p).cur = p.cur
      BY <1>0 DEF BeginRecreate, AfterPull, Op
    <2> QED BY <1>6, <1>7, <2>1
  <1>9. RollbackKeyed(op'[w])
    BY <1>8 DEF RollbackKeyed
  <1> HIDE DEF p, q
  <1>10. \/ /\ unlogged' = unlogged
            /\ logged' = [logged EXCEPT ![m] =
                   IF ~IsDigestReference(from) THEN from
                   ELSE IF ~IsDigestReference(o.target) THEN o.target ELSE @]
         \/ unlogged' = unlogged \cup {m} /\ logged' = logged
    BY DEF Define, LogReferences
  <1>11. ASSUME NEW n \in Names, n # m, NEW r, Refers(n, r)'
         PROVE  Refers(n, r)
    <2>1. ~CallRefers(op'[w], n, r)
      BY <1>8, <1>11, PlainLabels DEF CallRefers, Past
    <2> QED BY <1>1, <1>6, <1>11, <2>1 DEF Refers, CallRefers, Past
  <1>12. ASSUME logged'[m] = Nil, m \notin unlogged'
         PROVE  /\ logged[m] = Nil /\ m \notin unlogged
                /\ IsDigestReference(from)
                /\ IsDigestReference(o.target)
    <2>1. m \in DOMAIN logged
      BY <1>0, <1>3 DEF RestOK
    <2> QED BY <1>2, <1>3, <1>10, <1>12, <2>1, NilAssumption
  <1>13. ASSUME NEW n, n = m, logged'[n] = Nil, n \notin unlogged',
                NEW r, Refers(n, r)'
         PROVE  IsDigestReference(r)
    <2>1. \A s : Refers(m, s) => IsDigestReference(s)
      BY <1>3, <1>4, <1>12, <1>13 DEF TagInv
    <2>2. CASE CallRefers(op'[w], n, r)
      <3>1. r \in {o.before.config, o.target, cur}
        BY <1>8, <1>13, <2>2, PlainLabels DEF CallRefers, Past
      <3>2. o.kind = "rollback" => cur = o.cur /\ from = o.cur
        BY <1>5
      <3>3. o.id \in DOMAIN rows => Refers(m, rows[o.id].cur)
        <4>1. Called(o.id, m)
          BY <1>1 DEF Called
        <4>2. o.id \in DOMAIN rows => Called(o.id, rows[o.id].name)
          BY DEF Called
        <4>3. o.id \in DOMAIN rows => rows[o.id].name = m
          BY <1>2, <4>1, <4>2 DEF CalledOnce
        <4> QED BY <4>3 DEF Refers
      <3>4. IsDigestReference(cur)
        BY <1>5, <1>12, <1>13, <2>1, <3>2, <3>3 DEF stableImageReference
      <3> QED BY <1>4, <1>12, <1>13, <2>1, <3>1, <3>4
    <2>3. CASE ~CallRefers(op'[w], n, r)
      <3>1. Refers(n, r)
        BY <1>1, <1>6, <1>13, <2>3 DEF Refers, CallRefers, Past
      <3> QED BY <1>13, <2>1, <3>1
    <2> QED BY <2>2, <2>3
  <1>14. ASSUME NEW n \in Names, n # m
         PROVE  logged'[n] = logged[n] /\ (n \in unlogged <=> n \in unlogged')
    BY <1>0, <1>10, <1>14 DEF RestOK
  <1>15. ASSUME NEW n \in Names, logged'[n] = Nil, n \notin unlogged'
         PROVE  /\ logged[n] = Nil /\ n \notin unlogged
                /\ \/ \A r : Refers(n, r)' => Refers(n, r)
                   \/ \A r : Refers(n, r)' => IsDigestReference(r)
    <2>1. CASE n = m
      BY <1>12, <1>13, <1>15, <2>1
    <2>2. CASE n # m
      BY <1>11, <1>14, <1>15, <2>2
    <2> QED BY <2>1, <2>2
  <1> QED BY <1>1, <1>9, <1>15

\* What a step does to the references of a name without a tag in its events.
LEMMA StepRefers ==
    ASSUME UpdaterInv, NameInv, CalledOnce, TagInv, [Next]_vars
    PROVE  /\ TagInv'
           /\ \A n \in Names : \A j \in DOMAIN rows' :
                 logged[n] = Nil /\ n \notin unlogged /\ rows'[j].name = n
                     => Refers(n, rows'[j].cur)
  <1>0. OpsOK /\ RestOK
    BY Parts
  <1> DEFINE Goal == /\ TagInv'
                     /\ \A n \in Names : \A j \in DOMAIN rows' :
                          /\ logged[n] = Nil /\ n \notin unlogged
                          /\ rows'[j].name = n
                          => Refers(n, rows'[j].cur)
  <1>a. \A n, r : \A j \in DOMAIN rows' :
           rows'[j].name = n /\ rows'[j].cur = r => Refers(n, r)'
    BY DEF Refers
  <1>1. ASSUME \A w \in Workers : RollbackKeyed(op'[w]),
               UNCHANGED <<logged, unlogged>>,
               \A n \in Names : logged[n] = Nil =>
                  \A r : Refers(n, r)' => Refers(n, r)
        PROVE  Goal
    BY <1>1, <1>a DEF TagInv, RollbackKeyed
  <1>2. CASE Sweep \/ Environment \/ UNCHANGED vars
    BY <1>1, <1>2, OthersRefer
  <1>3. ASSUME NEW w \in Workers,
               RequestUpdate(w) \/ RequestRollback(w) \/ Step(w)
        PROVE  Goal
    <2>1. \A v \in Workers : v # w => RollbackKeyed(op'[v])
      <3>1. \E p : Become(w, p)
        BY <1>0, <1>3, WorkerMoves DEF Moves
      <3> QED BY <1>0, <3>1 DEF Become, OpsOK, TagInv
    <2>2. CASE ~Define(w)
      BY <1>1, <1>3, <2>1, <2>2, WorkerRefers
    <2>3. CASE Define(w)
      <3>1. \A v \in Workers : RollbackKeyed(op'[v])
        BY <2>1, <2>3, DefineRefers
      <3> QED BY <2>3, <3>1, DefineRefers DEF TagInv, RollbackKeyed, Refers
    <2> QED BY <2>2, <2>3
  <1> QED BY <1>2, <1>3 DEF Next

\* A row trades its tag for a digest only when a tag is left in the events of
\* its name for RecoverImageReference, or a started event of that name could not
\* be written (logger.Emit drops the error): through every sweep, failed lookup,
\* revert, rollback, restart and death of the daemon, and whatever keys the
\* calls hold.
THEOREM TagsAreRecoverable ==
    Spec => TagIsRecoverable
  <1>1. Init => CalledOnce /\ TagInv
    <2> SUFFICES ASSUME Init PROVE CalledOnce /\ TagInv
      OBVIOUS
    <2>1. /\ \A i \in DOMAIN rows : /\ i \in DOMAIN host
                                    /\ rows[i].name = host[i].name
                                    /\ rows[i].cur = host[i].config
          /\ sweep.seen = <<>> /\ \A w \in Workers : op[w].pc = "idle"
      BY DEF Init, Idle, NoSweep
    <2>2. UniqueNames
      BY OwnInit DEF OwnInv
    <2>3. CalledOnce
      BY <2>1, PlainLabels DEF CalledOnce, Called
    <2>4. \A w \in Workers : \A n, r : RollbackKeyed(op[w]) /\ ~CallRefers(op[w], n, r)
      BY <2>1, PlainLabels DEF RollbackKeyed, CallRefers, Past
    <2>5. \A n, r, s : Refers(n, r) /\ Refers(n, s) => r = s
      <3>1. \A n, r : Refers(n, r) =>
               \E i \in DOMAIN host : host[i].name = n /\ host[i].config = r
        BY <2>1, <2>4 DEF Refers
      <3> QED BY <2>2, <3>1 DEF UniqueNames
    <2> QED BY <2>3, <2>4, <2>5 DEF TagInv
  <1>2. UpdaterInv /\ NameInv /\ CalledOnce /\ [Next]_vars => CalledOnce'
    <2> SUFFICES ASSUME UpdaterInv, NameInv, CalledOnce, [Next]_vars
                 PROVE  CalledOnce'
      OBVIOUS
    <2>1. CASE Sweep \/ Environment \/ UNCHANGED vars
      BY <2>1, OthersCall, CalledStep
    <2>2. ASSUME NEW w \in Workers,
                 RequestUpdate(w) \/ RequestRollback(w) \/ Step(w)
          PROVE  CalledOnce'
      BY <2>2, WorkerCalls, CalledStep
    <2> QED BY <2>1, <2>2 DEF Next
  <1>3. UpdaterInv /\ NameInv /\ CalledOnce /\ TagInv /\ [Next]_vars => TagInv'
    BY StepRefers
  <1>4. UpdaterInv /\ NameInv /\ CalledOnce /\ TagInv /\ [Next]_vars =>
          [\A i \in DOMAIN rows, j \in DOMAIN rows' :
             LET n == rows[i].name IN
             n = rows'[j].name /\ IsDigestReference(rows'[j].cur)
               => \/ IsDigestReference(rows[i].cur)
                  \/ logged[n] # Nil \/ n \in unlogged]_vars
    <2> SUFFICES ASSUME UpdaterInv, NameInv, CalledOnce, TagInv, [Next]_vars,
                        NEW i \in DOMAIN rows, NEW j \in DOMAIN rows',
                        rows[i].name = rows'[j].name,
                        IsDigestReference(rows'[j].cur),
                        logged[rows[i].name] = Nil,
                        rows[i].name \notin unlogged
                 PROVE  IsDigestReference(rows[i].cur)
      OBVIOUS
    <2> DEFINE n == rows[i].name
    <2>1. n \in Names
      BY DEF UpdaterInv, TypeOK, RowsOK, Row
    <2>2. Refers(n, rows[i].cur)
      BY DEF Refers
    <2>3. Refers(n, rows'[j].cur)
      BY <2>1, StepRefers
    <2> QED BY <2>1, <2>2, <2>3 DEF TagInv
  <1> QED BY <1>1, <1>2, <1>3, <1>4, NamesAgree, PTL DEF Spec, TagIsRecoverable
-----------------------------------------------------------------------------
(* A container an update left running and recorded is watched.              *)

\* The container i runs, or a call that may have stopped it took its snapshot
\* while it ran and would start it again.
Started(i) ==
    \/ host[i].state = "running"
    \/ \E w \in Workers : /\ op[w].pc \in Working /\ op[w].id = i
                          /\ WasRunning(op[w])

\* CommittedUpdateIsWatched for one container, unless Docker has restarted it:
\* a container that is restarting when the result is inspected is recorded as
\* not running, and comes up unwatched.
Watched(i) ==
    /\ host[i].by = "update" /\ rows[i].prev # Nil
    /\ host[i].restarts = 0 /\ Started(i)
    => watch[host[i].name].id = i

\* Only a container that ran is started again.
StopsRunning(o) ==
    /\ o.pc = "stop" /\ o.phase = "do" => WasRunning(o)
    /\ o.pc = "remove" /\ o.phase = "do" /\ o.stopped => WasRunning(o)
    /\ o.pc = "restart" => WasRunning(o)

\* The replacement the call o created, on the host h and in the table r: it is
\* not started before its validation, a sweep may have recorded it but nothing
\* as its previous image, and the state to commit is that of the host.
Offspring(o, h, r) ==
    /\ o.pc = "validate" => h[o.new].state = "created"
    /\ o.pc \in {"validate", "start", "wait", "result", "commit"} /\ o.phase = "do"
          => /\ h[o.new].by = o.kind
             /\ o.new \in DOMAIN r => r[o.new].prev = Nil
    /\ o.pc \in {"validate", "start", "wait", "result", "reread", "record"}
       /\ o.phase = "revert"
          => h[o.new].by = "revert"
    /\ o.pc = "commit" /\ h[o.new].restarts = 0 /\ h[o.new].state = "running"
          => o.state = "running"

WatchInv ==
    /\ \A i \in DOMAIN host : host[i].state = "restarting" => host[i].restarts # 0
    /\ \A i \in DOMAIN rows \cap DOMAIN host : Watched(i)
    /\ \A w \in Workers : /\ StopsRunning(op[w])
                          /\ Offspring(op[w], host, rows)

\* What a worker does to the containers: it changes the state of its own, and
\* creates them in the state "created".
LEMMA WorkerStarts ==
    ASSUME OpsOK, RestOK, NEW w \in Workers,
           RequestUpdate(w) \/ RequestRollback(w) \/ Step(w),
           NEW i \in DOMAIN host'
    PROVE  \/ /\ i \in DOMAIN host
              /\ host'[i].name = host[i].name /\ host'[i].by = host[i].by
              /\ host'[i].restarts = host[i].restarts
              /\ \/ host'[i].state = host[i].state
                 \/ host'[i].state = "exited"
                 \/ Start(w) /\ i = op[w].new /\ host'[i].state = "running"
                 \/ /\ RestartOriginal(w) /\ i = op[w].id
                    /\ host'[i].state = "running"
           \/ /\ Create(w) /\ i = nextID /\ host'[i].state = "created"
              /\ host'[i].by = IF op[w].phase = "revert" THEN "revert"
                               ELSE op[w].kind
  <1>a. \A j \in DOMAIN host : host[j] \in Container
    BY DEF RestOK, HostOK
  <1>1. CASE UNCHANGED host
    BY <1>1
  <1>2. CASE Stop(w) /\ ~UNCHANGED host
    <2>1. host' = [host EXCEPT ![op[w].old].state =
                     IF @ = "created" THEN @ ELSE "exited"]
      BY <1>2 DEF Stop, Stopped
    <2> QED BY <1>a, <2>1 DEF Container
  <1>3. CASE Start(w) /\ ~UNCHANGED host
    <2>1. host' = [host EXCEPT ![op[w].new].state = "running"]
      BY <1>3 DEF Start
    <2> QED BY <1>a, <1>3, <2>1 DEF Container
  <1>4. CASE RestartOriginal(w) /\ ~UNCHANGED host
    <2>1. host' = [host EXCEPT ![op[w].id].state = "running"]
      BY <1>4 DEF RestartOriginal
    <2> QED BY <1>a, <1>4, <2>1 DEF Container
  <1>5. CASE Remove(w)
    BY <1>5 DEF Remove, Keep
  <1>6. CASE Create(w) /\ ~UNCHANGED host
    <2>1. host' = Put(host, nextID,
             [name |-> op[w].before.name, config |-> op[w].target,
              image |-> Resolve(op[w].target), state |-> "created",
              restarts |-> 0,
              by |-> IF op[w].phase = "revert" THEN "revert" ELSE op[w].kind])
      BY <1>6 DEF Create
    <2> QED BY <1>6, <2>1 DEF Put
  <1>7. CASE ~(Stop(w) \/ Start(w) \/ RestartOriginal(w) \/ Remove(w) \/ Create(w))
    <2>1. UNCHANGED host
      BY <1>7 DEF Step, docker, RequestUpdate, RequestRollback, LookupUpdate,
         LookupRollback, beginOperation, Inspect, Define, Pull, Validate,
         WaitHealthy, InspectResult, Commit, Epilogue, Reread, RecordReverted,
         Finish
    <2> QED BY <1>1, <2>1
  <1> QED BY <1>1, <1>2, <1>3, <1>4, <1>5, <1>6, <1>7

\* recreate() stops a container that ran, and its error returns and the revert
\* have no replacement.
LEMMA RecreateStops ==
    ASSUME NEW o, Ready(o), NEW h, NEW r
    PROVE  /\ Offspring(AfterPull(o), h, r) /\ Offspring(BeginRecreate(o), h, r)
           /\ Offspring(RecreateError(o), h, r) /\ Offspring(revert(o), h, r)
           /\ o.phase = "revert" \/ ~o.stopped
                 => StopsRunning(AfterPull(o)) /\ StopsRunning(BeginRecreate(o))
           /\ StopsRunning(revert(o))
           /\ o.phase = "revert" \/ o.removed \/ ~o.stopped \/ WasRunning(o)
                 => StopsRunning(RecreateError(o))
  <1>0. o \in Op
    BY DEF Ready
  <1> DEFINE Without(p) == p.pc \in {"pull", "stop", "remove", "create",
                                     "restart", "done"}
  <1>1. ASSUME NEW p, Without(p) PROVE Offspring(p, h, r)
    BY <1>1 DEF Offspring
  <1>2. ASSUME NEW p \in Op
        PROVE  /\ Without(AfterPull(p)) /\ Without(BeginRecreate(p))
               /\ p.phase = "revert" \/ ~p.stopped
                     => StopsRunning(AfterPull(p)) /\ StopsRunning(BeginRecreate(p))
    BY DEF AfterPull, BeginRecreate, Op, StopsRunning, WasRunning
  <1>3. Without(revert(o)) /\ StopsRunning(revert(o))
    <2> DEFINE p == [o EXCEPT !.phase = "revert", !.old = o.new, !.new = 0,
                              !.stopped = FALSE, !.removed = FALSE,
                              !.target = o.before.config]
    <2>1. p \in Op /\ p.phase = "revert"
      BY <1>0 DEF Ready, Op, Container
    <2>2. revert(o) = BeginRecreate(p)
      BY DEF revert
    <2> HIDE DEF p
    <2> QED BY <1>2, <2>1, <2>2
  <1>4. \A x : /\ Without([o EXCEPT !.pc = "done", !.outcome = x])
               /\ StopsRunning([o EXCEPT !.pc = "done", !.outcome = x])
    BY <1>0 DEF Op, StopsRunning
  <1>5. /\ Without([o EXCEPT !.pc = "restart"])
        /\ WasRunning(o) => StopsRunning([o EXCEPT !.pc = "restart"])
    BY <1>0 DEF Op, StopsRunning, WasRunning
  <1> HIDE DEF Without
  <1>6. Without(RecreateError(o))
    BY <1>3, <1>4, <1>5 DEF RecreateError
  <1>7. o.phase = "revert" \/ o.removed \/ ~o.stopped \/ WasRunning(o)
          => StopsRunning(RecreateError(o))
    BY <1>3, <1>4, <1>5 DEF RecreateError
  <1> QED BY <1>0, <1>1, <1>2, <1>3, <1>6, <1>7

\* A call keeps this about its own replacement from its creation to its record.
LEMMA WorkerOffspring ==
    ASSUME UpdaterInv, NameInv, OwnInv, WatchInv,
           NEW w \in Workers, RequestUpdate(w) \/ RequestRollback(w) \/ Step(w)
    PROVE  StopsRunning(op'[w]) /\ Offspring(op'[w], host', rows')
  <1> DEFINE o == op[w]
             Good(p) == StopsRunning(p) /\ Offspring(p, host', rows')
  <1>0. /\ OpsOK /\ RestOK /\ o \in Op /\ OpInv(o) /\ Control(o) /\ Owns(o, host)
        /\ StopsRunning(o) /\ Offspring(o, host, rows)
    BY Parts DEF OpsOK, OpInv, OwnInv, WatchInv
  <1>1. ASSUME NEW p, Become(w, p), Good(p)
        PROVE  Good(op'[w])
    <2>1. op'[w] = p
      BY <1>0, <1>1 DEF Become, OpsOK
    <2> QED BY <1>1, <2>1
  <1>2. ASSUME NEW p, p.pc \in {"idle", "lookup", "begin", "inspect", "define",
                                "create", "epilogue", "done"}
        PROVE  Good(p)
    BY <1>2 DEF StopsRunning, Offspring
  <1>3. o.pc \in Working \ {"define"} => Ready(o)
    BY <1>0, WorkingIsReady
  <1>4. CASE ~Works(w) /\ ~Inspect(w)
    <2>1. op'[w].pc \in {"idle", "lookup", "begin", "inspect"}
      BY <1>0, <1>4, EntryStays DEF Step, Works
    <2> QED BY <1>2, <2>1
  <1>5. CASE Inspect(w)
    <2> DEFINE p == [o EXCEPT !.pc = "define", !.before = host[o.id]]
               q == [o EXCEPT !.pc = "done", !.outcome = "failed"]
    <2>1. Become(w, p) \/ Become(w, q)
      BY <1>5 DEF Inspect
    <2>2. p.pc = "define" /\ q.pc = "done"
      BY <1>0 DEF Op
    <2> HIDE DEF p, q
    <2> QED BY <1>1, <1>2, <2>1, <2>2
  <1>6. CASE Define(w)
    <2>1. o.pc = "define" /\ o.before \in Container /\ Fresh(o)
          /\ o.id \in ID /\ o.key \in Keys /\ o.target \in Ref
          /\ (o.kind = "rollback" => o.cur \in Ref)
      BY <1>0, <1>6, PlainLabels DEF Define, OpInv, OpShape, Control
    <2>2. PICK cur \in Ref : Become(w, StartRecreate(o, cur))
      BY <1>6, <1>0, <2>1 DEF Define, Succeeds, RestOK, RowsOK, Row,
         stableImageReference
    <2> DEFINE p == [o EXCEPT !.cur = cur, !.old = o.id]
               q == [o EXCEPT !.pc = "done", !.outcome = "failed"]
    <2>3. /\ p \in Op /\ Ready(p) /\ p.phase = o.phase /\ p.stopped = o.stopped
          /\ q.pc = "done"
      BY <1>0, <2>1 DEF Ready, Op, ID
    <2>4. Become(w, q) \/ Become(w, BeginRecreate(p))
      BY <2>2 DEF StartRecreate
    <2> HIDE DEF p, q
    <2>5. Good(BeginRecreate(p)) /\ Good(q)
      BY <1>2, <2>1, <2>3, RecreateStops DEF Fresh
    <2> QED BY <1>1, <2>4, <2>5
  <1>7. CASE \/ Pull(w) \/ Stop(w) \/ Remove(w)
    <2>1. Ready(o) /\ o.pc \in {"pull", "stop", "remove"}
      BY <1>3, <1>7, PlainLabels DEF Pull, Stop, Remove
    <2>2. Good(RecreateError(o))
      <3>1. o.phase \in {"do", "revert"} /\ o.stopped \in BOOLEAN
        BY <1>0 DEF Op
      <3>2. o.phase = "revert" \/ ~o.stopped \/ WasRunning(o)
        BY <1>0, <2>1, <3>1 DEF Control, StopsRunning
      <3> QED BY <2>1, <3>2, RecreateStops
    <2>3. CASE Pull(w) /\ Become(w, AfterPull(o))
      <3>1. o.pc = "pull"
        BY <2>3 DEF Pull
      <3>2. o.phase = "revert" \/ ~o.stopped
        BY <1>0, <3>1 DEF Control, Op
      <3>3. Good(AfterPull(o))
        BY <2>1, <3>2, RecreateStops
      <3> QED BY <1>1, <2>3, <3>3
    <2>4. CASE Stop(w) /\ Become(w, [o EXCEPT !.pc = "remove", !.stopped = TRUE])
      <3> DEFINE p == [o EXCEPT !.pc = "remove", !.stopped = TRUE]
      <3>1. p.pc = "remove" /\ p.phase = o.phase /\ p.before = o.before
        BY <1>0 DEF Op
      <3>2. o.pc = "stop"
        BY <2>4 DEF Stop
      <3> HIDE DEF p
      <3>3. Good(p)
        BY <1>0, <3>1, <3>2 DEF StopsRunning, Offspring, WasRunning
      <3> QED BY <1>1, <2>4, <3>3 DEF p
    <2>5. CASE Remove(w) /\ Become(w, [o EXCEPT !.pc = "create", !.removed = TRUE])
      <3> DEFINE p == [o EXCEPT !.pc = "create", !.removed = TRUE]
      <3>1. p.pc = "create"
        BY <1>0 DEF Op
      <3> HIDE DEF p
      <3>2. Good(p)
        BY <1>2, <3>1
      <3> QED BY <1>1, <2>5, <3>2 DEF p
    <2> QED BY <1>1, <1>7, <2>2, <2>3, <2>4, <2>5 DEF Pull, Stop, Remove
  <1>8. ASSUME Ready(o), o.removed \/ o.phase = "revert" PROVE Good(RecreateError(o))
    BY <1>8, RecreateStops
  <1>9. CASE Create(w)
    <2>1. Ready(o) /\ (o.removed \/ o.phase = "revert")
      BY <1>0, <1>3, <1>9, PlainLabels DEF Create, Control
    <2> DEFINE p == [o EXCEPT !.pc = "validate", !.new = nextID,
                              !.state = "created"]
    <2>2. CASE Become(w, p) /\ ~Become(w, RecreateError(o))
      <3>1. /\ p.pc = "validate" /\ p.phase = o.phase /\ p.new = nextID
            /\ p.kind = o.kind
        BY <1>0 DEF Op
      <3>2. /\ host'[nextID].state = "created" /\ UNCHANGED rows
            /\ host'[nextID].by = IF o.phase = "revert" THEN "revert" ELSE o.kind
        BY <1>9, <2>2 DEF Create, Put, stored
      <3>3. nextID \notin DOMAIN rows
        BY <1>0 DEF RestOK, RowsOK, ID, NameInv, OlderIDs
      <3> HIDE DEF p
      <3>4. Good(p)
        BY <3>1, <3>2, <3>3 DEF StopsRunning, Offspring
      <3> QED BY <1>1, <2>2, <3>4
    <2> QED BY <1>1, <1>8, <1>9, <2>1, <2>2 DEF Create
  <1>10. CASE Validate(w) \/ Start(w) \/ WaitHealthy(w) \/ InspectResult(w)
    <2>1. /\ Ready(o) /\ (o.removed \/ o.phase = "revert") /\ UNCHANGED rows
          /\ o.pc \in {"validate", "start", "wait", "result"}
          /\ o.new \in DOMAIN host
      BY <1>0, <1>3, <1>10, PlainLabels DEF Validate, Start, WaitHealthy,
         InspectResult, Control, stored, Owns, Remade
    <2>2. Good(RecreateError(o))
      BY <1>8, <2>1
    <2>3. o.new \in DOMAIN host' /\ host'[o.new].by = host[o.new].by
      <3>1. host[o.new] \in Container
        BY <1>0, <2>1 DEF RestOK, HostOK
      <3>2. UNCHANGED host \/ host' = [host EXCEPT ![o.new].state = "running"]
        BY <1>10 DEF Validate, Start, WaitHealthy, InspectResult, docker
      <3> QED BY <2>1, <3>1, <3>2 DEF Container
    <2>4. ASSUME NEW p, p.pc \in {"start", "wait", "result", "commit", "reread"},
                 p.phase = o.phase, p.new = o.new, p.kind = o.kind,
                 p.pc = "commit" => (host'[o.new].state = "running"
                                       => p.state = "running")
          PROVE  Good(p)
      BY <1>0, <2>1, <2>3, <2>4 DEF StopsRunning, Offspring
    <2>5. CASE ~Become(w, RecreateError(o)) /\ (Start(w) \/ WaitHealthy(w))
      <3>1. PICK pc \in {"wait", "result"} : Become(w, [o EXCEPT !.pc = pc])
        BY <2>5 DEF Start, WaitHealthy
      <3> DEFINE p == [o EXCEPT !.pc = pc]
      <3>2. p.pc = pc /\ p.phase = o.phase /\ p.new = o.new /\ p.kind = o.kind
        BY <1>0 DEF Op
      <3> HIDE DEF p
      <3>3. Good(p)
        BY <2>4, <3>1, <3>2
      <3> QED BY <1>1, <3>1, <3>3 DEF p
    <2>6. ASSUME NEW s, Become(w, Recreated([o EXCEPT !.state = s])),
                 host'[o.new].state = "running" => s = "running"
          PROVE  Good(op'[w])
      <3> DEFINE p == Recreated([o EXCEPT !.state = s])
      <3>1. /\ p.pc \in {"commit", "reread"} /\ p.phase = o.phase
            /\ p.new = o.new /\ p.kind = o.kind /\ p.state = s
        BY <1>0 DEF Recreated, Op
      <3> HIDE DEF p
      <3>2. Good(p)
        BY <2>4, <2>6, <3>1
      <3> QED BY <1>1, <2>6, <3>2 DEF p
    <2>7. CASE ~Become(w, RecreateError(o)) /\ Validate(w)
      <3>1. host'[o.new].state = "created" /\ o.pc = "validate"
        BY <1>0, <2>7 DEF Validate, Offspring, docker
      <3>2. CASE Become(w, [o EXCEPT !.pc = "start"])
        <4> DEFINE p == [o EXCEPT !.pc = "start"]
        <4>1. /\ p.pc = "start" /\ p.phase = o.phase /\ p.new = o.new
              /\ p.kind = o.kind
          BY <1>0 DEF Op
        <4> HIDE DEF p
        <4>2. Good(p)
          BY <2>4, <4>1
        <4> QED BY <1>1, <3>2, <4>2 DEF p
      <3>3. CASE Become(w, Recreated(o))
        <4>1. o = [o EXCEPT !.state = o.state]
          BY <1>0 DEF Op
        <4> QED BY <2>6, <3>1, <3>3, <4>1
      <3> QED BY <2>7, <3>2, <3>3 DEF Validate
    <2>8. CASE ~Become(w, RecreateError(o)) /\ InspectResult(w)
      <3>1. UNCHANGED host /\ Become(w, Recreated([o EXCEPT !.state = host[o.new].state]))
        BY <2>8 DEF InspectResult, docker
      <3> QED BY <2>6, <3>1
    <2> QED BY <1>1, <1>10, <2>2, <2>5, <2>7, <2>8
  <1>11. CASE Commit(w) \/ RestartOriginal(w) \/ RecordReverted(w) \/ Epilogue(w)
    <2>1. \/ o.pc = "commit" /\ Become(w, revert(o))
          \/ \E x : Become(w, [o EXCEPT !.pc = "done", !.outcome = x])
          \/ \E x : Become(w, [o EXCEPT !.pc = "epilogue", !.outcome = x])
          \/ Become(w, [o EXCEPT !.pc = "done"])
      BY <1>11 DEF Commit, RestartOriginal, RecordReverted, Epilogue
    <2>2. \A x : /\ [o EXCEPT !.pc = "done", !.outcome = x].pc = "done"
                 /\ [o EXCEPT !.pc = "epilogue", !.outcome = x].pc = "epilogue"
                 /\ [o EXCEPT !.pc = "done"].pc = "done"
      BY <1>0 DEF Op
    <2>3. CASE o.pc = "commit" /\ Become(w, revert(o))
      <3>1. Good(revert(o))
        BY <1>3, <2>3, PlainLabels, RecreateStops
      <3> QED BY <1>1, <2>3, <3>1
    <2>4. \A p : p.pc \in {"done", "epilogue"} /\ Become(w, p) => Good(op'[w])
      BY <1>1, <1>2
    <2> QED BY <2>1, <2>2, <2>3, <2>4
  <1>12. CASE Reread(w)
    <2>1. PICK pr, c :
             Become(w, [o EXCEPT !.pc = "record", !.prev = pr, !.cur = c])
      BY <1>12 DEF Reread
    <2> DEFINE p == [o EXCEPT !.pc = "record", !.prev = pr, !.cur = c]
    <2>2. p.pc = "record" /\ p.phase = o.phase /\ p.new = o.new
      BY <1>0 DEF Op
    <2>3. o.pc = "reread" /\ o.phase = "revert" /\ UNCHANGED host
      BY <1>0, <1>12 DEF Reread, Control, docker
    <2> HIDE DEF p
    <2>4. Good(p)
      BY <1>0, <2>2, <2>3 DEF StopsRunning, Offspring
    <2> QED BY <1>1, <2>1, <2>4 DEF p
  <1> QED BY <1>4, <1>5, <1>6, <1>7, <1>9, <1>10, <1>11, <1>12 DEF Works

\* What a call relies on about its replacement, when another one moves.
LEMMA OthersOffspring ==
    ASSUME UpdaterInv, NameInv, OwnInv, WatchInv,
           NEW w \in Workers, RequestUpdate(w) \/ RequestRollback(w) \/ Step(w),
           NEW v \in Workers, v # w
    PROVE  Offspring(op[v], host', rows')
  <1> DEFINE o == op[w]
             q == op[v]
  <1>0. /\ OpsOK /\ RestOK /\ KeyHeldOnce
        /\ OpInv(q) /\ Control(q) /\ Owns(q, host) /\ q \in Op
        /\ OpInv(o) /\ Control(o) /\ Owns(o, host) /\ Offspring(q, host, rows)
    BY Parts DEF OpsOK, OpInv, OwnInv, WatchInv
  <1>1. CASE q.pc \notin {"validate", "start", "wait", "result", "commit",
                          "reread", "record"}
    BY <1>1 DEF Offspring
  <1>2. CASE q.pc \in {"validate", "start", "wait", "result", "commit",
                       "reread", "record"}
    <2>1. Remade(q) /\ Snap(q) /\ q.new \in DOMAIN host
          /\ host[q.new].name = q.before.name
      <3>1. Remade(q)
        BY <1>2 DEF Remade
      <3>2. Snap(q)
        BY <1>0, <3>1, WorkingHasSnap
      <3> QED BY <1>0, <3>1, <3>2 DEF Owns, Mine
    <2>2. Snap(o) => q.new \notin Mine(o)
      <3>1. Snap(o) => o.before.name # q.before.name
        BY <1>0, <2>1, SnapsDiffer
      <3> QED BY <1>0, <2>1, <3>1 DEF Owns
    <2>3. q.new \in DOMAIN host' /\ host'[q.new] = host[q.new]
      <3>1. q.new # nextID
        BY <1>0, <2>1 DEF RestOK, HostOK, ID, NameInv, OlderIDs
      <3>2. o.pc \in Working => Snap(o)
        BY <1>0, WorkingHasSnap DEF Snap
      <3> QED BY <1>0, <2>1, <2>2, <3>1, <3>2, WorkerIsLocal
    <2> DEFINE Kept ==
          q.new \in DOMAIN rows' =>
             rows'[q.new].prev = Nil
             \/ (q.new \in DOMAIN rows /\ rows'[q.new].prev = rows[q.new].prev)
    <2>4. Kept
      <3>1. CASE UNCHANGED rows
        BY <3>1
      <3>2. ASSUME o.pc \in {"commit", "record"}, NEW pr, rows' = Replaced(o, pr)
            PROVE  Kept
        <4>1. Snap(o)
          BY <1>0, <3>2, PlainLabels, WorkingHasSnap DEF Snap, Working, PCs
        <4>2. q.new # o.new
          BY <2>2, <4>1 DEF Mine
        <4> QED BY <3>2, <4>2 DEF Replaced, replaceContainerTx, Put, Keep
      <3>3. ASSUME NEW i, NEW b, rows' = SetUpdateAvailable(rows, i, b)
            PROVE  Kept
        <4>1. \A j \in DOMAIN rows : rows[j] \in Row
          BY <1>0 DEF RestOK, RowsOK
        <4> QED BY <3>3, <4>1 DEF SetUpdateAvailable, Row
      <3> HIDE DEF Kept
      <3> QED BY <1>0, <3>1, <3>2, <3>3, WorkerTable
    <2> QED BY <1>0, <2>3, <2>4 DEF Offspring
  <1> QED BY <1>1, <1>2

\* Once it is recorded, a replacement that runs has a watch.
LEMMA ReplacementIsWatched ==
    ASSUME UpdaterInv, NameInv, OwnInv, WatchInv, NEW w \in Workers,
           op[w].pc \in {"commit", "record"}, UNCHANGED host,
           Commit(w) \/ RecordReverted(w), ~UNCHANGED rows,
           NEW i, i = op[w].new
    PROVE  /\ op[w].new \in DOMAIN host /\ host[op[w].new].name = op[w].before.name
           /\ Watched(i)'
  <1> DEFINE o == op[w]
  <1>0. /\ OpsOK /\ RestOK /\ KeyHeldOnce /\ o \in Op
        /\ OpInv(o) /\ Control(o) /\ Owns(o, host) /\ Offspring(o, host, rows)
    BY Parts DEF OpsOK, OpInv, OwnInv, WatchInv
  <1>1. Remade(o) /\ Snap(o) /\ (o.removed \/ o.phase = "revert")
    <2>1. Remade(o)
      BY DEF Remade
    <2> QED BY <1>0, <2>1, WorkingHasSnap DEF Control
  <1>2. o.new \in DOMAIN host /\ o.id \notin DOMAIN host
        /\ host[o.new].name = o.before.name
    BY <1>0, <1>1 DEF Owns, Mine
  <1>3. CASE RecordReverted(w)
    <2>1. o.pc = "record" /\ o.phase = "revert"
      BY <1>0, <1>3 DEF RecordReverted, Control
    <2>2. host'[o.new].by = "revert"
      BY <1>0, <2>1 DEF Offspring
    <2> QED BY <1>2, <2>2 DEF Watched
  <1>4. CASE Commit(w)
    <2>1. o.pc = "commit" /\ o.phase = "do" /\ o.before.name \in Names
      BY <1>0, <1>4 DEF Commit, Control, OpInv, OpShape, Working, PCs, Container
    <2>2. SUFFICES ASSUME host[o.new].by = "update", host[o.new].restarts = 0,
                          Started(i)'
                   PROVE  watch'[o.before.name].id = o.new
      BY <1>2, <2>1 DEF Watched
    <2>3. \A v \in Workers : op'[v].pc \in Working => op'[v].id # o.new
      <3> SUFFICES ASSUME NEW v \in Workers, op'[v].pc \in Working,
                          op'[v].id = o.new
                   PROVE  FALSE
        OBVIOUS
      <3>1. CASE v = w
        <4>1. op'[w].id = o.id
          BY <1>0, <1>4, WorkKeeps DEF Works
        <4> QED BY <1>2, <3>1, <4>1
      <3>2. CASE v # w
        <4>1. op'[v] = op[v]
          <5>1. \E p : Become(w, p)
            BY <1>4 DEF Commit
          <5> QED BY <1>0, <3>2, <5>1 DEF Become, OpsOK
        <4>2. op[v] \in Op /\ OpInv(op[v]) /\ Owns(op[v], host)
          BY <1>0 DEF OpsOK, OpInv, OwnInv
        <4>3. Snap(op[v])
          BY <4>1, <4>2, WorkingHasSnap DEF Snap
        <4>4. op[v].before.name # o.before.name
          BY <1>0, <1>1, <3>2, <4>3, SnapsDiffer
        <4> QED BY <1>2, <4>1, <4>2, <4>3, <4>4 DEF Owns, Mine
      <3> QED BY <3>1, <3>2
    <2>4. host[o.new].state = "running"
      BY <2>2, <2>3 DEF Started
    <2>5. o.state = "running" /\ o.kind = "update"
      BY <1>0, <2>1, <2>2, <2>4 DEF Offspring
    <2>6. watch' = [watch EXCEPT ![o.before.name] =
                      [id |-> o.new, status |-> "active"]]
      BY <1>4, <2>5 DEF Commit
    <2> QED BY <1>0, <2>1, <2>6 DEF RestOK
  <1> QED BY <1>2, <1>3, <1>4

\* Every step of a worker.
LEMMA WorkerWatches ==
    ASSUME UpdaterInv, NameInv, OwnInv, WatchInv,
           NEW w \in Workers, RequestUpdate(w) \/ RequestRollback(w) \/ Step(w)
    PROVE  WatchInv'
  <1> DEFINE o == op[w]
  <1>0. /\ OpsOK /\ RestOK /\ o \in Op /\ OpInv(o) /\ Control(o) /\ Owns(o, host)
        /\ StopsRunning(o) /\ Offspring(o, host, rows)
        /\ \A i \in DOMAIN host : host[i] \in Container
    BY Parts DEF OpsOK, OpInv, OwnInv, WatchInv, RestOK, HostOK
  <1>1. \A v \in Workers : v # w => op'[v] = op[v]
    <2>1. \E p : Become(w, p)
      BY <1>0, WorkerMoves DEF Moves
    <2> QED BY <1>0, <2>1 DEF Become, OpsOK
  <1>2. \A v \in Workers : StopsRunning(op'[v]) /\ Offspring(op'[v], host', rows')
    BY <1>1, WorkerOffspring, OthersOffspring DEF WatchInv
  <1>3. ASSUME NEW i \in DOMAIN host', host'[i].state = "restarting"
        PROVE  host'[i].restarts # 0
    BY <1>0, <1>3, WorkerStarts DEF WatchInv
  <1>4. ASSUME NEW i \in DOMAIN rows' \cap DOMAIN host',
               i \in DOMAIN rows, rows'[i].prev = rows[i].prev,
               watch'[host'[i].name].id = watch[host'[i].name].id
        PROVE  Watched(i)'
    <2> SUFFICES ASSUME host'[i].by = "update", rows'[i].prev # Nil,
                        host'[i].restarts = 0, Started(i)'
                 PROVE  watch'[host'[i].name].id = i
      BY DEF Watched
    <2>1. i # nextID
      BY <1>0, <1>4 DEF RestOK, RowsOK, ID, NameInv, OlderIDs
    <2>2. /\ i \in DOMAIN host
          /\ host'[i].name = host[i].name /\ host'[i].by = host[i].by
          /\ host'[i].restarts = host[i].restarts
          /\ \/ host'[i].state = host[i].state
             \/ host'[i].state = "exited"
             \/ Start(w) /\ i = o.new
             \/ RestartOriginal(w) /\ i = o.id
      BY <1>0, <2>1, WorkerStarts
    <2>3. Started(i)
      <3>1. CASE host'[i].state = "running"
        <4>1. CASE Start(w) /\ i = o.new
          <5>1. o.pc = "start" /\ o.phase \in {"do", "revert"}
            BY <1>0, <4>1 DEF Start, Op
          <5> QED BY <1>0, <1>4, <2>2, <4>1, <5>1 DEF Offspring
        <4>2. CASE RestartOriginal(w) /\ i = o.id
          <5>1. o.pc = "restart" /\ o.pc \in Working
            BY <4>2, PlainLabels DEF RestartOriginal
          <5> QED BY <1>0, <4>2, <5>1 DEF StopsRunning, Started
        <4>3. CASE host[i].state = "running"
          BY <4>3 DEF Started
        <4> QED BY <2>2, <3>1, <4>1, <4>2, <4>3
      <3>2. ASSUME NEW v \in Workers, op'[v].pc \in Working, op'[v].id = i,
                   WasRunning(op'[v])
            PROVE  Started(i)
        <4>1. CASE v # w
          BY <1>1, <3>2, <4>1 DEF Started
        <4>2. CASE v = w /\ Works(w)
          <5>1. o.pc \in Working /\ op'[w].id = o.id /\ op'[w].before = o.before
            BY <1>0, <4>2, WorkKeeps
          <5> QED BY <3>2, <4>2, <5>1 DEF Started, WasRunning
        <4>3. CASE v = w /\ Inspect(w)
          <5> DEFINE p == [o EXCEPT !.pc = "define", !.before = host[o.id]]
                     q == [o EXCEPT !.pc = "done", !.outcome = "failed"]
          <5>1. Become(w, p) \/ Become(w, q)
            BY <4>3 DEF Inspect
          <5>2. p.id = o.id /\ p.before = host[o.id] /\ q.pc = "done"
            BY <1>0 DEF Op
          <5> HIDE DEF p, q
          <5>3. op'[w] = p \/ op'[w] = q
            BY <1>0, <5>1 DEF Become, OpsOK
          <5>4. host[i].state = "running"
            BY <3>2, <4>3, <5>2, <5>3, PlainLabels DEF WasRunning
          <5> QED BY <5>4 DEF Started
        <4>4. CASE v = w /\ ~Works(w) /\ ~Inspect(w)
          <5>1. op'[w].pc \in {"idle", "lookup", "begin", "inspect"}
            BY <1>0, <4>4, EntryStays DEF Step, Works
          <5> QED BY <3>2, <4>4, <5>1, PlainLabels
        <4> QED BY <4>1, <4>2, <4>3, <4>4
      <3> QED BY <3>1, <3>2 DEF Started
    <2>4. Watched(i)
      BY <1>4, <2>2 DEF WatchInv
    <2> QED BY <1>4, <2>2, <2>3, <2>4 DEF Watched
  <1>5. CASE (Commit(w) \/ RecordReverted(w)) /\ ~UNCHANGED rows
    <2>1. o.pc \in {"commit", "record"} /\ UNCHANGED host
      BY <1>5 DEF Commit, RecordReverted, docker
    <2>2. PICK pr : rows' = Replaced(o, pr)
      BY <1>5 DEF Commit, RecordReverted
    <2>3. o.new \in DOMAIN host /\ host[o.new].name = o.before.name
          /\ \A i : i = o.new => Watched(i)'
      BY <1>5, <2>1, ReplacementIsWatched
    <2>4. ASSUME NEW i \in DOMAIN rows' \cap DOMAIN host', i # o.new
          PROVE  Watched(i)'
      <3>1. i \in DOMAIN rows /\ rows'[i] = rows[i]
        BY <2>2, <2>4 DEF Replaced, replaceContainerTx, Put, Keep
      <3>2. host[i].name # o.before.name /\ host[i].name \in Names
        BY <1>0, <2>1, <2>3, <2>4 DEF OwnInv, UniqueNames, Container
      <3>3. watch'[host[i].name] = watch[host[i].name]
        BY <1>0, <1>5, <3>2 DEF Commit, RecordReverted, RestOK
      <3> QED BY <1>4, <2>1, <3>1, <3>3
    <2> QED BY <1>2, <1>3, <2>3, <2>4 DEF WatchInv
  <1>6. CASE ~((Commit(w) \/ RecordReverted(w)) /\ ~UNCHANGED rows)
    <2>1. DOMAIN rows' = DOMAIN rows
          /\ \A i \in DOMAIN rows : rows'[i].prev = rows[i].prev
      <3>1. CASE UNCHANGED rows
        BY <3>1
      <3>2. ASSUME NEW i, NEW b, rows' = SetUpdateAvailable(rows, i, b)
            PROVE  /\ DOMAIN rows' = DOMAIN rows
                   /\ \A j \in DOMAIN rows : rows'[j].prev = rows[j].prev
        <4>1. \A j \in DOMAIN rows : rows[j] \in Row
          BY <1>0 DEF RestOK, RowsOK
        <4> QED BY <3>2, <4>1 DEF SetUpdateAvailable, Row
      <3>3. CASE Epilogue(w)
        BY <3>1, <3>2, <3>3 DEF Epilogue
      <3>4. CASE ~Epilogue(w)
        <4>1. UNCHANGED rows
          BY <1>6, <3>4 DEF Step, RequestUpdate, RequestRollback, LookupUpdate,
             LookupRollback, beginOperation, Inspect, Define, Pull, Stop, Remove,
             Create, Validate, Start, WaitHealthy, InspectResult,
             RestartOriginal, Reread, Finish, stored
        <4> QED BY <3>1, <4>1
      <3> QED BY <3>3, <3>4
    <2>2. \A n \in Names : watch'[n].id = watch[n].id
      <3>1. CASE UNCHANGED watch
        BY <3>1
      <3>2. CASE Epilogue(w)
        <4>1. PICK n, s : watch' = [watch EXCEPT ![n].status = s] \/ UNCHANGED watch
          BY <3>2 DEF Epilogue
        <4> QED BY <1>0, <4>1 DEF RestOK
      <3>3. CASE Commit(w)
        <4>1. UNCHANGED rows
          BY <1>6, <3>3
        <4>2. CASE rows' = Replaced(o, o.before.image)
          <5>1. Remade(o) /\ Snap(o) /\ o.removed /\ o.pc = "commit"
            BY <1>0, <3>3, WorkingHasSnap DEF Commit, Control, Remade
          <5>2. o.new \in DOMAIN host /\ o.id \notin DOMAIN host
            BY <1>0, <5>1 DEF Owns
          <5>3. rows[o.new].prev = o.before.image /\ o.new \in DOMAIN rows
            BY <4>1, <4>2 DEF Replaced, replaceContainerTx, Put
          <5>4. o.before.image # Nil
            BY <1>0, <5>1, PlainLabels, NilAssumption DEF OpInv, OpShape, Container
          <5>5. o.phase = "do"
            BY <1>0, <5>1 DEF Control
          <5> QED BY <1>0, <5>1, <5>3, <5>4, <5>5 DEF Offspring
        <4> QED BY <3>1, <3>3, <4>2 DEF Commit
      <3>4. CASE ~Epilogue(w) /\ ~Commit(w)
        <4>1. UNCHANGED watch
          BY <3>4 DEF Step, RequestUpdate, RequestRollback, LookupUpdate,
             LookupRollback, beginOperation, Inspect, Define, Pull, Stop, Remove,
             Create, Validate, Start, WaitHealthy, InspectResult,
             RestartOriginal, Reread, RecordReverted, Finish, stored
        <4> QED BY <3>1, <4>1
      <3> QED BY <3>2, <3>3, <3>4
    <2>3. ASSUME NEW i \in DOMAIN rows' \cap DOMAIN host'
          PROVE  Watched(i)'
      <3>1. host'[i].name \in Names
        <4>1. i # nextID
          BY <1>0, <2>1 DEF RestOK, RowsOK, ID, NameInv, OlderIDs
        <4> QED BY <1>0, <4>1, WorkerStarts DEF Container
      <3> QED BY <1>4, <2>1, <2>2, <3>1
    <2> QED BY <1>2, <1>3, <2>3 DEF WatchInv
  <1> QED BY <1>5, <1>6

\* Rows, containers and calls when the host keeps what it says of each
\* container but its state, and no call gets past its snapshot.
LEMMA OthersWatch ==
    ASSUME UpdaterInv, NameInv, OwnInv, WatchInv,
           Sweep \/ Environment \/ UNCHANGED vars
    PROVE  WatchInv'
  <1>0. OpsOK /\ RestOK /\ \A i \in DOMAIN host : host[i] \in Container
    BY Parts DEF RestOK, HostOK
  <1>1. UNCHANGED watch
    BY DEF Environment, ContainerCrash, ContainerRestart, Publish, Expire, Exit,
       vars, stored, Sweep, SweepList, SweepPrune, SweepUpsert, SweepCheck
  <1>2. PrevKept
    <2>1. CASE Sweep
      BY <1>0, <2>1, SweepKeepsPrev
    <2>2. CASE Environment \/ UNCHANGED vars
      BY <2>2 DEF PrevKept, Environment, ContainerCrash, ContainerRestart,
         Publish, Expire, Exit, stored, history, vars
    <2> QED BY <2>1, <2>2
  <1>3. /\ DOMAIN host' = DOMAIN host
        /\ \A i \in DOMAIN host :
              /\ host'[i].name = host[i].name /\ host'[i].by = host[i].by
              /\ \/ host'[i] = host[i]
                 \/ host'[i].state = "exited"
                    /\ host'[i].restarts = host[i].restarts
                 \/ host'[i].restarts # 0
    <2>1. CASE UNCHANGED host
      BY <2>1
    <2>2. ASSUME NEW j \in DOMAIN host, ContainerCrash(j)
          PROVE  <1>3
      <3>1. host[j] \in Container
        BY <1>0
      <3>2. host[j].restarts \in Nat /\ host[j].restarts + 1 # 0
        BY <3>1, BoundsAssumption DEF Container
      <3>3. CASE host' = [host EXCEPT ![j].state = "exited"]
        BY <1>0, <3>3 DEF Container
      <3>4. CASE host' = [host EXCEPT ![j].state = "restarting",
                                      ![j].restarts = @ + 1]
        <4> DEFINE c == [[host[j] EXCEPT !.state = "restarting"]
                            EXCEPT !.restarts = host[j].restarts + 1]
        <4>1. c.name = host[j].name /\ c.by = host[j].by
              /\ c.restarts = host[j].restarts + 1
          BY <3>1 DEF Container
        <4>2. host' = [host EXCEPT ![j] = c]
          BY <3>1, <3>4 DEF Container
        <4> HIDE DEF c
        <4> QED BY <3>2, <4>1, <4>2
      <3> QED BY <2>2, <3>3, <3>4 DEF ContainerCrash
    <2>3. ASSUME NEW j \in DOMAIN host, ContainerRestart(j)
          PROVE  <1>3
      <3>1. host' = [host EXCEPT ![j].state = "running"]
            /\ host[j].restarts # 0
        BY <2>3 DEF ContainerRestart, WatchInv
      <3> QED BY <1>0, <3>1 DEF Container
    <2> QED BY <2>1, <2>2, <2>3 DEF Environment, Publish, Expire, Exit, docker,
            vars, Sweep, SweepList, SweepPrune, SweepUpsert, SweepCheck
  <1>4. \A v \in Workers :
           \/ op'[v].pc = "idle"
           \/ /\ op'[v].pc = op[v].pc /\ op'[v].id = op[v].id
              /\ op'[v].before = op[v].before /\ op'[v].new = op[v].new
              /\ op'[v].phase = op[v].phase /\ op'[v].kind = op[v].kind
              /\ op'[v].stopped = op[v].stopped /\ op'[v].state = op[v].state
    <2>1. CASE \E w \in Workers : Expire(w)
      <3>1. PICK w \in Workers : op' = [op EXCEPT ![w].expired = TRUE]
        BY <2>1 DEF Expire
      <3> QED BY <1>0, <3>1 DEF OpsOK, Op
    <2>2. CASE Exit
      BY <2>2 DEF Exit, Idle
    <2>3. UNCHANGED op \/ Exit \/ \E w \in Workers : Expire(w)
      BY DEF Environment, ContainerCrash, ContainerRestart, Publish, vars, Sweep,
         SweepList, SweepPrune, SweepUpsert, SweepCheck
    <2> QED BY <2>1, <2>2, <2>3
  <1>5. \A i \in DOMAIN host' : host'[i].state = "restarting"
                                   => host'[i].restarts # 0
    BY <1>3 DEF WatchInv
  <1>6. ASSUME NEW i \in DOMAIN rows' \cap DOMAIN host'
        PROVE  Watched(i)'
    <2> SUFFICES ASSUME host'[i].by = "update", rows'[i].prev # Nil,
                        host'[i].restarts = 0, Started(i)'
                 PROVE  watch'[host'[i].name].id = i
      BY DEF Watched
    <2>1. i \in DOMAIN rows /\ rows'[i].prev = rows[i].prev
      BY <1>2, <1>6 DEF PrevKept
    <2>2. Started(i)
      <3>1. CASE host'[i].state = "running"
        BY <1>3, <1>6, <3>1 DEF Started
      <3>2. ASSUME NEW v \in Workers, op'[v].pc \in Working, op'[v].id = i,
                   WasRunning(op'[v])
            PROVE  Started(i)
        BY <1>4, <3>2, PlainLabels DEF Started, WasRunning
      <3> QED BY <3>1, <3>2 DEF Started
    <2>3. Watched(i) /\ host[i].restarts = 0
      BY <1>3, <1>6, <2>1 DEF WatchInv
    <2> QED BY <1>1, <1>3, <1>6, <2>1, <2>2, <2>3 DEF Watched
  <1>7. ASSUME NEW v \in Workers
        PROVE  StopsRunning(op'[v]) /\ Offspring(op'[v], host', rows')
    <2>0. /\ op[v] \in Op /\ OpInv(op[v]) /\ Owns(op[v], host)
          /\ StopsRunning(op[v]) /\ Offspring(op[v], host, rows)
      BY <1>0 DEF OpsOK, OpInv, OwnInv, WatchInv
    <2>1. CASE op'[v].pc \notin {"validate", "start", "wait", "result", "commit",
                                 "reread", "record"}
      BY <1>4, <2>0, <2>1 DEF StopsRunning, Offspring, WasRunning
    <2>2. CASE op'[v].pc \in {"validate", "start", "wait", "result", "commit",
                              "reread", "record"}
      <3>1. Remade(op[v]) /\ op[v].new \in DOMAIN host /\ op[v].new = op'[v].new
        BY <1>4, <2>0, <2>2 DEF Remade, Owns
      <3>2. op[v].new \in DOMAIN rows' =>
               \/ rows'[op[v].new].prev = Nil
               \/ /\ op[v].new \in DOMAIN rows
                  /\ rows'[op[v].new].prev = rows[op[v].new].prev
        BY <1>2 DEF PrevKept
      <3> DEFINE i == op[v].new
      <3>3. host[i].state = "created" => host'[i] = host[i]
        <4>1. CASE UNCHANGED host
          BY <4>1
        <4>2. ASSUME NEW j \in DOMAIN host, ContainerCrash(j) \/ ContainerRestart(j)
              PROVE  host[i].state = "created" => host'[i] = host[i]
          <5> HIDE DEF i
          <5>1. host[i].state = "created" => i # j
            BY <4>2 DEF ContainerCrash, ContainerRestart
          <5>2. \E c : host' = [host EXCEPT ![j] = c]
            <6>1. host' = [host EXCEPT ![j] = host'[j]]
              BY <4>2 DEF ContainerCrash, ContainerRestart
            <6> QED BY <6>1
          <5> QED BY <5>1, <5>2
        <4> QED BY <4>1, <4>2 DEF Environment, Publish, Expire, Exit, docker,
                vars, Sweep, SweepList, SweepPrune, SweepUpsert, SweepCheck
      <3>4. Offspring(op'[v], host', rows')
        BY <1>3, <1>4, <2>0, <2>2, <3>1, <3>2, <3>3 DEF Offspring
      <3> QED BY <2>2, <3>4 DEF StopsRunning
    <2> QED BY <2>1, <2>2
  <1> QED BY <1>5, <1>6, <1>7 DEF WatchInv

\* CommittedUpdateIsWatched, unless Docker has restarted the container.
UnrestartedIsWatched ==
    \A i \in DOMAIN rows \cap DOMAIN host :
        /\ host[i].by = "update" /\ rows[i].prev # Nil
        /\ host[i].state = "running" /\ host[i].restarts = 0
        => watch[rows[i].name].id = i

\* store.go:434: a container that an update left running and recorded, and that
\* Docker has not restarted since, has the watch of its name, whatever failed,
\* expired, was swept, reverted or killed since, as long as the calls past the
\* snapshot hold names.
THEOREM UpdatesAreWatched ==
    Spec /\ []NamedGrants => []UnrestartedIsWatched
  <1>1. Init => WatchInv
    <2> SUFFICES ASSUME Init PROVE WatchInv
      OBVIOUS
    <2>1. PICK ids \in Bijection(1..Cardinality(Names), Names),
             configs \in [Names -> [kind : {"tag"}, of : Tags]
                            \cup [kind : {"pin"}, of : Images \ Broken]],
             states \in [Names -> {"running", "exited"}] :
          host = [i \in 1..Cardinality(Names) |->
                    LET b == ids[i] IN
                    [name |-> b, config |-> configs[b],
                     image |-> Resolve(configs[b]), state |-> states[b],
                     restarts |-> 0, by |-> "operator"]]
      BY DEF Init
    <2>2. \A i \in DOMAIN host : /\ host[i].by = "operator"
                                 /\ host[i].state \in {"running", "exited"}
      <3>1. \A i \in DOMAIN host : ids[i] \in Names
        BY <2>1 DEF Bijection, Injection
      <3> QED BY <2>1, <3>1
    <2>3. \A w \in Workers : op[w].pc = "idle"
      BY DEF Init, Idle
    <2> QED BY <2>2, <2>3 DEF WatchInv, Watched, StopsRunning, Offspring
  <1>2. UpdaterInv /\ NameInv /\ OwnInv /\ WatchInv /\ [Next]_vars => WatchInv'
    BY WorkerWatches, OthersWatch DEF Next
  <1>3. NameInv /\ WatchInv => UnrestartedIsWatched
    BY DEF NameInv, OneName, WatchInv, Watched, Started, UnrestartedIsWatched
  <1> QED BY <1>1, <1>2, <1>3, NamesAgree, NamedCallsOwnTheirContainer, PTL
          DEF Spec

\* A committed update and its crash-loop watch are never apart where Docker
\* restarts nothing: a container that is "restarting" when recreate() inspects
\* it is committed as not running and comes up without a watch.
THEOREM CommittedUpdatesAreWatched ==
    ASSUME MaxRestarts = 0
    PROVE  Spec /\ []NamedGrants => []CommittedUpdateIsWatched
  <1>1. UpdaterInv /\ UnrestartedIsWatched => CommittedUpdateIsWatched
    <2> SUFFICES ASSUME UpdaterInv
                 PROVE  \A i \in DOMAIN host : host[i].restarts = 0
      BY DEF UnrestartedIsWatched, CommittedUpdateIsWatched
    <2>1. \A i \in DOMAIN host : host[i].restarts \in 0..0
      BY DEF UpdaterInv, TypeOK, HostOK, Container
    <2> QED BY <2>1
  <1> QED BY <1>1, UpdaterInvariant, UpdatesAreWatched, PTL

\* Without sweeps and failed lookups this needs no hypothesis on the keys.
THEOREM UnsweptUpdatesAreWatched ==
    ASSUME MaxSweeps = 0, MaxMisses = 0, MaxRestarts = 0
    PROVE  Spec => []CommittedUpdateIsWatched
  BY GrantsAreNamed, CommittedUpdatesAreWatched, PTL
=============================================================================
