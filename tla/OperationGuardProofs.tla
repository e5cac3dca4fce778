------------------------ MODULE OperationGuardProofs ------------------------
(***************************************************************************)
(* Proofs about OperationGuard for any set of goroutines and keys.          *)
(*                                                                         *)
(* SingleOperation is not inductive alone: begin() decides from `active',   *)
(* so a step preserves it only because `active' is exactly the set of held  *)
(* keys.  GuardInv carries that equality, and the equality of the flag with *)
(* the existence of a maintainer, alongside the properties.                 *)
(***************************************************************************)
EXTENDS OperationGuard, TLAPS

\* newOperationGuard() starts with an empty map and the flag down.
LEMMA GuardInit == Init => GuardInv
  BY NoneAssumption DEF Init, GuardInv, TypeOK, SingleOperation,
     MaintenanceExcludesOperations, GuardMatchesGrants

\* Every method of the guard, and a process restart, keeps the map and the
\* flag in step with what was granted.
LEMMA GuardStep == GuardInv /\ [Next]_vars => GuardInv'
  <1> SUFFICES ASSUME GuardInv, [Next]_vars PROVE GuardInv'
    OBVIOUS
  <1> USE NoneAssumption DEF GuardInv, TypeOK
  <1>1. ASSUME NEW w \in Workers, NEW k \in Keys, begin(w, k) PROVE GuardInv'
    <2>1. TypeOK'
      BY <1>1 DEF begin
    <2>2. ~maintainer[w] /\ (\A v \in Workers : ~maintainer[v] /\ held[v] # k)
      BY <1>1 DEF begin, Free, GuardMatchesGrants
    <2>3. SingleOperation'
      BY <1>1, <2>2 DEF begin, SingleOperation
    <2>4. MaintenanceExcludesOperations'
      BY <1>1, <2>2 DEF begin, MaintenanceExcludesOperations
    <2>5. GuardMatchesGrants'
      BY <1>1, <2>2 DEF begin, Free, GuardMatchesGrants
    <2> QED BY <2>1, <2>3, <2>4, <2>5
  <1>2. ASSUME NEW w \in Workers, end(w) PROVE GuardInv'
    <2>1. TypeOK'
      BY <1>2 DEF end
    <2>2. SingleOperation'
      BY <1>2 DEF end, SingleOperation
    <2>3. MaintenanceExcludesOperations'
      BY <1>2 DEF end, MaintenanceExcludesOperations
    <2>4. \A v \in Workers : v # w => held[v] # held[w]
      BY <1>2 DEF end, SingleOperation
    <2>5. GuardMatchesGrants'
      BY <1>2, <2>4 DEF end, GuardMatchesGrants
    <2> QED BY <2>1, <2>2, <2>3, <2>5
  <1>3. ASSUME NEW w \in Workers, beginMaintenance(w) PROVE GuardInv'
    <2>1. \A v \in Workers : held[v] = None /\ ~maintainer[v]
      BY <1>3 DEF beginMaintenance, GuardMatchesGrants
    <2> QED BY <1>3, <2>1 DEF beginMaintenance, SingleOperation,
              MaintenanceExcludesOperations, GuardMatchesGrants
  <1>4. ASSUME NEW w \in Workers, endMaintenance(w) PROVE GuardInv'
    <2>1. \A v \in Workers : v # w => ~maintainer[v]
      BY <1>4 DEF endMaintenance, MaintenanceExcludesOperations
    <2>2. \A v \in Workers : ~maintainer'[v]
      BY <1>4, <2>1 DEF endMaintenance
    <2>3. TypeOK'
      BY <1>4 DEF endMaintenance
    <2>4. SingleOperation' /\ MaintenanceExcludesOperations'
      BY <1>4, <2>2 DEF endMaintenance, SingleOperation,
         MaintenanceExcludesOperations
    <2>5. GuardMatchesGrants'
      BY <1>4, <2>2 DEF endMaintenance, GuardMatchesGrants
    <2> QED BY <2>3, <2>4, <2>5
  <1>5. CASE Restart
    BY <1>5 DEF Restart, SingleOperation, MaintenanceExcludesOperations,
       GuardMatchesGrants
  <1>6. CASE UNCHANGED vars
    BY <1>6 DEF vars, SingleOperation, MaintenanceExcludesOperations,
       GuardMatchesGrants
  <1> QED BY <1>1, <1>2, <1>3, <1>4, <1>5, <1>6 DEF Next

\* The guard's inductive invariant holds in every reachable state.
THEOREM GuardInvariant == Spec => []GuardInv
  BY GuardInit, GuardStep, PTL DEF Spec

\* operations.go:14 for any number of goroutines and containers: a key never
\* has two operations at once.
THEOREM OneOperationPerKey == Spec => []SingleOperation
  <1>1. GuardInv => SingleOperation
    BY DEF GuardInv
  <1> QED BY GuardInvariant, <1>1, PTL

\* self_update.go:61: the maintenance gate and container operations exclude
\* each other, and at most one self-update is in progress.
THEOREM MaintenanceIsExclusive == Spec => []MaintenanceExcludesOperations
  <1>1. GuardInv => MaintenanceExcludesOperations
    BY DEF GuardInv
  <1> QED BY GuardInvariant, <1>1, PTL

\* finish() on every return path leaves no entry behind: the map and the flag
\* are always exactly what is currently granted.
THEOREM GuardNeverLeaks == Spec => []GuardMatchesGrants
  <1>1. GuardInv => GuardMatchesGrants
    BY DEF GuardInv
  <1> QED BY GuardInvariant, <1>1, PTL
=============================================================================
