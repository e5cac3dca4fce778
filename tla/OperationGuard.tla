--------------------------- MODULE OperationGuard ---------------------------
(***************************************************************************)
(* The in-memory gate of internal/updater/operations.go: one mutex-guarded  *)
(* map of destructive operations, keyed by container, and one maintenance   *)
(* flag that closes the gate for the whole daemon during a self-update.     *)
(*                                                                         *)
(* The code does not remember who owns an entry: end(name) deletes whatever *)
(* is there.  `held' and `maintainer' are the model's record of which       *)
(* goroutine was told "yes"; the invariants relate them to the code's map   *)
(* and flag.  Every method holds g.mu for its whole body, so each one is a  *)
(* single step.                                                            *)
(***************************************************************************)
CONSTANTS
    Workers,    \* goroutines that run Update, Rollback or StartSelfUpdate
    Keys,       \* the strings operations are keyed by
    None        \* "holds no key"

ASSUME NoneAssumption == None \notin Keys

VARIABLES
    active,       \* g.active: the keys that have an operation
    maintenance,  \* g.maintenance
    held,         \* held[w]: the key begin() granted to w and w has not ended
    maintainer    \* maintainer[w]: beginMaintenance() granted to w

vars == <<active, maintenance, held, maintainer>>

Init ==
    /\ active = {}
    /\ maintenance = FALSE
    /\ held = [w \in Workers |-> None]
    /\ maintainer = [w \in Workers |-> FALSE]

Free(w) == held[w] = None /\ ~maintainer[w]

\* Mutant: the maintenance refusal is missing.
beginInMaintenance(w, k) ==
    /\ Free(w)
    /\ k \notin active
    /\ active' = active \cup {k}
    /\ held' = [held EXCEPT ![w] = k]
    /\ UNCHANGED <<maintenance, maintainer>>

\* begin: refused while maintenance is on or the key is taken (a refused call
\* changes nothing and is a stuttering step).
begin(w, k) ==
    /\ Free(w)
    /\ ~maintenance
    /\ k \notin active
    /\ active' = active \cup {k}
    /\ held' = [held EXCEPT ![w] = k]
    /\ UNCHANGED <<maintenance, maintainer>>

\* end: the deferred finish() of a granted operation, on every return path.
end(w) ==
    /\ held[w] # None
    /\ active' = active \ {held[w]}
    /\ held' = [held EXCEPT ![w] = None]
    /\ UNCHANGED <<maintenance, maintainer>>

\* beginMaintenance: only when nothing at all is in progress.
beginMaintenance(w) ==
    /\ Free(w)
    /\ ~maintenance
    /\ active = {}
    /\ maintenance' = TRUE
    /\ maintainer' = [maintainer EXCEPT ![w] = TRUE]
    /\ UNCHANGED <<active, held>>

\* endMaintenance: StartSelfUpdate's deferred release when it does not get as
\* far as starting the helper.
endMaintenance(w) ==
    /\ maintainer[w]
    /\ maintenance' = FALSE
    /\ maintainer' = [maintainer EXCEPT ![w] = FALSE]
    /\ UNCHANGED <<active, held>>

\* The process stops and a new one starts with newOperationGuard().
Restart ==
    /\ active' = {}
    /\ maintenance' = FALSE
    /\ held' = [w \in Workers |-> None]
    /\ maintainer' = [w \in Workers |-> FALSE]

Next ==
    \/ \E w \in Workers :
          \/ \E k \in Keys : begin(w, k)
          \/ end(w)
          \/ beginMaintenance(w)
          \/ endMaintenance(w)
    \/ Restart

Spec == Init /\ [][Next]_vars

-----------------------------------------------------------------------------
TypeOK ==
    /\ active \in SUBSET Keys
    /\ maintenance \in BOOLEAN
    /\ held \in [Workers -> Keys \cup {None}]
    /\ maintainer \in [Workers -> BOOLEAN]

\* The comment on Operation (operations.go:14): a container has a single
\* destructive operation.  Two goroutines never both hold a grant for one key.
SingleOperation ==
    \A v, w \in Workers : v # w /\ held[v] = held[w] => held[v] = None

\* StartSelfUpdate's promise that it "atomically closes the global mutation
\* gate" (self_update.go:61): while one goroutine is in maintenance nobody
\* else holds a grant of either sort.
MaintenanceExcludesOperations ==
    \A v, w \in Workers : maintainer[w] =>
        held[v] = None /\ (maintainer[v] => v = w)

\* The map and the flag say exactly what has been granted: a key is never left
\* behind (which would refuse the container forever) nor lost while held.
GuardMatchesGrants ==
    /\ active = {held[w] : w \in Workers} \ {None}
    /\ maintenance <=> \E w \in Workers : maintainer[w]

\* The inductive invariant: the three facts above together.
GuardInv ==
    /\ TypeOK
    /\ SingleOperation
    /\ MaintenanceExcludesOperations
    /\ GuardMatchesGrants
=============================================================================
