---------------------------- MODULE MCSchedules ----------------------------
(* A one-off and a cron schedule of one container, and a relative schedule *)
(* of the stack it belongs to.                                             *)
EXTENDS Schedules
CONSTANTS c1, c2
MCTargets == [id \in Ids |-> IF id \in Relative THEN Keys ELSE {c1}]
=============================================================================
