---------------------------- MODULE MCSelfUpdate ----------------------------
(* The helpers of two self-updates, which may overlap.                      *)
EXTENDS SelfUpdate
CONSTANTS h1, h2
=============================================================================
