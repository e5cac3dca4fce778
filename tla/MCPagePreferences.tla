------------------------- MODULE MCPagePreferences -------------------------
(* Two rows in the first stack and one in the second, for TLC.             *)
EXTENDS PagePreferences, TLC
CONSTANTS t1, t2, s1, s2, r1, r2, r3
MCStackOf == (r1 :> s1) @@ (r2 :> s1) @@ (r3 :> s2)
MCRendered == {{r1}, {r1, r3}}
=============================================================================
