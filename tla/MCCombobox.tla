----------------------------- MODULE MCCombobox -----------------------------
(* Three options of one kind and one of another; "q" is a typed query that *)
(* only some of them contain.                                              *)
EXTENDS Combobox
CONSTANTS a, b, c, d, q, k1, k2
MCOptions == [k \in {k1, k2} |-> IF k = k1 THEN <<a, b, c>> ELSE <<d>>]
MCIncludes == ({a, b, c, d} \X {Blank}) \cup {<<x, x>> : x \in {a, b, c, d}} \cup ({b, c} \X {q})
MCInitial == {<<>>, <<b>>, <<a, a, b>>}
=============================================================================
