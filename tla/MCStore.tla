------------------------------ MODULE MCStore ------------------------------
(* Model-checking instance of Store: three sources, four timestamps. *)
EXTENDS Store, TLC

CONSTANTS a, b, c

MCSources == {a, b, c}

MCSymmetry == Permutations(MCSources)
=============================================================================
