------------------------------ MODULE MCStorage -----------------------------
(***************************************************************************)
(* Storage for TLC: nothing tells one name from another.                    *)
(***************************************************************************)
EXTENDS Storage

Symmetry == Permutations(Vars) \cup Permutations(Funcs)
=============================================================================
