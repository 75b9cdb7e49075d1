---------------------------- MODULE MCLinearScan ----------------------------
(***************************************************************************)
(* LinearScan on a few intervals over a short stretch of instructions.     *)
(***************************************************************************)
EXTENDS LinearScan, TLC

\* The identities of the intervals are interchangeable.
IntervalSymmetry == Permutations(Interval)
=============================================================================
