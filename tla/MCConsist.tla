----------------------------- MODULE MCConsist -----------------------------
(***************************************************************************)
(* Consist on two pods.  The pods are interchangeable, so the runs that    *)
(* check safety only divide the state space by their permutations.         *)
(***************************************************************************)
EXTENDS ConsistInv, TLC

CONSTANTS p1, p2

Symmetry == Permutations(Pods)
=============================================================================
