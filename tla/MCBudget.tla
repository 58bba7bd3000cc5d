------------------------------ MODULE MCBudget ------------------------------
(* Budget with two handlers over two months of two days.                     *)
EXTENDS Budget, TLC

CONSTANTS h1, h2

MCHandlers == {h1, h2}
Symmetry == Permutations(MCHandlers)
=============================================================================
