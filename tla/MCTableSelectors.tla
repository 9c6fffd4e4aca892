--------------------------- MODULE MCTableSelectors ---------------------------
(* Small instances of TableSelectors: one or two backends in the             *)
(* configuration, the admin API adds the others; a ring of eight positions   *)
(* on which the keys of x and y interleave and share position 3.             *)
EXTENDS TableSelectors, TLC

CONSTANTS b1, b2

OneConfigured == <<b1>>
TwoConfigured == <<b1, b2>>
OwnID == b1 :> "x" @@ b2 :> "y"
UnevenWeights == b1 :> 2 @@ b2 :> 1
SmallRing == "x" :> {1, 3, 5} @@ "y" :> {0, 3, 6}
Symmetry == Permutations(Goroutine)
=============================================================================
