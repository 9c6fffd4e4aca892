--------------------------- MODULE MCListSelectors ---------------------------
(* Small instances of ListSelectors: three objects, two configured, and the  *)
(* third created by the admin API under an ID that is already taken.         *)
EXTENDS ListSelectors, TLC

CONSTANTS b1, b2, b3

TwoConfigured == <<b1, b2>>
SharedID == b1 :> "x" @@ b2 :> "y" @@ b3 :> "x"
Symmetry == Permutations(Goroutine)
=============================================================================
