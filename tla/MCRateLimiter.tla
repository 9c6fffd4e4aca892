---------------------------- MODULE MCRateLimiter ----------------------------
(* An instance of RateLimiter for TLC: all goroutines serve one client, so *)
(* that its requests may overlap.                                          *)
EXTENDS RateLimiter, TLC

CONSTANT ip1

OneClient == [g \in Goroutine |-> ip1]

\* Addresses and goroutines are only compared.
Symmetry == Permutations(Bucket) \cup Permutations(Goroutine)
=============================================================================
