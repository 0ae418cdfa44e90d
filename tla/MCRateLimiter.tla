--------------------------- MODULE MCRateLimiter ---------------------------
(* Two clients whose queries reach two workers. *)
EXTENDS RateLimiter, TLC

CONSTANTS a, b, w1, w2

TwoClients == {a, b}
OneClient == {a}
TwoThreads == {w1, w2}
OneThread == {w1}

Symmetry == Permutations(TwoClients) \cup Permutations(TwoThreads)
=============================================================================
