----------------------------- MODULE MCUpstream -----------------------------
(* Two concurrent queries over a pool of three upstreams. *)
EXTENDS Upstream, TLC

CONSTANTS q1, q2

TwoTasks == {q1, q2}
Symmetry == Permutations(TwoTasks)
=============================================================================
