----------------------------- MODULE MCResolver -----------------------------
(* Three clients that may all want the same key. *)
EXTENDS Resolver, TLC

CONSTANTS c1, c2, c3, k1, k2

ThreeClients == {c1, c2, c3}
TwoClients == {c1, c2}
OneKey == {k1}
TwoKeys == {k1, k2}

ClientSymmetry == Permutations({c1, c2, c3})
=============================================================================
