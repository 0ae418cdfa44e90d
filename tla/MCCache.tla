------------------------------ MODULE MCCache ------------------------------
(* A cache of two entries, three keys and two threads. *)
EXTENDS Cache, TLC

CONSTANTS k1, k2, k3, t1, t2

MCKeys == {k1, k2, k3}
MCThreads == {t1, t2}
MCTwoKeys == {k1, k2}

Positive(ttls, s) ==
    [rcode |-> "NOERROR", answers |-> ttls, authorities |-> {}, soa |-> NoSoa, secure |-> s]

(***************************************************************************)
(* An answer that comes with an authority record of a shorter and one of a *)
(* longer TTL, a negative answer whose SOA bounds it, one answer that must *)
(* not be cached for its TTL and one for its rcode.                        *)
(***************************************************************************)
MCResponses ==
    {[Positive({2, 3}, TRUE) EXCEPT !.authorities = {1, 4}],
     [rcode |-> "NXDOMAIN", answers |-> {}, authorities |-> {1},
      soa |-> [minimum |-> 2, ttl |-> 1], secure |-> FALSE],
     Positive({0, 2}, FALSE),
     [Positive({2}, FALSE) EXCEPT !.rcode = "SERVFAIL"]}

MCSymmetry == Permutations(MCKeys) \cup Permutations(MCThreads)
MCTwoSymmetry == Permutations(MCTwoKeys) \cup Permutations(MCThreads)
=============================================================================
