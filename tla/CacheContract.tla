--------------------------- MODULE CacheContract ---------------------------
(***************************************************************************)
(* What the response cache promises the resolver, with time, locks and     *)
(* capacity abstracted away.  A key holds nothing or one response, and a   *)
(* response only ever decays: it is fresh, then stale (good for serving    *)
(* during an upstream outage), then gone, and it may be shed at any time.  *)
(* Nothing but an insert of a cacheable response makes a key fresh again.  *)
(* Module Cache implements this contract; module Resolver relies on it.    *)
(***************************************************************************)
CONSTANTS Keys,        \* (qname, qtype) pairs
          Cacheable    \* the responses Cache::insert does not turn away

VARIABLE store         \* what each key holds

Nothing == [age |-> "gone"]

Held(age, r) == [age |-> age, resp |-> r]

Contents == {Nothing} \cup {Held(a, r) : a \in {"fresh", "stale"}, r \in Cacheable}

(* What is left of a key's contents after any amount of ageing or shedding. *)
Decayed(e) ==
    {Nothing, e} \cup (IF e.age = "fresh" THEN {Held("stale", e.resp)} ELSE {})

TypeOK == store \in [Keys -> Contents]

Init == store = [k \in Keys |-> Nothing]

(***************************************************************************)
(* An insert may shed other keys, and a writer that waited for the lock    *)
(* may find that its response is already past its lifetime.                *)
(***************************************************************************)
Insert(k, r) ==
    /\ store' \in [Keys -> Contents]
    /\ store'[k] \in Decayed(Held("fresh", r))
    /\ \A j \in Keys \ {k} : store'[j] \in Decayed(store[j])

Decay ==
    /\ store' \in [Keys -> Contents]
    /\ store' # store
    /\ \A k \in Keys : store'[k] \in Decayed(store[k])

Next ==
    \/ \E k \in Keys, r \in Cacheable : Insert(k, r)
    \/ Decay

Spec == Init /\ [][Next]_store

(* The response a key can answer with, if it holds one of that age. *)
Fresh(k) == store[k].age = "fresh"
Stale(k) == store[k].age = "stale"
=============================================================================
