------------------------------- MODULE Cookie -------------------------------
(***************************************************************************)
(* DNS Cookies as dns-guard's CookieKey makes and checks them.  A COOKIE   *)
(* option is a record: its length, the client's half, the time it was made *)
(* (seconds, as wide as the code's u32) and the keyed hash.  The hash has  *)
(* no collisions; an option of another version fails like a wrong hash.    *)
(***************************************************************************)
EXTENDS Integers

CONSTANTS
    Lifetime,     \* COOKIE_LIFETIME
    TimeSpace     \* 2^32: timestamps are seconds modulo TimeSpace

ASSUME LifetimeAssumption == Lifetime \in Nat \ {0}
ASSUME TimeSpaceAssumption == TimeSpace \in Nat /\ 3 * Lifetime < TimeSpace

NoCookie == [len |-> 0, client |-> "none", ts |-> 0, hash |-> <<>>]
ClientHalf(c) == [len |-> 8, client |-> c, ts |-> 0, hash |-> <<>>]

(* Mutant of Hash: the address is left out. *)
HashNoAddress(key, client, ip, ts) == <<key, client, ts>>

Hash(key, client, ip, ts) == <<key, client, ip, ts>>

Build(key, client, ip, now) ==
    [len |-> 24, client |-> client, ts |-> now, hash |-> Hash(key, client, ip, now)]

(* now.wrapping_sub(ts) *)
Age(now, ts) == (now - ts) % TimeSpace

(* Mutant of Verify: the age is not taken modulo 2^32. *)
VerifyNoWrap(key, cookie, ip, now) ==
    CASE cookie.len = 0 -> "Absent"
      [] cookie.len = 8 -> "ClientOnly"
      [] cookie.len \notin {0, 8} ->
           IF cookie.hash # Hash(key, cookie.client, ip, cookie.ts) THEN "Invalid"
           ELSE IF now - cookie.ts \notin 0..(2 * Lifetime) THEN "Invalid"
           ELSE IF now - cookie.ts > Lifetime THEN "Stale"
           ELSE "Valid"

Verify(key, cookie, ip, now) ==
    CASE cookie.len = 0 -> "Absent"
      [] cookie.len = 8 -> "ClientOnly"
      [] cookie.len \notin {0, 8} ->
           IF cookie.hash # Hash(key, cookie.client, ip, cookie.ts) THEN "Invalid"
           ELSE IF Age(now, cookie.ts) > 2 * Lifetime /\ cookie.ts <= now THEN "Invalid"
           ELSE IF Age(now, cookie.ts) > Lifetime THEN "Stale"
           ELSE "Valid"

Accepted(key, cookie, ip, now) == Verify(key, cookie, ip, now) \in {"Valid", "Stale"}
=============================================================================
