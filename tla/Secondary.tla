----------------------------- MODULE Secondary -----------------------------
(***************************************************************************)
(* dns-xfr: a zone this server mirrors (run_secondary), the primaries it   *)
(* polls and the NOTIFYs they send.  A version of the zone is a natural    *)
(* number; what travels in its SOA is the version modulo the serial space, *)
(* compared by RFC 1982 arithmetic.  Exchanges fail, NOTIFYs are lost or   *)
(* come late, and a SIGHUP or a restart drops the zone, which is kept in   *)
(* memory only.                                                            *)
(***************************************************************************)
EXTENDS Integers, Sequences

CONSTANTS
    Primaries,       \* the configured primaries, in order
    Half,            \* half of the serial space (2^31)
    MaxVersion,      \* bound on the versions published
    MaxFailures,     \* bound on the exchanges that fail and the NOTIFYs lost
    MaxDrops         \* bound on reloads and restarts

ASSUME SecondaryAssumption ==
    /\ Len(Primaries) > 0
    /\ Half \in Nat \ {0}
    /\ {MaxVersion, MaxFailures, MaxDrops} \subseteq Nat

VARIABLES
    latest,      \* the newest version published anywhere
    ver,         \* per primary, the version it serves
    notes,       \* primaries whose NOTIFY is under way
    held,        \* the version this server serves, or Missing
    pc,          \* run_secondary: "top", "soa", "answer", "pull", "store", "sleep"
    current,     \* the version read at the top of its loop
    at,          \* the primary it has come to
    got,         \* what that primary sent: an SOA, or the zone
    permit,      \* the permit stored in Secondary.kick
    failures, drops

loop == <<pc, current, at, got>>
world == <<latest, ver, notes>>
secondaryVars == <<latest, ver, notes, held, pc, current, at, got, permit,
                   failures, drops>>

Index == 1..Len(Primaries)
Missing == -1

----------------------------------------------------------------------------
Serial(v) == v % (2 * Half)

(* Mutants of serial_gt: plain order; any other serial is newer. *)
serial_gt_plain(a, b) == a > b
serial_gt_differs(a, b) == a # b

(* RFC 1982: is a newer than b?  wrapping_sub is subtraction modulo. *)
serial_gt(a, b) == a # b /\ (a - b) % (2 * Half) < Half

Outdated(serial) == current = Missing \/ serial_gt(serial, Serial(current))

SecondaryInit ==
    /\ latest = 0
    /\ ver = [i \in Index |-> 0]
    /\ notes = {}
    /\ held = Missing
    /\ pc = "top" /\ current = Missing /\ at = 1 /\ got = Missing
    /\ permit = FALSE
    /\ failures = 0 /\ drops = 0

----------------------------------------------------------------------------
Refreshing == {"soa", "answer", "pull", "store"}

(***************************************************************************)
(* The primaries.  RFC 1982 orders serials less than half the space apart: *)
(* a zone that is published faster than it spreads is beyond it.           *)
(***************************************************************************)
InUse ==
    {ver[i] : i \in Index}
        \cup ({held, got} \ {Missing})
        \cup (IF pc \in Refreshing THEN {current} \ {Missing} ELSE {})

Publish(i) ==
    /\ latest < MaxVersion
    /\ \A v \in InUse : latest + 1 - v < Half
    /\ latest' = latest + 1
    /\ ver' = [ver EXCEPT ![i] = latest + 1]
    /\ notes' = notes \cup {i}
    /\ UNCHANGED <<held, loop, permit, failures, drops>>

(* A primary that lags behind gets the newest version. *)
CatchUp(i) ==
    /\ ver[i] < latest
    /\ ver' = [ver EXCEPT ![i] = latest]
    /\ notes' = notes \cup {i}
    /\ UNCHANGED <<latest, held, loop, permit, failures, drops>>

LoseNotify(i) ==
    /\ i \in notes
    /\ failures < MaxFailures
    /\ failures' = failures + 1
    /\ notes' = notes \ {i}
    /\ UNCHANGED <<latest, ver, held, loop, permit, drops>>

(* Mutant of DeliverNotify: notify_waiters, which stores no permit. *)
DeliverNotifyToWaiter(i) ==
    /\ i \in notes
    /\ notes' = notes \ {i}
    /\ permit' = (pc = "sleep")
    /\ UNCHANGED <<latest, ver, held, loop, failures, drops>>

(* run_udp_worker: kick.notify_one(); a permit is stored once at most. *)
DeliverNotify(i) ==
    /\ i \in notes
    /\ notes' = notes \ {i}
    /\ permit' = TRUE
    /\ UNCHANGED <<latest, ver, held, loop, failures, drops>>

----------------------------------------------------------------------------
(* run_secondary: the serial of the zone that is served, then primary by    *)
(* primary until one answers.                                               *)
ReadCurrent ==
    /\ pc = "top"
    /\ current' = held /\ at' = 1 /\ pc' = "soa"
    /\ UNCHANGED <<world, held, got, permit, failures, drops>>

(* query_soa_serial: the primary answers; the answer travels. *)
SoaReply ==
    /\ pc = "soa"
    /\ pc' = "answer" /\ got' = ver[at]
    /\ UNCHANGED <<world, held, current, at, permit, failures, drops>>

SoaOutdated ==
    /\ pc = "answer"
    /\ Outdated(Serial(got))
    /\ pc' = "pull" /\ got' = Missing
    /\ UNCHANGED <<world, held, current, at, permit, failures, drops>>

SoaUpToDate ==
    /\ pc = "answer"
    /\ ~Outdated(Serial(got))
    /\ pc' = "sleep" /\ got' = Missing
    /\ UNCHANGED <<world, held, current, at, permit, failures, drops>>

(* On to the next primary, if there is one. *)
TryNext ==
    IF at < Len(Primaries) THEN pc' = "soa" /\ at' = at + 1
                           ELSE pc' = "sleep" /\ UNCHANGED at

(* A SOA query or a transfer is refused, breaks off or times out. *)
ExchangeFails ==
    /\ pc \in {"soa", "pull"}
    /\ failures < MaxFailures
    /\ failures' = failures + 1
    /\ TryNext
    /\ UNCHANGED <<world, held, current, got, permit, drops>>

(* axfr_pull: the zone the primary serves by now, and by then upsert_zone. *)
Transfer ==
    /\ pc = "pull"
    /\ pc' = "store" /\ got' = ver[at]
    /\ UNCHANGED <<world, held, current, at, permit, failures, drops>>

StoreZone ==
    /\ pc = "store"
    /\ held' = got
    /\ pc' = "sleep" /\ got' = Missing
    /\ UNCHANGED <<world, current, at, permit, failures, drops>>

WakeByTimer ==
    /\ pc = "sleep"
    /\ pc' = "top"
    /\ UNCHANGED <<world, held, current, at, got, permit, failures, drops>>

WakeByNotify ==
    /\ pc = "sleep" /\ permit
    /\ permit' = FALSE
    /\ pc' = "top"
    /\ UNCHANGED <<world, held, current, at, got, failures, drops>>

(* SIGHUP: set_zones with what is on disk, where no mirrored zone is. *)
Reload ==
    /\ drops < MaxDrops
    /\ drops' = drops + 1
    /\ held' = Missing
    /\ UNCHANGED <<world, loop, permit, failures>>

Restart ==
    /\ drops < MaxDrops
    /\ drops' = drops + 1
    /\ held' = Missing
    /\ pc' = "top" /\ current' = Missing /\ at' = 1 /\ got' = Missing
    /\ permit' = FALSE
    /\ UNCHANGED <<world, failures>>

Refresh ==
    \/ ReadCurrent \/ SoaReply \/ SoaOutdated \/ SoaUpToDate
    \/ Transfer \/ StoreZone \/ ExchangeFails

SecondaryNext ==
    \/ \E i \in Index : Publish(i) \/ CatchUp(i) \/ LoseNotify(i) \/ DeliverNotify(i)
    \/ Refresh \/ WakeByTimer \/ WakeByNotify
    \/ Reload \/ Restart

SecondarySpec == SecondaryInit /\ [][SecondaryNext]_secondaryVars

(***************************************************************************)
(* The task is run, its exchanges end (they have timeouts) and its sleep   *)
(* ends.  Nothing is assumed of the primaries or of NOTIFYs.               *)
(***************************************************************************)
SecondaryFairSpec == SecondarySpec /\ WF_secondaryVars(Refresh) /\ WF_secondaryVars(WakeByTimer)

----------------------------------------------------------------------------
Versions == 0..MaxVersion

SecondaryTypeOK ==
    /\ latest \in Versions
    /\ ver \in [Index -> 0..latest]
    /\ notes \subseteq Index
    /\ held \in 0..latest \cup {Missing}
    /\ current \in 0..latest \cup {Missing}
    /\ got \in 0..latest \cup {Missing}
    /\ pc \in {"top", "sleep"} \cup Refreshing
    /\ at \in Index
    /\ permit \in BOOLEAN
    /\ failures \in 0..MaxFailures /\ drops \in 0..MaxDrops

(***************************************************************************)
(* The mirrored zone never goes back to an older version, although the     *)
(* primaries are at different versions, the serial wraps, and the primary  *)
(* may change between the answer to the SOA query and the transfer         *)
(* (run_secondary compares with a serial it read before both).             *)
(***************************************************************************)
NeverRollsBack == [][held' # Missing => held' >= held]_secondaryVars

(***************************************************************************)
(* A NOTIFY is heeded also when it comes while a refresh is going on       *)
(* (Notify::notify_one stores a permit): as long as nothing fails, the     *)
(* loop does not sleep over a change of the first primary that it was told *)
(* of.                                                                     *)
(***************************************************************************)
NotifyHeeded ==
    failures = 0 /\ drops = 0 /\ pc = "sleep" /\ ~permit /\ 1 \notin notes
        => held >= ver[1]

(***************************************************************************)
(* With changes, failures and reloads behind it, the server ends up with a *)
(* zone at least as new as that of its first primary: the timer sees to    *)
(* that even if no NOTIFY ever arrives.                                    *)
(***************************************************************************)
FollowsFirstPrimary == <>[](held >= ver[1])

(***************************************************************************)
(* dns-xfr/src/lib.rs:413-414: "poll the primaries' SOA serial (or wake on *)
(* NOTIFY) and AXFR when the zone is missing or outdated".  A zone that is *)
(* older than what one of the primaries offers is then transferred.        *)
(***************************************************************************)
OutdatedIsTransferred == <>[](\A i \in Index : held >= ver[i])
=============================================================================
