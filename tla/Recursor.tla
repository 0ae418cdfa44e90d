------------------------------ MODULE Recursor ------------------------------
(***************************************************************************)
(* dns-resolver's Recursor: iterative resolution from the root, or from    *)
(* the deepest delegation that is cached, with QNAME minimization,         *)
(* bailiwick checks, CNAME chasing and resolution of name servers that     *)
(* came without glue.  resolve_depth calls itself, so a resolution is a    *)
(* stack of frames.  Servers answer anything at all.                       *)
(*                                                                         *)
(* A name is the sequence of its labels, the root being <<>>; the servers  *)
(* of a zone are named by the zone.                                        *)
(***************************************************************************)
EXTENDS Naturals, Sequences

CONSTANTS
    Names,           \* closed under suffixes
    Questions,       \* the <<name, type>> pairs asked
    NsLists,         \* the lists of NS names a referral may carry
    MaxReferrals,    \* MAX_REFERRALS
    MaxDepth,        \* MAX_DEPTH
    MaxNested        \* where the count of nested resolutions stops

Root == <<>>

ASSUME RecursorAssumption ==
    /\ Root \in Names /\ Names \subseteq Seq(STRING)
    /\ \A n \in Names : \A k \in 0..Len(n) : SubSeq(n, k + 1, Len(n)) \in Names
    /\ Questions \subseteq Names \X STRING
    /\ NsLists \subseteq Seq(Names) \ {<<>>}
    /\ {MaxReferrals, MaxDepth, MaxNested} \subseteq Nat

VARIABLES
    delegations,   \* zone cuts in the delegation cache, with the zone whose
                   \* servers the referral came from
    answers,       \* per question, the rcode of the answer cached, or NoAnswer
    stack,         \* the frames of the resolution under way, innermost last
    question,      \* what Recursor::resolve was asked
    outcome,       \* what the innermost frame returned, or NoOutcome
    nested         \* resolutions started by this one, up to MaxNested

recursionVars == <<delegations, answers, stack, question, outcome, nested>>

NoAnswer == "none"
NoOutcome == [rcode |-> "none", addrs |-> FALSE]
NoQuestion == <<Root, "none">>
Timeout == [rcode |-> "timeout", addrs |-> FALSE]
Rcodes == {"NOERROR", "NXDOMAIN", "SERVFAIL"}
Replies == [rcode : Rcodes, addrs : BOOLEAN]   \* addrs: it has A records

(* DnsName::ends_with *)
EndsWith(n, z) ==
    Len(n) >= Len(z) /\ SubSeq(n, Len(n) - Len(z) + 1, Len(n)) = z

(* suffix(): the last k labels of a name. *)
Last_(n, k) == IF k >= Len(n) THEN n ELSE SubSeq(n, Len(n) - k + 1, Len(n))

(***************************************************************************)
(* A frame of resolve_depth: the question, the zone whose servers are      *)
(* asked, zone_depth, whether names are still minimized, the referral      *)
(* loop's counter, and the referral whose NS names are being resolved.     *)
(***************************************************************************)
NewFrame(n, ty) ==
    [pc |-> "enter", name |-> n, type |-> ty, zone |-> Root, cut |-> 0,
     minimize |-> TRUE, hops |-> 0, ns |-> <<>>, owner |-> Root]

Depth == Len(stack) - 1
Top == stack[Len(stack)]
Replace(f) == stack' = [stack EXCEPT ![Len(stack)] = f]
Call(f, n, ty) == stack' = Append([stack EXCEPT ![Len(stack)] = f], NewFrame(n, ty))
Pop == stack' = SubSeq(stack, 1, Len(stack) - 1)
Return(r) ==
    /\ Pop
    /\ outcome' = r
Smaller(a, b) == IF a < b THEN a ELSE b
Larger(a, b) == IF a > b THEN a ELSE b

RecursionInit ==
    /\ delegations = {}
    /\ answers = [q \in Questions |-> NoAnswer]
    /\ stack = <<>>
    /\ question = NoQuestion
    /\ outcome = NoOutcome
    /\ nested = 0

Running == stack # <<>> /\ outcome = NoOutcome
At(pc) == Running /\ Top.pc = pc

----------------------------------------------------------------------------
(* Recursor::resolve; a hit in the answer cache changes nothing. *)
Resolve(q) ==
    /\ stack = <<>> /\ outcome = NoOutcome
    /\ answers[q] = NoAnswer
    /\ stack' = <<NewFrame(q[1], q[2])>>
    /\ question' = q
    /\ nested' = 0
    /\ UNCHANGED <<delegations, answers, outcome>>

(* The outermost frame has returned; a message is cached whatever it says. *)
Finish ==
    /\ stack = <<>> /\ outcome # NoOutcome
    /\ answers' = IF outcome = Timeout THEN answers
                  ELSE [answers EXCEPT ![question] = outcome.rcode]
    /\ outcome' = NoOutcome
    /\ question' = NoQuestion
    /\ nested' = 0
    /\ UNCHANGED <<delegations, stack>>

(* Cache entries expire. *)
ExpireDelegation ==
    /\ \E d \in delegations : delegations' = delegations \ {d}
    /\ UNCHANGED <<answers, stack, question, outcome, nested>>

ExpireAnswer(q) ==
    /\ answers[q] # NoAnswer
    /\ answers' = [answers EXCEPT ![q] = NoAnswer]
    /\ UNCHANGED <<delegations, stack, question, outcome, nested>>

(* cache_delegation: a later referral for the same zone replaces it. *)
CacheDelegation(z, by) ==
    delegations' = IF z = Root THEN delegations
                   ELSE {d \in delegations : d.zone # z} \cup {[zone |-> z, by |-> by]}

(* A concurrent resolution caches a cut, from an ancestor's referral. *)
Learn(z, by) ==
    /\ z # by /\ EndsWith(z, by)
    /\ CacheDelegation(z, by)
    /\ UNCHANGED <<answers, stack, question, outcome, nested>>

----------------------------------------------------------------------------
CachedStartAtName(f) ==
    LET known == {k \in 1..Len(f.name) : \E d \in delegations : d.zone = Last_(f.name, k)}
    IN  IF known = {} THEN {Root}
        ELSE {Last_(f.name, k) : k \in {k \in known : \A j \in known : j <= k}}

(* cached_start: the deepest cut above the name (the set of it alone), but *)
(* never the name itself for a DS, which its parent holds.                 *)
CachedStart(f) ==
    LET skip == IF f.type = "DS" THEN 1 ELSE 0
        known == {k \in 1..(Len(f.name) - skip) :
                     \E d \in delegations : d.zone = Last_(f.name, k)}
    IN  IF known = {} THEN {Root}
        ELSE {Last_(f.name, k) : k \in {k \in known : \A j \in known : j <= k}}

EnterUnbounded ==
    /\ At("enter")
    /\ \E z \in CachedStart(Top) :
           Replace([Top EXCEPT !.pc = "ask", !.zone = z, !.cut = Len(z)])
    /\ UNCHANGED <<delegations, answers, question, outcome, nested>>

Enter ==
    /\ At("enter")
    /\ IF Depth > MaxDepth
       THEN Return(Timeout) /\ UNCHANGED nested
       ELSE /\ \E z \in CachedStart(Top) :
                   Replace([Top EXCEPT !.pc = "ask", !.zone = z, !.cut = Len(z)])
            /\ nested' = IF Depth > 0 THEN Smaller(nested + 1, MaxNested) ELSE 0
            /\ UNCHANGED outcome
    /\ UNCHANGED <<delegations, answers, question>>

(* The name the next query reveals; Full when it is the whole name. *)
Keep(f) == IF f.minimize THEN Smaller(f.cut + 1, Len(f.name)) ELSE Len(f.name)
Full(f) == Keep(f) = Len(f.name)

Asking == At("ask") /\ Top.hops < MaxReferrals
Asked == [Top EXCEPT !.hops = @ + 1]

Exhausted ==
    /\ At("ask") /\ Top.hops = MaxReferrals
    /\ Return(Timeout)
    /\ UNCHANGED <<delegations, answers, question, nested>>

(* None of the servers answers. *)
NoReply ==
    /\ Asking
    /\ Return(Timeout)
    /\ UNCHANGED <<delegations, answers, question, nested>>

(* finalize: the reply is the result, with the rcode it came with.  It has *)
(* the records asked for, or neither an answer nor a referral.             *)
Finalize(r) ==
    /\ Asking /\ Full(Top)
    /\ Return(r)
    /\ UNCHANGED <<delegations, answers, question, nested>>

(* A CNAME alone: resolve its target one level deeper. *)
Alias(target) ==
    /\ Asking /\ Full(Top) /\ Top.type # "CNAME"
    /\ Call([Asked EXCEPT !.pc = "alias"], target, Top.type)
    /\ UNCHANGED <<delegations, answers, question, outcome, nested>>

ResumeAlias ==
    /\ stack # <<>> /\ outcome # NoOutcome /\ Top.pc = "alias"
    /\ Pop
    /\ UNCHANGED <<delegations, answers, question, outcome, nested>>

(* A minimized query met no cut: ask for the full name, or a label more. *)
MinimizedNxdomain ==
    /\ Asking /\ ~Full(Top)
    /\ Replace([Asked EXCEPT !.minimize = FALSE])
    /\ UNCHANGED <<delegations, answers, question, outcome, nested>>

MinimizedNodata ==
    /\ Asking /\ ~Full(Top)
    /\ Replace([Asked EXCEPT !.cut = @ + 1,
                             !.minimize = Top.cut + 1 < Len(Top.name)])
    /\ UNCHANGED <<delegations, answers, question, outcome, nested>>

----------------------------------------------------------------------------
(* A referral to the zone cut owner. *)
InBailiwickAnywhere(owner) == Len(owner) > Len(Top.zone)

InBailiwick(owner) == EndsWith(owner, Top.zone) /\ Len(owner) > Len(Top.zone)

AtDsParent(owner) == Top.type = "DS" /\ owner = Top.name

Followed(f, owner) ==
    [f EXCEPT !.pc = "ask", !.zone = owner, !.cut = Larger(Len(owner), @ + 1)]

(* The parent's referral is what a DS query is answered with. *)
DsReferral(owner, r) ==
    /\ Asking /\ AtDsParent(owner)
    /\ Return(r)
    /\ UNCHANGED <<delegations, answers, question, nested>>

(* Out of the zone asked, or not below it: not followed. *)
StrayReferral(owner, r) ==
    /\ Asking /\ ~AtDsParent(owner) /\ ~InBailiwick(owner)
    /\ IF Top.minimize /\ ~Full(Top)
       THEN Replace([Asked EXCEPT !.minimize = FALSE]) /\ UNCHANGED outcome
       ELSE Return(r)
    /\ UNCHANGED <<delegations, answers, question, nested>>

(* Glue for a name server in the bailiwick of the zone asked is trusted. *)
GluedReferral(owner, ns) ==
    /\ Asking /\ ~AtDsParent(owner) /\ InBailiwick(owner)
    /\ \E i \in DOMAIN ns : EndsWith(ns[i], Top.zone)
    /\ Replace(Followed(Asked, owner))
    /\ CacheDelegation(owner, Top.zone)
    /\ UNCHANGED <<answers, question, outcome, nested>>

(* Without usable glue the name servers are resolved, one by one. *)
GluelessReferral(owner, ns) ==
    /\ Asking /\ ~AtDsParent(owner) /\ InBailiwick(owner)
    /\ IF Depth >= MaxDepth
       THEN Return(Timeout)
       ELSE /\ Call([Asked EXCEPT !.pc = "addrs", !.ns = ns, !.owner = owner], ns[1], "A")
            /\ UNCHANGED outcome
    /\ UNCHANGED <<delegations, answers, question, nested>>

(* An NS name has an address: it is the server of the new zone. *)
NsFound ==
    /\ stack # <<>> /\ outcome # NoOutcome /\ Top.pc = "addrs" /\ outcome.addrs
    /\ Replace([Followed(Top, Top.owner) EXCEPT !.ns = <<>>, !.owner = Root])
    /\ CacheDelegation(Top.owner, Top.zone)
    /\ outcome' = NoOutcome
    /\ UNCHANGED <<answers, question, nested>>

NsMissingRetried ==
    /\ stack # <<>> /\ outcome # NoOutcome /\ Top.pc = "addrs" /\ ~outcome.addrs
    /\ Call(Top, Top.ns[1], "A")
    /\ outcome' = NoOutcome
    /\ UNCHANGED <<delegations, answers, question, nested>>

NsMissing ==
    /\ stack # <<>> /\ outcome # NoOutcome /\ Top.pc = "addrs" /\ ~outcome.addrs
    /\ IF Len(Top.ns) > 1
       THEN /\ Call([Top EXCEPT !.ns = Tail(@)], Top.ns[2], "A")
            /\ outcome' = NoOutcome
       ELSE Return(Timeout)
    /\ UNCHANGED <<delegations, answers, question, nested>>

Step ==
    \/ Enter \/ Exhausted \/ NoReply
    \/ \E r \in Replies : Finalize(r)
    \/ \E target \in Names : Alias(target)
    \/ ResumeAlias \/ MinimizedNxdomain \/ MinimizedNodata
    \/ \E owner \in Names, r \in Replies : DsReferral(owner, r) \/ StrayReferral(owner, r)
    \/ \E owner \in Names, ns \in NsLists :
           GluedReferral(owner, ns) \/ GluelessReferral(owner, ns)
    \/ NsFound \/ NsMissing
    \/ Finish

RecursionNext ==
    \/ \E q \in Questions : Resolve(q) \/ ExpireAnswer(q)
    \/ ExpireDelegation
    \/ \E z, by \in Names : Learn(z, by)
    \/ Step

RecursionSpec == RecursionInit /\ [][RecursionNext]_recursionVars

(* A resolution goes on: every exchange with a server has a timeout.  This *)
(* is weak fairness of Step for a stack that is not empty, which every     *)
(* such step changes and nothing else does.                                *)
RecursionFairSpec == RecursionSpec /\ ([]<>(stack = <<>>) \/ []<><<stack' # stack>>_recursionVars)

----------------------------------------------------------------------------
Cuts == [zone : Names \ {Root}, by : Names]

(* The stack is bounded by MAX_DEPTH: the call beyond it returns at once. *)
RecursionTypeOK ==
    /\ delegations \subseteq Cuts
    /\ \A q \in Questions : answers[q] \in Rcodes \cup {NoAnswer}
    /\ Len(stack) <= MaxDepth + 2
    /\ \A i \in DOMAIN stack : stack[i].hops <= MaxReferrals /\ stack[i].zone \in Names
    /\ nested \in 0..MaxNested

(***************************************************************************)
(* A DS query is never sent to the servers of the zone it is about: not    *)
(* after a referral to it, and not when an earlier resolution has left the *)
(* zone's own servers in the delegation cache (recursor.rs:73-76,151-152). *)
(***************************************************************************)
DsAskedAtParent ==
    \A i \in DOMAIN stack :
        stack[i].type = "DS" /\ stack[i].pc # "enter" /\ stack[i].name # Root
            => stack[i].zone # stack[i].name

(***************************************************************************)
(* The delegation cache holds only cuts that lie strictly below the zone   *)
(* whose servers announced them, whatever servers answer.                  *)
(***************************************************************************)
DelegationsInBailiwick ==
    \A d \in delegations : EndsWith(d.zone, d.by) /\ Len(d.zone) > Len(d.by)

(***************************************************************************)
(* Every resolution ends, whatever the servers answer: referral loops,     *)
(* CNAME loops and name servers that depend on each other included.        *)
(***************************************************************************)
EveryResolutionEnds == stack # <<>> ~> stack = <<>>

(***************************************************************************)
(* recursor.rs:23-24: MAX_DEPTH is a "hard bound on total nested           *)
(* resolutions (glueless NS + CNAME chase) per resolution".                *)
(***************************************************************************)
NestedBounded == nested <= MaxDepth

(***************************************************************************)
(* recursor.rs:119: "Cache positive/negative answers".  A failure that a   *)
(* server reports is neither.                                              *)
(***************************************************************************)
OnlyAnswersCached == \A q \in Questions : answers[q] # "SERVFAIL"
=============================================================================
