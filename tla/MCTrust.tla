------------------------------ MODULE MCTrust ------------------------------
(***************************************************************************)
(* Three labels under the root, every way to cut them into zones, to sign  *)
(* the zones and to delegate them securely, and the three forms of denial. *)
(***************************************************************************)
EXTENDS Trust

MCNames == {<<>>, <<"a">>, <<"b", "a">>, <<"c", "b", "a">>}

MCWorlds ==
    {w \in [zones : {z \cup {<<>>} : z \in SUBSET (MCNames \ {<<>>})},
            signed : SUBSET MCNames,
            ds : SUBSET (MCNames \ {<<>>}),
            denial : {"nsec", "nsec3", "optout"}] :
        /\ w.ds \subseteq w.signed
        /\ w.signed \subseteq w.zones
        /\ <<>> \in w.signed
        /\ w.denial # "nsec" => w.zones = MCNames}

MCHash == [n \in MCNames |-> CASE n = <<>> -> 2 [] n = <<"a">> -> 1
                               [] n = <<"b", "a">> -> 4 [] OTHER -> 3]

RootAnchor == <<[zone |-> <<>>, key |-> Ksk(<<>>, 0)]>>

(* The root's old and new key, as they are published during its rollover. *)
RootAnchors == RootAnchor \o <<[zone |-> <<>>, key |-> Ksk(<<>>, 1)]>>
RootRolling == {<<>>}

(* The rrsets of an answer: without signatures, with a good one of the     *)
(* zone, a bad one, or both.                                               *)
Rrsets(z) ==
    {[zone |-> z, sigs |-> s] : s \in {<<>>, <<Good(z)>>, <<Bad(z)>>, <<Bad(z), Good(z)>>}}

(* ... and with a signature that names another zone. *)
OtherRrsets(z) ==
    {[zone |-> z, sigs |-> s] :
        s \in UNION {{<<Good(n)>>, <<Bad(n)>>, <<Bad(z), Good(n)>>, <<Bad(z), Bad(n)>>} :
                        n \in {<<"a">>, <<"c", "b", "a">>}}}

(* Answers with one rrset, and CNAME chains across two zones; in the       *)
(* second set the zone that is too deep for MaxDepth comes first.          *)
MCSections ==
    {<<r>> : r \in UNION {Rrsets(z) : z \in MCNames}} \cup
    {<<r>> : r \in OtherRrsets(<<"b", "a">>)} \cup
    {<<r, s>> : r \in Rrsets(<<"a">>), s \in Rrsets(<<"b", "a">>)}

DeepSections == {<<r, s>> : r \in Rrsets(<<"c", "b", "a">>), s \in Rrsets(<<"a">>)}

MCRolling == {<<"b", "a">>}
=============================================================================
