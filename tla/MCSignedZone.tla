--------------------------- MODULE MCSignedZone ---------------------------
EXTENDS SignedZone

MCOrigin == <<"o">>
Sub == <<"a", "o">>
Deep == <<"b", "a", "o">>
Star == <<"*", "o">>
Off == <<"p">>
Edited == {MCOrigin, Sub, Deep, Star}

Replace(n, rrs) == [change |-> "REPLACE", name |-> n, type |-> rrs[1].type, rrs |-> rrs]
Delete(n, t) == [change |-> "DELETE", name |-> n, type |-> t, rrs |-> <<>>]

MCPatches ==
    {<<Replace(n, <<r>>)>> : n \in Edited, r \in {A(1), Cname(Sub)}}
    \cup {<<Delete(n, t)>> : n \in Edited, t \in {"A", "CNAME", "SOA"}}
    \cup {<<Replace(Sub, <<A(1), A(2)>>)>>,
          <<Replace(Sub, <<Cname(Deep)>>), Replace(Deep, <<Cname(Off)>>)>>,
          <<Delete(Sub, "A"), Replace(Sub, <<Cname(Deep)>>)>>,
          <<Replace(Deep, <<A(1)>>), Replace(Off, <<A(1)>>)>>,
          <<Replace(MCOrigin, <<Soa(0)>>)>>}

Item(c, n, r) == [class |-> c, name |-> n, rr |-> r]
AnyType == [type |-> "ANY", target |-> <<>>, value |-> 0]
Do(us) == [prereqs |-> <<>>, updates |-> us]

(* Updates of the SOA itself are left out: see the README. *)
MCUpdates ==
    {Do(<<Item("IN", n, r)>>) : n \in Edited, r \in {A(1), Cname(Deep)}}
    \cup {Do(<<Item("ANY", n, AnyType)>>) : n \in Edited}
    \cup {Do(<<Item("NONE", n, A(1))>>) : n \in Edited}
    \cup {Do(<<Item("IN", MCOrigin, NS(1))>>),
          Do(<<Item("ANY", MCOrigin, Soa(0))>>),
          Do(<<Item("ANY", Deep, Cname(Off))>>),
          Do(<<Item("ANY", Sub, AnyType), Item("IN", Sub, Cname(Off))>>),
          Do(<<Item("IN", Deep, A(2)), Item("CH", Deep, A(1))>>)}
    \cup {[prereqs |-> <<Item(c, Sub, r)>>, updates |-> <<Item("IN", Deep, A(2))>>] :
             c \in {"ANY", "NONE", "IN", "CH"}, r \in {A(1), AnyType}}

(* An update that adds a second SOA. *)
SoaUpdates == {Do(<<Item("IN", MCOrigin, Soa(1))>>)}

MCQNames == Edited \cup {<<"c", "o">>, <<"d", "b", "a", "o">>}
MCQTypes == {"A", "SOA", "ANY", "DNSKEY", "NSEC3PARAM"}

MCLabelRank == [l \in {"*", "a", "b", "c", "d", "o"} |->
    CASE l = "*" -> 0 [] l = "a" -> 1 [] l = "b" -> 2 [] l = "c" -> 3 [] l = "d" -> 4 [] l = "o" -> 5]

(* Every name that is ever hashed, in some order; the hashes are other     *)
(* orders of them.                                                         *)
Below == {Skip(n, k) : n \in MCQNames, k \in 0..2} \ {<<>>}
Hashed == Below \cup {<<"*">> \o n : n \in Below}
HashWith(f(_)) ==
    [n \in Hashed |-> f(Cardinality({m \in Hashed : CanonLess(m, n)}))]

MCConfigs ==
    {Nsec,
     [iterations |-> 2, hash |-> HashWith(LAMBDA i : 20 - i)],
     [iterations |-> 1, hash |-> HashWith(LAMBDA i : (12 * i) % 29)]}
=============================================================================
