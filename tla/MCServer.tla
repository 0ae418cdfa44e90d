----------------------------- MODULE MCServer -----------------------------
(***************************************************************************)
(* One client with an address that may use recursion and one that may not  *)
(* and is in a view.  The clock starts shortly before it wraps around.     *)
(* The peers that ask for transfers are one that has the key, one with an  *)
(* earlier secret, one with another key, one that does not sign and one    *)
(* with the key at an address that is not in the ACL.                      *)
(***************************************************************************)
EXTENDS Server, TLC

MCHome == [c \in Clients |-> "in"]

MCAddressOf ==
    [ip \in {"in", "out", "sec"} |->
        CASE ip = "in" -> [family |-> "v4", bits |-> 1]
          [] ip = "out" -> [family |-> "v4", bits |-> 2]
          [] OTHER -> [family |-> "v6", bits |-> 2]]
Net(family, bits, prefix) == [family |-> family, bits |-> bits, prefix |-> prefix]
MCAllowed == {Net("v4", 0, 1)}
MCTransferAcl == {Net("v6", 2, 3), Net("v6", 4, 1)}

Data(type, size, offsite) == [type |-> type, size |-> size, offsite |-> offsite]

Example == <<"example", "com">>
Www == <<"www", "example", "com">>
Big == <<"big", "example", "com">>
Alias == <<"alias", "example", "com">>
Ext == <<"ext", "org">>
Bad == <<"bad", "org">>

ExampleZone(view) ==
    [origin |-> Example, view |-> view,
     data |-> (Www :> Data("A", 1, NoName)) @@ (Big :> Data("TXT", 3, NoName))
              @@ (Alias :> Data("CNAME", 1, Ext))]
InnerZone(view) == [origin |-> Www, view |-> view, data |-> Www :> Data("A", 1, NoName)]

MCZones == {ExampleZone("default")}
MCViews == <<[acl |-> {Net("v6", 0, 0), Net("v4", 3, 1)}, zones |-> {InnerZone("inside")}]>>
SignedViews == <<[acl |-> {Net("v6", 0, 0), Net("v4", 3, 1)}, zones |-> {ExampleZone("inside")}]>>

MCSigned == {Example}
MCFirstPolicy == Bad :> "block"
MCPolicies == {Ext :> "block", <<"org">> :> "A"}
AliasPolicy == Ext :> "block"

Query(name) ==
    [parses |-> TRUE, opcode |-> "QUERY", questions |-> 1, class |-> "IN", name |-> name,
     qtype |-> "A", rd |-> TRUE, edns |-> TRUE, version |-> 0, do |-> FALSE, payload |-> 2]

(* One message for each way through the server. *)
MCAsks ==
    [www |-> Query(Www), alias |-> Query(Alias), ext |-> Query(Ext),
     bad |-> Query(Bad), gone |-> Query(<<"no", "example", "com">>),
     big |-> [Query(Big) EXCEPT !.do = TRUE, !.qtype = "TXT"],
     nodata |-> [Query(Www) EXCEPT !.qtype = "AAAA"],
     plain |-> [Query(Ext) EXCEPT !.edns = FALSE],
     iterate |-> [Query(Ext) EXCEPT !.rd = FALSE],
     edns1 |-> [Query(Ext) EXCEPT !.version = 1],
     notify |-> [Query(Example) EXCEPT !.opcode = "NOTIFY"],
     junk |-> [Query(Ext) EXCEPT !.parses = FALSE],
     version |-> [Query(<<"version", "bind">>) EXCEPT !.class = "CH", !.qtype = "TXT"]]

Peer(addr, k, s, skew) == [addr |-> addr, key |-> k, secret |-> s, skew |-> skew]
MCPeers == {Peer("sec", "k", "s", -1), Peer("sec", "k", "former", 0), Peer("sec", "k2", "s2", 0),
            Peer("sec", "none", "none", 0), Peer("out", "k", "s", 0)}
MCUpdaters == {Peer("sec", "k", "s", -1), Peer("out", "k", "s", 0)}
MCIncremental == {Peer("sec", "k", "s", -1)}
MCKeyRing == [k |-> "s", k2 |-> "s2"]
MCFirstRecords == {<<"NS", "ns">>, <<"A", "a">>}
MCHashOrder == <<<<"NS", "ns">>, <<"A", "b">>, <<"A", "a">>>>
MCUpdates ==
    <<[add |-> {<<"A", "b">>}, delete |-> {<<"A", "a">>}], [add |-> {<<"A", "a">>}, delete |-> {}]>>
EmptyingUpdates ==
    <<[add |-> {}, delete |-> {<<"NS", "ns">>}], [add |-> {}, delete |-> {<<"A", "a">>}]>>
=============================================================================
