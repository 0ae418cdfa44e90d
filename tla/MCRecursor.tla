----------------------------- MODULE MCRecursor -----------------------------
(* A zone tree three labels deep, with a branch. *)
EXTENDS Recursor

com == <<"com">>
ex == <<"ex", "com">>
ns == <<"ns", "ex", "com">>
net == <<"net">>

MCNames == {Root, com, ex, ns, net}
DsQuestion == {<<ex, "DS">>}
MCQuestions == {<<ex, "A">>, <<ex, "DS">>}
OneNs == {<<ex>>, <<net>>}
TwoNs == {<<ns, net>>}

(* Two labels, and name servers that depend on the zone they serve. *)
SmallNames == {Root, com, ex, net}
SmallNs == {<<ex, net>>}
=============================================================================
