-------------------------------- MODULE Acl --------------------------------
(***************************************************************************)
(* The allowlists of dns-guard: a list of networks, each with the number   *)
(* of leading bits that count.  The empty list allows nobody, a prefix of  *)
(* zero everybody of its family.                                           *)
(***************************************************************************)
EXTENDS Integers

CONSTANT AddressOf   \* a function from addresses to [family, bits]

Width(family) == IF family = "v4" THEN 2 ELSE 3    \* 32 and 128 bits in the code

(* The bits that prefix_mask_u32 and prefix_mask_u128 leave. *)
Masked(bits, prefix, width) == (bits \div 2^(width - prefix)) * 2^(width - prefix)

CidrContains(net, address) ==
    /\ net.family = address.family
    /\ Masked(net.bits, net.prefix, Width(net.family))
          = Masked(address.bits, net.prefix, Width(net.family))

IsAllowed(acl, ip) == \E net \in acl : CidrContains(net, AddressOf[ip])
=============================================================================
