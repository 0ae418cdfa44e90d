------------------------------ MODULE Server ------------------------------
(***************************************************************************)
(* The server as its peers see it: queries (FrontEnd) and transfers and    *)
(* updates (Transfers).  serve_stream and the UDP workers send a message   *)
(* to the one or the other; neither changes what the other one reads, for  *)
(* a lookup and a transfer each work on a snapshot of the zones, and the   *)
(* queries here are of zones that stay as they are.  So every behaviour of *)
(* the two together is one of each, and a behaviour in which only one of   *)
(* them is busy is enough to see what it can do.                           *)
(***************************************************************************)
EXTENDS FrontEnd, Transfers

VARIABLE busy   \* "queries" or "transfers"

vars == <<frontVars, transferVars, busy>>

(* The idle part is in one of its initial states. *)
Init ==
    /\ FrontInit /\ TransferInit
    /\ \/ busy = "queries" /\ requireTsig = "none"
       \/ busy = "transfers" /\ ~requireCookie

Next ==
    \/ busy = "queries" /\ FrontNext /\ UNCHANGED <<transferVars, busy>>
    \/ busy = "transfers" /\ TransferNext /\ UNCHANGED <<frontVars, busy>>

(* Types, see FrontTypeOK and TransferTypeOK. *)
TypeOK == FrontTypeOK /\ TransferTypeOK

Spec == Init /\ [][Next]_vars
FairSpec == Spec /\ FrontFairness
============================================================================
