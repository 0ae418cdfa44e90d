---------------------------- MODULE MCSecondary ----------------------------
(* Two primaries, and a serial space of six that wraps. *)
EXTENDS Secondary

CONSTANTS p1, p2

TwoPrimaries == <<p1, p2>>
=============================================================================
