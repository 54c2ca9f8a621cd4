---------------------------- MODULE MCValSetInfo ----------------------------
(* ValSetInfo and NeutAPI instantiated for TLC. *)
EXTENDS NeutAPI

CONSTANTS v1, v2

MCFixedAddrs == <<v1, v2>>

=============================================================================
