-------------------------- MODULE MCGossipBackend --------------------------
(* GossipBackend instantiated for TLC. *)
EXTENDS GossipBackend, TLC

\* Tasks and addresses are only ever compared for equality.
Symmetry == Permutations(Tasks) \cup Permutations(Addrs)

=============================================================================
