----------------------------- MODULE MCPeerTable -----------------------------
(* Instances of PeerTable for TLC. *)
EXTENDS PeerTable, TLC

Symmetry == Permutations(Peers) \cup Permutations(Keys) \cup Permutations(Addrs)
=============================================================================
