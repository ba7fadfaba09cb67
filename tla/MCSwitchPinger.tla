---------------------------- MODULE MCSwitchPinger ----------------------------
(* Instances of SwitchPinger for TLC. *)
EXTENDS SwitchPinger

CONSTANTS L1, L2

\* Two nodes of different versions.
Versions == [l \in Labels |-> IF l = L1 THEN 1 ELSE 2]
=============================================================================
