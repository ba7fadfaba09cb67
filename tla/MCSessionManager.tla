--------------------------- MODULE MCSessionManager ---------------------------
(* Instances of SessionManager for TLC. *)
EXTENDS SessionManager

\* The state constraint.
Bounded == map.nextHandle <= MaxHandles

Symmetry == Permutations(Addresses) \cup Permutations(Labels)
=============================================================================
