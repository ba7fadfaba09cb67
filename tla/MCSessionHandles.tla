--------------------------- MODULE MCSessionHandles ---------------------------
(* An instance of SessionHandles for TLC. *)
EXTENDS SessionHandles

CONSTANTS MaxNonce,      \* bound: nextNonce of a session
          MaxPackets,    \* bound: packets ever sent
          MaxSessions,   \* bound: sessions that a manager makes
          MaxRefused     \* bound: replays counted by one window

\* The state constraint of every run.
Bounded == /\ Cardinality(net) <= MaxPackets
           /\ \A p \in Peers :
                  /\ manager[p].nextHandle <= MaxSessions
                  /\ manager[p].ca.nextNonce <= MaxNonce
                  /\ manager[p].ca.rp.duplicates + manager[p].ca.rp.outOfRange <= MaxRefused

KeySymmetry == Permutations(Keys)
=============================================================================
