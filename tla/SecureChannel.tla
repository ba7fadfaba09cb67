---------------------------- MODULE SecureChannel ----------------------------
(***************************************************************************)
(* What the two ends of a CryptoAuth session may take for granted.  A      *)
(* message belongs to a conversation (its secret, box) and to one of the   *)
(* conversation's two directions (initiator).  Each direction has one      *)
(* writer, who numbers its messages upwards and never uses a number again; *)
(* a message reaches only the other end, at most once, in any order or     *)
(* never.                                                                  *)
(***************************************************************************)
EXTENDS Integers

CONSTANT Peers

VARIABLES sent,        \* the messages sent so far
          delivered,   \* delivered[p]: the messages that p has received
          repeated     \* the messages that somebody has received again

vars == <<sent, delivered, repeated>>

Init == sent = {} /\ delivered = [p \in Peers |-> {}] /\ repeated = {}

\* m may follow k.
Follows(m, k) == k.box = m.box => IF k.initiator = m.initiator
                                  THEN k.from = m.from /\ k.nonce < m.nonce
                                  ELSE k.from # m.from

Send == \E m \in sent' \ sent :
            /\ \A k \in sent : Follows(m, k)
            /\ sent' = sent \cup {m}
            /\ UNCHANGED <<delivered, repeated>>

Deliver == \E p \in Peers : \E m \in sent \ delivered[p] :
               /\ m.from # p
               /\ delivered' = [delivered EXCEPT ![p] = @ \cup {m}]
               /\ UNCHANGED <<sent, repeated>>

Next == Send \/ Deliver

Spec == Init /\ [][Next]_vars
=============================================================================
