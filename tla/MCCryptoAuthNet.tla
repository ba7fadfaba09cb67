--------------------------- MODULE MCCryptoAuthNet ---------------------------
(* Instances of CryptoAuthNet for TLC. *)
EXTENDS CryptoAuthNet

CONSTANTS MaxNonce,     \* bound: nextNonce of a session
          MaxPackets,   \* bound: packets ever sent
          MaxOthers,    \* the same once other credentials than the agreed ones are presented
          MaxRefused,   \* bound: replays counted by one window
          P1, P2, P3,   \* passwords
          L1, L2,       \* logins
          Elsewhere,    \* the address of a third node
          Server        \* the node that has users

\* The server lets anyone in who knows P1; P2 may only come from elsewhere and P3 only from the client,
\* but as second user of a login P3 is only found by the password alone.
ServerUsers ==
    [p \in Peers |-> IF p # Server THEN <<>>
                    ELSE <<[login |-> L1, password |-> P1, ip6 |-> None],
                           [login |-> L2, password |-> P2, ip6 |-> Elsewhere],
                           [login |-> L2, password |-> P3, ip6 |-> CHOOSE q \in Peers : q # p]>>]

\* What a node presents: the user that both agreed on, a wrong password for a login, the passwords of
\* users who are bound to an address, with their login and alone, and none.
Agreed == <<P1, L1>>
AllCredentials == {Agreed, <<P2, L1>>, <<P2, L2>>, <<P3, L2>>,
                   <<P2, None>>, <<P3, None>>, <<None, None>>}

\* Nobody has presented anything but the agreed user.
OnlyAgreed == LET agreed == SetAuth(NewSession, P1, L1)
              IN  /\ \A p \in Peers : session[p].auth \in {NoAuth, agreed.auth}
                  /\ \A m \in net : ~IsTraffic(m) => m.auth \in {Challenge(NewSession), Challenge(agreed)}

\* The state constraint.  What else may be presented is presented by the client, and with fewer packets.
Bounded == /\ IF OnlyAgreed THEN Cardinality(net) <= MaxPackets
              ELSE Cardinality(net) <= MaxOthers /\ session[Server].auth = NoAuth
           /\ \A p \in Peers :
                  /\ session[p].nextNonce <= MaxNonce
                  /\ session[p].rp.duplicates + session[p].rp.outOfRange <= MaxRefused

KeySymmetry == Permutations(Keys)
=============================================================================
