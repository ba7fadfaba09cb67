---------------------------- MODULE CryptoAuthNet ----------------------------
(***************************************************************************)
(* The CryptoAuth sessions that two nodes keep for each other, over a      *)
(* network that loses, duplicates, delays, reorders and reflects packets:  *)
(* net holds every packet ever sent, and any node may receive any of them  *)
(* at any time.                                                            *)
(***************************************************************************)
EXTENDS CryptoAuthSession

CONSTANTS Peers,         \* the two nodes
          LowPeer,       \* the one whose permanent public key is lower
          Users,         \* Users[p]: p's list of authorised users
          RequireAuth,   \* the nodes whose session was made with requireAuth
          Credentials    \* the <<password, login>> that are given to setAuth

ASSUME NetAssumption == /\ \E p, q \in Peers : p # q /\ Peers = {p, q}
                        /\ LowPeer \in Peers
                        /\ RequireAuth \subseteq Peers

\* A list of users is a sequence.
ASSUME UsersAssumption ==
    \A p \in Peers : Len(Users[p]) \in Nat /\ DOMAIN Users[p] = 1 .. Len(Users[p])

VARIABLES session,    \* session[p]: p's session for the other node
          net,        \* the packets sent so far
          accepted,   \* history: accepted[p], the traffic packets that p has accepted
          twice       \* history: the ones that some node has accepted again

vars == <<session, net, accepted, twice>>

Init == /\ session = [p \in Peers |-> NewSession]
        /\ net = {}
        /\ accepted = [p \in Peers |-> {}]
        /\ twice = {}

\* Random_bytes never repeats a key.
UsedKeys == {m.temp : m \in net} \cup UNION {m.box : m \in net}

\* CryptoAuth_encrypt.
Encrypt(p) ==
    \E fresh \in IF NeedsKey(Prepared(session[p])) THEN Keys \ UsedKeys ELSE {NoKey} :
        LET s == Keyed(Prepared(session[p]), fresh)
        IN  /\ session' = [session EXCEPT ![p] = Advanced(s)]
            /\ net' = net \cup {Packet(s, p)}
            /\ UNCHANGED <<accepted, twice>>

\* CryptoAuth_decrypt of a hello or a key packet that is accepted.
DecryptHandshake(p, m) ==
    /\ TakesHandshake(session[p], p, Users[p], p \in RequireAuth, m)
    /\ session' = [session EXCEPT ![p] = AfterHandshake(@, m.from = LowPeer, m)]
    /\ UNCHANGED <<net, accepted, twice>>

\* CryptoAuth_decrypt of a traffic packet that is authentic.
DecryptTraffic(p, m) ==
    /\ IsTraffic(m)
    /\ TrafficOpens(session[p], m)
    /\ session' = [session EXCEPT ![p] = AfterTraffic(@, m)]
    /\ IF NonceOk(session[p].rp, m.nonce)
       THEN /\ twice' = twice \cup ({m} \cap accepted[p])
            /\ accepted' = [accepted EXCEPT ![p] = @ \cup {m}]
       ELSE UNCHANGED <<accepted, twice>>
    /\ UNCHANGED net

\* CryptoAuth_resetIfTimeout, as the interface and session layers call it.
ResetTimedOut(p) ==
    /\ session' = [session EXCEPT ![p] = ResetIfTimeout(@)]
    /\ UNCHANGED <<net, accepted, twice>>

\* CryptoAuth_reset.
ResetSession(p) ==
    /\ session' = [session EXCEPT ![p] = Reset(@)]
    /\ UNCHANGED <<net, accepted, twice>>

\* CryptoAuth_setAuth.
ChooseAuth(p) ==
    \E c \in Credentials :
        /\ session' = [session EXCEPT ![p] = SetAuth(@, c[1], c[2])]
        /\ UNCHANGED <<net, accepted, twice>>

\* Time passes without a traffic packet for p.
Tick(p) ==
    /\ session[p].idle < ResetAfter
    /\ session' = [session EXCEPT ![p].idle = @ + 1]
    /\ UNCHANGED <<net, accepted, twice>>

Next == \E p \in Peers :
            \/ Encrypt(p)
            \/ \E m \in net : DecryptHandshake(p, m) \/ DecryptTraffic(p, m)
            \/ ResetTimedOut(p)
            \/ ResetSession(p)
            \/ ChooseAuth(p)
            \/ Tick(p)

Spec == Init /\ [][Next]_vars

-----------------------------------------------------------------------------
Auths == [type : 0 .. 2, login : {None, NoKey} \cup {c[2] : c \in Credentials},
          password : {None, NoKey} \cup {c[1] : c \in Credentials}]

Sessions == [nextNonce : Nat, isInitiator : BOOLEAN, ourTemp : Keys \cup {NoKey},
             herTemp : Keys \cup {NoKey}, secret : SUBSET Keys, established : BOOLEAN,
             rp : Windows, idle : 0 .. ResetAfter, auth : Auths]

Packets == [from : Peers, nonce : Nat, temp : Keys \cup {NoKey}, auth : Auths,
            box : SUBSET Keys, initiator : BOOLEAN]

\* Sessions and packets are well formed.
TypeOK == /\ session \in [Peers -> Sessions]
          /\ net \subseteq Packets
          /\ accepted \in [Peers -> SUBSET net]
          /\ twice \subseteq net

\* What the code asserts at the top and the end of its handshake functions: it
\* knows her temporary key exactly from RECEIVED_HELLO on, it has one of its own
\* in every state but INIT and RECEIVED_HELLO, and a responder counts up from
\* SENT_KEY only once it is established.
StateAgrees ==
    \A p \in Peers :
        LET s == session[p]
        IN  /\ (s.nextNonce < RECEIVED_HELLO) <=> (s.herTemp = NoKey)
            /\ (s.nextNonce \in {INIT, RECEIVED_HELLO}) <=> (s.ourTemp = NoKey)
            /\ ~s.isInitiator /\ s.nextNonce > SENT_KEY => s.established

\* A session never sends or accepts traffic under a secret that is not the one of
\* its current pair of temporary keys, however often the pair has changed.
SecretAgrees ==
    \A p \in Peers :
        LET s == session[p]
        IN  s.nextNonce > RECEIVED_KEY => s.secret = {s.ourTemp, s.herTemp}

\* Two nodes that hold the same pair of temporary keys agree on who is the
\* initiator, so the two directions use disjoint nonces under the one secret.
RolesDiffer ==
    \A p, q \in Peers :
        /\ p # q
        /\ session[p].ourTemp # NoKey /\ session[p].herTemp # NoKey
        /\ session[p].ourTemp = session[q].herTemp
        /\ session[p].herTemp = session[q].ourTemp
        => session[p].isInitiator # session[q].isInitiator

\* The next traffic packet of a session is encrypted with a nonce that no packet
\* has used under the same secret in the same direction.
NonceIsFresh ==
    \A p \in Peers, m \in net :
        LET s == session[p]
        IN  /\ s.nextNonce >= RECEIVED_KEY
            /\ IsTraffic(m)
            /\ m.box = {s.ourTemp, s.herTemp}
            /\ m.initiator = s.isInitiator
            => m.nonce < s.nextNonce

\* No traffic packet is accepted twice by a node, across resets, timeouts,
\* rehandshakes and replays of old hello and key packets.
NoReplay == twice = {}

\* Traffic that a node accepts was sent by the other node, never its own.
AcceptedFromPeer == \A p \in Peers : \A m \in accepted[p] : m.from # p

\* The sessions give their users a channel in which every direction has one writer
\* and every message arrives at most once, whatever the network does and however
\* often the two ends start over.
Channel == INSTANCE SecureChannel
           WITH sent <- {m \in net : IsTraffic(m)}, delivered <- accepted, repeated <- twice

IsSecureChannel == Channel!Spec

\* A node whose session requires authentication takes a temporary key only from
\* a packet whose password is one of its users', from an address that the user
\* is not kept out of.
AuthEnforced ==
    \A p \in RequireAuth :
        session[p].herTemp # NoKey =>
            \E m \in net : /\ m.from # p
                           /\ m.temp = session[p].herTemp
                           /\ \E i \in DOMAIN Users[p] :
                                  /\ Users[p][i].password = m.auth.password
                                  /\ Users[p][i].ip6 \in {None, m.from}
=============================================================================
