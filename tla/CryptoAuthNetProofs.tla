------------------------- MODULE CryptoAuthNetProofs -------------------------
(***************************************************************************)
(* Proofs about two CryptoAuth sessions on an unreliable network, for any  *)
(* number of temporary keys, packets, resets and timeouts, any nonce limit *)
(* and any size of the replay window.                                      *)
(*                                                                         *)
(* The argument rests on the life of a temporary key: it is announced in   *)
(* hellos only or in key packets only, and by one node only, so it carries *)
(* the role of its owner; while its owner holds it the counter only grows, *)
(* and once the owner has dropped it it never comes back.                  *)
(***************************************************************************)
EXTENDS CryptoAuthNet, UserTable, ReplayProtectorProofs, WellFoundedInduction

\* The states of a session: which keys, role and secret go with which nextNonce.
Shape(s) ==
    /\ (s.nextNonce < RECEIVED_HELLO) <=> (s.herTemp = NoKey)
    /\ (s.nextNonce \in {INIT, RECEIVED_HELLO}) <=> (s.ourTemp = NoKey)
    /\ s.isInitiator => s.nextNonce \notin {INIT, RECEIVED_HELLO, SENT_KEY}
    /\ s.nextNonce = SENT_HELLO => s.isInitiator
    /\ ~s.isInitiator /\ s.nextNonce > SENT_KEY => s.established
    /\ s.established => s.nextNonce > RECEIVED_KEY
    /\ s.nextNonce > RECEIVED_KEY => s.secret = {s.ourTemp, s.herTemp}

\* The session's own key was announced by p in a packet of its role.
OwnKeySent(p, s, N) ==
    s.ourTemp # NoKey => \E h \in N : /\ h.from = p /\ h.nonce < 4
                                      /\ h.temp = s.ourTemp
                                      /\ IsHello(h) <=> s.isInitiator

\* Her key was announced by the other node in a packet of the other role.
HerKeySent(p, s, N) ==
    s.herTemp # NoKey => \E h \in N : /\ h.from # p /\ h.nonce < 4
                                      /\ h.temp = s.herTemp
                                      /\ IsHello(h) <=> ~s.isInitiator

\* All traffic of p under its current key was sent with lower nonces.
CounterAhead(p, s, N) ==
    \A m \in N : m.from = p /\ m.nonce >= 4 /\ s.ourTemp \in m.box => m.nonce < s.nextNonce

\* All traffic accepted under the current key is filed in the window.
AcceptedFiled(s, acc) ==
    \A m \in acc : s.ourTemp \in m.box =>
                       /\ s.established
                       /\ m.nonce < s.rp.base \/ m.nonce \in s.rp.seen

SessionInv(p, s, N, acc) ==
    /\ s \in Sessions
    /\ InField(s.rp)
    /\ Shape(s)
    /\ OwnKeySent(p, s, N)
    /\ HerKeySent(p, s, N)
    /\ CounterAhead(p, s, N)
    /\ AcceptedFiled(s, acc)

\* A handshake packet carries a key, and a key is announced by one node in one role.
KeysHaveOwners(N) ==
    /\ \A m \in N : m.nonce < 4 => m.temp \in Keys
    /\ \A m, h \in N : /\ m.nonce < 4 /\ h.nonce < 4 /\ m.temp = h.temp
                       => m.from = h.from /\ (IsHello(m) <=> IsHello(h))

\* Traffic is boxed with a key of its sender, in the role that its nonce slot says,
\* and a key of the other node, in the other role.
TrafficBoxed(N) ==
    \A m \in N : m.nonce >= 4 =>
        \E h, g \in N : /\ h.nonce < 4 /\ g.nonce < 4
                        /\ h.from = m.from /\ g.from # m.from
                        /\ m.box = {h.temp, g.temp}
                        /\ IsHello(h) <=> m.initiator
                        /\ IsHello(g) <=> ~m.initiator

NetInv(N) == N \subseteq Packets /\ KeysHaveOwners(N) /\ TrafficBoxed(N)

FromPeer(p, acc) == \A m \in acc : m.from # p

IndInv == /\ NetInv(net)
          /\ session \in [Peers -> Sessions]
          /\ accepted \in [Peers -> SUBSET net]
          /\ \A p \in Peers : SessionInv(p, session[p], net, accepted[p])
          /\ \A p \in Peers : FromPeer(p, accepted[p])
          /\ twice = {}

USE DEF INIT, SENT_HELLO, RECEIVED_HELLO, SENT_KEY, RECEIVED_KEY, IsHello, IsKey, IsTraffic

-----------------------------------------------------------------------------
\* The window that memset leaves.
LEMMA EmptyWindowOK == EmptyWindow \in Windows /\ InField(EmptyWindow)
  BY DEF EmptyWindow, Windows, InField

\* reset() restores the invariant of a session whatever it was.
LEMMA ResetInv ==
    ASSUME NEW p \in Peers, NEW s \in Sessions, NEW N, NEW acc, NetInv(N), acc \subseteq N
    PROVE  SessionInv(p, Reset(s), N, acc)
<1>1. Reset(s) \in Sessions /\ InField(Reset(s).rp)
  BY EmptyWindowOK DEF Reset, Sessions
<1>2. /\ Reset(s).ourTemp = NoKey /\ Reset(s).herTemp = NoKey
      /\ Reset(s).nextNonce = 0 /\ ~Reset(s).isInitiator /\ ~Reset(s).established
  BY DEF Reset, Sessions
<1>3. \A m \in N : NoKey \notin m.box
  BY SessionAssumption DEF NetInv, Packets
<1>4. Shape(Reset(s))
  BY <1>2 DEF Shape
<1>5. OwnKeySent(p, Reset(s), N) /\ HerKeySent(p, Reset(s), N)
  BY <1>2 DEF OwnKeySent, HerKeySent
<1>6. CounterAhead(p, Reset(s), N) /\ AcceptedFiled(Reset(s), acc)
  BY <1>2, <1>3 DEF CounterAhead, AcceptedFiled
<1> QED  BY <1>1, <1>4, <1>5, <1>6 DEF SessionInv

\* Only idle and auth differ: the invariant does not look at them.
LEMMA SameCoreInv ==
    ASSUME NEW p, NEW s, NEW t \in Sessions, NEW N, NEW acc, SessionInv(p, s, N, acc),
           t.nextNonce = s.nextNonce, t.isInitiator = s.isInitiator,
           t.ourTemp = s.ourTemp, t.herTemp = s.herTemp, t.secret = s.secret,
           t.established = s.established, t.rp = s.rp
    PROVE  SessionInv(p, t, N, acc)
  BY DEF SessionInv, Shape, OwnKeySent, HerKeySent, CounterAhead, AcceptedFiled

\* resetIfTimeout() preserves the invariant of a session.
LEMMA TimeoutInv ==
    ASSUME NEW p \in Peers, NEW s, NEW N, NEW acc, NetInv(N), acc \subseteq N,
           SessionInv(p, s, N, acc)
    PROVE  SessionInv(p, ResetIfTimeout(s), N, acc)
<1>1. s \in Sessions
  BY DEF SessionInv
<1>2. SessionInv(p, Reset(s), N, acc)
  BY <1>1, ResetInv
<1>3. [Reset(s) EXCEPT !.idle = 0] \in Sessions
  BY <1>2, SessionAssumption DEF SessionInv, Sessions
<1>4. SessionInv(p, [Reset(s) EXCEPT !.idle = 0], N, acc)
  <2> DEFINE r == Reset(s)
  <2>1. r \in Sessions
    BY <1>2 DEF SessionInv
  <2> HIDE DEF r
  <2>2. SessionInv(p, [r EXCEPT !.idle = 0], N, acc)
    BY <1>2, <1>3, <2>1, SameCoreInv DEF Sessions, r
  <2> QED  BY <2>2 DEF r
<1> QED  BY <1>4 DEF ResetIfTimeout

\* So does everything that encrypt does before it chooses a packet.
LEMMA PreparedInv ==
    ASSUME NEW p \in Peers, NEW s, NEW N, NEW acc, NetInv(N), acc \subseteq N,
           SessionInv(p, s, N, acc)
    PROVE  SessionInv(p, Prepared(s), N, acc)
<1>1. SessionInv(p, ResetIfTimeout(s), N, acc)
  BY TimeoutInv
<1>2. SessionInv(p, Reset(ResetIfTimeout(s)), N, acc)
  BY <1>1, ResetInv DEF SessionInv
<1> QED  BY <1>1, <1>2 DEF Prepared

\* A packet of another node does not disturb a session.
LEMMA OtherSends ==
    ASSUME NEW q, NEW s, NEW N, NEW acc, NEW m, SessionInv(q, s, N, acc), m.from # q
    PROVE  SessionInv(q, s, N \cup {m}, acc)
  BY DEF SessionInv, OwnKeySent, HerKeySent, CounterAhead

\* A challenge is well typed.
LEMMA ChallengeType ==
    ASSUME NEW s \in Sessions
    PROVE  Challenge(s) \in Auths /\ NoAuth \in Auths
  BY DEF Challenge, NoAuth, Sessions, Auths

\* A handshake packet with the session's own key keeps the network's invariant: the
\* key is either new or was announced by the same node in the same role.
LEMMA HandshakeSent ==
    ASSUME NEW N, NetInv(N), NEW m \in Packets, m.nonce < 4, m.temp \in Keys,
           \/ \A h \in N : h.temp # m.temp
           \/ \E h \in N : /\ h.from = m.from /\ h.nonce < 4 /\ h.temp = m.temp
                           /\ IsHello(h) <=> IsHello(m)
    PROVE  NetInv(N \cup {m})
<1> DEFINE M == N \cup {m}
<1>1. M \subseteq Packets
  BY DEF NetInv
<1>2. \A a \in M : a.nonce < 4 => a.temp \in Keys
  BY DEF NetInv, KeysHaveOwners
<1>3. \A h \in N : h.nonce < 4 /\ h.temp = m.temp => h.from = m.from /\ (IsHello(h) <=> IsHello(m))
  BY DEF NetInv, KeysHaveOwners
<1>4. KeysHaveOwners(M)
  BY <1>2, <1>3 DEF NetInv, KeysHaveOwners
<1>5. TrafficBoxed(M)
  <2> SUFFICES ASSUME NEW a \in M, a.nonce >= 4
               PROVE  \E h, g \in M : /\ h.nonce < 4 /\ g.nonce < 4
                                      /\ h.from = a.from /\ g.from # a.from
                                      /\ a.box = {h.temp, g.temp}
                                      /\ IsHello(h) <=> a.initiator
                                      /\ IsHello(g) <=> ~a.initiator
    BY DEF TrafficBoxed
  <2>1. a \in N
    BY DEF Packets
  <2> QED  BY <2>1 DEF NetInv, TrafficBoxed
<1> QED  BY <1>1, <1>4, <1>5 DEF NetInv

\* Sending a hello.
LEMMA HelloSent ==
    ASSUME NEW p \in Peers, NEW s, NEW N, NEW acc, NetInv(N), acc \subseteq N,
           SessionInv(p, s, N, acc), s.nextNonce \in {0, 1},
           NEW k, s.nextNonce = 0 => k \in Keys,
           s.nextNonce = 0 => \A m \in N : k # m.temp /\ k \notin m.box,
           s.nextNonce = 1 => k = s.ourTemp,
           NEW t \in Sessions, t.ourTemp = k, t.nextNonce = 1, t.isInitiator,
           t.herTemp = s.herTemp, t.established = s.established, t.rp = s.rp,
           NEW m \in Packets, m.from = p, m.nonce = s.nextNonce, m.temp = k
    PROVE  SessionInv(p, t, N \cup {m}, acc) /\ NetInv(N \cup {m})
<1>0. s \in Sessions /\ Shape(s)
  BY DEF SessionInv
<1>1. /\ t.ourTemp = k /\ t.herTemp = NoKey /\ t.nextNonce = 1 /\ t.isInitiator
      /\ t.rp = s.rp /\ ~t.established /\ k \in Keys
  BY <1>0 DEF Sessions, Shape
<1>2. NetInv(N \cup {m})
  <2>1. CASE s.nextNonce = 0
    BY <1>1, <2>1, HandshakeSent
  <2>2. CASE s.nextNonce = 1
    <3>1. \E h \in N : h.from = p /\ h.nonce < 4 /\ h.temp = k /\ (IsHello(h) <=> s.isInitiator)
      BY <1>0, <1>1, <2>2, SessionAssumption DEF SessionInv, OwnKeySent, Shape
    <3> QED  BY <1>0, <1>1, <2>2, <3>1, HandshakeSent DEF Shape
  <2> QED  BY <2>1, <2>2
<1>3. Shape(t)
  BY <1>0, <1>1, SessionAssumption DEF Shape
<1>4. OwnKeySent(p, t, N \cup {m}) /\ HerKeySent(p, t, N \cup {m})
  BY <1>1 DEF OwnKeySent, HerKeySent
<1>5. \A a \in N : a.from = p /\ a.nonce >= 4 => k \notin a.box
  BY <1>1, s.nextNonce = 1 => s.ourTemp = k DEF SessionInv, CounterAhead, NetInv, Packets
<1>6. CounterAhead(p, t, N \cup {m})
  BY <1>1, <1>5 DEF CounterAhead
<1>7. AcceptedFiled(t, acc)
  BY <1>0, <1>1, s.nextNonce = 1 => s.ourTemp = k DEF SessionInv, AcceptedFiled, Shape
<1> QED  BY <1>1, <1>2, <1>3, <1>4, <1>6, <1>7 DEF SessionInv

\* Sending a key packet.
LEMMA KeySent ==
    ASSUME NEW p \in Peers, NEW s, NEW N, NEW acc, NetInv(N), acc \subseteq N,
           SessionInv(p, s, N, acc), s.nextNonce \in {2, 3},
           NEW k, s.nextNonce = 2 => k \in Keys,
           s.nextNonce = 2 => \A m \in N : k # m.temp /\ k \notin m.box,
           s.nextNonce = 3 => k = s.ourTemp,
           NEW t \in Sessions, t.ourTemp = k, t.nextNonce = 3, t.isInitiator = s.isInitiator,
           t.herTemp = s.herTemp, t.established = s.established, t.rp = s.rp,
           NEW m \in Packets, m.from = p, m.nonce = s.nextNonce, m.temp = k
    PROVE  SessionInv(p, t, N \cup {m}, acc) /\ NetInv(N \cup {m})
<1>0. s \in Sessions /\ Shape(s)
  BY DEF SessionInv
<1>1. /\ t.ourTemp = k /\ t.herTemp = s.herTemp /\ t.herTemp # NoKey /\ t.nextNonce = 3
      /\ ~t.isInitiator /\ ~s.isInitiator
      /\ t.rp = s.rp /\ ~t.established /\ k \in Keys
  BY <1>0 DEF Sessions, Shape
<1>2. NetInv(N \cup {m})
  <2>1. CASE s.nextNonce = 2
    BY <1>1, <2>1, HandshakeSent
  <2>2. CASE s.nextNonce = 3
    <3>1. \E h \in N : h.from = p /\ h.nonce < 4 /\ h.temp = k /\ (IsHello(h) <=> s.isInitiator)
      BY <1>0, <1>1, <2>2, SessionAssumption DEF SessionInv, OwnKeySent, Shape
    <3> QED  BY <1>0, <1>1, <2>2, <3>1, HandshakeSent DEF Shape
  <2> QED  BY <2>1, <2>2
<1>3. Shape(t)
  BY <1>0, <1>1, SessionAssumption DEF Shape
<1>4. OwnKeySent(p, t, N \cup {m}) /\ HerKeySent(p, t, N \cup {m})
  BY <1>1 DEF OwnKeySent, HerKeySent, SessionInv
<1>5. \A a \in N : a.from = p /\ a.nonce >= 4 => k \notin a.box
  BY <1>1, s.nextNonce = 3 => s.ourTemp = k DEF SessionInv, CounterAhead, NetInv, Packets
<1>6. CounterAhead(p, t, N \cup {m})
  BY <1>1, <1>5 DEF CounterAhead
<1>7. AcceptedFiled(t, acc)
  BY <1>0, <1>1, s.nextNonce = 3 => s.ourTemp = k DEF SessionInv, AcceptedFiled, Shape
<1> QED  BY <1>1, <1>2, <1>3, <1>4, <1>6, <1>7 DEF SessionInv

\* Sending traffic.
LEMMA TrafficSent ==
    ASSUME NEW p \in Peers, NEW s, NEW N, NEW acc, NetInv(N), acc \subseteq N,
           SessionInv(p, s, N, acc), s.nextNonce >= 4,
           NEW t \in Sessions, t.ourTemp = s.ourTemp, t.nextNonce = s.nextNonce + 1,
           t.isInitiator = s.isInitiator, t.secret = {s.ourTemp, s.herTemp},
           t.herTemp = s.herTemp, t.established = s.established, t.rp = s.rp,
           NEW m \in Packets, m.from = p, m.nonce = s.nextNonce,
           m.box = {s.ourTemp, s.herTemp}, m.initiator = s.isInitiator
    PROVE  SessionInv(p, t, N \cup {m}, acc) /\ NetInv(N \cup {m})
<1>0. s \in Sessions /\ Shape(s) /\ s.nextNonce \in Nat
  BY DEF SessionInv, Sessions
<1>1. /\ t.ourTemp = s.ourTemp /\ t.herTemp = s.herTemp /\ t.nextNonce = s.nextNonce + 1
      /\ t.isInitiator = s.isInitiator /\ t.secret = {s.ourTemp, s.herTemp}
      /\ t.rp = s.rp /\ t.established = s.established
      /\ s.ourTemp # NoKey /\ s.herTemp # NoKey
  BY <1>0 DEF Sessions, Shape
<1>2. PICK h \in N : h.from = p /\ h.nonce < 4 /\ h.temp = s.ourTemp /\ (IsHello(h) <=> s.isInitiator)
  BY <1>1 DEF SessionInv, OwnKeySent
<1>3. PICK g \in N : g.from # p /\ g.nonce < 4 /\ g.temp = s.herTemp /\ (IsHello(g) <=> ~s.isInitiator)
  BY <1>1 DEF SessionInv, HerKeySent
<1>4. TrafficBoxed(N \cup {m})
  BY <1>2, <1>3 DEF NetInv, TrafficBoxed
<1>5. KeysHaveOwners(N \cup {m})
  BY <1>0 DEF NetInv, KeysHaveOwners
<1>6. NetInv(N \cup {m})
  BY <1>4, <1>5 DEF NetInv
<1>7. Shape(t)
  BY <1>0, <1>1 DEF Shape
<1>8. OwnKeySent(p, t, N \cup {m}) /\ HerKeySent(p, t, N \cup {m})
  BY <1>1 DEF OwnKeySent, HerKeySent, SessionInv
<1>9. CounterAhead(p, t, N \cup {m})
  BY <1>0, <1>1 DEF CounterAhead, SessionInv, NetInv, Packets
<1>10. AcceptedFiled(t, acc)
  BY <1>1 DEF AcceptedFiled, SessionInv
<1> QED  BY <1>1, <1>6, <1>7, <1>8, <1>9, <1>10 DEF SessionInv

\* What the end of encrypt does to a session, by the state it is in.
LEMMA AdvancedFields ==
    ASSUME NEW u \in Sessions
    PROVE  /\ u.nextNonce < 2 => Advanced(u) = [u EXCEPT !.nextNonce = 1, !.isInitiator = TRUE]
           /\ u.nextNonce \in {2, 3} => Advanced(u) = [u EXCEPT !.nextNonce = 3]
           /\ u.nextNonce >= 4 => Advanced(u) = [u EXCEPT !.nextNonce = u.nextNonce + 1]
<1>1. u.nextNonce \in Nat
  BY DEF Sessions
<1> QED  BY <1>1 DEF Advanced

\* The whole of CryptoAuth_encrypt.
LEMMA EncryptInv ==
    ASSUME NEW p \in Peers, NEW s, NEW N, NEW acc, NetInv(N), acc \subseteq N,
           SessionInv(p, s, N, acc),
           NEW k, NeedsKey(s) => k \in Keys /\ \A m \in N : k # m.temp /\ k \notin m.box
    PROVE  /\ Packet(Keyed(s, k), p) \in Packets
           /\ Packet(Keyed(s, k), p).from = p
           /\ SessionInv(p, Advanced(Keyed(s, k)), N \cup {Packet(Keyed(s, k), p)}, acc)
           /\ NetInv(N \cup {Packet(Keyed(s, k), p)})
<1> DEFINE u == Keyed(s, k)
           m == Packet(u, p)
           t == Advanced(u)
<1>0. s \in Sessions /\ Shape(s) /\ s.nextNonce \in Nat
  BY DEF SessionInv, Sessions
<1>1. CASE s.nextNonce \in {0, 1}
  <2> DEFINE key == IF s.nextNonce = 0 THEN k ELSE s.ourTemp
  <2>1. u = [s EXCEPT !.ourTemp = key] /\ u \in Sessions /\ key \in Keys
    BY <1>0, <1>1, SessionAssumption DEF Keyed, NeedsKey, Sessions, Shape
  <2>2. /\ t \in Sessions /\ t.ourTemp = key /\ t.nextNonce = 1 /\ t.isInitiator
        /\ t.herTemp = s.herTemp /\ t.established = s.established /\ t.rp = s.rp
    <3>0. u.nextNonce < 2
      BY <1>0, <1>1, <2>1 DEF Sessions
    <3>1. t = [u EXCEPT !.nextNonce = 1, !.isInitiator = TRUE]
      BY <2>1, <3>0, AdvancedFields
    <3> HIDE DEF t, u, key
    <3> QED  BY <1>0, <2>1, <3>1 DEF Sessions
  <2>3. m \in Packets /\ m.from = p /\ m.nonce = s.nextNonce /\ m.temp = key
    BY <1>0, <1>1, <2>1, ChallengeType DEF Packet, Packets, Sessions
  <2>4. s.nextNonce = 0 => \A a \in N : key # a.temp /\ key \notin a.box
    BY DEF NeedsKey
  <2> HIDE DEF key, u, m, t
  <2>5. s.nextNonce = 1 => key = s.ourTemp
    BY DEF key
  <2>6. SessionInv(p, t, N \cup {m}, acc) /\ NetInv(N \cup {m})
    BY <1>1, <2>1, <2>2, <2>3, <2>4, <2>5, HelloSent
  <2> QED  BY <2>3, <2>6 DEF u, m, t
<1>2. CASE s.nextNonce \in {2, 3}
  <2> DEFINE key == IF s.nextNonce = 2 THEN k ELSE s.ourTemp
  <2>1. u = [s EXCEPT !.ourTemp = key] /\ u \in Sessions /\ key \in Keys
    BY <1>0, <1>2, SessionAssumption DEF Keyed, NeedsKey, Sessions, Shape
  <2>2. /\ t \in Sessions /\ t.ourTemp = key /\ t.nextNonce = 3
        /\ t.isInitiator = s.isInitiator
        /\ t.herTemp = s.herTemp /\ t.established = s.established /\ t.rp = s.rp
    <3>1. t = [u EXCEPT !.nextNonce = 3]
      BY <1>0, <1>2, <2>1, AdvancedFields DEF Sessions
    <3> HIDE DEF t, u, key
    <3> QED  BY <1>0, <2>1, <3>1 DEF Sessions
  <2>3. m \in Packets /\ m.from = p /\ m.nonce = s.nextNonce /\ m.temp = key
    BY <1>0, <1>2, <2>1, ChallengeType DEF Packet, Packets, Sessions, Shape
  <2>4. s.nextNonce = 2 => \A a \in N : key # a.temp /\ key \notin a.box
    BY DEF NeedsKey
  <2> HIDE DEF key, u, m, t
  <2>5. s.nextNonce = 3 => key = s.ourTemp
    BY DEF key
  <2>6. SessionInv(p, t, N \cup {m}, acc) /\ NetInv(N \cup {m})
    BY <1>2, <2>1, <2>2, <2>3, <2>4, <2>5, KeySent
  <2> QED  BY <2>3, <2>6 DEF u, m, t
<1>3. CASE s.nextNonce >= 4
  <2>1. s.ourTemp \in Keys /\ s.herTemp \in Keys
    BY <1>0, <1>3 DEF Shape, Sessions
  <2>2. /\ u \in Sessions /\ u.nextNonce = s.nextNonce /\ u.ourTemp = s.ourTemp
        /\ u.isInitiator = s.isInitiator /\ u.secret = {s.ourTemp, s.herTemp}
        /\ u.herTemp = s.herTemp /\ u.established = s.established /\ u.rp = s.rp
    BY <1>0, <1>3, <2>1 DEF Keyed, NeedsKey, Sessions, Shape
  <2> HIDE DEF u
  <2>3. /\ t \in Sessions /\ t.nextNonce = s.nextNonce + 1 /\ t.ourTemp = s.ourTemp
        /\ t.isInitiator = s.isInitiator /\ t.secret = {s.ourTemp, s.herTemp}
        /\ t.herTemp = s.herTemp /\ t.established = s.established /\ t.rp = s.rp
    <3>1. t = [u EXCEPT !.nextNonce = u.nextNonce + 1]
      BY <1>0, <1>3, <2>2, AdvancedFields
    <3> HIDE DEF t
    <3> QED  BY <1>0, <2>2, <3>1 DEF Sessions
  <2>4. /\ m \in Packets /\ m.from = p /\ m.nonce = s.nextNonce
        /\ m.box = {s.ourTemp, s.herTemp} /\ m.initiator = s.isInitiator
    <3>1. m = [from |-> p, nonce |-> s.nextNonce, temp |-> NoKey, auth |-> NoAuth,
               box |-> u.secret, initiator |-> s.isInitiator]
      BY <1>0, <1>3, <2>2 DEF Packet
    <3>2. s.isInitiator \in BOOLEAN /\ NoAuth \in Auths
      BY <1>0, ChallengeType DEF Sessions
    <3> QED  BY <1>0, <2>1, <2>2, <3>1, <3>2 DEF Packets
  <2> HIDE DEF u, m, t
  <2>5. SessionInv(p, t, N \cup {m}, acc) /\ NetInv(N \cup {m})
    BY <1>3, <2>3, <2>4, TrafficSent
  <2> QED  BY <2>4, <2>5 DEF u, m, t
<1> QED  BY <1>0, <1>1, <1>2, <1>3

-----------------------------------------------------------------------------
\* Accepting a hello.
LEMMA HelloTaken ==
    ASSUME NEW p \in Peers, NEW s, NEW N, NEW acc, NetInv(N), acc \subseteq N,
           SessionInv(p, s, N, acc), NEW m \in N, IsHello(m), NEW lower,
           NEW list, NEW required, HandshakeOk(s, p, list, required, m)
    PROVE  SessionInv(p, AfterHello(s, lower, m), N, acc)
<1>0. s \in Sessions /\ Shape(s) /\ s.nextNonce \in Nat /\ m.temp \in Keys /\ m.from # p
      /\ m.nonce < 4 /\ NoKey \notin Keys
  BY SessionAssumption DEF SessionInv, Sessions, HandshakeOk, NetInv, KeysHaveOwners, Packets
<1>1. CASE m.temp = s.herTemp
  <2> DEFINE t == [s EXCEPT !.rp = EmptyWindow]
  <2>1. s.nextNonce \in {2, 3} /\ ~s.established
    BY <1>0, <1>1 DEF HandshakeOk, NotStray, Shape
  <2>2. /\ t \in Sessions /\ t.nextNonce = s.nextNonce /\ t.isInitiator = s.isInitiator
        /\ t.ourTemp = s.ourTemp /\ t.herTemp = s.herTemp /\ t.secret = s.secret
        /\ t.established = s.established /\ t.rp = EmptyWindow
    BY <1>0, EmptyWindowOK DEF Sessions
  <2> HIDE DEF t
  <2>3. AcceptedFiled(t, acc)
    BY <2>1, <2>2 DEF AcceptedFiled, SessionInv
  <2>4. Shape(t) /\ OwnKeySent(p, t, N) /\ HerKeySent(p, t, N) /\ CounterAhead(p, t, N)
    BY <2>2 DEF SessionInv, Shape, OwnKeySent, HerKeySent, CounterAhead
  <2>5. AfterHello(s, lower, m) = t
    BY <1>1 DEF AfterHello, t
  <2> QED  BY <2>2, <2>3, <2>4, <2>5, EmptyWindowOK DEF SessionInv
<1>2. CASE m.temp # s.herTemp /\ s.nextNonce = SENT_HELLO /\ ~lower
  BY <1>2 DEF AfterHello
<1>3. CASE m.temp # s.herTemp /\ ~(s.nextNonce = SENT_HELLO /\ ~lower)
  <2> DEFINE r == IF s.nextNonce = INIT THEN s ELSE Reset(s)
             t == [r EXCEPT !.herTemp = m.temp, !.nextNonce = RECEIVED_HELLO, !.rp = EmptyWindow]
  <2>1. SessionInv(p, Reset(s), N, acc)
    BY <1>0, ResetInv
  <2>2. SessionInv(p, r, N, acc)
    BY <2>1
  <2>3. r.ourTemp = NoKey /\ ~r.isInitiator /\ ~r.established /\ r \in Sessions
    <3>1. CASE s.nextNonce = INIT
      BY <1>0, <3>1 DEF Shape
    <3>2. CASE s.nextNonce # INIT
      BY <1>0, <2>2, <3>2 DEF Reset, Sessions, SessionInv
    <3> QED  BY <3>1, <3>2
  <2> HIDE DEF r
  <2>4. /\ t \in Sessions /\ t.nextNonce = 2 /\ ~t.isInitiator /\ t.ourTemp = NoKey
        /\ t.herTemp = m.temp /\ ~t.established /\ t.rp = EmptyWindow
    BY <1>0, <2>3, EmptyWindowOK DEF Sessions
  <2> HIDE DEF t
  <2>5. \A a \in N : NoKey \notin a.box
    BY <1>0 DEF NetInv, Packets
  <2>6. Shape(t) /\ OwnKeySent(p, t, N) /\ HerKeySent(p, t, N)
    BY <1>0, <2>4 DEF Shape, OwnKeySent, HerKeySent
  <2>7. CounterAhead(p, t, N) /\ AcceptedFiled(t, acc)
    BY <2>4, <2>5 DEF CounterAhead, AcceptedFiled
  <2>8. AfterHello(s, lower, m) = t
    BY <1>3 DEF AfterHello, t, r
  <2> QED  BY <2>4, <2>6, <2>7, <2>8, EmptyWindowOK DEF SessionInv
<1> QED  BY <1>1, <1>2, <1>3

\* Accepting a key packet.
LEMMA KeyTaken ==
    ASSUME NEW p \in Peers, NEW s, NEW N, NEW acc, NetInv(N), acc \subseteq N,
           SessionInv(p, s, N, acc), NEW m \in N, IsKey(m), ~s.established,
           NEW list, NEW required, HandshakeOk(s, p, list, required, m)
    PROVE  SessionInv(p, AfterKey(s, m), N, acc)
<1> DEFINE t == AfterKey(s, m)
<1>0. /\ s \in Sessions /\ Shape(s) /\ s.nextNonce \in Nat /\ m.temp \in Keys /\ m.from # p
      /\ m.nonce < 4 /\ NoKey \notin Keys /\ s.isInitiator
  BY SessionAssumption DEF SessionInv, Sessions, HandshakeOk, NetInv, KeysHaveOwners, Packets
<1>1. s.nextNonce = 1 \/ s.nextNonce >= 4
  BY <1>0 DEF Shape
<1>2. s.ourTemp \in Keys
  BY <1>0, <1>1 DEF Shape, Sessions
<1>3. /\ t \in Sessions /\ t.isInitiator /\ t.ourTemp = s.ourTemp /\ t.herTemp = m.temp
      /\ t.nextNonce = (IF s.nextNonce > 4 THEN s.nextNonce + 1 ELSE 4)
      /\ t.secret = (IF s.nextNonce > 4 /\ m.nonce = 2 THEN {s.ourTemp, m.temp} ELSE s.secret)
      /\ ~t.established /\ t.rp = EmptyWindow
  <2> DEFINE n == IF s.nextNonce > 4 THEN s.nextNonce + 1 ELSE 4
             k == IF s.nextNonce > 4 /\ m.nonce = 2 THEN {s.ourTemp, m.temp} ELSE s.secret
  <2>1. t = [s EXCEPT !.herTemp = m.temp, !.secret = k, !.nextNonce = n, !.rp = EmptyWindow]
    BY <1>0 DEF AfterKey
  <2>2. n \in Nat
    BY <1>0
  <2>3. k \in SUBSET Keys
    BY <1>0, <1>2 DEF Sessions
  <2> HIDE DEF n, k, t
  <2>4. /\ t \in Sessions /\ t.isInitiator /\ t.ourTemp = s.ourTemp /\ t.herTemp = m.temp
        /\ t.nextNonce = n /\ t.secret = k /\ ~t.established /\ t.rp = EmptyWindow
    BY <1>0, <2>1, <2>2, <2>3, EmptyWindowOK DEF Sessions
  <2> QED  BY <2>4 DEF n, k
<1> HIDE DEF t
<1>4. s.nextNonce > 4 => t.secret = {t.ourTemp, t.herTemp}
  <2>1. CASE m.nonce = 2
    BY <1>3, <2>1
  <2>2. CASE m.nonce = 3
    BY <1>0, <1>3, <2>2 DEF HandshakeOk, NotStray, Shape
  <2> QED  BY <2>1, <2>2
<1>5. Shape(t)
  BY <1>0, <1>1, <1>2, <1>3, <1>4 DEF Shape
<1>6. OwnKeySent(p, t, N) /\ HerKeySent(p, t, N)
  BY <1>0, <1>3 DEF OwnKeySent, HerKeySent, SessionInv
<1>7. CounterAhead(p, t, N)
  BY <1>0, <1>3 DEF CounterAhead, SessionInv, NetInv, Packets
<1>8. AcceptedFiled(t, acc)
  BY <1>3 DEF AcceptedFiled, SessionInv
<1> QED  BY <1>3, <1>5, <1>6, <1>7, <1>8, EmptyWindowOK DEF SessionInv, t

\* Traffic that opens is boxed with the session's current keys, in the other role.
LEMMA OpensCurrent ==
    ASSUME NEW p, NEW s, NEW N, NEW acc, SessionInv(p, s, N, acc), NEW m, TrafficOpens(s, m)
    PROVE  /\ m.box = {s.ourTemp, s.herTemp} /\ m.initiator # s.isInitiator
           /\ s.ourTemp \in Keys /\ s.herTemp \in Keys
           /\ TrafficBox(s) = {s.ourTemp, s.herTemp}
           /\ s.nextNonce >= 3
<1>0. s \in Sessions /\ Shape(s) /\ s.nextNonce \in Nat
  BY DEF SessionInv, Sessions
<1>1. s.nextNonce >= 3 /\ TrafficBox(s) = {s.ourTemp, s.herTemp}
  BY <1>0 DEF TrafficOpens, TrafficBox, Shape
<1> QED  BY <1>0, <1>1 DEF TrafficOpens, Shape, Sessions

\* Traffic that opens was sent by the other node.
LEMMA OpensFromPeer ==
    ASSUME NEW p, NEW s, NEW N, NEW acc, NetInv(N), SessionInv(p, s, N, acc),
           NEW m \in N, IsTraffic(m), TrafficOpens(s, m)
    PROVE  m.from # p
<1> SUFFICES ASSUME m.from = p PROVE FALSE
  OBVIOUS
<1>1. /\ m.box = {s.ourTemp, s.herTemp} /\ m.initiator # s.isInitiator
      /\ s.ourTemp \in Keys /\ s.herTemp \in Keys
  BY OpensCurrent
<1>2. PICK own \in N : own.from = p /\ own.nonce < 4 /\ own.temp = s.ourTemp
                       /\ (IsHello(own) <=> s.isInitiator)
  BY <1>1, SessionAssumption DEF SessionInv, OwnKeySent
<1>3. PICK h \in N, g \in N : /\ h.nonce < 4 /\ g.nonce < 4
                              /\ h.from = p /\ g.from # p
                              /\ m.box = {h.temp, g.temp}
                              /\ IsHello(h) <=> m.initiator
  BY DEF NetInv, TrafficBoxed
<1>4. own.temp = h.temp
  BY <1>1, <1>2, <1>3 DEF NetInv, KeysHaveOwners
<1>5. IsHello(own) <=> IsHello(h)
  BY <1>2, <1>3, <1>4 DEF NetInv, KeysHaveOwners
<1>6. m.initiator \in BOOLEAN /\ s.isInitiator \in BOOLEAN
  BY DEF NetInv, Packets, SessionInv, Sessions
<1> QED  BY <1>1, <1>2, <1>3, <1>5, <1>6

\* Handling traffic that opens: if it is accepted it was not accepted before, and
\* the session files it.
LEMMA TrafficTaken ==
    ASSUME NEW p \in Peers, NEW s, NEW N, NEW acc, NetInv(N), acc \subseteq N,
           SessionInv(p, s, N, acc), NEW m \in N, IsTraffic(m), TrafficOpens(s, m)
    PROVE  /\ NonceOk(s.rp, m.nonce) => /\ m \notin acc
                                        /\ SessionInv(p, AfterTraffic(s, m), N, acc \cup {m})
           /\ ~NonceOk(s.rp, m.nonce) => SessionInv(p, AfterTraffic(s, m), N, acc)
<1> DEFINE t == AfterTraffic(s, m)
           f == Filed(s.rp, m.nonce)
<1>0. /\ s \in Sessions /\ Shape(s) /\ s.nextNonce \in Nat /\ m.nonce \in Nat
      /\ s.rp \in Windows /\ InField(s.rp)
  BY DEF SessionInv, Sessions, NetInv, Packets
<1>1. /\ m.box = {s.ourTemp, s.herTemp} /\ s.ourTemp \in Keys /\ s.herTemp \in Keys
      /\ TrafficBox(s) = {s.ourTemp, s.herTemp} /\ s.nextNonce >= 3
  BY OpensCurrent
<1>2. /\ f \in Windows /\ InField(f) /\ f.base >= s.rp.base
      /\ \A n \in s.rp.seen : n < f.base \/ n \in f.seen
      /\ NonceOk(s.rp, m.nonce) => /\ m.nonce >= s.rp.base /\ m.nonce \notin s.rp.seen
                                   /\ m.nonce \in f.seen
  BY <1>0, FiledFacts
<1> HIDE DEF f
<1>3. \A a \in acc : a.nonce \in Nat
  BY DEF NetInv, Packets
<1>4. CASE NonceOk(s.rp, m.nonce)
  <2>1. m \notin acc
    BY <1>0, <1>1, <1>2, <1>4 DEF SessionInv, AcceptedFiled, Windows
  <2>2. /\ t \in Sessions /\ t.established /\ t.rp = f
        /\ t.ourTemp = s.ourTemp /\ t.herTemp = s.herTemp /\ t.isInitiator = s.isInitiator
        /\ t.secret = {s.ourTemp, s.herTemp}
        /\ t.nextNonce = (IF s.established THEN s.nextNonce ELSE s.nextNonce + 3)
    <3> DEFINE n == IF s.established THEN s.nextNonce ELSE s.nextNonce + 3
               k == {s.ourTemp, s.herTemp}
    <3>1. t = [s EXCEPT !.rp = f, !.secret = k, !.nextNonce = n, !.established = TRUE, !.idle = 0]
      BY <1>0, <1>1, <1>4 DEF AfterTraffic, f
    <3>2. n \in Nat /\ k \in SUBSET Keys /\ 0 \in 0 .. ResetAfter
      BY <1>0, <1>1, SessionAssumption
    <3> HIDE DEF n, k, t
    <3>3. /\ t \in Sessions /\ t.established /\ t.rp = f
          /\ t.ourTemp = s.ourTemp /\ t.herTemp = s.herTemp /\ t.isInitiator = s.isInitiator
          /\ t.secret = k /\ t.nextNonce = n
      BY <1>0, <1>2, <3>1, <3>2 DEF Sessions
    <3> QED  BY <3>3 DEF n, k
  <2> HIDE DEF t
  <2>3. Shape(t)
    BY <1>0, <1>1, <2>2, SessionAssumption DEF Shape
  <2>4. OwnKeySent(p, t, N) /\ HerKeySent(p, t, N)
    BY <2>2 DEF OwnKeySent, HerKeySent, SessionInv
  <2>5. CounterAhead(p, t, N)
    BY <1>0, <2>2 DEF CounterAhead, SessionInv, NetInv, Packets
  <2>6. AcceptedFiled(t, acc \cup {m})
    BY <1>0, <1>2, <1>3, <1>4, <2>2 DEF AcceptedFiled, SessionInv, Windows
  <2>7. SessionInv(p, t, N, acc \cup {m})
    BY <1>2, <2>2, <2>3, <2>4, <2>5, <2>6 DEF SessionInv
  <2> QED  BY <1>4, <2>1, <2>7 DEF t
<1>5. CASE ~NonceOk(s.rp, m.nonce)
  <2>1. /\ t \in Sessions /\ t.rp = f /\ t.nextNonce = s.nextNonce
        /\ t.established = s.established
        /\ t.ourTemp = s.ourTemp /\ t.herTemp = s.herTemp /\ t.isInitiator = s.isInitiator
        /\ t.secret = s.secret
    BY <1>0, <1>2, <1>5 DEF AfterTraffic, Sessions, f
  <2> HIDE DEF t
  <2>2. Shape(t) /\ OwnKeySent(p, t, N) /\ HerKeySent(p, t, N) /\ CounterAhead(p, t, N)
    BY <2>1 DEF SessionInv, Shape, OwnKeySent, HerKeySent, CounterAhead
  <2>3. AcceptedFiled(t, acc)
    BY <1>0, <1>2, <1>3, <2>1 DEF AcceptedFiled, SessionInv, Windows
  <2>4. SessionInv(p, t, N, acc)
    BY <1>2, <2>1, <2>2, <2>3 DEF SessionInv
  <2> QED  BY <1>5, <2>4 DEF t
<1> QED  BY <1>4, <1>5

-----------------------------------------------------------------------------
\* The new session of p satisfies its invariant and nothing else changes.
LEMMA QuietStep ==
    ASSUME IndInv, NEW p \in Peers, NEW t, SessionInv(p, t, net, accepted[p]),
           session' = [session EXCEPT ![p] = t], UNCHANGED <<net, accepted, twice>>
    PROVE  IndInv'
<1>1. t \in Sessions
  BY DEF SessionInv
<1>2. session' \in [Peers -> Sessions]
  BY <1>1 DEF IndInv
<1>3. \A q \in Peers : session'[q] = IF q = p THEN t ELSE session[q]
  BY DEF IndInv
<1>4. \A q \in Peers : SessionInv(q, session'[q], net, accepted[q])
  BY <1>3 DEF IndInv
<1> QED  BY <1>2, <1>4 DEF IndInv

\* setAuth keeps a session or resets it.
LEMMA SetAuthInv ==
    ASSUME NEW p \in Peers, NEW s, NEW N, NEW acc, NetInv(N), acc \subseteq N,
           SessionInv(p, s, N, acc), NEW c \in Credentials
    PROVE  SessionInv(p, SetAuth(s, c[1], c[2]), N, acc)
<1>0. s \in Sessions /\ s.auth \in Auths
  BY DEF SessionInv, Sessions
<1>1. ASSUME NEW a \in Auths
      PROVE  SessionInv(p, Reset([s EXCEPT !.auth = a]), N, acc)
  <2>1. [s EXCEPT !.auth = a] \in Sessions
    BY <1>0 DEF Sessions
  <2> QED  BY <2>1, ResetInv
<1> DEFINE cleared == [[s.auth EXCEPT !.password = None] EXCEPT !.type = 0]
           given == [type |-> IF c[2] = None THEN 1 ELSE 2, password |-> c[1],
                     login |-> IF c[2] = None THEN s.auth.login ELSE c[2]]
<1>2. cleared \in Auths
  <2> DEFINE a == s.auth
             b == [a EXCEPT !.password = None]
  <2>1. a \in Auths
    BY <1>0
  <2> HIDE DEF a
  <2>2. b \in Auths
    BY <2>1 DEF Auths
  <2> HIDE DEF b
  <2>3. [b EXCEPT !.type = 0] \in Auths
    BY <2>2 DEF Auths
  <2> QED  BY <2>3 DEF a, b
<1>3. given \in Auths
  BY <1>0 DEF Auths
<1>4. [s EXCEPT !.auth.password = None, !.auth.type = 0] = [s EXCEPT !.auth = cleared]
  BY <1>0 DEF Sessions, Auths
<1>5. [s EXCEPT !.auth = [type |-> IF c[2] = None THEN 1 ELSE 2, password |-> c[1],
                          login |-> IF c[2] = None THEN @.login ELSE c[2]]]
      = [s EXCEPT !.auth = given]
  BY <1>0 DEF Sessions
<1> HIDE DEF cleared, given
<1>6. /\ SessionInv(p, Reset([s EXCEPT !.auth = cleared]), N, acc)
      /\ SessionInv(p, Reset([s EXCEPT !.auth = given]), N, acc)
  BY <1>1, <1>2, <1>3
<1> QED  BY <1>4, <1>5, <1>6 DEF SetAuth

\* Sending a packet.
LEMMA EncryptStep ==
    ASSUME IndInv, NEW p \in Peers, Encrypt(p)
    PROVE  IndInv'
<1> DEFINE s == Prepared(session[p])
<1>0. SessionInv(p, s, net, accepted[p]) /\ NetInv(net) /\ accepted[p] \subseteq net
  BY PreparedInv DEF IndInv
<1> HIDE DEF s
<1>1. PICK k \in IF NeedsKey(s) THEN Keys \ UsedKeys ELSE {NoKey} :
          /\ session' = [session EXCEPT ![p] = Advanced(Keyed(s, k))]
          /\ net' = net \cup {Packet(Keyed(s, k), p)}
          /\ UNCHANGED <<accepted, twice>>
  BY DEF Encrypt, s
<1>2. NeedsKey(s) => k \in Keys /\ \A m \in net : k # m.temp /\ k \notin m.box
  BY <1>1 DEF UsedKeys
<1> DEFINE m == Packet(Keyed(s, k), p)
           t == Advanced(Keyed(s, k))
<1>3. m.from = p /\ SessionInv(p, t, net \cup {m}, accepted[p]) /\ NetInv(net \cup {m})
  BY <1>0, <1>2, EncryptInv
<1>4. session' = [session EXCEPT ![p] = t] /\ net' = net \cup {m} /\ UNCHANGED <<accepted, twice>>
  BY <1>1
<1> HIDE DEF m, t
<1>5. t \in Sessions
  BY <1>3 DEF SessionInv
<1>6. session' \in [Peers -> Sessions] /\ accepted' \in [Peers -> SUBSET net']
  BY <1>4, <1>5 DEF IndInv
<1>7. ASSUME NEW q \in Peers
      PROVE  SessionInv(q, session'[q], net', accepted'[q])
  <2>1. CASE q = p
    BY <1>3, <1>4, <2>1 DEF IndInv
  <2>2. CASE q # p
    <3>1. SessionInv(q, session[q], net, accepted[q])
      BY DEF IndInv
    <3>2. SessionInv(q, session[q], net \cup {m}, accepted[q])
      BY <1>3, <2>2, <3>1, OtherSends
    <3> QED  BY <1>4, <2>2, <3>2 DEF IndInv
  <2> QED  BY <2>1, <2>2
<1> QED  BY <1>3, <1>4, <1>6, <1>7 DEF IndInv

\* Receiving traffic.
LEMMA TrafficStep ==
    ASSUME IndInv, NEW p \in Peers, NEW m \in net, DecryptTraffic(p, m)
    PROVE  IndInv'
<1> DEFINE t == AfterTraffic(session[p], m)
<1>0. SessionInv(p, session[p], net, accepted[p]) /\ NetInv(net) /\ accepted[p] \subseteq net
  BY DEF IndInv
<1>1. /\ session' = [session EXCEPT ![p] = t] /\ net' = net
      /\ IsTraffic(m) /\ TrafficOpens(session[p], m)
  BY DEF DecryptTraffic
<1>2. m.from # p
  BY <1>0, <1>1, OpensFromPeer
<1>3. /\ NonceOk(session[p].rp, m.nonce) => /\ m \notin accepted[p]
                                            /\ SessionInv(p, t, net, accepted[p] \cup {m})
      /\ ~NonceOk(session[p].rp, m.nonce) => SessionInv(p, t, net, accepted[p])
  BY <1>0, <1>1, TrafficTaken
<1>4. CASE ~NonceOk(session[p].rp, m.nonce)
  <2>1. UNCHANGED <<net, accepted, twice>>
    BY <1>4 DEF DecryptTraffic
  <2> HIDE DEF t
  <2> QED  BY <1>1, <1>3, <1>4, <2>1, QuietStep
<1>5. CASE NonceOk(session[p].rp, m.nonce)
  <2>1. /\ twice' = twice \cup ({m} \cap accepted[p])
        /\ accepted' = [accepted EXCEPT ![p] = accepted[p] \cup {m}]
    BY <1>5 DEF DecryptTraffic
  <2>2. m \notin accepted[p] /\ SessionInv(p, t, net, accepted[p] \cup {m})
    BY <1>3, <1>5
  <2> HIDE DEF t
  <2>3. t \in Sessions
    BY <2>2 DEF SessionInv
  <2>4. session' \in [Peers -> Sessions] /\ accepted' \in [Peers -> SUBSET net']
    BY <1>1, <2>1, <2>3 DEF IndInv
  <2>5. \A q \in Peers : SessionInv(q, session'[q], net', accepted'[q])
    BY <1>1, <2>1, <2>2 DEF IndInv
  <2>6. \A q \in Peers : FromPeer(q, accepted'[q])
    BY <1>2, <2>1 DEF IndInv, FromPeer
  <2>7. twice' = {}
    BY <2>1, <2>2 DEF IndInv
  <2> QED  BY <1>0, <1>1, <2>4, <2>5, <2>6, <2>7 DEF IndInv
<1> QED  BY <1>4, <1>5

\* Receiving a handshake packet.
LEMMA HandshakeStep ==
    ASSUME IndInv, NEW p \in Peers, NEW m \in net, DecryptHandshake(p, m)
    PROVE  IndInv'
<1> DEFINE s == session[p]
           t == AfterHandshake(s, m.from = LowPeer, m)
<1>0. SessionInv(p, s, net, accepted[p]) /\ NetInv(net) /\ accepted[p] \subseteq net
  BY DEF IndInv
<1>1. /\ session' = [session EXCEPT ![p] = t] /\ UNCHANGED <<net, accepted, twice>>
      /\ IsHello(m) \/ (IsKey(m) /\ ~s.established)
      /\ HandshakeOk(s, p, Users[p], p \in RequireAuth, m)
  BY DEF DecryptHandshake, TakesHandshake
<1>2. SessionInv(p, t, net, accepted[p])
  <2> HIDE DEF s
  <2>1. CASE IsHello(m)
    <3>1. SessionInv(p, AfterHello(s, m.from = LowPeer, m), net, accepted[p])
      BY <1>0, <1>1, <2>1, HelloTaken
    <3> QED  BY <2>1, <3>1 DEF AfterHandshake
  <2>2. CASE IsKey(m) /\ ~s.established
    <3>1. SessionInv(p, AfterKey(s, m), net, accepted[p])
      BY <1>0, <1>1, <2>2, KeyTaken
    <3>2. ~IsHello(m)
      BY <2>2
    <3> QED  BY <3>1, <3>2 DEF AfterHandshake
  <2> QED  BY <1>1, <2>1, <2>2
<1> HIDE DEF t
<1> QED  BY <1>1, <1>2, QuietStep

\* Every step preserves the inductive invariant.
LEMMA StepInv == IndInv /\ [Next]_vars => IndInv'
<1> SUFFICES ASSUME IndInv, [Next]_vars PROVE IndInv'
  OBVIOUS
<1>1. CASE UNCHANGED vars
  BY <1>1 DEF IndInv, vars
<1>2. ASSUME NEW p \in Peers,
             \/ Encrypt(p)
             \/ \E m \in net : DecryptHandshake(p, m) \/ DecryptTraffic(p, m)
             \/ ResetTimedOut(p)
             \/ ResetSession(p)
             \/ ChooseAuth(p)
             \/ Tick(p)
      PROVE  IndInv'
  <2>0. SessionInv(p, session[p], net, accepted[p]) /\ NetInv(net) /\ accepted[p] \subseteq net
        /\ session[p] \in Sessions
    BY DEF IndInv
  <2>1. CASE Encrypt(p)
    BY <2>1, EncryptStep
  <2>2. CASE \E m \in net : DecryptHandshake(p, m) \/ DecryptTraffic(p, m)
    BY <2>2, HandshakeStep, TrafficStep
  <2>3. CASE ResetTimedOut(p)
    BY <2>0, <2>3, TimeoutInv, QuietStep DEF ResetTimedOut
  <2>4. CASE ResetSession(p)
    BY <2>0, <2>4, ResetInv, QuietStep DEF ResetSession
  <2>5. CASE ChooseAuth(p)
    <3>1. PICK c \in Credentials :
              /\ session' = [session EXCEPT ![p] = SetAuth(session[p], c[1], c[2])]
              /\ UNCHANGED <<net, accepted, twice>>
      BY <2>5 DEF ChooseAuth
    <3>2. SessionInv(p, SetAuth(session[p], c[1], c[2]), net, accepted[p])
      BY <2>0, SetAuthInv
    <3> QED  BY <3>1, <3>2, QuietStep
  <2>6. CASE Tick(p)
    <3> DEFINE s == session[p]
               t == [s EXCEPT !.idle = s.idle + 1]
    <3>1. /\ session' = [session EXCEPT ![p] = t] /\ UNCHANGED <<net, accepted, twice>>
          /\ s.idle < ResetAfter
      BY <2>6 DEF Tick, IndInv
    <3> HIDE DEF s
    <3>2. s \in Sessions
      BY <2>0 DEF s
    <3>3. s.idle + 1 \in 0 .. ResetAfter
      BY <3>1, <3>2, SessionAssumption DEF Sessions
    <3>4. t \in Sessions
      BY <3>2, <3>3 DEF Sessions
    <3>5. /\ t.nextNonce = s.nextNonce /\ t.isInitiator = s.isInitiator
          /\ t.ourTemp = s.ourTemp /\ t.herTemp = s.herTemp /\ t.secret = s.secret
          /\ t.established = s.established /\ t.rp = s.rp
      BY <3>2 DEF Sessions
    <3>6. SessionInv(p, s, net, accepted[p])
      BY <2>0 DEF s
    <3> HIDE DEF t
    <3>7. SessionInv(p, t, net, accepted[p])
      BY <3>4, <3>5, <3>6, SameCoreInv
    <3> QED  BY <3>1, <3>7, QuietStep
  <2> QED  BY <1>2, <2>1, <2>2, <2>3, <2>4, <2>5, <2>6
<1> QED  BY <1>1, <1>2 DEF Next

\* New sessions and an empty network satisfy the inductive invariant.
LEMMA InitInv == Init => IndInv
<1> SUFFICES ASSUME Init PROVE IndInv
  OBVIOUS
<1>1. NewSession \in Sessions
  <2>1. NoAuth \in Auths /\ 0 \in 0 .. ResetAfter
    BY SessionAssumption DEF NoAuth, Auths
  <2> QED  BY <2>1, EmptyWindowOK DEF NewSession, Sessions
<1>2. NetInv(net)
  BY DEF Init, NetInv, KeysHaveOwners, TrafficBoxed
<1>3. ASSUME NEW p \in Peers
      PROVE  SessionInv(p, NewSession, net, accepted[p])
  <2>1. Shape(NewSession)
    BY DEF Shape, NewSession
  <2>2. OwnKeySent(p, NewSession, net) /\ HerKeySent(p, NewSession, net)
    BY DEF OwnKeySent, HerKeySent, NewSession
  <2>3. CounterAhead(p, NewSession, net) /\ AcceptedFiled(NewSession, accepted[p])
    BY DEF Init, CounterAhead, AcceptedFiled
  <2>4. InField(NewSession.rp)
    BY EmptyWindowOK DEF NewSession
  <2> QED  BY <1>1, <2>1, <2>2, <2>3, <2>4 DEF SessionInv
<1> QED  BY <1>1, <1>2, <1>3 DEF Init, IndInv, FromPeer

\* The inductive invariant holds in every state.
THEOREM Inductive == Spec => []IndInv
<1> QED  BY InitInv, StepInv, PTL DEF Spec
-----------------------------------------------------------------------------
\* Sessions and packets stay well formed.
THEOREM TypeCorrect == Spec => []TypeOK
<1>1. IndInv => TypeOK
  BY DEF IndInv, NetInv, TypeOK
<1> QED  BY <1>1, Inductive, PTL

\* The assertions of the handshake functions hold in every reachable state.
THEOREM AssertionsHold == Spec => []StateAgrees
<1>1. IndInv => StateAgrees
  BY DEF IndInv, SessionInv, Shape, StateAgrees
<1> QED  BY <1>1, Inductive, PTL

\* Traffic always uses the secret of the current pair of temporary keys.
THEOREM SecretIsCurrent == Spec => []SecretAgrees
<1>1. IndInv => SecretAgrees
  BY DEF IndInv, SessionInv, Shape, SecretAgrees
<1> QED  BY <1>1, Inductive, PTL

\* Nodes that share a pair of temporary keys have different roles.
THEOREM RolesAreDistinct == Spec => []RolesDiffer
<1>1. ASSUME IndInv PROVE RolesDiffer
  <2> SUFFICES ASSUME NEW p \in Peers, NEW q \in Peers, p # q,
                      session[p].ourTemp # NoKey, session[p].herTemp # NoKey,
                      session[p].ourTemp = session[q].herTemp,
                      session[p].herTemp = session[q].ourTemp
               PROVE  session[p].isInitiator # session[q].isInitiator
    BY DEF RolesDiffer
  <2>1. SessionInv(p, session[p], net, accepted[p]) /\ SessionInv(q, session[q], net, accepted[q])
    BY <1>1 DEF IndInv
  <2>2. PICK h \in net : /\ h.from = p /\ h.nonce < 4 /\ h.temp = session[p].ourTemp
                         /\ IsHello(h) <=> session[p].isInitiator
    BY <2>1 DEF SessionInv, OwnKeySent
  <2>3. PICK g \in net : /\ g.from # q /\ g.nonce < 4 /\ g.temp = session[q].herTemp
                         /\ IsHello(g) <=> ~session[q].isInitiator
    BY <2>1 DEF SessionInv, HerKeySent
  <2>4. IsHello(h) <=> IsHello(g)
    BY <1>1, <2>2, <2>3 DEF IndInv, NetInv, KeysHaveOwners
  <2> QED  BY <2>2, <2>3, <2>4
<1> QED  BY <1>1, Inductive, PTL

\* No nonce is used twice under one secret in one direction.
THEOREM NoncesAreFresh == Spec => []NonceIsFresh
<1>1. ASSUME IndInv PROVE NonceIsFresh
  <2> SUFFICES ASSUME NEW p \in Peers, NEW m \in net,
                      session[p].nextNonce >= RECEIVED_KEY, IsTraffic(m),
                      m.box = {session[p].ourTemp, session[p].herTemp},
                      m.initiator = session[p].isInitiator
               PROVE  m.nonce < session[p].nextNonce
    BY DEF NonceIsFresh
  <2>1. SessionInv(p, session[p], net, accepted[p]) /\ NetInv(net)
    BY <1>1 DEF IndInv
  <2>2. CASE m.from = p
    BY <2>1, <2>2 DEF SessionInv, CounterAhead
  <2>3. CASE m.from # p
    <3>1. session[p].ourTemp \in Keys /\ session[p].ourTemp # NoKey
      BY <2>1, SessionAssumption DEF SessionInv, Shape, Sessions
    <3>2. PICK own \in net : /\ own.from = p /\ own.nonce < 4
                             /\ own.temp = session[p].ourTemp
                             /\ IsHello(own) <=> session[p].isInitiator
      BY <2>1, <3>1 DEF SessionInv, OwnKeySent
    <3>3. PICK h \in net, g \in net : /\ h.nonce < 4 /\ g.nonce < 4
                                      /\ h.from = m.from /\ g.from # m.from
                                      /\ m.box = {h.temp, g.temp}
                                      /\ IsHello(g) <=> ~m.initiator
      <4>1. TrafficBoxed(net)
        BY <2>1 DEF NetInv
      <4> QED  BY <4>1 DEF TrafficBoxed
    <3>4. own.temp = h.temp \/ own.temp = g.temp
      BY <3>2, <3>3
    <3>5. own.temp = g.temp
      BY <2>1, <2>3, <3>2, <3>3, <3>4 DEF NetInv, KeysHaveOwners
    <3>6. IsHello(own) <=> IsHello(g)
      BY <2>1, <3>2, <3>3, <3>5 DEF NetInv, KeysHaveOwners
    <3> QED  BY <3>2, <3>3, <3>6
  <2> QED  BY <2>2, <2>3
<1> QED  BY <1>1, Inductive, PTL

\* No traffic is accepted twice, whatever is replayed, reset or renegotiated.
THEOREM TrafficAcceptedOnce == Spec => []NoReplay
<1>1. IndInv => NoReplay
  BY DEF IndInv, NoReplay
<1> QED  BY <1>1, Inductive, PTL

\* Accepted traffic comes from the other node: reflected packets never open.
THEOREM NoReflection == Spec => []AcceptedFromPeer
<1>1. IndInv => AcceptedFromPeer
  BY DEF IndInv, FromPeer, AcceptedFromPeer
<1> QED  BY <1>1, Inductive, PTL
-----------------------------------------------------------------------------
\* A set of natural numbers that is not empty has a least element.
LEMMA LeastNat ==
    ASSUME NEW S \in SUBSET Nat, S # {}
    PROVE  \E n \in S : \A m \in S : n <= m
<1> DEFINE R == {ss \in Nat \X Nat : ss[1] < ss[2]}
<1>1. IsWellFoundedOn(R, Nat)
  BY NatLessThanWellFounded DEF OpToRel
<1>2. \A x, y \in Nat : <<y, x>> \in R <=> y < x
  OBVIOUS
<1> HIDE DEF R
<1>3. PICK x \in S : \A y \in S : <<y, x>> \notin R
  BY <1>1, WFMin
<1>4. ASSUME NEW y \in S PROVE x <= y
  <2>1. x \in Nat /\ y \in Nat
    OBVIOUS
  <2>2. ~(y < x)
    BY <1>2, <1>3, <2>1, Zenon
  <2> QED  BY <2>1, <2>2
<1> QED  BY <1>4

\* getAuth returns a user of the list, or none.
LEMMA GetAuthListed ==
    ASSUME NEW p \in Peers, NEW auth
    PROVE  \/ GetAuth(Users[p], auth) = None
           \/ \E i \in DOMAIN Users[p] : GetAuth(Users[p], auth) = Users[p][i]
<1> DEFINE list == Users[p]
           named == {i \in 1 .. Len(list) : Names(auth, list[i])}
<1>0. DOMAIN list = 1 .. Len(list)
  BY UsersAssumption
<1>3. named \in SUBSET Nat
  BY UsersAssumption
<1> HIDE DEF named
<1>1. CASE named = {}
  BY <1>0, <1>1 DEF GetAuth, named
<1>2. CASE named # {}
  <2>1. \E n \in named : \A m \in named : n <= m
    BY <1>2, <1>3, LeastNat
  <2>2. Min(named) \in named
    BY <2>1 DEF Min
  <2>3. GetAuth(list, auth) = list[Min(named)]
    BY <1>0, <1>2 DEF GetAuth, SelectInSeq, named
  <2> QED  BY <1>0, <2>2, <2>3 DEF named
<1> QED  BY <1>1, <1>2

\* p has taken the key k from a packet of the other node that one of p's users sent.
Authorised(p, k, N) ==
    k # NoKey => \E m \in N : /\ m.from # p /\ m.temp = k
                              /\ \E i \in DOMAIN Users[p] :
                                     /\ Users[p][i].password = m.auth.password
                                     /\ Users[p][i].ip6 \in {None, m.from}

\* A session that requires authentication takes a packet only from one of its users.
LEMMA TakenFromUser ==
    ASSUME NEW p \in RequireAuth, NEW s, NEW m \in net,
           TakesHandshake(s, p, Users[p], TRUE, m)
    PROVE  Authorised(p, m.temp, net)
<1> DEFINE user == GetAuth(Users[p], m.auth)
<1>1. user # None /\ user.ip6 \in {None, m.from} /\ user.password = m.auth.password
      /\ m.from # p
  BY DEF TakesHandshake, HandshakeOk, AuthAccepted, AuthRequired, HandshakeOpens
<1>2. \E i \in DOMAIN Users[p] : user = Users[p][i]
  BY <1>1, GetAuthListed, NetAssumption
<1> QED  BY <1>1, <1>2 DEF Authorised

\* encrypt, decrypt of traffic, reset and setAuth keep her temporary key or clear it.
LEMMA HerTempAfter ==
    ASSUME NEW s \in Sessions
    PROVE  /\ Reset(s).herTemp = NoKey
           /\ ResetIfTimeout(s).herTemp \in {NoKey, s.herTemp}
           /\ \A fresh : Advanced(Keyed(Prepared(s), fresh)).herTemp \in {NoKey, s.herTemp}
           /\ \A m : AfterTraffic(s, m).herTemp = s.herTemp
           /\ \A c, d : SetAuth(s, c, d).herTemp \in {NoKey, s.herTemp}
<1>1. Reset(s).herTemp = NoKey
  BY DEF Reset, Sessions
<1>2. ResetIfTimeout(s).herTemp \in {NoKey, s.herTemp}
  BY DEF ResetIfTimeout, Reset, Sessions
<1>3. ASSUME NEW fresh
      PROVE  Advanced(Keyed(Prepared(s), fresh)).herTemp \in {NoKey, s.herTemp}
  <2>1. Prepared(s).herTemp \in {NoKey, s.herTemp} /\ DOMAIN Prepared(s) = DOMAIN s
    BY DEF Prepared, ResetIfTimeout, Reset, Sessions
  <2> DEFINE t == Prepared(s)
             u == Keyed(t, fresh)
  <2>2. u.herTemp = t.herTemp /\ DOMAIN u = DOMAIN s
    <3>1. "herTemp" \in DOMAIN t
      BY <2>1 DEF Sessions
    <3> HIDE DEF t
    <3> QED  BY <2>1, <3>1 DEF Keyed, t
  <2>3. "herTemp" \in DOMAIN u
    BY <2>2 DEF Sessions
  <2> HIDE DEF u
  <2> QED  BY <2>1, <2>2, <2>3 DEF Advanced, u
<1>5. \A m : AfterTraffic(s, m).herTemp = s.herTemp
  BY DEF AfterTraffic, Sessions
<1>6. \A c, d : SetAuth(s, c, d).herTemp \in {NoKey, s.herTemp}
  BY DEF SetAuth, Reset, Sessions
<1> QED  BY <1>1, <1>2, <1>3, <1>5, <1>6

\* Only an accepted handshake packet changes her temporary key to anything but zero.
LEMMA AuthStep ==
    ASSUME IndInv, AuthEnforced, [Next]_vars
    PROVE  AuthEnforced'
<1> SUFFICES ASSUME NEW p \in RequireAuth
             PROVE  Authorised(p, session'[p].herTemp, net')
  BY DEF AuthEnforced, Authorised
<1>0. p \in Peers /\ session \in [Peers -> Sessions] /\ Authorised(p, session[p].herTemp, net)
  BY NetAssumption DEF AuthEnforced, Authorised, IndInv
<1>1. net \subseteq net'
  BY DEF Next, Encrypt, DecryptHandshake, DecryptTraffic, ResetTimedOut, ResetSession,
         ChooseAuth, Tick, vars
<1>2. \/ session'[p].herTemp \in {NoKey, session[p].herTemp}
      \/ \E m \in net : /\ TakesHandshake(session[p], p, Users[p], TRUE, m)
                        /\ session'[p].herTemp = m.temp
  <2> DEFINE s == session[p]
  <2>0. s \in Sessions
    BY <1>0
  <2>1. CASE UNCHANGED vars
    BY <2>1 DEF vars
  <2>2. ASSUME NEW q \in Peers, q # p,
               \/ Encrypt(q)
               \/ \E m \in net : DecryptHandshake(q, m) \/ DecryptTraffic(q, m)
               \/ ResetTimedOut(q) \/ ResetSession(q) \/ ChooseAuth(q) \/ Tick(q)
        PROVE  session'[p] = s
    BY <2>2, <1>0 DEF Encrypt, DecryptHandshake, DecryptTraffic, ResetTimedOut, ResetSession,
                      ChooseAuth, Tick
  <2>3. CASE Encrypt(p)
    <3>1. \E fresh : session'[p] = Advanced(Keyed(Prepared(s), fresh))
      BY <2>3, <1>0 DEF Encrypt
    <3> QED  BY <3>1, <2>0, HerTempAfter
  <2>4. ASSUME NEW m \in net, DecryptHandshake(p, m)
        PROVE  \/ session'[p].herTemp = s.herTemp
               \/ TakesHandshake(s, p, Users[p], TRUE, m) /\ session'[p].herTemp = m.temp
    <3>1. /\ session'[p] = AfterHandshake(s, m.from = LowPeer, m)
          /\ TakesHandshake(s, p, Users[p], TRUE, m)
      BY <2>4, <1>0 DEF DecryptHandshake
    <3>2. session'[p].herTemp \in {s.herTemp, m.temp}
      BY <3>1, <2>0 DEF AfterHandshake, AfterHello, AfterKey, Reset, Sessions
    <3> QED  BY <3>1, <3>2
  <2>5. ASSUME NEW m \in net, DecryptTraffic(p, m)
        PROVE  session'[p].herTemp = s.herTemp
    <3>1. session'[p] = AfterTraffic(s, m)
      BY <2>5, <1>0 DEF DecryptTraffic
    <3> QED  BY <3>1, <2>0, HerTempAfter
  <2>6. CASE ResetTimedOut(p) \/ ResetSession(p)
    <3>1. session'[p] = ResetIfTimeout(s) \/ session'[p] = Reset(s)
      BY <2>6, <1>0 DEF ResetTimedOut, ResetSession
    <3> QED  BY <3>1, <2>0, HerTempAfter
  <2>7. CASE ChooseAuth(p)
    <3>1. PICK c \in Credentials : session'[p] = SetAuth(s, c[1], c[2])
      BY <2>7, <1>0 DEF ChooseAuth
    <3>2. SetAuth(s, c[1], c[2]).herTemp \in {NoKey, s.herTemp}
      BY <2>0, HerTempAfter
    <3> QED  BY <3>1, <3>2
  <2>8. CASE Tick(p)
    BY <2>8, <1>0, <2>0 DEF Tick, Sessions
  <2>9. CASE Next
    <3>1. PICK q \in Peers : \/ Encrypt(q)
                             \/ \E m \in net : DecryptHandshake(q, m) \/ DecryptTraffic(q, m)
                             \/ ResetTimedOut(q) \/ ResetSession(q) \/ ChooseAuth(q) \/ Tick(q)
      BY <2>9 DEF Next
    <3>2. CASE q # p
      BY <2>2, <3>1, <3>2
    <3>3. CASE q = p
      BY <2>3, <2>4, <2>5, <2>6, <2>7, <2>8, <3>1, <3>3
    <3> QED  BY <3>2, <3>3
  <2> QED  BY <2>1, <2>9
<1>3. CASE session'[p].herTemp \in {NoKey, session[p].herTemp}
  BY <1>0, <1>1, <1>3 DEF Authorised
<1>4. CASE \E m \in net : /\ TakesHandshake(session[p], p, Users[p], TRUE, m)
                          /\ session'[p].herTemp = m.temp
  <2>1. PICK m \in net : /\ TakesHandshake(session[p], p, Users[p], TRUE, m)
                         /\ session'[p].herTemp = m.temp
    BY <1>4
  <2>2. Authorised(p, m.temp, net)
    BY <2>1, TakenFromUser
  <2> QED  BY <1>1, <2>1, <2>2 DEF Authorised
<1> QED  BY <1>2, <1>3, <1>4

\* The key of a peer that has to authenticate comes from one of the users.
THEOREM AuthIsEnforced == Spec => []AuthEnforced
<1>1. Init => AuthEnforced
  BY NetAssumption DEF Init, AuthEnforced, NewSession
<1>2. IndInv /\ AuthEnforced /\ [Next]_vars => AuthEnforced'
  BY AuthStep
<1> QED  BY <1>1, <1>2, Inductive, PTL DEF Spec
-----------------------------------------------------------------------------
\* Of two traffic packets under one secret, the ones in one nonce slot have one sender
\* and the ones in different slots have different senders.
LEMMA SlotsHaveWriters ==
    ASSUME NEW N, NetInv(N), NEW m \in N, NEW k \in N, m.nonce >= 4, k.nonce >= 4,
           m.box = k.box
    PROVE  (k.initiator = m.initiator) <=> (k.from = m.from)
<1>1. PICK h \in N, g \in N : /\ h.nonce < 4 /\ g.nonce < 4
                              /\ h.from = m.from /\ g.from # m.from
                              /\ m.box = {h.temp, g.temp}
                              /\ IsHello(h) <=> m.initiator
                              /\ IsHello(g) <=> ~m.initiator
  BY DEF NetInv, TrafficBoxed
<1>2. PICK a \in N, b \in N : /\ a.nonce < 4 /\ b.nonce < 4
                              /\ a.from = k.from /\ b.from # k.from
                              /\ k.box = {a.temp, b.temp}
                              /\ IsHello(a) <=> k.initiator
                              /\ IsHello(b) <=> ~k.initiator
  BY DEF NetInv, TrafficBoxed
<1>3. m.initiator \in BOOLEAN /\ k.initiator \in BOOLEAN
  BY DEF NetInv, Packets
<1>4. a.temp = h.temp \/ a.temp = g.temp
  BY <1>1, <1>2
<1>5. CASE a.temp = h.temp
  BY <1>1, <1>2, <1>3, <1>5 DEF NetInv, KeysHaveOwners
<1>6. CASE a.temp = g.temp
  BY <1>1, <1>2, <1>3, <1>6 DEF NetInv, KeysHaveOwners
<1> QED  BY <1>4, <1>5, <1>6

\* A packet that encrypt sends follows every earlier one in the sense of the channel.
LEMMA EncryptFollows ==
    ASSUME IndInv, NEW p \in Peers, NEW t, NEW m, m.from = p,
           SessionInv(p, t, net \cup {m}, accepted[p]), NetInv(net \cup {m}),
           NEW k \in net, m.nonce >= 4, k.nonce >= 4, k.box = m.box,
           t.ourTemp \in m.box,
           \A a \in net : a.from = p /\ a.nonce >= 4 /\ t.ourTemp \in a.box
                           => a.nonce < m.nonce
    PROVE  Channel!Follows(m, k)
<1>1. (k.initiator = m.initiator) <=> (k.from = m.from)
  BY SlotsHaveWriters
<1> QED  BY <1>1 DEF Channel!Follows

\* Only a session that is past the handshake sends traffic, and every packet that its
\* node has sent under its key has a lower nonce.
LEMMA TrafficIsNext ==
    ASSUME NEW p \in Peers, NEW s, NEW N, NEW acc, SessionInv(p, s, N, acc), NEW key,
           Packet(Keyed(s, key), p).nonce >= 4
    PROVE  /\ Advanced(Keyed(s, key)).ourTemp = s.ourTemp
           /\ s.ourTemp \in Packet(Keyed(s, key), p).box
           /\ \A a \in N : a.from = p /\ a.nonce >= 4 /\ s.ourTemp \in a.box
                           => a.nonce < Packet(Keyed(s, key), p).nonce
<1> DEFINE u == Keyed(s, key)
           m == Packet(u, p)
<1>0. s \in Sessions /\ Shape(s) /\ s.nextNonce \in Nat
  BY DEF SessionInv, Sessions
<1>1. u.nextNonce = s.nextNonce
  BY <1>0 DEF Keyed, Sessions
<1>2. m.nonce = s.nextNonce
  BY <1>1 DEF Packet
<1>3. s.nextNonce >= 4
  BY <1>2
<1>5. /\ u.ourTemp = s.ourTemp /\ u.secret = {s.ourTemp, s.herTemp}
      /\ u.nextNonce = s.nextNonce
  BY <1>0, <1>3 DEF Keyed, NeedsKey, Sessions, Shape
<1>6. m.box = {s.ourTemp, s.herTemp}
  BY <1>0, <1>3, <1>5 DEF Packet
<1>7. Advanced(u).ourTemp = s.ourTemp
  BY <1>0, <1>3, <1>5 DEF Advanced, Keyed, NeedsKey, Sessions
<1>8. \A a \in N : a.from = p /\ a.nonce >= 4 /\ s.ourTemp \in a.box => a.nonce < s.nextNonce
  BY DEF SessionInv, CounterAhead
<1> QED  BY <1>2, <1>6, <1>7, <1>8

\* A step of encrypt sends one message of the channel or none.
LEMMA EncryptRefines ==
    ASSUME IndInv, NEW p \in Peers, Encrypt(p)
    PROVE  Channel!Send \/ UNCHANGED Channel!vars
<1> DEFINE s == Prepared(session[p])
<1>0. SessionInv(p, s, net, accepted[p]) /\ NetInv(net) /\ accepted[p] \subseteq net
  BY PreparedInv DEF IndInv
<1> HIDE DEF s
<1>1. PICK key \in IF NeedsKey(s) THEN Keys \ UsedKeys ELSE {NoKey} :
          /\ session' = [session EXCEPT ![p] = Advanced(Keyed(s, key))]
          /\ net' = net \cup {Packet(Keyed(s, key), p)}
          /\ UNCHANGED <<accepted, twice>>
  BY DEF Encrypt, s
<1>2. NeedsKey(s) => key \in Keys /\ \A m \in net : key # m.temp /\ key \notin m.box
  BY <1>1 DEF UsedKeys
<1> DEFINE m == Packet(Keyed(s, key), p)
           t == Advanced(Keyed(s, key))
<1>3. m.from = p /\ SessionInv(p, t, net \cup {m}, accepted[p]) /\ NetInv(net \cup {m})
  BY <1>0, <1>2, EncryptInv
<1>4. m.nonce >= 4 => /\ t.ourTemp = s.ourTemp /\ s.ourTemp \in m.box
                      /\ \A a \in net : a.from = p /\ a.nonce >= 4 /\ s.ourTemp \in a.box
                                         => a.nonce < m.nonce
  BY <1>0, TrafficIsNext
<1>5. net' = net \cup {m} /\ UNCHANGED <<accepted, twice>>
  BY <1>1
<1> HIDE DEF m, t
<1>6. CASE ~(m.nonce >= 4)
  BY <1>5, <1>6 DEF Channel!vars
<1>7. CASE m.nonce >= 4
  <2> DEFINE old == {a \in net : IsTraffic(a)}
             new == {a \in net' : IsTraffic(a)}
  <2>1. new = old \cup {m}
    BY <1>5, <1>7
  <2>2. m \notin old
    <3>1. m.nonce \in Nat
      BY <1>3 DEF NetInv, Packets
    <3> QED  BY <1>3, <1>4, <1>7, <3>1
  <2>3. \A k \in old : Channel!Follows(m, k)
    <3> SUFFICES ASSUME NEW k \in net, k.nonce >= 4, k.box = m.box
                 PROVE  Channel!Follows(m, k)
      BY DEF Channel!Follows
    <3>1. \A a \in net : a.from = p /\ a.nonce >= 4 /\ t.ourTemp \in a.box => a.nonce < m.nonce
      BY <1>4, <1>7
    <3>2. t.ourTemp \in m.box
      BY <1>4, <1>7
    <3> QED  BY <1>3, <1>7, <3>1, <3>2, EncryptFollows
  <2>4. m \in new \ old
    BY <2>1, <2>2
  <2> QED  BY <1>5, <2>1, <2>3, <2>4 DEF Channel!Send
<1> QED  BY <1>6, <1>7

\* The two sessions implement the channel that SecureChannel describes: every step
\* sends a fresh message, delivers one to the other end for the first time, or
\* changes nothing that the users of the sessions can see.
THEOREM ImplementsChannel == Spec => IsSecureChannel
<1>1. Init => Channel!Init
  BY DEF Init, Channel!Init
<1>2. ASSUME IndInv, [Next]_vars
      PROVE  [Channel!Next]_(Channel!vars)
  <2>1. CASE UNCHANGED vars
    BY <2>1 DEF vars, Channel!vars
  <2>2. ASSUME NEW p \in Peers, Encrypt(p)
        PROVE  [Channel!Next]_(Channel!vars)
    BY <1>2, <2>2, EncryptRefines DEF Channel!Next
  <2>3. ASSUME NEW p \in Peers, NEW m \in net, DecryptTraffic(p, m)
        PROVE  [Channel!Next]_(Channel!vars)
    <3>0. SessionInv(p, session[p], net, accepted[p]) /\ NetInv(net) /\ accepted[p] \subseteq net
      BY <1>2 DEF IndInv
    <3>1. IsTraffic(m) /\ TrafficOpens(session[p], m) /\ net' = net
      BY <2>3 DEF DecryptTraffic
    <3>2. CASE ~NonceOk(session[p].rp, m.nonce)
      BY <2>3, <3>2 DEF DecryptTraffic, Channel!vars
    <3>3. CASE NonceOk(session[p].rp, m.nonce)
      <4>1. m.from # p /\ m \notin accepted[p]
        BY <3>0, <3>1, <3>3, OpensFromPeer, TrafficTaken
      <4>2. /\ twice' = twice
            /\ accepted' = [accepted EXCEPT ![p] = accepted[p] \cup {m}]
        BY <2>3, <3>3, <4>1 DEF DecryptTraffic
      <4> QED  BY <3>1, <4>1, <4>2 DEF Channel!Next, Channel!Deliver
    <3> QED  BY <3>2, <3>3
  <2>4. ASSUME UNCHANGED <<net, accepted, twice>>
        PROVE  [Channel!Next]_(Channel!vars)
    BY <2>4 DEF Channel!vars
  <2> QED  BY <1>2, <2>1, <2>2, <2>3, <2>4
           DEF Next, DecryptHandshake, ResetTimedOut, ResetSession, ChooseAuth, Tick
<1> QED  BY <1>1, <1>2, Inductive, PTL DEF Spec, IsSecureChannel, Channel!Spec
-----------------------------------------------------------------------------
(* The lists of users that the sessions are given, as the administrator    *)
(* adds and removes users (module UserTable).                              *)

\* What holds at first and is kept by every step of a finite run holds to its end.
LEMMA Induction ==
    ASSUME NEW n \in Nat, NEW f, NEW I, f[0] \in I[0],
           \A k \in 1 .. n : f[k - 1] \in I[k - 1] => f[k] \in I[k]
    PROVE  \A k \in 0 .. n : f[k] \in I[k]
<1> DEFINE Bad == {k \in 0 .. n : f[k] \notin I[k]}
<1>1. SUFFICES ASSUME Bad # {} PROVE FALSE
  OBVIOUS
<1>2. PICK m \in Bad : \A k \in Bad : m <= k
  <2>1. Bad \in SUBSET Nat
    OBVIOUS
  <2> HIDE DEF Bad
  <2> QED  BY <1>1, <2>1, LeastNat
<1>3. m # 0
  BY <1>2
<1>4. m - 1 \in 0 .. n /\ m - 1 \notin Bad /\ m \in 1 .. n
  BY <1>2, <1>3
<1>5. f[m - 1] \in I[m - 1]
  BY <1>4
<1> QED  BY <1>2, <1>4, <1>5

\* f is a run of n rounds from x, and G[k] the k-th round.
Runs(n, x, G, f) ==
    f = [k \in 0 .. n |-> IF k = 0 THEN x ELSE G[k][f[k - 1]]]

\* A run of n rounds exists, whatever the rounds are.
LEMMA LoopExists ==
    ASSUME NEW n \in Nat, NEW x, NEW G
    PROVE  \E f : Runs(n, x, G, f)
<1> DEFINE Bad == {m \in Nat : ~ \E f : Runs(m, x, G, f)}
<1>1. SUFFICES ASSUME Bad # {} PROVE FALSE
  OBVIOUS
<1>2. PICK m \in Bad : \A k \in Bad : m <= k
  <2>1. Bad \in SUBSET Nat  OBVIOUS
  <2> HIDE DEF Bad
  <2> QED BY <1>1, <2>1, LeastNat
<1>3. CASE m = 0
  <2> DEFINE f == [k \in 0 .. 0 |-> x]
  <2>1. Runs(0, x, G, f)
    BY DEF Runs
  <2> QED BY <1>3, <2>1
<1>4. CASE m # 0
  <2>1. m - 1 \in Nat /\ m - 1 \notin Bad
    BY <1>2, <1>4
  <2>2. PICK f : Runs(m - 1, x, G, f)
    BY <2>1
  <2> DEFINE g == [k \in 0 .. m |-> IF k = m THEN G[m][f[m-1]] ELSE f[k]]
  <2>3. Runs(m, x, G, g)
    <3>1. \A k \in 1 .. m - 1 : f[k] = G[k][f[k - 1]]
      BY <2>1, <2>2 DEF Runs
    <3>2. f[0] = x
      BY <2>1, <2>2 DEF Runs
    <3>3. \A k \in 1 .. m : g[k - 1] = f[k - 1]
      BY <1>2, <1>4
    <3>4. \A k \in 0 .. m : g[k] = IF k = 0 THEN x ELSE G[k][g[k - 1]]
      BY <1>2, <1>4, <3>1, <3>2, <3>3
    <3> QED  BY <3>4 DEF Runs
  <2> QED BY <2>3
<1> QED BY <1>3, <1>4


\* A loop whose rounds lead from I[k - 1] to I[k] has a run that is always in I.
LEMMA Loop ==
    ASSUME NEW n \in Nat, NEW x, NEW G, NEW I, x \in I[0],
           \A k \in 1 .. n : \A s \in I[k - 1] : G[k][s] \in I[k]
    PROVE  \E f : Runs(n, x, G, f) /\ \A k \in 0 .. n : f[k] \in I[k]
<1>1. PICK f : Runs(n, x, G, f)
  BY LoopExists
<1>2. f[0] = x /\ \A k \in 1 .. n : f[k] = G[k][f[k - 1]]
  BY <1>1 DEF Runs
<1>3. f[0] \in I[0] /\ \A k \in 1 .. n : f[k - 1] \in I[k - 1] => f[k] \in I[k]
  BY <1>2
<1>4. \A k \in 0 .. n : f[k] \in I[k]
  BY <1>3, Induction
<1> QED  BY <1>1, <1>4

Entries == [login : Logins \cup {Anon(i) : i \in Nat}, password : Passwords, ip6 : {None}]

\* No two users have the same login and the same password.
Distinct(s) == \A i, j \in DOMAIN s :
                   s[i].login = s[j].login /\ s[i].password = s[j].password => i = j

\* s holds the first k users of L that removeUsers of login leaves.
LeftOf(L, login, k, s) ==
    /\ Distinct(s) /\ Len(s) <= k
    /\ \A i \in DOMAIN s : \E m \in 1 .. k : /\ s[i] = L[m]
                                             /\ login # None /\ L[m].login # login
    /\ \A m \in 1 .. k : login # None /\ L[m].login # login => \E i \in DOMAIN s : s[i] = L[m]

\* A turn of the loop of removeUsers.
LEMMA RemoveRound ==
    ASSUME NEW L \in Seq(Entries), Distinct(L), NEW login, NEW k \in 1 .. Len(L),
           NEW s \in Seq(Entries), LeftOf(L, login, k - 1, s),
           NEW t, t = IF login = None \/ L[k].login = login THEN s ELSE Append(s, L[k])
    PROVE  t \in Seq(Entries) /\ LeftOf(L, login, k, t)
<1>1. DOMAIN L = 1 .. Len(L) /\ Len(L) \in Nat /\ DOMAIN s = 1 .. Len(s) /\ Len(s) \in Nat
  OBVIOUS
<1>2. k \in Nat /\ k >= 1 /\ \A m \in 1 .. k : m \in DOMAIN L /\ (m = k \/ m \in 1 .. k - 1)
  BY <1>1
<1>3. \A m \in 1 .. k - 1 : m \in 1 .. k /\ m # k
  BY <1>2
<1>4. Len(s) <= k - 1
  BY DEF LeftOf
<1>5. CASE login = None \/ L[k].login = login
  <2>1. t = s
    BY <1>5
  <2>2. Len(s) <= k
    BY <1>1, <1>2, <1>4
  <2> QED  BY <1>2, <1>3, <1>5, <2>1, <2>2 DEF LeftOf
<1>6. CASE ~(login = None \/ L[k].login = login)
  <2>1. PICK n \in Nat : n = Len(s) /\ DOMAIN s = 1 .. n
    BY <1>1
  <2>2. t = Append(s, L[k]) /\ L[k] \in Entries
    BY <1>2, <1>6
  <2>3. t \in Seq(Entries) /\ Len(t) = n + 1 /\ DOMAIN t = 1 .. n + 1
    BY <2>1, <2>2
  <2>4. t[n + 1] = L[k] /\ \A i \in 1 .. n : t[i] = s[i]
    BY <2>1, <2>2
  <2>5. \A i \in DOMAIN t : i = n + 1 \/ i \in 1 .. n
    BY <2>1, <2>3
  <2>6. Len(t) <= k
    BY <1>2, <1>4, <2>1, <2>3
  <2>7. \A i \in DOMAIN s : \E m \in 1 .. k - 1 : s[i] = L[m] /\ login # None /\ L[m].login # login
    BY DEF LeftOf
  <2>8. ASSUME NEW i \in 1 .. n
        PROVE  ~(t[i].login = L[k].login /\ t[i].password = L[k].password)
    <3>1. PICK m \in 1 .. k - 1 : s[i] = L[m]
      BY <2>1, <2>7
    <3>2. m \in DOMAIN L /\ k \in DOMAIN L /\ m # k
      BY <1>2, <1>3
    <3> QED  BY <2>4, <3>1, <3>2 DEF Distinct
  <2>9. Distinct(t)
    <3>1. ASSUME NEW i \in DOMAIN t, NEW j \in DOMAIN t,
                 t[i].login = t[j].login, t[i].password = t[j].password
          PROVE  i = j
      <4>1. CASE i \in 1 .. n /\ j \in 1 .. n
        <5>1. Distinct(s) /\ i \in DOMAIN s /\ j \in DOMAIN s
          BY <2>1, <4>1 DEF LeftOf
        <5>2. s[i].login = s[j].login /\ s[i].password = s[j].password
          BY <2>4, <3>1, <4>1
        <5> QED  BY <5>1, <5>2 DEF Distinct
      <4>2. CASE i = n + 1 /\ j \in 1 .. n
        BY <2>4, <2>8, <3>1, <4>2
      <4>3. CASE i \in 1 .. n /\ j = n + 1
        BY <2>4, <2>8, <3>1, <4>3
      <4> QED  BY <2>5, <4>1, <4>2, <4>3
    <3> QED  BY <3>1 DEF Distinct
  <2>10. ASSUME NEW i \in DOMAIN t
         PROVE  \E m \in 1 .. k : t[i] = L[m] /\ login # None /\ L[m].login # login
    <3>1. CASE i = n + 1
      <4>1. k \in 1 .. k
        BY <1>2
      <4> QED  BY <1>6, <2>4, <3>1, <4>1
    <3>2. CASE i \in 1 .. n
      BY <1>3, <2>1, <2>4, <2>7, <3>2
    <3> QED  BY <2>5, <3>1, <3>2
  <2>11. ASSUME NEW m \in 1 .. k, login # None, L[m].login # login
         PROVE  \E i \in DOMAIN t : t[i] = L[m]
    <3>1. CASE m = k
      <4>1. n + 1 \in DOMAIN t
        BY <2>3
      <4> QED  BY <2>4, <3>1, <4>1
    <3>2. CASE m \in 1 .. k - 1
      <4>1. PICK i \in DOMAIN s : s[i] = L[m]
        BY <2>11, <3>2 DEF LeftOf
      <4>2. i \in DOMAIN t
        BY <2>1, <2>3, <4>1
      <4> QED  BY <2>1, <2>4, <4>1, <4>2
    <3> QED  BY <1>2, <3>1, <3>2
  <2> QED  BY <2>3, <2>6, <2>9, <2>10, <2>11 DEF LeftOf
<1> QED  BY <1>5, <1>6

\* CryptoAuth_removeUsers leaves the users of other logins, and each of them once.
LEMMA RemoveUsersLeaves ==
    ASSUME NEW L \in Seq(Entries), Distinct(L), NEW login
    PROVE  /\ RemoveUsers(L, login) \in Seq(Entries)
           /\ LeftOf(L, login, Len(L), RemoveUsers(L, login))
<1> DEFINE n == Len(L)
           Gone(k) == login = None \/ L[k].login = login
           Put(k, s) == IF Gone(k) THEN s ELSE Append(s, L[k])
           I == [k \in 0 .. n |-> {s \in Seq(Entries) : LeftOf(L, login, k, s)}]
           G == [k \in 1 .. n |-> [s \in Seq(Entries) |-> Put(k, s)]]
           Rhs(f) == [k \in 0 .. n |-> IF k = 0 THEN <<>>
                                       ELSE IF Gone(k) THEN f[k - 1] ELSE Append(f[k - 1], L[k])]
           F == CHOOSE f : f = Rhs(f)
<1>1. RemoveUsers(L, login) = F[n]
  BY DEF RemoveUsers
<1>2. n \in Nat /\ DOMAIN L = 1 .. n
  OBVIOUS
<1>3. ASSUME NEW k \in 1 .. n, NEW s \in Seq(Entries), LeftOf(L, login, k - 1, s)
      PROVE  Put(k, s) \in Seq(Entries) /\ LeftOf(L, login, k, Put(k, s))
  <2>1. PICK t : t = Put(k, s)
    OBVIOUS
  <2>2. t = IF login = None \/ L[k].login = login THEN s ELSE Append(s, L[k])
    BY <2>1
  <2> HIDE DEF Put, n
  <2>3. k \in 1 .. Len(L)
    BY DEF n
  <2>4. t \in Seq(Entries) /\ LeftOf(L, login, k, t)
    BY <1>3, <2>2, <2>3, RemoveRound
  <2> QED  BY <2>1, <2>4
<1>4. <<>> \in Seq(Entries) /\ LeftOf(L, login, 0, <<>>)
  BY DEF LeftOf, Distinct
<1> HIDE DEF n
<1>5. \A k \in 1 .. n : k \in 0 .. n /\ k - 1 \in 0 .. n
  BY <1>2
<1>6. \A k \in 1 .. n : \A s \in I[k - 1] : s \in Seq(Entries) /\ G[k][s] = Put(k, s) /\ G[k][s] \in I[k]
  <2> HIDE DEF Put
  <2> QED  BY <1>3, <1>5
<1>7. <<>> \in I[0]
  BY <1>2, <1>4
<1>8. PICK f : Runs(n, <<>>, G, f) /\ \A k \in 0 .. n : f[k] \in I[k]
  <2> HIDE DEF I, G, Put
  <2> QED  BY <1>2, <1>6, <1>7, Loop
<1>9. \A k \in 1 .. n : G[k][f[k - 1]] = Put(k, f[k - 1])
  <2> HIDE DEF Put, G, I
  <2> QED  BY <1>5, <1>6, <1>8
<1> HIDE DEF Gone
<1>10. f = Rhs(f)
  <2>1. f = [k \in 0 .. n |-> IF k = 0 THEN <<>> ELSE G[k][f[k - 1]]]
    BY <1>8 DEF Runs
  <2> HIDE DEF G
  <2>2. \A k \in 0 .. n : (IF k = 0 THEN <<>> ELSE G[k][f[k - 1]])
                           = IF k = 0 THEN <<>>
                             ELSE IF Gone(k) THEN f[k - 1] ELSE Append(f[k - 1], L[k])
    BY <1>2, <1>9
  <2> QED  BY <2>1, <2>2
<1>11. F = Rhs(F)
  BY <1>10
<1>12. F[0] = <<>> /\ \A k \in 1 .. n : F[k] = Put(k, F[k - 1])
  <2> HIDE DEF F
  <2>1. \A k \in 0 .. n : F[k] = IF k = 0 THEN <<>> ELSE Put(k, F[k - 1])
    <3>1. F = [k \in 0 .. n |-> IF k = 0 THEN <<>> ELSE Put(k, F[k - 1])]
      BY <1>11
    <3> HIDE DEF Put
    <3> QED  BY <3>1
  <2> HIDE DEF Put
  <2>2. 0 \in 0 .. n /\ \A k \in 1 .. n : k \in 0 .. n /\ k # 0
    BY <1>2
  <2>3. F[0] = <<>>
    BY <2>1, <2>2
  <2>4. ASSUME NEW k \in 1 .. n PROVE F[k] = Put(k, F[k - 1])
    BY <2>1, <2>2
  <2> QED  BY <2>3, <2>4
<1> HIDE DEF F, Put
<1>13. F[0] \in I[0] /\ \A k \in 1 .. n : F[k - 1] \in I[k - 1] => F[k] \in I[k]
  BY <1>2, <1>3, <1>5, <1>7, <1>12
<1>14. F[n] \in I[n]
  <2> HIDE DEF I
  <2>1. \A k \in 0 .. n : F[k] \in I[k]
    BY <1>2, <1>13, Induction
  <2> QED  BY <1>2, <2>1
<1>15. F[n] \in Seq(Entries) /\ LeftOf(L, login, n, F[n])
  BY <1>2, <1>14
<1> QED  BY <1>1, <1>15 DEF n

\* The invariant of a user list: its users are what addUser makes, and ListIsGranted.
ListOK == users \in Seq(Entries) /\ ListIsGranted

\* What addUser makes of a list.
LEMMA AddUserAdds ==
    ASSUME NEW L \in Seq(Entries), NEW password \in Passwords, NEW login \in Logins \cup {None},
           NEW R, R = AddUser(L, password, login, None)
    PROVE  \/ /\ R = L
              /\ \E i \in DOMAIN L : L[i].login = LoginFor(L, login) /\ L[i].password = password
           \/ /\ R \in Seq(Entries) /\ Len(R) = Len(L) + 1
              /\ \A i \in 1 .. Len(L) : R[i] = L[i]
              /\ R[Len(L) + 1].login = LoginFor(L, login)
              /\ R[Len(L) + 1].password = password
              /\ \A i \in 1 .. Len(L) : ~(/\ L[i].login = LoginFor(L, login)
                                          /\ L[i].password = password)
<1>1. DOMAIN L = 1 .. Len(L) /\ Len(L) \in Nat
  OBVIOUS
<1>2. CASE IsDuplicate(L, password, login)
  <2>1. R = L
    BY <1>2 DEF AddUser
  <2>2. \E i \in DOMAIN L : L[i].login = LoginFor(L, login) /\ L[i].password = password
    BY <1>2 DEF IsDuplicate
  <2> QED  BY <2>1, <2>2
<1>3. CASE ~IsDuplicate(L, password, login)
  <2>1. PICK name : name = LoginFor(L, login)
    OBVIOUS
  <2>2. name \in Logins \cup {Anon(i) : i \in Nat}
    BY <1>1, <2>1 DEF LoginFor
  <2>3. PICK e : e = [login |-> name, password |-> password, ip6 |-> None]
    OBVIOUS
  <2>4. e \in Entries /\ e.login = name /\ e.password = password
    BY <2>2, <2>3 DEF Entries
  <2>5. R = Append(L, e)
    BY <1>3, <2>1, <2>3 DEF AddUser
  <2>6. /\ R \in Seq(Entries) /\ Len(R) = Len(L) + 1
        /\ \A i \in 1 .. Len(L) : R[i] = L[i]
        /\ R[Len(L) + 1] = e
    BY <2>4, <2>5
  <2>7. \A i \in 1 .. Len(L) : ~(L[i].login = name /\ L[i].password = password)
    BY <1>1, <1>3, <2>1 DEF IsDuplicate
  <2> QED  BY <2>1, <2>4, <2>6, <2>7
<1> QED  BY <1>2, <1>3

\* getAuth answers with the first user whom the challenge names, if there is one.
LEMMA GetAuthFirst ==
    ASSUME NEW L, Len(L) \in Nat, DOMAIN L = 1 .. Len(L), NEW auth, NEW n \in 1 .. Len(L),
           Names(auth, L[n]), \A m \in 1 .. Len(L) : Names(auth, L[m]) => n <= m
    PROVE  GetAuth(L, auth) = L[n]
<1> DEFINE named == {i \in 1 .. Len(L) : Names(auth, L[i])}
<1>1. n \in named /\ named \in SUBSET Nat /\ \A m \in named : n <= m
  OBVIOUS
<1>2. named # {} /\ GetAuth(L, auth) = L[Min(named)]
  BY <1>1 DEF GetAuth, SelectInSeq
<1> HIDE DEF named
<1>3. Min(named) \in named /\ \A m \in named : Min(named) <= m
  BY <1>1 DEF Min
<1>4. PICK k \in Nat : k = Min(named) /\ k <= n /\ n <= k
  BY <1>1, <1>3
<1>5. k = n
  BY <1>1, <1>4
<1> QED  BY <1>2, <1>4, <1>5

\* Adding a user at the end leaves the answers of getAuth as they are.
LEMMA AddedLater ==
    ASSUME NEW L \in Seq(Entries), NEW R \in Seq(Entries), Len(R) = Len(L) + 1,
           \A i \in 1 .. Len(L) : R[i] = L[i], NEW auth, GetAuth(L, auth) # None
    PROVE  GetAuth(R, auth) = GetAuth(L, auth)
<1> DEFINE named == {i \in 1 .. Len(L) : Names(auth, L[i])}
<1>1. Len(L) \in Nat /\ DOMAIN L = 1 .. Len(L) /\ Len(R) \in Nat /\ DOMAIN R = 1 .. Len(R)
  OBVIOUS
<1>2. named # {} /\ named \in SUBSET Nat
  BY <1>1 DEF GetAuth
<1>3. PICK n \in named : \A m \in named : n <= m
  <2> HIDE DEF named
  <2> QED  BY <1>2, LeastNat
<1>4. n \in 1 .. Len(L) /\ Names(auth, L[n]) /\ \A m \in 1 .. Len(L) : Names(auth, L[m]) => n <= m
  BY <1>3
<1>5. GetAuth(L, auth) = L[n]
  BY <1>1, <1>4, GetAuthFirst
<1>6. n \in 1 .. Len(R) /\ R[n] = L[n]
  BY <1>1, <1>4
<1>7. ASSUME NEW m \in 1 .. Len(R), Names(auth, R[m]) PROVE n <= m
  <2>1. CASE m = Len(L) + 1
    BY <1>1, <1>4, <2>1
  <2>2. CASE m \in 1 .. Len(L)
    BY <1>4, <1>7, <2>2
  <2> QED  BY <1>1, <2>1, <2>2
<1>8. GetAuth(R, auth) = R[n]
  BY <1>1, <1>4, <1>6, <1>7, GetAuthFirst
<1> QED  BY <1>5, <1>6, <1>8

\* addUser and removeUsers keep the list in order, and only addUser makes it longer.
LEMMA UserStep ==
    ASSUME ListOK, [UserNext]_userVars
    PROVE  /\ ListOK'
           /\ Len(users') > Len(users) =>
                  \A auth : GetAuth(users, auth) # None =>
                                GetAuth(users', auth) = GetAuth(users, auth)
<1> DEFINE Pairs(L) == {<<L[i].login, L[i].password>> : i \in DOMAIN L}
<1>1. /\ users \in Seq(Entries) /\ Len(users) \in Nat
      /\ DOMAIN users = 1 .. Len(users)
      /\ Pairs(users) = granted /\ Distinct(users)
  BY DEF ListOK, ListIsGranted, Distinct
<1>2. SUFFICES ASSUME NEW R, R = users'
               PROVE  /\ R \in Seq(Entries) /\ Distinct(R) /\ Pairs(R) = granted'
                      /\ Len(R) > Len(users) =>
                             \A auth : GetAuth(users, auth) # None =>
                                           GetAuth(R, auth) = GetAuth(users, auth)
  BY DEF ListOK, ListIsGranted, Distinct
<1>3. CASE UNCHANGED userVars
  <2>1. R = users /\ granted' = granted
    BY <1>2, <1>3 DEF userVars
  <2> QED  BY <1>1, <2>1
<1>4. ASSUME NEW password \in Passwords, NEW login \in Logins \cup {None},
             Grant(password, login)
      PROVE  /\ R \in Seq(Entries) /\ Distinct(R) /\ Pairs(R) = granted'
             /\ Len(R) > Len(users) =>
                    \A auth : GetAuth(users, auth) # None =>
                                  GetAuth(R, auth) = GetAuth(users, auth)
  <2>1. PICK L \in Seq(Entries), n \in Nat : L = users /\ n = Len(L) /\ DOMAIN L = 1 .. n
    BY <1>1
  <2>2. PICK name : name = LoginFor(L, login)
    OBVIOUS
  <2>3. /\ R = AddUser(L, password, login, None)
        /\ granted' = granted \cup {<<name, password>>}
    BY <1>2, <1>4, <2>1, <2>2 DEF Grant
  <2>4. CASE /\ R = L
             /\ \E i \in DOMAIN L : L[i].login = name /\ L[i].password = password
    <3>1. <<name, password>> \in Pairs(L)
      BY <2>4
    <3>2. granted' = granted
      BY <1>1, <2>1, <2>3, <3>1
    <3> QED  BY <1>1, <2>1, <2>4, <3>2
  <2>5. CASE /\ R \in Seq(Entries) /\ Len(R) = n + 1
             /\ \A i \in 1 .. n : R[i] = L[i]
             /\ R[n + 1].login = name /\ R[n + 1].password = password
             /\ \A i \in 1 .. n : ~(L[i].login = name /\ L[i].password = password)
    <3>1. DOMAIN R = 1 .. n + 1 /\ \A i \in 1 .. n + 1 : i = n + 1 \/ i \in 1 .. n
      BY <2>5
    <3>2. Distinct(R)
      <4>1. ASSUME NEW i \in DOMAIN R, NEW j \in DOMAIN R,
                   R[i].login = R[j].login, R[i].password = R[j].password
            PROVE  i = j
        <5>1. CASE i \in 1 .. n /\ j \in 1 .. n
          BY <1>1, <2>1, <2>5, <4>1, <5>1 DEF Distinct
        <5>2. CASE i = n + 1 /\ j \in 1 .. n
          BY <2>5, <4>1, <5>2
        <5>3. CASE i \in 1 .. n /\ j = n + 1
          BY <2>5, <4>1, <5>3
        <5> QED  BY <3>1, <5>1, <5>2, <5>3
      <4> QED  BY <4>1 DEF Distinct
    <3>3. Pairs(R) = granted'
      <4>1. ASSUME NEW g PROVE g \in Pairs(R) <=> g \in Pairs(L) \/ g = <<name, password>>
        <5>1. n + 1 \in DOMAIN R /\ \A i \in 1 .. n : i \in DOMAIN R
          BY <3>1
        <5>2. ASSUME g \in Pairs(R) PROVE g \in Pairs(L) \/ g = <<name, password>>
          <6>1. PICK i \in DOMAIN R : g = <<R[i].login, R[i].password>>
            BY <5>2
          <6>2. CASE i = n + 1
            BY <2>5, <6>1, <6>2
          <6>3. CASE i \in 1 .. n
            BY <2>1, <2>5, <6>1, <6>3
          <6> QED  BY <3>1, <6>2, <6>3
        <5>3. ASSUME g \in Pairs(L) PROVE g \in Pairs(R)
          BY <2>1, <2>5, <5>1, <5>3
        <5>4. <<name, password>> \in Pairs(R)
          BY <2>5, <5>1
        <5> QED  BY <5>2, <5>3, <5>4
      <4> HIDE DEF Pairs
      <4> QED  BY <1>1, <2>1, <2>3, <4>1
    <3>4. \A auth : GetAuth(L, auth) # None => GetAuth(R, auth) = GetAuth(L, auth)
      BY <2>1, <2>5, AddedLater
    <3> QED  BY <2>1, <2>5, <3>2, <3>3, <3>4
  <2> QED  BY <2>1, <2>2, <2>3, <2>4, <2>5, AddUserAdds
<1>5. ASSUME NEW login, Revoke(login)
      PROVE  /\ R \in Seq(Entries) /\ Distinct(R) /\ Pairs(R) = granted'
             /\ Len(R) <= Len(users)
  <2>1. PICK L \in Seq(Entries), n \in Nat : L = users /\ n = Len(L) /\ DOMAIN L = 1 .. n
    BY <1>1
  <2>2. /\ R = RemoveUsers(L, login)
        /\ granted' = {g \in granted : login # None /\ g[1] # login}
    BY <1>2, <1>5, <2>1 DEF Revoke
  <2>3. R \in Seq(Entries) /\ LeftOf(L, login, n, R)
    BY <1>1, <2>1, <2>2, RemoveUsersLeaves
  <2>4. ASSUME NEW g
        PROVE  g \in Pairs(R) <=> g \in Pairs(L) /\ login # None /\ g[1] # login
    <3>1. ASSUME g \in Pairs(R) PROVE g \in Pairs(L) /\ login # None /\ g[1] # login
      <4>1. PICK i \in DOMAIN R : g = <<R[i].login, R[i].password>>
        BY <3>1
      <4>2. PICK m \in 1 .. n : R[i] = L[m] /\ login # None /\ L[m].login # login
        BY <2>3, <4>1 DEF LeftOf
      <4> QED  BY <2>1, <4>1, <4>2
    <3>2. ASSUME g \in Pairs(L), login # None, g[1] # login PROVE g \in Pairs(R)
      <4>1. PICK m \in DOMAIN L : g = <<L[m].login, L[m].password>>
        BY <3>2
      <4>2. PICK i \in DOMAIN R : R[i] = L[m]
        BY <2>1, <2>3, <3>2, <4>1 DEF LeftOf
      <4> QED  BY <4>1, <4>2
    <3> QED  BY <3>1, <3>2
  <2>5. Pairs(R) = granted'
    <3> HIDE DEF Pairs
    <3> QED  BY <1>1, <2>1, <2>2, <2>4
  <2> QED  BY <2>1, <2>3, <2>5 DEF LeftOf
<1>6. ASSUME NEW login, Revoke(login) PROVE ~(Len(R) > Len(users))
  <2>1. Len(R) <= Len(users) /\ Len(R) \in Nat
    BY <1>5, <1>6
  <2> QED  BY <1>1, <2>1
<1> QED  BY <1>3, <1>4, <1>5, <1>6 DEF UserNext

\* The list of users is what was granted and not revoked, whatever is added and removed
\* and however many users there are.
THEOREM ListHoldsGrants == UserSpec => []ListIsGranted
<1>1. UserInit => ListOK
  BY DEF UserInit, ListOK, ListIsGranted
<1>2. ListOK /\ [UserNext]_userVars => ListOK'
  BY UserStep
<1>3. ListOK => ListIsGranted
  BY DEF ListOK
<1> QED  BY <1>1, <1>2, <1>3, PTL DEF UserSpec

\* addUser never changes what getAuth answers to a challenge that names a user.
THEOREM AddingKeepsAuth == UserSpec => AddKeepsAuth
<1>1. UserInit => ListOK
  BY DEF UserInit, ListOK, ListIsGranted
<1>2. ListOK /\ [UserNext]_userVars => ListOK'
  BY UserStep
<1>3. ListOK /\ [UserNext]_userVars =>
          [Len(users') > Len(users) =>
             \A auth \in Challenges :
                 GetAuth(users, auth) # None =>
                     GetAuth(users', auth) = GetAuth(users, auth)]_userVars
  <2>1. SUFFICES ASSUME ListOK, [UserNext]_userVars, Len(users') > Len(users),
                        NEW auth, GetAuth(users, auth) # None
                 PROVE  GetAuth(users', auth) = GetAuth(users, auth)
    OBVIOUS
  <2> QED  BY <2>1, UserStep
<1> QED  BY <1>1, <1>2, <1>3, PTL DEF UserSpec, AddKeepsAuth
=============================================================================
