------------------------- MODULE SessionHandlesProofs -------------------------
(***************************************************************************)
(* Proofs about the handles of the session manager, for any number of      *)
(* nodes, keys, sessions, packets, restarts and timeouts, any first        *)
(* handles and any size of the replay window.                              *)
(*                                                                         *)
(* A temporary key ties the two ends together: it is made up by one node,  *)
(* for one session, and every handshake packet that carries it carries the *)
(* handle of that session too.  So whoever holds the key of a session      *)
(* knows its handle, and traffic that is boxed with it names it.           *)
(***************************************************************************)
EXTENDS SessionHandles, ReplayProtectorProofs

\* struct CryptoAuth_Session_pvt.
CaStates == [nextNonce : Nat, isInitiator : BOOLEAN, ourTemp : Keys \cup {NoKey},
             herTemp : Keys \cup {NoKey}, secret : SUBSET Keys, established : BOOLEAN,
             rp : Windows, idle : Nat, auth : {NoAuth}]

\* Which keys and secret go with which nextNonce.
Shape(s) ==
    /\ (s.nextNonce < RECEIVED_HELLO) <=> (s.herTemp = NoKey)
    /\ (s.nextNonce \in {INIT, RECEIVED_HELLO}) <=> (s.ourTemp = NoKey)
    /\ s.established => s.nextNonce > RECEIVED_KEY
    /\ s.nextNonce > RECEIVED_KEY => s.secret = {s.ourTemp, s.herTemp}

CaInv(s) == s \in CaStates /\ InField(s.rp) /\ Shape(s)

Managers == [firstHandle : FirstHandles, nextHandle : Nat, open : BOOLEAN,
             receiveHandle : Nat, sendHandle : Nat, ca : CaStates]

\* p has announced its session's key k together with the session's handle.
Announced(p, k, h, N) ==
    k # NoKey => \E m \in N : m.nonce < 4 /\ m.from = p /\ m.temp = k /\ m.handle = h

\* Another node has announced k with the handle h.
Learned(p, k, h, N) ==
    k # NoKey => \E m \in N : m.nonce < 4 /\ m.from # p /\ m.temp = k /\ m.handle = h

ManagerInv(p, sm, N) ==
    /\ sm \in Managers
    /\ sm.open => sm.receiveHandle > 3
    /\ CaInv(sm.ca)
    /\ Announced(p, sm.ca.ourTemp, sm.receiveHandle, N)
    /\ Learned(p, sm.ca.herTemp, sm.sendHandle, N)

\* What a handshake packet carries, and that a key has one owner and one handle.
KeysHaveHandles(N) ==
    /\ \A m \in N : m.nonce \in Nat /\ m.handle \in Nat
    /\ \A m \in N : m.nonce < 4 => m.temp \in Keys /\ m.handle > 3
    /\ \A m, h \in N : m.nonce < 4 /\ h.nonce < 4 /\ m.temp = h.temp
                       => m.from = h.from /\ m.handle = h.handle

\* Traffic is boxed with a key of its sender and a key of the node that has the handle.
TrafficNamesOwner(N) ==
    \A m \in N : m.nonce >= 4 =>
        \E h, g \in N : /\ h.nonce < 4 /\ g.nonce < 4
                        /\ h.from = m.from /\ g.from # m.from
                        /\ m.box = {h.temp, g.temp}
                        /\ m.handle = g.handle

NetInv(N) == KeysHaveHandles(N) /\ TrafficNamesOwner(N)

IndInv == /\ NetInv(net)
          /\ manager \in [Peers -> Managers]
          /\ \A p \in Peers : ManagerInv(p, manager[p], net)

USE DEF INIT, SENT_HELLO, RECEIVED_HELLO, SENT_KEY, RECEIVED_KEY, IsHello, IsKey, IsTraffic

-----------------------------------------------------------------------------
\* The window that memset leaves.
LEMMA EmptyWindowOK == EmptyWindow \in Windows /\ InField(EmptyWindow)
  BY DEF EmptyWindow, Windows, InField

\* A new session has no keys.
LEMMA NewSessionInv ==
    CaInv(NewSession) /\ NewSession.ourTemp = NoKey /\ NewSession.herTemp = NoKey
<1>1. NewSession \in CaStates /\ InField(NewSession.rp)
  BY EmptyWindowOK DEF NewSession, CaStates
<1> QED  BY <1>1 DEF CaInv, Shape, NewSession

\* reset() leaves no keys.
LEMMA ResetInv ==
    ASSUME NEW s \in CaStates
    PROVE  CaInv(Reset(s)) /\ Reset(s).ourTemp = NoKey /\ Reset(s).herTemp = NoKey
<1>1. Reset(s) \in CaStates /\ InField(Reset(s).rp)
  BY EmptyWindowOK DEF Reset, CaStates
<1>2. /\ Reset(s).ourTemp = NoKey /\ Reset(s).herTemp = NoKey
      /\ Reset(s).nextNonce = 0 /\ ~Reset(s).established
  BY DEF Reset, CaStates
<1> QED  BY <1>1, <1>2 DEF CaInv, Shape

\* The keys of t are those of s or gone.
KeepsOrDrops(s, t) == t.ourTemp \in {NoKey, s.ourTemp} /\ t.herTemp \in {NoKey, s.herTemp}

\* resetIfTimeout() and the start of encrypt keep the keys or drop them.
LEMMA PreparedInv ==
    ASSUME NEW s, CaInv(s)
    PROVE  /\ CaInv(ResetIfTimeout(s)) /\ KeepsOrDrops(s, ResetIfTimeout(s))
           /\ CaInv(Prepared(s)) /\ KeepsOrDrops(s, Prepared(s))
<1> DEFINE t == ResetIfTimeout(s)
<1>1. CaInv(t) /\ KeepsOrDrops(s, t)
  <2>1. CASE TimedOut(s)
    <3> DEFINE r == Reset(s)
    <3>1. CaInv(r) /\ r.ourTemp = NoKey /\ r.herTemp = NoKey
      BY ResetInv DEF CaInv
    <3>2. t = [r EXCEPT !.idle = 0]
      BY <2>1 DEF ResetIfTimeout
    <3> HIDE DEF r, t
    <3>3. /\ t \in CaStates /\ t.ourTemp = NoKey /\ t.herTemp = NoKey
          /\ t.nextNonce = r.nextNonce /\ t.established = r.established
          /\ t.secret = r.secret /\ t.rp = r.rp
      BY <3>1, <3>2 DEF CaInv, CaStates
    <3> QED  BY <3>1, <3>3 DEF CaInv, Shape, KeepsOrDrops
  <2>2. CASE ~TimedOut(s)
    BY <2>2 DEF ResetIfTimeout, KeepsOrDrops
  <2> QED  BY <2>1, <2>2
<1> HIDE DEF t
<1>2. Prepared(s) = t \/ Prepared(s) = Reset(t)
  BY DEF Prepared, t
<1>3. CaInv(Reset(t)) /\ Reset(t).ourTemp = NoKey /\ Reset(t).herTemp = NoKey
  BY <1>1, ResetInv DEF CaInv
<1>4. CaInv(Prepared(s)) /\ KeepsOrDrops(s, Prepared(s))
  BY <1>1, <1>2, <1>3 DEF KeepsOrDrops
<1> QED  BY <1>1, <1>4 DEF t

\* A session that keeps or drops its keys keeps its manager in order.
LEMMA KeptManager ==
    ASSUME NEW p, NEW sm, NEW N, ManagerInv(p, sm, N),
           NEW t, CaInv(t), KeepsOrDrops(sm.ca, t)
    PROVE  ManagerInv(p, [sm EXCEPT !.ca = t], N)
<1> DEFINE r == [sm EXCEPT !.ca = t]
<1>1. /\ r \in Managers /\ r.ca = t /\ r.open = sm.open
      /\ r.receiveHandle = sm.receiveHandle /\ r.sendHandle = sm.sendHandle
  BY DEF ManagerInv, Managers, CaInv
<1> HIDE DEF r
<1>2. ManagerInv(p, r, N)
  BY <1>1 DEF ManagerInv, Announced, Learned, KeepsOrDrops
<1> QED  BY <1>2 DEF r

\* getSession gives a new session a handle that is no handshake nonce.
LEMMA GetSessionInv ==
    ASSUME NEW p, NEW sm, NEW N, ManagerInv(p, sm, N)
    PROVE  ManagerInv(p, GetSession(sm), N) /\ GetSession(sm).open
<1>1. CASE sm.open
  BY <1>1 DEF GetSession
<1>2. CASE ~sm.open
  <2> DEFINE h == sm.firstHandle + sm.nextHandle
             n == sm.nextHandle + 1
             r == [sm EXCEPT !.open = TRUE, !.receiveHandle = h, !.nextHandle = n,
                             !.sendHandle = 0, !.ca = NewSession]
  <2>1. sm.firstHandle \in Nat /\ sm.firstHandle > 3 /\ sm.nextHandle \in Nat
    <3>1. sm.firstHandle \in FirstHandles /\ sm.nextHandle \in Nat
      BY DEF ManagerInv, Managers
    <3>2. sm.firstHandle \in Nat /\ sm.firstHandle \notin 0 .. 3
      BY <3>1, HandleAssumption
    <3> QED  BY <3>1, <3>2
  <2>2. h \in Nat /\ h > 3 /\ n \in Nat
    BY <2>1
  <2>3. GetSession(sm) = r
    BY <1>2 DEF GetSession
  <2> HIDE DEF h, n
  <2>4. r \in Managers /\ r.open /\ r.receiveHandle = h /\ r.ca = NewSession
    BY <2>2, NewSessionInv DEF ManagerInv, Managers, CaInv
  <2> HIDE DEF r
  <2>5. ManagerInv(p, r, N)
    BY <2>2, <2>4, NewSessionInv DEF ManagerInv, Announced, Learned
  <2> QED  BY <2>3, <2>4, <2>5
<1> QED  BY <1>1, <1>2

\* Packets are never unsent.
LEMMA ManagerKeeps ==
    ASSUME NEW p, NEW sm, NEW N, NEW M, ManagerInv(p, sm, N), N \subseteq M
    PROVE  ManagerInv(p, sm, M)
  BY DEF ManagerInv, Announced, Learned

-----------------------------------------------------------------------------
\* What encrypt leaves in the session and puts in the packet.
LEMMA Encrypted ==
    ASSUME NEW s, CaInv(s), NEW from, NEW fresh \in IF NeedsKey(s) THEN Keys ELSE {NoKey}
    PROVE  LET t == Keyed(s, fresh)
               u == Advanced(t)
               m == Packet(t, from)
           IN  /\ CaInv(u) /\ u.herTemp = s.herTemp
               /\ u.ourTemp = IF NeedsKey(s) THEN fresh ELSE s.ourTemp
               /\ u.ourTemp \in Keys
               /\ m.from = from /\ m.nonce = s.nextNonce
               /\ m.nonce < 4 => m.temp = u.ourTemp
               /\ m.nonce >= 4 => /\ m.box = {s.ourTemp, s.herTemp} /\ ~NeedsKey(s)
                                  /\ s.herTemp # NoKey
<1> DEFINE t == Keyed(s, fresh)
           u == Advanced(t)
           m == Packet(t, from)
<1>0. s \in CaStates /\ Shape(s) /\ InField(s.rp) /\ s.nextNonce \in Nat /\ NoKey \notin Keys
  BY SessionAssumption DEF CaInv, CaStates
<1>1. /\ t \in CaStates /\ t.nextNonce = s.nextNonce /\ t.herTemp = s.herTemp /\ t.rp = s.rp
      /\ t.established = s.established
      /\ t.ourTemp = IF NeedsKey(s) THEN fresh ELSE s.ourTemp
      /\ t.nextNonce >= 4 => t.secret = {t.ourTemp, t.herTemp}
  <2>1. CASE NeedsKey(s)
    BY <1>0, <2>1 DEF Keyed, CaStates, NeedsKey
  <2>2. CASE ~NeedsKey(s) /\ s.nextNonce = 4
    <3>1. {s.ourTemp, s.herTemp} \in SUBSET Keys
      BY <1>0, <2>2 DEF CaStates, Shape
    <3> QED  BY <1>0, <2>2, <3>1 DEF Keyed, CaStates
  <2>3. CASE ~NeedsKey(s) /\ s.nextNonce # 4
    BY <1>0, <2>3 DEF Keyed, Shape
  <2> QED  BY <2>1, <2>2, <2>3
<1>2. t.ourTemp \in Keys
  BY <1>0, <1>1 DEF CaStates, Shape, NeedsKey
<1>3. /\ m.from = from /\ m.nonce = s.nextNonce
      /\ m.nonce < 4 => m.temp = t.ourTemp
      /\ m.nonce >= 4 => m.box = t.secret
  BY <1>0, <1>1 DEF Packet
<1> HIDE DEF t
<1>4. /\ u \in CaStates /\ u.herTemp = t.herTemp /\ u.ourTemp = t.ourTemp /\ u.rp = t.rp
      /\ u.established = t.established /\ u.secret = t.secret
      /\ u.nextNonce = IF t.nextNonce < 2 THEN 1
                       ELSE IF t.nextNonce < 4 THEN 3 ELSE t.nextNonce + 1
  <2> DEFINE n == t.nextNonce + 1
  <2>1. n \in Nat
    BY <1>0, <1>1
  <2>2. CASE t.nextNonce < 2
    BY <1>0, <1>1, <2>2 DEF Advanced, CaStates
  <2>3. CASE ~(t.nextNonce < 2) /\ t.nextNonce < 4
    BY <1>0, <1>1, <2>3 DEF Advanced, CaStates
  <2>4. CASE ~(t.nextNonce < 4)
    <3>1. u = [t EXCEPT !.nextNonce = n]
      BY <1>0, <1>1, <2>4 DEF Advanced
    <3> HIDE DEF n, u
    <3>2. /\ u \in CaStates /\ u.herTemp = t.herTemp /\ u.ourTemp = t.ourTemp /\ u.rp = t.rp
          /\ u.established = t.established /\ u.secret = t.secret /\ u.nextNonce = n
      BY <1>1, <2>1, <3>1 DEF CaStates
    <3> QED  BY <1>0, <1>1, <2>4, <3>2 DEF n
  <2> QED  BY <2>2, <2>3, <2>4
<1> HIDE DEF u, m
<1>5. Shape(u)
  BY <1>0, <1>1, <1>2, <1>4 DEF Shape
<1>6. m.nonce >= 4 => ~NeedsKey(s) /\ s.herTemp # NoKey
  BY <1>0, <1>3 DEF NeedsKey, Shape
<1>7. /\ CaInv(u) /\ u.herTemp = s.herTemp
      /\ u.ourTemp = (IF NeedsKey(s) THEN fresh ELSE s.ourTemp)
      /\ u.ourTemp \in Keys
  BY <1>0, <1>1, <1>2, <1>4, <1>5 DEF CaInv
<1>8. m.nonce >= 4 => m.box = {s.ourTemp, s.herTemp}
  BY <1>0, <1>1, <1>3, <1>6
<1>9. m.nonce < 4 => m.temp = u.ourTemp
  BY <1>3, <1>4
<1> QED  BY <1>3, <1>6, <1>7, <1>8, <1>9 DEF t, u, m

\* A packet with the handle that readyToSend or the session puts in it.
LEMMA WithHandleFields ==
    ASSUME NEW m, NEW h
    PROVE  LET x == WithHandle(m, h)
           IN  /\ x.from = m.from /\ x.nonce = m.nonce /\ x.temp = m.temp /\ x.box = m.box
               /\ x.handle = h
  BY DEF WithHandle

\* A handshake packet of p's session, with a key that is fresh or the session's own.
LEMMA HandshakeSent ==
    ASSUME NEW p, NEW sm, NEW N, NetInv(N), ManagerInv(p, sm, N), sm.open, NEW x,
           x.from = p, x.nonce \in Nat, x.nonce < 4, x.temp \in Keys,
           x.handle = sm.receiveHandle,
           \/ x.temp = sm.ca.ourTemp
           \/ \A m \in N : m.temp # x.temp
    PROVE  NetInv(N \cup {x})
<1>1. x.handle \in Nat /\ x.handle > 3 /\ NoKey \notin Keys
  BY SessionAssumption DEF ManagerInv, Managers
<1>2. ASSUME NEW m \in N, m.nonce < 4, m.temp = x.temp
      PROVE  m.from = x.from /\ m.handle = x.handle
  <2>1. x.temp = sm.ca.ourTemp /\ sm.ca.ourTemp # NoKey
    BY <1>1, <1>2
  <2>2. PICK h \in N : h.nonce < 4 /\ h.from = p /\ h.temp = x.temp /\ h.handle = sm.receiveHandle
    BY <2>1 DEF ManagerInv, Announced
  <2> QED  BY <1>2, <2>2 DEF NetInv, KeysHaveHandles
<1>3. KeysHaveHandles(N \cup {x})
  BY <1>1, <1>2 DEF NetInv, KeysHaveHandles
<1>4. TrafficNamesOwner(N \cup {x})
  <2> SUFFICES ASSUME NEW m \in N \cup {x}, m.nonce >= 4
               PROVE  \E h, g \in N : /\ h.nonce < 4 /\ g.nonce < 4
                                      /\ h.from = m.from /\ g.from # m.from
                                      /\ m.box = {h.temp, g.temp} /\ m.handle = g.handle
    BY DEF TrafficNamesOwner
  <2>1. m \in N
    OBVIOUS
  <2> QED  BY <2>1 DEF NetInv, TrafficNamesOwner
<1> QED  BY <1>3, <1>4 DEF NetInv

\* A traffic packet of p's session, with the handle that the session has learned.
LEMMA TrafficSent ==
    ASSUME NEW p, NEW sm, NEW N, NetInv(N), ManagerInv(p, sm, N), NEW x,
           x.from = p, x.nonce \in Nat, x.nonce >= 4, x.handle = sm.sendHandle,
           x.box = {sm.ca.ourTemp, sm.ca.herTemp},
           sm.ca.ourTemp # NoKey, sm.ca.herTemp # NoKey
    PROVE  NetInv(N \cup {x})
<1>1. PICK h \in N : h.nonce < 4 /\ h.from = p /\ h.temp = sm.ca.ourTemp
  BY DEF ManagerInv, Announced
<1>2. PICK g \in N : /\ g.nonce < 4 /\ g.from # p /\ g.temp = sm.ca.herTemp
                     /\ g.handle = sm.sendHandle
  BY DEF ManagerInv, Learned
<1>3. x.handle \in Nat
  BY DEF ManagerInv, Managers
<1>4. KeysHaveHandles(N \cup {x})
  BY <1>3 DEF NetInv, KeysHaveHandles
<1>5. ASSUME NEW m \in N \cup {x}, m.nonce >= 4
      PROVE  \E k, l \in N : /\ k.nonce < 4 /\ l.nonce < 4
                             /\ k.from = m.from /\ l.from # m.from
                             /\ m.box = {k.temp, l.temp} /\ m.handle = l.handle
  <2>1. CASE m = x
    BY <1>1, <1>2, <2>1
  <2>2. CASE m \in N
    BY <1>5, <2>2 DEF NetInv, TrafficNamesOwner
  <2> QED  BY <2>1, <2>2
<1>6. TrafficNamesOwner(N \cup {x})
  BY <1>5 DEF TrafficNamesOwner
<1> QED  BY <1>4, <1>6 DEF NetInv

\* A step of one manager that sends nothing.
LEMMA QuietStep ==
    ASSUME IndInv, NEW p \in Peers, NEW sm, ManagerInv(p, sm, net),
           manager' = [manager EXCEPT ![p] = sm], net' = net
    PROVE  IndInv'
<1>1. manager \in [Peers -> Managers] /\ sm \in Managers
  BY DEF IndInv, ManagerInv
<1>2. manager' \in [Peers -> Managers]
  BY <1>1
<1>3. ASSUME NEW q \in Peers PROVE ManagerInv(q, manager'[q], net)
  <2>1. CASE q = p
    BY <1>1, <2>1
  <2>2. CASE q # p
    BY <1>1, <2>2 DEF IndInv
  <2> QED  BY <2>1, <2>2
<1> QED  BY <1>2, <1>3 DEF IndInv

\* readyToSend.
LEMMA SendInv ==
    ASSUME IndInv, NEW p \in Peers, ReadyToSend(p)
    PROVE  IndInv'
<1> DEFINE sm == GetSession(manager[p])
           s == Prepared(ResetIfTimeout(sm.ca))
<1>1. PICK fresh \in IF NeedsKey(s) THEN Keys \ UsedKeys ELSE {NoKey} :
          LET t == Keyed(s, fresh)
              m == Packet(t, p)
          IN  /\ manager' = [manager EXCEPT ![p] = [sm EXCEPT !.ca = Advanced(t)]]
              /\ net' = net \cup {WithHandle(m, IF IsTraffic(m) THEN sm.sendHandle
                                                ELSE sm.receiveHandle)}
  BY DEF ReadyToSend
<1> DEFINE u == Advanced(Keyed(s, fresh))
           m == Packet(Keyed(s, fresh), p)
           x == WithHandle(m, IF IsTraffic(m) THEN sm.sendHandle ELSE sm.receiveHandle)
           before == [sm EXCEPT !.ca = s]
           after == [sm EXCEPT !.ca = u]
<1>2. manager' = [manager EXCEPT ![p] = after] /\ net' = net \cup {x}
  BY <1>1
<1>3. ManagerInv(p, sm, net) /\ sm.open
  BY GetSessionInv DEF IndInv
<1> HIDE DEF sm
<1>4. CaInv(s) /\ KeepsOrDrops(sm.ca, s)
  <2>1. CaInv(sm.ca)
    BY <1>3 DEF ManagerInv
  <2>2. CaInv(ResetIfTimeout(sm.ca)) /\ KeepsOrDrops(sm.ca, ResetIfTimeout(sm.ca))
    BY <2>1, PreparedInv
  <2>3. CaInv(s) /\ KeepsOrDrops(ResetIfTimeout(sm.ca), s)
    BY <2>2, PreparedInv
  <2> QED  BY <2>2, <2>3 DEF KeepsOrDrops
<1> HIDE DEF s
<1>5. ManagerInv(p, before, net)
  BY <1>3, <1>4, KeptManager
<1>6. /\ before.ca = s /\ before.open /\ before.receiveHandle = sm.receiveHandle
      /\ before.sendHandle = sm.sendHandle
  BY <1>3 DEF ManagerInv, Managers
<1>7. /\ CaInv(u) /\ u.herTemp = s.herTemp
      /\ u.ourTemp = (IF NeedsKey(s) THEN fresh ELSE s.ourTemp)
      /\ u.ourTemp \in Keys
      /\ m.from = p /\ m.nonce = s.nextNonce
      /\ m.nonce < 4 => m.temp = u.ourTemp
      /\ m.nonce >= 4 => /\ m.box = {s.ourTemp, s.herTemp} /\ ~NeedsKey(s)
                         /\ s.herTemp # NoKey
  <2>1. fresh \in IF NeedsKey(s) THEN Keys ELSE {NoKey}
    BY <1>1
  <2> QED  BY <1>4, <2>1, Encrypted
<1>8. m.nonce \in Nat /\ NoKey \notin Keys
  BY <1>4, <1>7, SessionAssumption DEF CaInv, CaStates
<1> HIDE DEF m
<1>9. /\ x.from = m.from /\ x.nonce = m.nonce /\ x.temp = m.temp /\ x.box = m.box
      /\ x.handle = IF m.nonce >= 4 THEN sm.sendHandle ELSE sm.receiveHandle
  BY WithHandleFields
<1> HIDE DEF x, u
<1>10. /\ after \in Managers /\ after.ca = u /\ after.open
       /\ after.receiveHandle = sm.receiveHandle /\ after.sendHandle = sm.sendHandle
  BY <1>3, <1>7 DEF ManagerInv, Managers, CaInv
<1> HIDE DEF before, after
<1>11. sm.receiveHandle > 3
  BY <1>3 DEF ManagerInv
<1>12. ASSUME m.nonce < 4
       PROVE  /\ NetInv(net \cup {x}) /\ Announced(p, u.ourTemp, after.receiveHandle, net \cup {x})
              /\ Learned(p, u.herTemp, after.sendHandle, net \cup {x})
  <2>1. x.nonce < 4 /\ x.temp = u.ourTemp /\ x.handle = before.receiveHandle
    BY <1>6, <1>7, <1>8, <1>9, <1>12
  <2>2. x.temp = before.ca.ourTemp \/ \A k \in net : k.temp # x.temp
    BY <1>1, <1>6, <1>7, <2>1 DEF UsedKeys
  <2>3. NetInv(net)
    BY DEF IndInv
  <2>4. NetInv(net \cup {x})
    BY <1>5, <1>6, <1>7, <1>8, <1>9, <2>1, <2>2, <2>3, HandshakeSent
  <2>5. Announced(p, u.ourTemp, after.receiveHandle, net \cup {x})
    BY <1>6, <1>7, <1>9, <1>10, <2>1 DEF Announced
  <2>6. Learned(p, u.herTemp, after.sendHandle, net \cup {x})
    BY <1>5, <1>6, <1>7, <1>10 DEF ManagerInv, Learned
  <2> QED  BY <2>4, <2>5, <2>6
<1>13. ASSUME m.nonce >= 4
       PROVE  /\ NetInv(net \cup {x}) /\ Announced(p, u.ourTemp, after.receiveHandle, net \cup {x})
              /\ Learned(p, u.herTemp, after.sendHandle, net \cup {x})
  <2>1. /\ x.nonce >= 4 /\ x.handle = before.sendHandle /\ ~NeedsKey(s)
        /\ x.box = {before.ca.ourTemp, before.ca.herTemp}
        /\ before.ca.ourTemp # NoKey /\ before.ca.herTemp # NoKey
    BY <1>6, <1>7, <1>8, <1>9, <1>13
  <2>2. NetInv(net)
    BY DEF IndInv
  <2>3. NetInv(net \cup {x})
    BY <1>5, <1>7, <1>8, <1>9, <2>1, <2>2, TrafficSent
  <2>4. Announced(p, u.ourTemp, after.receiveHandle, net \cup {x})
    BY <1>5, <1>6, <1>7, <1>10, <2>1 DEF ManagerInv, Announced
  <2>5. Learned(p, u.herTemp, after.sendHandle, net \cup {x})
    BY <1>5, <1>6, <1>7, <1>10 DEF ManagerInv, Learned
  <2> QED  BY <2>3, <2>4, <2>5
<1>14. NetInv(net') /\ ManagerInv(p, after, net')
  <2>1. m.nonce < 4 \/ m.nonce >= 4
    BY <1>8
  <2>2. NetInv(net \cup {x}) /\ Announced(p, u.ourTemp, after.receiveHandle, net \cup {x})
        /\ Learned(p, u.herTemp, after.sendHandle, net \cup {x})
    BY <1>12, <1>13, <2>1
  <2> QED  BY <1>2, <1>7, <1>10, <1>11, <2>2 DEF ManagerInv
<1>15. manager \in [Peers -> Managers]
  BY DEF IndInv
<1>16. ASSUME NEW q \in Peers PROVE ManagerInv(q, manager'[q], net')
  <2>1. CASE q = p
    BY <1>2, <1>14, <1>15, <2>1
  <2>2. CASE q # p
    <3>1. ManagerInv(q, manager[q], net) /\ manager'[q] = manager[q] /\ net \subseteq net'
      BY <1>2, <1>15, <2>2 DEF IndInv
    <3> QED  BY <3>1, ManagerKeeps
  <2> QED  BY <2>1, <2>2
<1>17. manager' \in [Peers -> Managers]
  BY <1>2, <1>10, <1>15
<1> QED  BY <1>14, <1>16, <1>17 DEF IndInv

-----------------------------------------------------------------------------
\* What an accepted handshake packet leaves: our key or none, and the packet's key, or
\* none at all in a session that stands by its own hello.
LEMMA HandshakeTaken ==
    ASSUME NEW s, CaInv(s), NEW p, NEW m, NEW lower \in BOOLEAN, m.nonce \in Nat,
           m.nonce < 4, m.temp \in Keys, TakesHandshake(s, p, <<>>, FALSE, m)
    PROVE  LET t == AfterHandshake(s, lower, m)
           IN  CaInv(t) /\ t.ourTemp \in {NoKey, s.ourTemp} /\ t.herTemp \in {NoKey, m.temp}
<1> DEFINE t == AfterHandshake(s, lower, m)
<1>0. /\ s \in CaStates /\ Shape(s) /\ InField(s.rp) /\ s.nextNonce \in Nat /\ NoKey \notin Keys
      /\ EmptyWindow \in Windows /\ InField(EmptyWindow)
      /\ s.ourTemp \in Keys \cup {NoKey} /\ s.herTemp \in Keys \cup {NoKey}
  BY SessionAssumption, EmptyWindowOK DEF CaInv, CaStates
<1>1. CASE IsHello(m) /\ m.temp = s.herTemp
  <2>1. t = [s EXCEPT !.rp = EmptyWindow]
    BY <1>1 DEF AfterHandshake, AfterHello
  <2> HIDE DEF t
  <2>2. /\ t \in CaStates /\ t.rp = EmptyWindow /\ t.ourTemp = s.ourTemp
        /\ t.herTemp = s.herTemp /\ t.nextNonce = s.nextNonce /\ t.secret = s.secret
        /\ t.established = s.established
    BY <1>0, <2>1 DEF CaStates
  <2>3. CaInv(t)
    BY <1>0, <2>2 DEF CaInv, Shape
  <2> QED  BY <1>1, <2>2, <2>3 DEF t
<1>2. CASE IsHello(m) /\ m.temp # s.herTemp /\ s.nextNonce = 1 /\ ~lower
  <2>1. t = s
    BY <1>2 DEF AfterHandshake, AfterHello
  <2>2. s.herTemp = NoKey
    BY <1>0, <1>2 DEF Shape
  <2> QED  BY <2>1, <2>2
<1>3. CASE IsHello(m) /\ m.temp # s.herTemp /\ ~(s.nextNonce = 1 /\ ~lower)
  <2> DEFINE r == IF s.nextNonce = 0 THEN s ELSE Reset(s)
  <2>1. t = [r EXCEPT !.herTemp = m.temp, !.nextNonce = 2, !.rp = EmptyWindow]
    BY <1>3 DEF AfterHandshake, AfterHello
  <2>2. r \in CaStates /\ r.ourTemp = NoKey /\ ~r.established
    <3>1. CASE s.nextNonce = 0
      BY <1>0, <3>1 DEF Shape
    <3>2. CASE s.nextNonce # 0
      BY <1>0, <3>2, ResetInv DEF CaInv, Reset, CaStates
    <3> QED  BY <3>1, <3>2
  <2> HIDE DEF r, t
  <2>3. /\ t \in CaStates /\ t.rp = EmptyWindow /\ t.ourTemp = NoKey
        /\ t.herTemp = m.temp /\ t.nextNonce = 2 /\ ~t.established
    BY <1>0, <2>1, <2>2 DEF CaStates
  <2>4. CaInv(t)
    BY <1>0, <2>3 DEF CaInv, Shape
  <2> QED  BY <2>3, <2>4 DEF t
<1>4. CASE ~IsHello(m)
  <2> DEFINE n == IF s.nextNonce > 4 THEN s.nextNonce + 1 ELSE 4
             k == IF s.nextNonce > 4 /\ m.nonce = 2 THEN {s.ourTemp, m.temp} ELSE s.secret
  <2>1. t = [s EXCEPT !.herTemp = m.temp, !.secret = k, !.nextNonce = n, !.rp = EmptyWindow]
    BY <1>4 DEF AfterHandshake, AfterKey
  <2>2. /\ m.nonce \in {2, 3} /\ s.nextNonce \notin {0, 2, 3} /\ s.ourTemp \in Keys
        /\ ~s.established
        /\ m.nonce = 3 /\ s.nextNonce >= 4 => m.temp = s.herTemp
    BY <1>0, <1>4 DEF TakesHandshake, HandshakeOk, NotStray, Shape
  <2>3. /\ n \in Nat /\ n >= 4 /\ k \in SUBSET Keys
        /\ n > 4 => k = {s.ourTemp, m.temp}
    BY <1>0, <2>2 DEF CaStates, Shape
  <2> HIDE DEF n, k, t
  <2>4. /\ t \in CaStates /\ t.rp = EmptyWindow /\ t.ourTemp = s.ourTemp /\ t.secret = k
        /\ t.herTemp = m.temp /\ t.nextNonce = n /\ t.established = s.established
    BY <1>0, <2>1, <2>3 DEF CaStates
  <2>5. CaInv(t)
    BY <1>0, <2>2, <2>3, <2>4 DEF CaInv, Shape
  <2> QED  BY <2>4, <2>5 DEF t
<1> QED  BY <1>1, <1>2, <1>3, <1>4

\* incomingFromSwitchIf, a handshake packet.
LEMMA HandshakeInv ==
    ASSUME IndInv, NEW p \in Peers, NEW m \in net, IncomingHandshake(p, m)
    PROVE  IndInv'
<1> DEFINE got == GetSession(manager[p])
           sm == [got EXCEPT !.ca = ResetIfTimeout(got.ca)]
           r == HandshakeReceived(sm, p, m)
<1>1. manager' = [manager EXCEPT ![p] = r] /\ net' = net /\ m.nonce < 4 /\ m.from # p
  <2>1. m.nonce \in Nat
    BY DEF IndInv, NetInv, KeysHaveHandles
  <2> QED  BY <2>1 DEF IncomingHandshake
<1>2. ManagerInv(p, got, net)
  BY GetSessionInv DEF IndInv
<1> HIDE DEF got
<1>3. ManagerInv(p, sm, net)
  <2>1. CaInv(got.ca)
    BY <1>2 DEF ManagerInv
  <2> QED  BY <1>2, <2>1, PreparedInv, KeptManager
<1>4. m.nonce \in Nat /\ m.temp \in Keys /\ m.handle \in Nat /\ NoKey \notin Keys
  BY <1>1, SessionAssumption DEF IndInv, NetInv, KeysHaveHandles
<1> HIDE DEF sm
<1>5. CASE ~TakesHandshake(sm.ca, p, <<>>, FALSE, m)
  <2>1. r = sm
    BY <1>5 DEF HandshakeReceived
  <2> QED  BY <1>1, <1>3, <2>1, QuietStep
<1>6. CASE TakesHandshake(sm.ca, p, <<>>, FALSE, m)
  <2> DEFINE lower == m.from = LowPeer
             t == AfterHandshake(sm.ca, lower, m)
  <2>1. r = [sm EXCEPT !.ca = t, !.sendHandle = m.handle]
    BY <1>3, <1>6 DEF HandshakeReceived, TookHandshake, ManagerInv, Managers
  <2>2. CaInv(t) /\ t.ourTemp \in {NoKey, sm.ca.ourTemp} /\ t.herTemp \in {NoKey, m.temp}
    <3>1. lower \in BOOLEAN /\ CaInv(sm.ca)
      BY <1>3 DEF ManagerInv
    <3> HIDE DEF lower
    <3> QED  BY <1>1, <1>4, <1>6, <3>1, HandshakeTaken
  <2> HIDE DEF t, r
  <2>3. /\ r \in Managers /\ r.ca = t /\ r.sendHandle = m.handle /\ r.open = sm.open
        /\ r.receiveHandle = sm.receiveHandle
    BY <1>3, <1>4, <2>1, <2>2 DEF ManagerInv, Managers, CaInv
  <2>4. Announced(p, t.ourTemp, r.receiveHandle, net)
    BY <1>3, <2>2, <2>3 DEF ManagerInv, Announced
  <2>5. Learned(p, t.herTemp, r.sendHandle, net)
    BY <1>1, <2>2, <2>3 DEF Learned
  <2>6. ManagerInv(p, r, net)
    BY <1>3, <2>2, <2>3, <2>4, <2>5 DEF ManagerInv
  <2> QED  BY <1>1, <2>6, QuietStep DEF r
<1> QED  BY <1>5, <1>6

\* What traffic that opens leaves: the keys as they were, their secret in place.
LEMMA TrafficTaken ==
    ASSUME NEW s, CaInv(s), NEW m, m.nonce \in Nat, TrafficOpens(s, m)
    PROVE  CaInv(AfterTraffic(s, m)) /\ KeepsOrDrops(s, AfterTraffic(s, m))
<1> DEFINE t == AfterTraffic(s, m)
           w == Filed(s.rp, m.nonce)
           n == IF s.established THEN s.nextNonce ELSE s.nextNonce + 3
           k == TrafficBox(s)
<1>0. /\ s \in CaStates /\ Shape(s) /\ InField(s.rp) /\ s.nextNonce \in Nat /\ NoKey \notin Keys
      /\ s.rp \in Windows /\ s.ourTemp \in Keys \cup {NoKey} /\ s.herTemp \in Keys \cup {NoKey}
  BY SessionAssumption DEF CaInv, CaStates
<1>1. w \in Windows /\ InField(w)
  BY <1>0, FiledFacts
<1>2. s.nextNonce >= 3 /\ k = {s.ourTemp, s.herTemp} /\ n \in Nat /\ n > 4
  BY <1>0 DEF TrafficOpens, TrafficBox, Shape
<1>3. k \in SUBSET Keys
  BY <1>0, <1>2 DEF Shape
<1> HIDE DEF w, n, k
<1>4. CASE NonceOk(s.rp, m.nonce)
  <2>1. t = [s EXCEPT !.rp = w, !.secret = k, !.nextNonce = n, !.established = TRUE, !.idle = 0]
    BY <1>4 DEF AfterTraffic, w, n, k
  <2> HIDE DEF t
  <2>2. /\ t \in CaStates /\ t.rp = w /\ t.ourTemp = s.ourTemp /\ t.secret = k
        /\ t.herTemp = s.herTemp /\ t.nextNonce = n
    BY <1>0, <1>1, <1>2, <1>3, <2>1 DEF CaStates
  <2>3. CaInv(t)
    BY <1>0, <1>1, <1>2, <2>2 DEF CaInv, Shape
  <2> QED  BY <2>2, <2>3 DEF KeepsOrDrops, t
<1>5. CASE ~NonceOk(s.rp, m.nonce)
  <2>1. t = [s EXCEPT !.rp = w]
    BY <1>5 DEF AfterTraffic, w
  <2> HIDE DEF t
  <2>2. /\ t \in CaStates /\ t.rp = w /\ t.ourTemp = s.ourTemp /\ t.secret = s.secret
        /\ t.herTemp = s.herTemp /\ t.nextNonce = s.nextNonce /\ t.established = s.established
    BY <1>0, <1>1, <2>1 DEF CaStates
  <2>3. CaInv(t)
    BY <1>0, <1>1, <2>2 DEF CaInv, Shape
  <2> QED  BY <2>2, <2>3 DEF KeepsOrDrops, t
<1> QED  BY <1>4, <1>5

\* incomingFromSwitchIf, a traffic packet.
LEMMA TrafficInv ==
    ASSUME IndInv, NEW p \in Peers, NEW m \in net, IncomingTraffic(p, m)
    PROVE  IndInv'
<1>1. ManagerInv(p, manager[p], net) /\ manager \in [Peers -> Managers] /\ m.nonce \in Nat
  BY DEF IndInv, NetInv, KeysHaveHandles
<1> DEFINE t == AfterTraffic(manager[p].ca, m)
           r == [manager[p] EXCEPT !.ca = t]
<1>2. manager' = [manager EXCEPT ![p] = r] /\ net' = net /\ TrafficOpens(manager[p].ca, m)
  BY <1>1 DEF IncomingTraffic
<1>3. CaInv(manager[p].ca)
  BY <1>1 DEF ManagerInv
<1>4. CaInv(t) /\ KeepsOrDrops(manager[p].ca, t)
  BY <1>1, <1>2, <1>3, TrafficTaken
<1> HIDE DEF t
<1>5. ManagerInv(p, r, net)
  BY <1>1, <1>4, KeptManager
<1> QED  BY <1>2, <1>5, QuietStep

\* checkTimedOutSessions.
LEMMA EndSessionInv ==
    ASSUME IndInv, NEW p \in Peers, EndSession(p)
    PROVE  IndInv'
<1>1. ManagerInv(p, manager[p], net) /\ manager \in [Peers -> Managers]
  BY DEF IndInv
<1> DEFINE r == [manager[p] EXCEPT !.open = FALSE, !.receiveHandle = 0, !.sendHandle = 0,
                                   !.ca = NewSession]
<1>2. manager' = [manager EXCEPT ![p] = r] /\ net' = net
  BY <1>1 DEF EndSession
<1>3. r \in Managers /\ ~r.open /\ r.ca = NewSession
  BY <1>1, NewSessionInv DEF ManagerInv, Managers, CaInv
<1> HIDE DEF r
<1>4. ManagerInv(p, r, net)
  BY <1>3, NewSessionInv DEF ManagerInv, Announced, Learned
<1> QED  BY <1>2, <1>4, QuietStep

\* SessionManager_new.
LEMMA NewManagerInv ==
    ASSUME NEW p, NEW first \in FirstHandles, NEW N
    PROVE  ManagerInv(p, NewManager(first), N)
<1> DEFINE r == NewManager(first)
<1>1. r \in Managers /\ ~r.open /\ r.ca = NewSession
  BY NewSessionInv DEF NewManager, Managers, CaInv
<1> HIDE DEF r
<1>2. ManagerInv(p, r, N)
  BY <1>1, NewSessionInv DEF ManagerInv, Announced, Learned
<1> QED  BY <1>2 DEF r

\* Time that passes.
LEMMA TickInv ==
    ASSUME IndInv, NEW p \in Peers, Tick(p)
    PROVE  IndInv'
<1>1. ManagerInv(p, manager[p], net) /\ manager \in [Peers -> Managers]
  BY DEF IndInv
<1> DEFINE s == manager[p].ca
           n == s.idle + 1
           t == [s EXCEPT !.idle = n]
           r == [manager[p] EXCEPT !.ca = t]
<1>2. manager' = [manager EXCEPT ![p] = r] /\ net' = net
  BY <1>1 DEF Tick
<1>3. CaInv(s) /\ n \in Nat
  BY <1>1 DEF ManagerInv, CaInv, CaStates
<1> HIDE DEF s, n
<1>4. /\ t \in CaStates /\ t.ourTemp = s.ourTemp /\ t.herTemp = s.herTemp /\ t.rp = s.rp
      /\ t.nextNonce = s.nextNonce /\ t.established = s.established /\ t.secret = s.secret
  BY <1>3 DEF CaInv, CaStates
<1> HIDE DEF t
<1>5. CaInv(t) /\ KeepsOrDrops(s, t)
  BY <1>3, <1>4 DEF CaInv, Shape, KeepsOrDrops
<1>6. ManagerInv(p, r, net)
  BY <1>1, <1>5, KeptManager DEF s
<1> QED  BY <1>2, <1>6, QuietStep

-----------------------------------------------------------------------------
\* New managers and an empty network satisfy the inductive invariant.
LEMMA InitInv == Init => IndInv
<1> SUFFICES ASSUME Init PROVE IndInv
  OBVIOUS
<1>1. NetInv(net)
  BY DEF Init, NetInv, KeysHaveHandles, TrafficNamesOwner
<1>2. ASSUME NEW p \in Peers PROVE ManagerInv(p, manager[p], net)
  <2>1. PICK first \in FirstHandles : manager[p] = NewManager(first)
    BY DEF Init
  <2> QED  BY <2>1, NewManagerInv
<1>3. manager \in [Peers -> Managers]
  <2>1. \A p \in Peers : manager[p] \in Managers
    BY <1>2 DEF ManagerInv
  <2>2. manager = [p \in Peers |-> manager[p]]
    BY DEF Init
  <2> QED  BY <2>1, <2>2
<1> QED  BY <1>1, <1>2, <1>3 DEF IndInv

\* Every step preserves it.
LEMMA StepInv == IndInv /\ [Next]_vars => IndInv'
<1> SUFFICES ASSUME IndInv, [Next]_vars PROVE IndInv'
  OBVIOUS
<1>1. CASE UNCHANGED vars
  BY <1>1 DEF vars, IndInv
<1>2. ASSUME NEW p \in Peers, Restart(p) PROVE IndInv'
  <2>1. PICK first \in FirstHandles : manager' = [manager EXCEPT ![p] = NewManager(first)]
    BY <1>2 DEF Restart
  <2> QED  BY <1>2, <2>1, NewManagerInv, QuietStep DEF Restart
<1>3. CASE Next
  BY <1>2, <1>3, SendInv, HandshakeInv, TrafficInv, EndSessionInv, TickInv DEF Next
<1> QED  BY <1>1, <1>3

\* The inductive invariant holds in every state.
THEOREM Inductive == Spec => []IndInv
<1> QED  BY InitInv, StepInv, PTL DEF Spec

\* Whoever holds the temporary key of a session knows the handle it is filed under.
THEOREM HandlesStayInStep == Spec => []HandlesAgree
<1>1. ASSUME IndInv PROVE HandlesAgree
  <2> SUFFICES ASSUME NEW p \in Peers, NEW q \in Peers, manager[p].ca.herTemp # NoKey,
                      manager[p].ca.herTemp = manager[q].ca.ourTemp
               PROVE  manager[p].sendHandle = manager[q].receiveHandle
    BY DEF HandlesAgree
  <2>1. PICK h \in net : /\ h.nonce < 4 /\ h.temp = manager[p].ca.herTemp
                         /\ h.handle = manager[p].sendHandle
    BY <1>1 DEF IndInv, ManagerInv, Learned
  <2>2. PICK g \in net : /\ g.nonce < 4 /\ g.temp = manager[q].ca.ourTemp
                         /\ g.handle = manager[q].receiveHandle
    BY <1>1 DEF IndInv, ManagerInv, Announced
  <2> QED  BY <1>1, <2>1, <2>2 DEF IndInv, NetInv, KeysHaveHandles
<1> QED  BY <1>1, Inductive, PTL

\* Traffic that a session can decrypt carries the handle of that session.
THEOREM TrafficIsNeverLost == Spec => []TrafficFindsItsSession
<1>1. ASSUME IndInv PROVE TrafficFindsItsSession
  <2> SUFFICES ASSUME NEW p \in Peers, NEW m \in net, m.nonce >= 4, m.from # p,
                      manager[p].open, TrafficOpens(manager[p].ca, m)
               PROVE  m.handle > 3 /\ manager[p].receiveHandle = m.handle
    BY DEF TrafficFindsItsSession, SessionForHandle
  <2> DEFINE s == manager[p].ca
  <2>1. ManagerInv(p, manager[p], net) /\ NetInv(net)
    BY <1>1 DEF IndInv
  <2>2. CaInv(s)
    BY <2>1 DEF ManagerInv
  <2>3. m.box = {s.ourTemp, s.herTemp} /\ s.ourTemp # NoKey
    BY <2>2 DEF CaInv, CaStates, Shape, TrafficOpens, TrafficBox
  <2>4. PICK own \in net : /\ own.nonce < 4 /\ own.from = p /\ own.temp = s.ourTemp
                           /\ own.handle = manager[p].receiveHandle
    BY <2>1, <2>3 DEF ManagerInv, Announced
  <2>5. PICK h \in net, g \in net : /\ h.nonce < 4 /\ g.nonce < 4 /\ h.from = m.from
                                    /\ m.box = {h.temp, g.temp} /\ m.handle = g.handle
    BY <2>1 DEF NetInv, TrafficNamesOwner
  <2>6. own.temp # h.temp
    BY <2>1, <2>4, <2>5 DEF NetInv, KeysHaveHandles
  <2>7. own.temp = g.temp
    BY <2>3, <2>4, <2>5, <2>6
  <2>8. own.handle = g.handle /\ g.handle > 3
    BY <2>1, <2>4, <2>5, <2>7 DEF NetInv, KeysHaveHandles
  <2> QED  BY <2>4, <2>5, <2>8
<1> QED  BY <1>1, Inductive, PTL
=============================================================================
