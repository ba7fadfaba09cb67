---------------------------- MODULE SessionHandles ----------------------------
(***************************************************************************)
(* The handles of net/SessionManager.c.  Two nodes keep a session for each *)
(* other.  Inside the handshake a node tells the other the handle under    *)
(* which it files its session, and the traffic that follows names nothing  *)
(* but that handle.  Sessions end when they have been silent for long      *)
(* enough and nodes restart, each with handles of its own choice, while    *)
(* net keeps every packet ever sent.                                       *)
(*                                                                         *)
(* A packet is one of CryptoAuthSession with a handle: the sender's own in *)
(* the boxed part of a hello or a key packet, the receiver's in front of a *)
(* traffic packet.                                                         *)
(***************************************************************************)
EXTENDS CryptoAuthSession

CONSTANTS Peers,          \* the two nodes
          LowPeer,        \* the one whose permanent public key is lower
          FirstHandles    \* the values of firstHandle

\* MIN_FIRST_HANDLE is 4, below are the nonces of the handshake.
ASSUME HandleAssumption == FirstHandles \subseteq Nat \ 0 .. 3

VARIABLES manager,   \* manager[p]: firstHandle, the map's nextHandle and the one entry it may have
          net        \* the packets sent so far

vars == <<manager, net>>

\* SessionManager_new.
NewManager(first) == [firstHandle |-> first, nextHandle |-> 0, open |-> FALSE,
                      receiveHandle |-> 0, sendHandle |-> 0, ca |-> NewSession]

Init == /\ manager \in [Peers -> {NewManager(first) : first \in FirstHandles}]
        /\ net = {}

UsedKeys == {m.temp : m \in net} \cup UNION {m.box : m \in net}

\* getSession: the entry for the other node, put in the map if there is none.
GetSession(sm) ==
    IF sm.open THEN sm
    ELSE [sm EXCEPT !.open = TRUE, !.receiveHandle = sm.firstHandle + sm.nextHandle,
                    !.nextHandle = @ + 1, !.sendHandle = 0, !.ca = NewSession]

WithHandle(m, h) == [from |-> m.from, nonce |-> m.nonce, temp |-> m.temp, auth |-> m.auth,
                     box |-> m.box, initiator |-> m.initiator, handle |-> h]

\* readyToSend lays the message out for a handshake or for traffic before it encrypts;
\* encrypt starts a session over at the nonce limit and then sends a hello all the same.
LaidOut(s) == LET t == ResetIfTimeout(s)
              IN  (t.nextNonce < RECEIVED_KEY) = (Prepared(t).nextNonce < RECEIVED_KEY)

\* readyToSend of a message for the other node.
ReadyToSend(p) ==
    /\ LaidOut(GetSession(manager[p]).ca)
    /\ LET sm == GetSession(manager[p])
           s == Prepared(ResetIfTimeout(sm.ca))
       IN  \E fresh \in IF NeedsKey(s) THEN Keys \ UsedKeys ELSE {NoKey} :
               LET t == Keyed(s, fresh)
                   m == Packet(t, p)
               IN  /\ manager' = [manager EXCEPT ![p] = [sm EXCEPT !.ca = Advanced(t)]]
                   /\ net' = net \cup {WithHandle(m, IF IsTraffic(m) THEN sm.sendHandle
                                                     ELSE sm.receiveHandle)}

\* MUTANT: the handle of the other end is learned once.
TookHandshakeOnce(sm, lower, m) ==
    [sm EXCEPT !.ca = AfterHandshake(@, lower, m),
               !.sendHandle = IF @ = 0 THEN m.handle ELSE @]

\* incomingFromSwitchIf once decrypt has accepted a hello or a key packet.
TookHandshake(sm, lower, m) ==
    [sm EXCEPT !.ca = AfterHandshake(@, lower, m), !.sendHandle = m.handle]

\* MUTANT: the handle is read before decrypt has looked at the packet.
HandshakeReceivedEarly(sm, p, m) ==
    IF TakesHandshake(sm.ca, p, <<>>, FALSE, m)
    THEN TookHandshake(sm, m.from = LowPeer, m) ELSE [sm EXCEPT !.sendHandle = m.handle]

\* decrypt of a handshake packet, and what follows if it returns 0.
HandshakeReceived(sm, p, m) ==
    IF TakesHandshake(sm.ca, p, <<>>, FALSE, m)
    THEN TookHandshake(sm, m.from = LowPeer, m) ELSE sm

\* incomingFromSwitchIf, a handshake packet: the session is made, or reset if it has
\* timed out, even if decrypt then refuses the packet.
IncomingHandshake(p, m) ==
    /\ ~IsTraffic(m)
    /\ m.from # p
    /\ LET sm == GetSession(manager[p])
       IN  manager' = [manager EXCEPT ![p] =
                          HandshakeReceived([sm EXCEPT !.ca = ResetIfTimeout(@)], p, m)]
    /\ UNCHANGED net

\* sessionForHandle.
SessionForHandle(sm, h) == sm.open /\ sm.receiveHandle = h

\* incomingFromSwitchIf, a traffic packet: the session is found by the handle alone.
IncomingTraffic(p, m) ==
    /\ IsTraffic(m)
    /\ SessionForHandle(manager[p], m.handle)
    /\ TrafficOpens(manager[p].ca, m)
    /\ manager' = [manager EXCEPT ![p].ca = AfterTraffic(@, m)]
    /\ UNCHANGED net

\* checkTimedOutSessions ends a session that nothing has come in on for too long.
EndSession(p) ==
    /\ manager[p].open
    /\ manager' = [manager EXCEPT ![p].open = FALSE, ![p].receiveHandle = 0,
                                  ![p].sendHandle = 0, ![p].ca = NewSession]
    /\ UNCHANGED net

\* The node restarts, or stops at the assertion that follows the layout.
Restart(p) ==
    /\ \E first \in FirstHandles : manager' = [manager EXCEPT ![p] = NewManager(first)]
    /\ UNCHANGED net

Tick(p) ==
    /\ manager[p].open
    /\ manager[p].ca.idle < ResetAfter
    /\ manager' = [manager EXCEPT ![p].ca.idle = @ + 1]
    /\ UNCHANGED net

Next == \E p \in Peers :
            \/ ReadyToSend(p)
            \/ \E m \in net : IncomingHandshake(p, m) \/ IncomingTraffic(p, m)
            \/ EndSession(p)
            \/ Restart(p)
            \/ Tick(p)

Spec == Init /\ [][Next]_vars

-----------------------------------------------------------------------------
\* A session whose peer holds its current temporary key is known to the peer by the
\* handle it is filed under, though either end may have ended, restarted or reset it
\* since, and old handshake packets keep arriving.
HandlesAgree ==
    \A p, q \in Peers :
        /\ p # q /\ manager[p].open /\ manager[q].open
        /\ manager[p].ca.herTemp # NoKey
        /\ manager[p].ca.herTemp = manager[q].ca.ourTemp
        => manager[p].sendHandle = manager[q].receiveHandle

\* Traffic that a session could decrypt finds that session: no packet of the current
\* secret is dropped for a handle that is gone or is not the session's, and none
\* carries a handle that reads as a handshake nonce.
TrafficFindsItsSession ==
    \A p \in Peers, m \in net :
        /\ IsTraffic(m) /\ m.from # p
        /\ manager[p].open /\ TrafficOpens(manager[p].ca, m)
        => m.handle > 3 /\ SessionForHandle(manager[p], m.handle)
=============================================================================
