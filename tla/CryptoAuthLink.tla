---------------------------- MODULE CryptoAuthLink ----------------------------
(***************************************************************************)
(* Two nodes that peer with each other over a link with a bounded number   *)
(* of faults, for liveness: the CryptoAuth sessions of both, and of        *)
(* net/InterfaceController.c what decides when a packet is sent.           *)
(*                                                                         *)
(* pingCallback runs once in a tick at each node.  Packets are faster      *)
(* than that: what is sent in a tick is delivered, and answered, before    *)
(* the next one.                                                           *)
(***************************************************************************)
EXTENDS CryptoAuthSession

CONSTANTS Peers,               \* the two nodes
          LowPeer,             \* the one whose permanent public key is lower
          PingAfter,           \* PING_AFTER_MILLISECONDS, in ticks
          UnresponsiveAfter,   \* UNRESPONSIVE_AFTER_MILLISECONDS, in ticks
          ForgetAfter,         \* FORGET_AFTER_MILLISECONDS, in ticks
          PingSkip,            \* 8: an unresponsive peer is pinged if pingCount is a multiple of it
          EarlySkip,           \* 7: an early message causes no ping if pingCount + 1 is one of it
          Capacity,            \* bound: packets in flight in a direction
          MaxFaults            \* bound: faults of the link and of the nodes

ASSUME LinkAssumption ==
    /\ {PingAfter, UnresponsiveAfter, ForgetAfter, Capacity, MaxFaults} \subseteq Nat
    /\ UnresponsiveAfter < ForgetAfter
    /\ {PingSkip, EarlySkip} \subseteq Nat \ {0}
    /\ 1 .. 4 \subseteq Keys

VARIABLES clients,    \* the nodes that were told to connect (bootstrapPeer), one or both
          end,        \* end[p]: p's struct Peer for the other node, or NoEnd
          link,       \* link[p]: the packets in flight to p, oldest first
          due,        \* the nodes whose pingCallback has not run in this tick
          cut,        \* the link is down
          faults      \* how many faults have happened

vars == <<clients, end, link, due, cut, faults>>

Other(p) == CHOOSE q \in Peers : q # p

\* Both nodes let in whoever knows the password.
Password == "password"
Users == <<[login |-> "login", password |-> Password, ip6 |-> None]>>

NoEnd == [session |-> NewSession]

\* A struct Peer when it is made.
NewEnd(incoming) ==
    [incoming |-> incoming,
     established |-> FALSE,    \* its state is ESTABLISHED
     version |-> FALSE,        \* protocolVersion is known
     age |-> PingAfter,        \* since timeOfLastMessage
     rest |-> PingAfter,       \* since timeOfLastPing, the time of the last pong
     pingCount |-> 0,          \* modulo PingSkip * EarlySkip
     session |-> IF incoming THEN NewSession ELSE SetAuth(NewSession, Password, None)]

InFlight == UNION {{f.packet : f \in Range(link[p])} : p \in Peers}

\* Keys that are forgotten everywhere may be used again: nothing can tell.
UsedKeys == UNION {{end[p].session.ourTemp, end[p].session.herTemp} : p \in Peers}
            \cup {m.temp : m \in InFlight} \cup UNION {m.box : m \in InFlight}

FreshKey == CHOOSE k \in Keys \ UsedKeys : TRUE

-----------------------------------------------------------------------------
(* What a handler does to an end, and what it sends: operators on x.       *)

\* sendFromSwitch: CryptoAuth_encrypt, and out.
Sent(x, p, body) ==
    LET s == Prepared(x.end.session)
        t == Keyed(s, IF NeedsKey(s) THEN FreshKey ELSE NoKey)
    IN  [end |-> [x.end EXCEPT !.session = Advanced(t)],
         out |-> Append(x.out, [packet |-> Packet(t, p), body |-> body])]

Counted(e) == [e EXCEPT !.pingCount = (@ + 1) % (PingSkip * EarlySkip)]

\* sendPing.
SentPing(x, p) == Sent([x EXCEPT !.end = Counted(@)], p, "ping")

\* What CryptoAuth_decrypt accepts.
Accepts(e, p, m) ==
    IF IsTraffic(m) THEN TrafficOpens(e.session, m) /\ NonceOk(e.session.rp, m.nonce)
    ELSE TakesHandshake(e.session, p, Users, e.incoming, m)

\* CryptoAuth_decrypt.  The statistics of the window are not kept: nothing depends on them.
Decrypted(s, m) ==
    IF IsTraffic(m)
    THEN LET t == AfterTraffic(s, m)
         IN  [t EXCEPT !.rp = [@ EXCEPT !.lost = 0, !.duplicates = 0, !.outOfRange = 0]]
    ELSE AfterHandshake(s, m.from = LowPeer, m)

\* CryptoAuth_getState is ESTABLISHED.
SessionEstablished(s) == s.nextNonce > RECEIVED_KEY /\ s.established

\* receivedPostCryptoAuth, and what the switch, ControlHandler and SwitchPinger make of the message.
\* UNRESPONSIVE is below ESTABLISHED: it takes the branch of the early messages.
Received(x, p, body) ==
    LET early == ~x.end.established
        state == IF early THEN [x EXCEPT !.end.established = SessionEstablished(x.end.session)]
                 ELSE [x EXCEPT !.end.age = 0]
        pings == early /\ ~state.end.established /\ (x.end.pingCount + 1) % EarlySkip # 0
        pinged == IF pings THEN SentPing(state, p) ELSE state
    IN  CASE body = "ping" -> Sent(pinged, p, "pong")
          [] body = "pong" -> [pinged EXCEPT !.end.version = TRUE, !.end.rest = 0]

\* p's end after a handler, and its packets on the link.
Commit(p, x) == /\ end' = [end EXCEPT ![p] = x.end]
                /\ link' = IF cut THEN link ELSE [link EXCEPT ![Other(p)] = @ \o x.out]

At(p) == [end |-> end[p], out |-> <<>>]

\* InterfaceController_bootstrapPeer.
Bootstrapped(p) == SentPing([end |-> NewEnd(FALSE), out |-> <<>>], p)

-----------------------------------------------------------------------------
Init == /\ clients \in (SUBSET Peers) \ {{}}
        /\ end = [p \in Peers |-> IF p \in clients THEN NewEnd(FALSE) ELSE NoEnd]
        /\ link = [p \in Peers |-> <<>>]
        /\ due = Peers
        /\ cut = FALSE
        /\ faults = 0

\* Decryption of the oldest packet to p, and what follows if it is good; spare is left if it is not.
Decrypt(p, e, spare) ==
    LET m == Head(link[p]).packet
        x == [end |-> [e EXCEPT !.session = Decrypted(@, m)], out |-> <<>>]
        r == IF Accepts(e, p, m) THEN Received(x, p, Head(link[p]).body)
             ELSE [end |-> spare, out |-> <<>>]
    IN  /\ end' = [end EXCEPT ![p] = r.end]
        /\ link' = [link EXCEPT ![p] = Tail(@),
                                ![Other(p)] = IF cut THEN @ ELSE @ \o r.out]

\* handleIncomingFromWire: resetIfTimeout, then decrypt.
HandleIncomingFromWire(p) ==
    LET e == [end[p] EXCEPT !.session = ResetIfTimeout(@)]
    IN  end[p] # NoEnd /\ Decrypt(p, e, e)

\* handleUnexpectedIncoming: there is a peer only if the first message is good.
HandleUnexpectedIncoming(p) == end[p] = NoEnd /\ Decrypt(p, NewEnd(TRUE), NoEnd)

Receive(p) == /\ link[p] # <<>>
              /\ HandleIncomingFromWire(p) \/ HandleUnexpectedIncoming(p)
              /\ UNCHANGED <<clients, due, cut, faults>>

\* iciPing on the peer.
Pinged(p) ==
    LET e == end[p]
        unresponsive == e.age > UnresponsiveAfter
    IN  IF (e.version /\ e.age < PingAfter) \/ e.rest < PingAfter THEN At(p)
        ELSE IF e.incoming /\ e.age > ForgetAfter THEN [end |-> NoEnd, out |-> <<>>]
        ELSE IF unresponsive /\ e.pingCount % PingSkip # 0
        THEN [At(p) EXCEPT !.end = Counted(@)]
        ELSE SentPing([At(p) EXCEPT !.end.established = @ /\ ~unresponsive], p)

PingCallback(p) ==
    /\ p \in due
    /\ due' = due \ {p}
    /\ IF end[p] = NoEnd THEN UNCHANGED <<end, link>> ELSE Commit(p, Pinged(p))
    /\ UNCHANGED <<clients, cut, faults>>

\* n ticks and one more, where more than max are as good as max.
Older(n, max) == IF n < max THEN n + 1 ELSE n

Aged(e) ==
    [e EXCEPT !.age = Older(@, (IF e.incoming THEN ForgetAfter ELSE UnresponsiveAfter) + 1),
              !.rest = Older(@, PingAfter),
              !.session.idle = Older(@, IF e.session.established THEN ResetAfter ELSE SetupReset)]

\* What key pairs are called does not matter: between ticks, when none is in flight, they are called
\* by their first place in this list, so that states that differ only in that are the same.
KeyPlaces == LET s == end[LowPeer].session
                 t == end[Other(LowPeer)].session
             IN  <<s.ourTemp, s.herTemp, t.ourTemp, t.herTemp>>

Name(k) == IF k = NoKey THEN NoKey ELSE Min({i \in 1 .. 4 : KeyPlaces[i] = k})

Renamed(s) == [s EXCEPT !.ourTemp = Name(@), !.herTemp = Name(@), !.secret = {Name(k) : k \in @}]

Quiet == due = {} /\ \A p \in Peers : link[p] = <<>>

Tick ==
    /\ Quiet
    /\ end' = [p \in Peers |-> IF end[p] = NoEnd THEN NoEnd
                               ELSE [Aged(end[p]) EXCEPT !.session = Renamed(@)]]
    /\ due' = Peers
    /\ UNCHANGED <<clients, link, cut, faults>>

-----------------------------------------------------------------------------
\* The network loses or duplicates a packet.
Lose(p) ==
    /\ link[p] # <<>>
    /\ link' = [link EXCEPT ![p] = Tail(@)]
    /\ UNCHANGED <<end, cut>>

Duplicate(p) ==
    /\ link[p] # <<>> /\ Len(link[p]) < Capacity
    /\ link' = [link EXCEPT ![p] = Append(@, Head(@))]
    /\ UNCHANGED <<end, cut>>

\* The link goes down for a while; what was in flight is lost.
Cut == /\ ~cut /\ cut' = TRUE
       /\ link' = [p \in Peers |-> <<>>]
       /\ UNCHANGED end

\* A node restarts, which takes longer than a packet: nothing is left in flight.
Restart(p) ==
    LET x == IF p \in clients THEN Bootstrapped(p) ELSE [end |-> NoEnd, out |-> <<>>]
    IN  /\ end' = [end EXCEPT ![p] = x.end]
        /\ link' = [q \in Peers |-> IF q = p \/ cut THEN <<>> ELSE x.out]
        /\ UNCHANGED cut

Fault == /\ faults < MaxFaults
         /\ faults' = faults + 1
         /\ Cut \/ \E p \in Peers : Lose(p) \/ Duplicate(p) \/ Restart(p)
         /\ UNCHANGED <<clients, due>>

Heal == /\ cut /\ cut' = FALSE
        /\ UNCHANGED <<clients, end, link, due, faults>>

Next == \/ \E p \in Peers : Receive(p) \/ PingCallback(p)
        \/ Tick
        \/ Fault
        \/ Heal

\* The event loop runs every callback, packets are read and timers fire, and an outage ends.  Each
\* conjunct is the weak fairness of an action, with the guard of the action for its ENABLED.
Fairness == /\ \A p \in Peers : /\ []<>(link[p] = <<>>) \/ []<><<Receive(p)>>_vars
                                /\ []<>(p \notin due) \/ []<><<PingCallback(p)>>_vars
            /\ []<>~Quiet \/ []<><<Tick>>_vars
            /\ []<>~cut \/ []<><<Heal>>_vars

Spec == Init /\ [][Next]_vars /\ Fairness

-----------------------------------------------------------------------------
\* Both nodes have accepted traffic under the secret they both hold.
Linked == /\ \A p \in Peers : end[p].session.established
          /\ \A p, q \in Peers : end[p].session.secret = end[q].session.secret

\* Whatever was lost, duplicated or forgotten, however long the link was down, and though every
\* secret wears out at the nonce limit, the two nodes get through to each other again and again:
\* no mixture of states is a dead end or a livelock.
AlwaysLinksAgain == []<>Linked
=============================================================================
