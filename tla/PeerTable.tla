------------------------------ MODULE PeerTable ------------------------------
(***************************************************************************)
(* The peers of one interface: net/InterfaceController.c, the slots        *)
(* switch/SwitchCore.c gives them, and myPeers, what                       *)
(* subnode/SubnodePathfinder.c makes of the PEER and PEER_GONE events.     *)
(*                                                                         *)
(* Everything runs on one event loop, so a handler is one action; only the *)
(* loop of iciPing, which changes the map it walks, is a step per peer,    *)
(* with nothing in between.  Of the CryptoAuth session of a peer (see      *)
(* CryptoAuthNet) there is only what CryptoAuth_getState tells when it     *)
(* has accepted a message.  A slot stands for its label.  Time is counted  *)
(* in ping intervals, and passes at the end of one.                        *)
(***************************************************************************)
EXTENDS Integers, Sequences, FiniteSets, FiniteSetsExt

CONSTANTS Peers,             \* bound: peers at a time
          Keys, Addrs,       \* public keys; link level addresses (lladdr)
          Versions,          \* what a pong or a beacon may tell: "current", "other"
          NInterfaces,       \* NumberCompress_INTERFACES
          AcceptBeacons,     \* beaconState # OFF
          PingAfter, UnresponsiveAfter, ForgetAfter,   \* in ping intervals
          PingSkip           \* 8: an unresponsive peer is pinged once in so many times

ASSUME PeerTableAssumption ==
    /\ NInterfaces \in Nat /\ NInterfaces > 1
    /\ {PingAfter, UnresponsiveAfter, ForgetAfter, PingSkip} \subseteq Nat \ {0}
    /\ PingAfter <= UnresponsiveAfter /\ UnresponsiveAfter < ForgetAfter
    /\ AcceptBeacons \in BOOLEAN /\ Versions \subseteq {"current", "other"}
    /\ Peers \cap {"router", "none"} = {} /\ "none" \notin Addrs

VARIABLES peer,        \* peer[p]: a struct Peer, or NoPeer
          peerMap,     \* the values of peerMap, in the order of their handles
          iface,       \* iface[i]: interfaces[i] of the switch; NInterfaces is past its end
          myPeers,     \* myPeers[path]: the key of the peer the pathfinder has there
          scan,        \* the locals of iciPing while it runs
          failed,      \* the place of an assertion or a memory error that ended the program
          staleJob,    \* history: a freeAlloc job is left whose peer has gone
          told,        \* history: the peers announced to the pathfinder and not taken back
          stray        \* history: the paths that an announced peer was moved away from

vars == <<peer, peerMap, iface, myPeers, scan, failed, staleJob, told, stray>>

Slots == 0 .. NInterfaces
NoKey == "none"
Unknown == "unknown"      \* protocolVersion 0
Router == "router"
Compatible(version) == version = "current"
Later(age) == IF age > ForgetAfter THEN age ELSE age + 1

NoPeer == [addr |-> "none"]
NoScan == [on |-> FALSE]

NewPeer(addr, key, incoming, version, path) ==
    [addr |-> addr, key |-> key, incoming |-> incoming, version |-> version, path |-> path,
     state |-> "INIT",
     age |-> PingAfter,        \* since timeOfLastMessage: it is lazy at once
     rest |-> PingAfter,       \* since timeOfLastPing, at most PingAfter
     pingCount |-> 0,          \* modulo PingSkip
     ping |-> FALSE]           \* a ping along path is out

(* A handler is a composition of operators on a table T.                   *)

Table == [peer |-> peer, map |-> peerMap, iface |-> iface, known |-> myPeers,
          failed |-> failed, stale |-> staleJob, told |-> told, stray |-> stray]

EmptyTable ==
    [peer |-> [p \in Peers |-> NoPeer], map |-> <<>>,
     iface |-> [i \in Slots |-> [owner |-> IF i = 1 THEN Router ELSE "none", up |-> TRUE]],
     known |-> [i \in Slots |-> NoKey], failed |-> "no", stale |-> FALSE,
     told |-> {}, stray |-> {}]

Init == /\ peer = EmptyTable.peer /\ peerMap = EmptyTable.map /\ iface = EmptyTable.iface
        /\ myPeers = EmptyTable.known /\ failed = "no" /\ staleJob = FALSE
        /\ scan = NoScan /\ told = {} /\ stray = {}

\* The table after a handler; a failure ends the program, and nothing is left.
Commit(T) ==
    LET after == IF T.failed = "no" THEN T ELSE [EmptyTable EXCEPT !.failed = T.failed]
    IN /\ peer' = after.peer /\ peerMap' = after.map /\ iface' = after.iface
       /\ myPeers' = after.known /\ failed' = after.failed /\ staleJob' = after.stale
       /\ told' = after.told /\ stray' = after.stray

Live(T) == {p \in Peers : T.peer[p] # NoPeer}
InMap(T) == {T.map[n] : n \in DOMAIN T.map}
SlotOf(T, p) == CHOOSE i \in Slots : T.iface[i].owner = p

\* The pathfinder's peer(): a path that it knows keeps its peer.
PathfinderPeer(T, path, key) == [T EXCEPT !.known[path] = IF @ = NoKey THEN key ELSE @]

\* The pathfinder's peerGone().
PathfinderPeerGone(T, path) == [T EXCEPT !.known[path] = NoKey]

\* sendPeer of PFChan_Core_PEER, with its assertion.
SendPeer(T, p) ==
    IF T.peer[p].version = Unknown THEN [T EXCEPT !.failed = "sendPeer"]
    ELSE PathfinderPeer(T, T.peer[p].path, T.peer[p].key)

\* sendPeer of PFChan_Core_PEER_GONE.
SendPeerGone(T, p) == PathfinderPeerGone(T, T.peer[p].path)

\* A peer is announced, or taken back: the event, and the history.
Announce(T, p) == [SendPeer(T, p) EXCEPT !.told = @ \cup {p}]

Withdraw(T, p) == [SendPeerGone(T, p) EXCEPT !.told = @ \ {p}, !.stray = @ \ {T.peer[p].path}]

\* sendPing; a ping for which there is no slot is as good as lost.
SendPing(T, p) == [T EXCEPT !.peer[p].pingCount = (@ + 1) % PingSkip, !.peer[p].ping = TRUE]

SetInterfaceState(T, p, up) == [T EXCEPT !.iface[SlotOf(T, p)].up = up]

\* The search of SwitchCore_addInterface.  interfaces[NInterfaces].iface.send is read
\* before the index is checked; it lies over routerAdded, which is never set.
VacantSlot(T) == Min({i \in Slots : T.iface[i].owner = "none"})

\* SwitchCore_addInterface.
AddInterface(T, p) ==
    LET i == VacantSlot(T) IN
    [T EXCEPT !.iface[i] = [owner |-> p, up |-> TRUE],
              !.failed = IF i = NInterfaces THEN "addInterface" ELSE @]

\* removeInterface, of the slots of the peers S.
RemoveInterface(T, S) ==
    [T EXCEPT !.iface = [i \in Slots |-> IF T.iface[i].owner \in S
                                         THEN [owner |-> "none", up |-> TRUE] ELSE T.iface[i]]]

\* MUTANT: the state stays with the slot.
SwapInterfacesNotState(T, p, q) ==
    LET i == SlotOf(T, p)
        j == SlotOf(T, q)
    IN [T EXCEPT !.iface[i].owner = q, !.iface[j].owner = p]

\* SwitchCore_swapInterfaces.
SwapInterfaces(T, p, q) ==
    LET i == SlotOf(T, p)
        j == SlotOf(T, q)
    IN [T EXCEPT !.iface = [@ EXCEPT ![i] = T.iface[j], ![j] = T.iface[i]]]

\* Map_remove of the peers S: what is left keeps its order.
Without(map, S) ==
    LET kept[n \in 0 .. Len(map)] ==
            IF n = 0 THEN <<>>
            ELSE IF map[n] \in S THEN kept[n - 1] ELSE Append(kept[n - 1], map[n])
    IN kept[Len(map)]

\* MUTANT: closeInterface does not tell the pathfinder.
FreePeersQuietly(T, S) ==
    [peer |-> [p \in Peers |-> IF p \in S THEN NoPeer ELSE T.peer[p]],
     map |-> Without(T.map, S),
     iface |-> RemoveInterface(T, S).iface,
     known |-> T.known,
     failed |-> IF S \subseteq InMap(T) THEN T.failed ELSE "closeInterface",
     stale |-> T.stale \/ \E p \in S : ~T.peer[p].incoming,
     told |-> T.told \ S,
     stray |-> {i \in T.stray : \A p \in S : T.peer[p].path # i}]

\* Allocator_free of the allocators of the peers S: closeInterface and removeInterface.
FreePeers(T, S) ==
    [peer |-> [p \in Peers |-> IF p \in S THEN NoPeer ELSE T.peer[p]],
     map |-> Without(T.map, S),
     iface |-> RemoveInterface(T, S).iface,
     known |-> [i \in Slots |-> IF \E p \in S : T.peer[p].path = i THEN NoKey ELSE T.known[i]],
     failed |-> IF S \subseteq InMap(T) THEN T.failed ELSE "closeInterface",
     stale |-> T.stale \/ \E p \in S : ~T.peer[p].incoming,
     told |-> T.told \ S,
     stray |-> {i \in T.stray : \A p \in S : T.peer[p].path # i}]

\* Map_put: a key that is there already gets the new value.
MapPut(T, p, addr) ==
    LET at == {n \in DOMAIN T.map : T.peer[T.map[n]].addr = addr}
    IN IF at = {} THEN Append(T.map, p) ELSE [n \in DOMAIN T.map |-> IF n \in at THEN p ELSE T.map[n]]

\* The part that the three places which create peers share.
AddPeer(T, p, addr, key, incoming, version) ==
    [AddInterface(T, p) EXCEPT
        !.peer[p] = NewPeer(addr, key, incoming, version, VacantSlot(T)),
        !.map = MapPut(T, p, addr)]

\* MUTANT: the path of the old endpoint is not taken over.
MoveEndpointKeepingPath(T, p) ==
    LET same == {n \in DOMAIN T.map : T.map[n] # p /\ T.peer[T.map[n]].key = T.peer[p].key}
        q == T.map[Min(same)]
    IN IF same = {} THEN T ELSE FreePeers(SwapInterfaces(T, q, p), {q})

\* moveEndpointIfNeeded: the first other endpoint with p's key gives p its slot and goes.
\* The answer to a ping along the old path will be a label mismatch.
MoveEndpointIfNeeded(T, p) ==
    LET same == {n \in DOMAIN T.map : T.map[n] # p /\ T.peer[T.map[n]].key = T.peer[p].key}
        q == T.map[Min(same)]
        moved == [T EXCEPT !.peer[p].path = T.peer[q].path, !.peer[p].ping = FALSE,
                           !.told = @ \ {p},
                           !.stray = IF p \in T.told THEN @ \cup {T.peer[p].path} ELSE @]
    IN IF same = {} THEN T ELSE FreePeers(SwapInterfaces(moved, q, p), {q})

\* onPingResponse, with SwitchPinger_Result_OK.
OnPingResponse(T, p, version) ==
    LET known == [T EXCEPT !.peer[p].version = version]
        announced == IF T.peer[p].state = "ESTABLISHED" THEN Announce(known, p) ELSE known
    IN IF Compatible(version) THEN [announced EXCEPT !.peer[p].rest = 0] ELSE known

\* receivedPostCryptoAuth, when the session is in state ca; then the message goes on to
\* the switch, unless it is early and not for this router.  UNRESPONSIVE is -1, so that it
\* is below ESTABLISHED.  Whether an early message leads to a ping depends on its label
\* and on pingCount modulo 7.
ReceivedPostCryptoAuth(T, p, ca, body, ping) ==
    LET ep == T.peer[p]
        early == ep.state # "ESTABLISHED"
        tracked == SetInterfaceState([T EXCEPT !.peer[p].state = ca], p, TRUE)
        done == CASE ~early -> [T EXCEPT !.peer[p].age = 0]
                  [] early /\ ca = "ESTABLISHED" -> MoveEndpointIfNeeded(tracked, p)
                  [] OTHER -> IF ping THEN SendPing(tracked, p) ELSE tracked
        match == done.peer[p].path = ep.path
    IN IF body \in Versions /\ match THEN OnPingResponse(done, p, body) ELSE done

-----------------------------------------------------------------------------
Running == failed = "no" /\ ~scan.on

\* handleUnexpectedIncoming: a first message is a hello, and may lead to a ping.
HandleUnexpectedIncoming(p, addr, key) ==
    /\ Running /\ peer[p] = NoPeer
    /\ \A q \in InMap(Table) : peer[q].addr # addr
    /\ \E ping \in BOOLEAN :
           Commit(ReceivedPostCryptoAuth(AddPeer(Table, p, addr, key, TRUE, Unknown),
                                         p, "HANDSHAKE", "data", ping))
    /\ UNCHANGED scan

\* handleIncomingFromWire: a message of a peer that its session accepts.
HandleIncomingFromWire(p, ca, body) ==
    /\ Running /\ p \in InMap(Table)
    /\ body \in Versions => peer[p].ping
    /\ \E ping \in BOOLEAN, left \in {FALSE, (body \in Versions)} :
           LET T == IF body \in Versions THEN [Table EXCEPT !.peer[p].ping = left] ELSE Table
           IN Commit(ReceivedPostCryptoAuth(T, p, ca, body, ping))
    /\ UNCHANGED scan

\* handleBeacon, from an address that is not in the map; a beacon tells the version.
HandleBeacon(p, addr, key, version) ==
    /\ Running /\ peer[p] = NoPeer /\ AcceptBeacons /\ Compatible(version)
    /\ \A q \in InMap(Table) : peer[q].addr # addr
    /\ Commit(Announce(AddPeer(Table, p, addr, key, TRUE, version), p))
    /\ UNCHANGED scan

\* InterfaceController_bootstrapPeer, which does not look whether addr is in the map.
BootstrapPeer(p, addr, key) ==
    /\ Running /\ peer[p] = NoPeer
    /\ Commit(SendPing(AddPeer(Table, p, addr, key, FALSE, Unknown), p))
    /\ UNCHANGED scan

\* InterfaceController_disconnectPeer: the first peer with this key.
DisconnectPeer(key) ==
    LET at == {n \in DOMAIN peerMap : peer[peerMap[n]].key = key} IN
    /\ Running /\ at # {}
    /\ Commit(FreePeers(Table, {peerMap[Min(at)]}))
    /\ UNCHANGED scan

\* The caller of bootstrapPeer frees the allocator it gave: one freeAlloc for each call.
FreeBootstrapped ==
    LET S == {p \in Live(Table) : ~peer[p].incoming}
        T == IF staleJob THEN [Table EXCEPT !.failed = "freeAlloc"] ELSE FreePeers(Table, S)
    IN /\ Running /\ (S # {} \/ staleJob)
       /\ Commit([T EXCEPT !.stale = FALSE])
       /\ UNCHANGED scan

\* incomingFromEventEmitterIf: a pathfinder connects, and asks for the peers.
PeersRequested ==
    LET S == {p \in InMap(Table) : peer[p].state = "ESTABLISHED"}
        At(i) == {p \in S : peer[p].path = i}
        known == [i \in Slots |-> IF At(i) = {} THEN NoKey ELSE peer[CHOOSE p \in At(i) : TRUE].key]
    IN /\ Running
       /\ Commit(IF \E p \in S : peer[p].version = Unknown
                 THEN [Table EXCEPT !.failed = "sendPeer"]
                 ELSE [Table EXCEPT !.known = known, !.told = S, !.stray = {}])
       /\ UNCHANGED scan

-----------------------------------------------------------------------------
\* pingCallback calls iciPing, which draws startAt.
PingCallback(startAt) ==
    /\ Running /\ startAt < Len(peerMap)
    /\ scan' = [on |-> TRUE, i |-> startAt, count |-> 0, startAt |-> startAt]
    /\ UNCHANGED <<peer, peerMap, iface, myPeers, failed, staleJob, told, stray>>

\* The interval until the next call.
Aged(T) ==
    [T EXCEPT !.peer = [p \in Peers |->
        IF T.peer[p] = NoPeer THEN NoPeer
        ELSE [T.peer[p] EXCEPT !.age = Later(@), !.rest = Min({@ + 1, PingAfter})]]]

\* A turn of the loop: the index i of the next peer, and the peer.
NextIndex == (scan.i + 1) % Len(peerMap)
NextPeer == peerMap[NextIndex + 1]
Turn == failed = "no" /\ scan.on /\ scan.count < Len(peerMap)
Continue == scan' = [scan EXCEPT !.i = NextIndex, !.count = @ + 1]

Busy(ep) == ep.version # Unknown /\ ep.age < PingAfter
Rested(ep) == ep.rest >= PingAfter
Forgettable(ep) == ep.incoming /\ ep.age > ForgetAfter
Unresponsive(ep) == ep.age > UnresponsiveAfter

\* It is sending traffic; the peer at startAt is announced again.
PingBusy ==
    /\ Turn /\ Busy(peer[NextPeer])
    /\ Commit(IF NextIndex = scan.startAt /\ peer[NextPeer].state = "ESTABLISHED"
              THEN Announce(Table, NextPeer) ELSE Table)
    /\ Continue

\* It has answered a ping lately.
PingTooOften ==
    /\ Turn /\ ~Busy(peer[NextPeer]) /\ ~Rested(peer[NextPeer])
    /\ Continue
    /\ UNCHANGED <<peer, peerMap, iface, myPeers, failed, staleJob, told, stray>>

\* An incoming connection is forgotten.
PingForgets ==
    /\ Turn /\ ~Busy(peer[NextPeer]) /\ Rested(peer[NextPeer]) /\ Forgettable(peer[NextPeer])
    /\ Commit(FreePeers(Withdraw(Table, NextPeer), {NextPeer}))
    /\ Continue

\* An unresponsive peer is pinged once in PingSkip turns only.
PingSkips ==
    LET ep == peer[NextPeer] IN
    /\ Turn /\ ~Busy(ep) /\ Rested(ep) /\ ~Forgettable(ep)
    /\ Unresponsive(ep) /\ ep.pingCount # 0
    /\ peer' = [peer EXCEPT ![NextPeer].pingCount = (@ + 1) % PingSkip]
    /\ Continue
    /\ UNCHANGED <<peerMap, iface, myPeers, failed, staleJob, told, stray>>

\* A peer is pinged, and that ends iciPing.
Pings ==
    LET ep == peer[NextPeer]
        gone == [Withdraw(Table, NextPeer) EXCEPT !.peer[NextPeer].state = "UNRESPONSIVE"]
        marked == IF Unresponsive(ep) THEN SetInterfaceState(gone, NextPeer, FALSE) ELSE Table
    IN /\ Turn /\ ~Busy(ep) /\ Rested(ep) /\ ~Forgettable(ep)
       /\ Unresponsive(ep) => ep.pingCount = 0
       /\ Commit(Aged(SendPing(marked, NextPeer)))
       /\ scan' = NoScan

\* Every peer has had its turn.
PingEnds ==
    /\ failed = "no" /\ scan.on /\ scan.count >= Len(peerMap)
    /\ Commit(Aged(Table))
    /\ scan' = NoScan

IciPing == PingBusy \/ PingTooOften \/ PingForgets \/ PingSkips \/ Pings \/ PingEnds

Bodies == {"data"} \cup Versions

Next == \/ \E p \in Peers, addr \in Addrs, key \in Keys :
               \/ HandleUnexpectedIncoming(p, addr, key)
               \/ BootstrapPeer(p, addr, key)
               \/ \E version \in Versions : HandleBeacon(p, addr, key, version)
        \/ \E p \in Peers, ca \in {"HANDSHAKE", "ESTABLISHED"}, body \in Bodies :
               HandleIncomingFromWire(p, ca, body)
        \/ \E key \in Keys : DisconnectPeer(key)
        \/ FreeBootstrapped
        \/ PeersRequested
        \/ \E startAt \in 0 .. Cardinality(Peers) - 1 : PingCallback(startAt)
        \/ IciPing

Spec == Init /\ [][Next]_vars

-----------------------------------------------------------------------------
\* The path of a peer leads to it, through every merge of endpoints, and every slot in
\* use is a living peer's, so that none is lost.
PathLeadsToPeer ==
    /\ \A p \in Live(Table) : \A i \in Slots : iface[i].owner = p <=> i = peer[p].path
    /\ \A i \in Slots : iface[i].owner \in {Router, "none"} \cup Live(Table)

\* The switch drops what is for a peer exactly while that is UNRESPONSIVE.
DownIsUnresponsive ==
    \A p \in Live(Table) : iface[peer[p].path].up <=> peer[p].state # "UNRESPONSIVE"

\* The pathfinder has at path i the announced peer that is there, and that is not UNRESPONSIVE,
\* and else nothing.
Current(i) == /\ \A p \in told : peer[p].path = i => myPeers[i] = peer[p].key
              /\ myPeers[i] # NoKey => \E p \in told : peer[p].path = i /\ peer[p].state # "UNRESPONSIVE"

\* The pathfinder never falls behind: every PEER takes effect and every peer that goes, becomes
\* UNRESPONSIVE or gives its slot away is taken back, whatever is merged, times out, comes back or is
\* disconnected, and a slot that is used again brings the new peer; except at a path that an
\* announced peer was moved away from.
PathfinderIsCurrent == \A i \in Slots \ stray : Current(i)

\* InterfaceController.c:615, on why handleBeacon announces a peer at once: "we're sure the node will
\* not be relocated by moveEndpointIfNeeded()".  It is so as long as no beacons are accepted.
AnnouncedStays == stray = {}
=============================================================================
