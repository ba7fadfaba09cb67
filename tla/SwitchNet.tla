------------------------------ MODULE SwitchNet ------------------------------
(***************************************************************************)
(* A packet's way through switches: receiveMessage and sendError of        *)
(* switch/SwitchCore.c, with what is around them.  A node builds a route   *)
(* hop by hop as extendRoute of dht/dhtcore/NodeStore.c does and pings     *)
(* along it; the router at the end turns the label around                  *)
(* (net/SessionManager.c) and answers (net/ControlHandler.c); a switch     *)
(* that cannot forward sends an error back.                                *)
(*                                                                         *)
(* Switches share nothing but the packet, so one is followed at a time.    *)
(* An end of a wire is an interface of a switch; its number is where       *)
(* addInterface found a vacant slot.  Interface 1 is the router.           *)
(***************************************************************************)
EXTENDS SwitchLabels

CONSTANTS Ends,            \* the ends of the wires, <<node, k>>
          Peer,            \* Peer[e]: the other end of e
          Numbers,         \* the numbers that interfaces may have
          Foreign,         \* labels that a node did not build
          MaxHops,         \* bound: hops of a route
          MaxChanges       \* bound: changes of interfaces while a packet is on its way

ASSUME SwitchNetAssumption == /\ \A e \in Ends : Peer[e] \in Ends /\ Peer[e] # e /\ Peer[Peer[e]] = e
                              /\ 1 \notin Numbers /\ {MaxHops, MaxChanges} \subseteq Nat /\ Width \in Nat

Node(e) == e[1]
Nodes == {Node(e) : e \in Ends}

NoPacket == [kind |-> "none"]

VARIABLES num,             \* num[e]: the index of e in core->interfaces of its switch
          state,           \* state[e]: UP, DOWN, or NONE when the interface was removed
          changed,         \* history: how often an interface was set down, up or removed
          route,           \* the hops of the route so far, and its beginning
          path,            \* address.path: the label of the route
          packet,          \* the packet on its way
          got              \* what the router was given in the end

net == <<num, state, changed>>
vars == <<num, state, changed, route, path, packet, got>>

Init == /\ num \in {f \in [Ends -> Numbers] : \A d, e \in Ends : Node(d) = Node(e) /\ d # e => f[d] # f[e]}
        /\ state = [e \in Ends |-> "UP"]
        /\ changed = 0
        /\ \E n \in Nodes : route = [from |-> n, hops |-> <<>>, built |-> TRUE]
        /\ path = {0}
        /\ packet = NoPacket
        /\ got = NoPacket

Goal == IF route.hops = <<>> THEN route.from ELSE Node(Peer[route.hops[Len(route.hops)]])

-----------------------------------------------------------------------------
(* The route. *)

\* SwitchCore_addInterface: labelOut.
LabelOut(n) ==
    GetCompressed(n, BitsUsedForNumber(n)) \cup {BitsUsedForNumber(n)}

\* EncodingSchemeModule's handleOutgoing: the form in which the node at the end of the route encodes its
\* interface back.
InverseLinkEncoding ==
    IF route.hops = <<>> THEN 1
    ELSE FormNum(V358, LabelOut(num[Peer[route.hops[Len(route.hops)]]]))

\* Mutant: a hop keeps its own form, however wide the way back is.
WidenedNever(toChild, previous) == toChild

\* Mutant: every hop is put in the widest form.
WidenedFully(toChild, previous) == ConvertLabel(V358, toChild, 3)

\* extendRoute: the label of the hop in a form at least as wide as the one of the way back.
Widened(toChild, previous) ==
    IF previous > FormNum(V358, toChild) THEN ConvertLabel(V358, toChild, previous) ELSE toChild

ExtendRoute(e) == Splice(Widened(LabelOut(num[e]), InverseLinkEncoding), path)

\* A hop more; a route that is too long is not taken.
Extend(e) ==
    /\ packet = NoPacket /\ got = NoPacket
    /\ Node(e) = Goal /\ Len(route.hops) < MaxHops
    /\ ExtendRoute(e) # TooLong
    /\ path' = ExtendRoute(e)
    /\ route' = [route EXCEPT !.hops = Append(@, e)]
    /\ UNCHANGED <<net, packet, got>>

\* The router at node n hands its switch a control packet.
FromRouter(kind, n, label) ==
    [kind |-> kind, at |-> n, end |-> "router", label |-> label, shift |-> 0,
     sender |-> n, sent |-> label, cause |-> "none"]

SendPing ==
    /\ packet = NoPacket /\ got = NoPacket
    /\ route.hops # <<>>
    /\ packet' = FromRouter("PING", route.from, path)
    /\ UNCHANGED <<net, route, path, got>>

\* A packet with a label that came from somewhere else.
SendForeign(label) ==
    /\ packet = NoPacket /\ got = NoPacket
    /\ route.hops = <<>>
    /\ route' = [route EXCEPT !.built = FALSE]
    /\ path' = label
    /\ packet' = FromRouter("PING", route.from, label)
    /\ UNCHANGED <<net, got>>

-----------------------------------------------------------------------------
(* receiveMessage. *)

SourceIndex == IF packet.end = "router" THEN 1 ELSE num[packet.end]
LabelBits == BitsUsedForLabel(packet.label)
SourceBits == BitsUsedForNumber(SourceIndex)
DestIndex == GetDecompressed(packet.label, LabelBits)

\* The interface that is meant: none, or the end in that slot.
DestEnds == {e \in Ends : Node(e) = packet.at /\ num[e] = DestIndex /\ state[e] # "NONE"}

\* The error that is sent instead of the packet, by the conditions in their order.
ErrorCode ==
    CASE DestIndex = 1 /\ Low(packet.label, 4) # {0} -> "MALFORMED_ADDRESS"
      [] SourceBits > LabelBits /\ DestIndex = 1 /\ Low(packet.label, SourceBits + 4) # {0} ->
             "RETURN_PATH_INVALID"
      [] SourceBits > LabelBits /\ DestIndex # 1 /\ SourceIndex = 1
             /\ ShiftRight(packet.label, LabelBits + Width - SourceBits) # {} -> "MALFORMED_ADDRESS"
      [] SourceBits > LabelBits /\ DestIndex # 1 /\ SourceIndex # 1 -> "MALFORMED_ADDRESS"
      [] DestIndex # 1 /\ DestEnds = {} -> "MALFORMED_ADDRESS"
      [] SourceIndex # 1 /\ \E e \in DestEnds : state[e] = "DOWN" -> "UNDELIVERABLE"
      [] OTHER -> "NONE"

\* The bits by which the label is shifted: for the router, room is made for a wide source.
ShiftBits == IF DestIndex = 1 /\ SourceBits > LabelBits THEN SourceBits ELSE LabelBits

TargetLabel ==
    ShiftRight(packet.label, ShiftBits) \cup BitReverse(GetCompressed(SourceIndex, ShiftBits))

RolledOver == packet.shift + ShiftBits > 63

\* The packet is lost on a wire to an interface that was removed.
Gone == packet.end # "router" /\ state[packet.end] = "NONE"

Received == packet # NoPacket /\ ~Gone

\* Over the wire at e to the next switch.
OnWire(p, e) == [p EXCEPT !.at = Node(Peer[e]), !.end = Peer[e]]

Forward ==
    /\ Received /\ ErrorCode = "NONE" /\ ~RolledOver
    /\ \E e \in DestEnds :
           packet' = OnWire([packet EXCEPT !.label = TargetLabel, !.shift = @ + ShiftBits], e)
    /\ UNCHANGED <<net, route, path, got>>

\* handleError: the SwitchHeader of the SWITCH_ERR event is what stands in front of the control packet.
\* That is not the SwitchHeader the packet came with but the end of the RouteHeader, ip6, which ctrlFrame
\* has left zero.
SwitchErrLabel == {}

\* What the router makes of a packet: SessionManager turns the label around, ControlHandler answers a
\* ping along it, hands an answer on to the SwitchPinger and an error to the pathfinder.
ToRouter(p, label) ==
    IF p.kind = "PING"
    THEN packet' = FromRouter("PONG", p.at, label) /\ UNCHANGED got
    ELSE /\ packet' = NoPacket
         /\ got' = [kind |-> p.kind, at |-> p.at, sender |-> p.sender, sent |-> p.sent,
                    label |-> label, event |-> SwitchErrLabel]

Deliver ==
    /\ Received /\ ErrorCode = "NONE" /\ ~RolledOver
    /\ DestIndex = 1
    /\ ToRouter(packet, BitReverse(TargetLabel))
    /\ UNCHANGED <<net, route, path>>

\* Mutant: the label goes back as it is.
ErrorLabelForward == packet.label

ErrorLabel == BitReverse(packet.label)

\* sendError: back to where the packet came from, as a packet for which no error is sent in turn.
SendError ==
    LET err == [packet EXCEPT !.kind = "ERROR", !.label = ErrorLabel, !.shift = 0, !.cause = packet.kind]
    IN  /\ Received /\ ErrorCode # "NONE" /\ packet.kind # "ERROR"
        /\ IF packet.end = "router"
           THEN ToRouter(err, BitReverse(ErrorLabel))
           ELSE packet' = OnWire(err, packet.end) /\ UNCHANGED got
        /\ UNCHANGED <<net, route, path>>

\* An error that cannot be forwarded, a label that was shifted too far, a wire that leads nowhere.
Drop ==
    /\ packet # NoPacket
    /\ Gone \/ (ErrorCode # "NONE" /\ packet.kind = "ERROR") \/ (ErrorCode = "NONE" /\ RolledOver)
    /\ packet' = NoPacket
    /\ got' = [kind |-> "lost"]
    /\ UNCHANGED <<net, route, path>>

-----------------------------------------------------------------------------

\* SwitchCore_setInterfaceState, and removeInterface when the interface is freed.
SetInterfaceState(e, s) ==
    /\ packet # NoPacket /\ changed < MaxChanges
    /\ state[e] # "NONE" /\ state[e] # s
    /\ state' = [state EXCEPT ![e] = s]
    /\ changed' = changed + 1
    /\ UNCHANGED <<num, route, path, packet, got>>

Next == \/ \E e \in Ends : Extend(e)
        \/ SendPing \/ \E label \in Foreign : SendForeign(label)
        \/ Forward \/ Deliver \/ SendError \/ Drop
        \/ \E e \in Ends, s \in {"UP", "DOWN", "NONE"} : SetInterfaceState(e, s)

Spec == Init /\ [][Next]_vars

-----------------------------------------------------------------------------

\* An answer that arrives was given by the node at the end of the route that was built, comes back to
\* the node that asked and carries, turned around, the label that was pinged, whatever forms the
\* hops have: otherwise SwitchPinger reports LABEL_MISMATCH (receiveMessage).
AnswerReturns ==
    got.kind = "PONG" /\ route.built =>
        got.sender = Goal /\ got.at = route.from /\ got.label = path

\* An error comes back to the ControlHandler of the node that sent the packet, with the label it was sent
\* with in its RouteHeader: the half turned label is turned back whatever switch refused it (sendError,
\* incomingFromCore).  What the pathfinder is told is another matter: see SwitchErrLabel.
ErrorNamesPath == got.kind = "ERROR" /\ (route.built \/ got.sent = path) =>
                      got.at = got.sender /\ got.label = got.sent

\* While no interface changes, an answer is never refused, and a ping only at its end, when the last
\* interface is wider than the first hop and the route leaves too little room for the difference
\* ("no way to represent the return path", receiveMessage).
FitsUnlessLong ==
    packet # NoPacket /\ packet.kind = "ERROR" /\ route.built /\ changed = 0 =>
        /\ packet.cause = "PING"
        /\ Log2(path) + BitsUsedForNumber(num[Peer[route.hops[Len(route.hops)]]])
               > Width - 5 + BitsUsedForLabel(path)

\* Every extension of a route satisfies the assertions of extendRoute and findBestParent, and can be
\* taken apart again: the new path routes through the old one and what follows is the hop.
ExtensionsSplice ==
    [][\A e \in Ends : Extend(e) =>
           LET hop == Unsplice(path', path)
           IN  /\ RoutesThrough(path', path)
               /\ ConvertLabel(V358, hop, Canonical) = LabelOut(num[e])]_vars

=============================================================================
