----------------------------- MODULE EventEmitter -----------------------------
(***************************************************************************)
(* The core and its pathfinders: net/EventEmitter.c, which fans the events *)
(* of the core out to the pathfinders and watches that each of them is     *)
(* alive, and interface/ASynchronizer.c, which stands between the two and  *)
(* hands what it has gathered on from a timer.                             *)
(*                                                                         *)
(* Bytes are counted in units.  A ping carries the number of bytes sent up *)
(* to it, the answer takes that number off again; a wrong cookie is a      *)
(* count too high, as the code treats both alike.                          *)
(***************************************************************************)
EXTENDS Naturals, Sequences, FiniteSets

CONSTANTS MaxPathfinders,  \* bound: pathfinders that register
          Subnode,         \* those that may be a SubnodePathfinder, as Core.c has it; the others are
                           \* external, and pass over events that mean nothing to them
          Faulty,          \* the external pathfinders that send PONGs of their own
          PingAt,          \* 8192: the bytes after which a pathfinder is pinged
          MaxBytes,        \* bound: no event is sent when a counter is above it
          MaxQueue,        \* bound: no event is sent when as many wait in the ASynchronizers
          MaxDryCycles,    \* MAX_DRY_CYCLES
          Peers            \* the number of answers to PEERS or SESSIONS

ASSUME EventEmitterAssumption == /\ {PingAt, MaxBytes, MaxQueue, MaxDryCycles, Peers} \subseteq Nat
                                 /\ 1 < PingAt /\ Subnode \cap Faulty = {}

VARIABLES link,            \* link[i]: pathfinder i, its ASynchronizer and what it knows
          cycle,           \* the timeoutTrigger that runs, and the messages that it has left
          failed           \* which assertion has failed

vars == <<link, cycle, failed>>

Message(ev, i, count) == [ev |-> ev, pf |-> i, count |-> count]

TooHigh == MaxBytes + 2 * PingAt + 1

\* What a pathfinder may send at any time; 2 PONGs stand for those that nobody asked for.  After its
\* CONNECT a SubnodePathfinder sends NODE and SENDMSG only.
Events(i) ==
    IF link[i].subnode THEN {Message("NODE", i, 0)}
    ELSE {Message(ev, i, 0) : ev \in {"CONNECT", "SUPERIORITY", "PING", "PATHFINDERS", "PEERS"}}
             \cup (IF i \in Faulty THEN {Message("PONG", i, c) : c \in {1, TooHigh}} ELSE {})

NewLink(subnode) ==
           [subnode |-> subnode, state |-> "DISCONNECTED", bytes |-> 0, toA |-> <<>>, toB |-> <<>>,
            armed |-> FALSE, dryCycles |-> 0, running |-> FALSE, told |-> {}]

NoCycle == [of |-> 0, toA |-> <<>>, toB |-> <<>>]

Init == link = <<>> /\ cycle = NoCycle /\ failed = "no"

Connected == {i \in DOMAIN link : link[i].state = "CONNECTED"}

-----------------------------------------------------------------------------
(* ASynchronizer: to the pathfinder at A and to the core at B. *)

\* Mutant: the timer is looked after by the pathfinder's side only.
FromBUnarmed(l, m) == [l EXCEPT !.toA = Append(@, m)]

\* fromB and checkTimeout.
FromB(l, m) == [l EXCEPT !.toA = Append(@, m), !.armed = TRUE]

\* fromA and checkTimeout.
FromA(l, m) == [l EXCEPT !.toB = Append(@, m), !.armed = TRUE]

-----------------------------------------------------------------------------
(* EventEmitter. *)

\* Mutant: the counter of bytes since the last ping starts again at the ping.
PingedFromZero(l, i, length) ==
    IF l.bytes < PingAt /\ l.bytes + length >= PingAt
    THEN [FromB(l, Message("CORE_PING", i, l.bytes)) EXCEPT !.bytes = 0]
    ELSE l

\* The ping that sendToPathfinder sends first when the message takes the counter to PingAt.
Pinged(l, i, length) ==
    IF l.bytes < PingAt /\ l.bytes + length >= PingAt
    THEN FromB(l, Message("CORE_PING", i, l.bytes))
    ELSE l

\* sendToPathfinder.
SendToPathfinder(l, i, m, length) ==
    IF l.state = "CONNECTED"
    THEN FromB([Pinged(l, i, length) EXCEPT !.bytes = @ + length], m)
    ELSE l

\* The same for n messages.
SendSeveral(l, i, m, n) ==
    LET After[k \in 0..n] == IF k = 0 THEN l ELSE SendToPathfinder(After[k - 1], i, m, 1)
    IN  After[n]

\* incomingFromCore with the number 0xffffffff.
SendToAll(links, m, length) == [i \in DOMAIN links |-> SendToPathfinder(links[i], i, m, length)]

\* CONNECT.
Connect(i) == link' = [link EXCEPT ![i] =
    SendToPathfinder([@ EXCEPT !.state = "CONNECTED"], i, Message("CONNECT", i, 0), 1)]

\* SUPERIORITY: everyone is told of the pathfinder again.
Superiority(i) == link' = SendToAll(link, Message("PATHFINDER", i, 0), 1)

\* PING: the event goes back as it came.
Ping(i, m) == link' = [link EXCEPT ![i] = FromB(@, m)]

\* Mutant: a pathfinder fails without a word.
PongQuietly(i, count) ==
    link' = IF count > link[i].bytes
            THEN [link EXCEPT ![i].state = "ERROR"]
            ELSE [link EXCEPT ![i].bytes = @ - count]

\* PONG: the bytes of the ping are taken off, or the pathfinder has failed and the others
\* are told.
Pong(i, count) ==
    link' = IF count > link[i].bytes
            THEN SendToAll([link EXCEPT ![i].state = "ERROR"], Message("PATHFINDER_GONE", i, 0), 1)
            ELSE [link EXCEPT ![i].bytes = @ - count]

\* PATHFINDERS: a message for every connected pathfinder, and each of them about pathfinder i.
Pathfinders(i) ==
    link' = [link EXCEPT ![i] = SendSeveral(@, i, Message("PATHFINDER", i, 0), Cardinality(Connected))]

\* Mutant: a pathfinder that has failed is still listened to.
ListenedEver(i, m) == link[i].state # "DISCONNECTED" \/ m.ev = "CONNECT"

\* incomingFromPathfinder takes nothing before CONNECT, nor from one that has failed.
Listened(i, m) == i \in Connected \/ (link[i].state = "DISCONNECTED" /\ m.ev = "CONNECT")

\* handleFromPathfinder.
Handle(i, m) ==
    \/ m.ev = "CONNECT" /\ Connect(i)
    \/ m.ev = "SUPERIORITY" /\ Superiority(i)
    \/ m.ev = "PING" /\ Ping(i, m)
    \/ m.ev = "PONG" /\ Pong(i, m.count)
    \/ m.ev = "PATHFINDERS" /\ Pathfinders(i)

\* A handler of the core that answers PEERS or SESSIONS: incomingFromCore with the number of the
\* pathfinder, which is asserted to be connected.
Answer(i) == link' = [link EXCEPT ![i] = SendSeveral(@, i, Message("EVENT", 0, 0), Peers)]

IncomingFromPathfinder(i, m) ==
    \/ ~Listened(i, m) /\ UNCHANGED <<link, failed>>
    \/ Listened(i, m) /\ Handle(i, m) /\ UNCHANGED failed
    \/ Listened(i, m) /\ m.ev = "NODE" /\ UNCHANGED <<link, failed>>
    \/ /\ Listened(i, m) /\ m.ev = "PEERS"
       /\ Answer(i)
       /\ failed' = IF i \in Connected THEN "no" ELSE "incomingFromCore"

-----------------------------------------------------------------------------
(* A pathfinder. *)

\* The assertions of incomingFromEventIf of SubnodePathfinder: the first event is CONNECT, and later ones
\* are of the kinds in its switch: not a second CONNECT, nor what becomes of other pathfinders, nor a PING
\* that comes back.  The first is what PFChan.h promises to every pathfinder.
Asserted(i, m) ==
    IF ~link[i].running
    THEN IF m.ev = "CONNECT" THEN "no" ELSE "first event"
    ELSE IF link[i].subnode /\ m.ev \in {"CONNECT", "PATHFINDER", "PATHFINDER_GONE", "PING"}
         THEN "unexpected event" ELSE "no"

\* incomingFromEventIf: CORE_PING is given back as a PONG.  An external pathfinder also remembers which
\* others it has been told of.
IncomingFromEventIf(l, m) ==
    CASE m.ev = "CONNECT" -> [l EXCEPT !.running = TRUE]
      [] m.ev = "PATHFINDER" -> [l EXCEPT !.told = @ \cup {m.pf}]
      [] m.ev = "PATHFINDER_GONE" -> [l EXCEPT !.told = @ \ {m.pf}]
      [] m.ev = "CORE_PING" -> FromA(l, [m EXCEPT !.ev = "PONG"])
      [] OTHER -> l

-----------------------------------------------------------------------------

\* EventEmitter_regPathfinderIface; Core.c starts its SubnodePathfinder, which sends CONNECT, at once.
RegPathfinderIface(subnode) ==
    LET i == Len(link) + 1
        l == NewLink(subnode)
    IN  /\ i <= MaxPathfinders
        /\ subnode => i \in Subnode
        /\ link' = Append(link, IF subnode THEN FromA(l, Message("CONNECT", i, 0)) ELSE l)
        /\ UNCHANGED <<cycle, failed>>

\* The bounds on what is under way.
Waiting == UNION {{i} \X (1..(Len(link[i].toA) + Len(link[i].toB))) : i \in DOMAIN link}

Room(length) == /\ \A i \in DOMAIN link : link[i].bytes + length <= MaxBytes
                /\ Cardinality(Waiting) < MaxQueue

\* A component of the core emits an event for all pathfinders.
CoreEvent(length) ==
    /\ Room(length)
    /\ link' = SendToAll(link, Message("EVENT", 0, 0), length)
    /\ UNCHANGED <<cycle, failed>>

\* A pathfinder emits an event.
PathfinderEvent(i, m) ==
    /\ Room(0)
    /\ link' = [link EXCEPT ![i] = FromA(@, m)]
    /\ UNCHANGED <<cycle, failed>>

\* timeoutTrigger of i: the messages that wait are taken, and what they cause is for the next
\* cycle.
TimeoutTrigger(i) ==
    /\ cycle = NoCycle /\ link[i].armed
    /\ link[i].toA # <<>> \/ link[i].toB # <<>>
    /\ cycle' = [of |-> i, toA |-> link[i].toA, toB |-> link[i].toB]
    /\ link' = [link EXCEPT ![i].toA = <<>>, ![i].toB = <<>>]
    /\ UNCHANGED failed

\* timeoutTrigger without a message: after MaxDryCycles of them the timer is given up.
DryCycle(i) ==
    /\ cycle = NoCycle /\ link[i].armed
    /\ link[i].toA = <<>> /\ link[i].toB = <<>>
    /\ link' = IF link[i].dryCycles < MaxDryCycles
               THEN [link EXCEPT ![i].dryCycles = @ + 1]
               ELSE [link EXCEPT ![i].dryCycles = 0, ![i].armed = FALSE]
    /\ UNCHANGED <<cycle, failed>>

Left(c) == IF c.toA = <<>> /\ c.toB = <<>> THEN NoCycle ELSE c

\* In the cycle, the messages to the pathfinder come first...
DeliverToA ==
    /\ cycle.toA # <<>>
    /\ link' = [link EXCEPT ![cycle.of] = IncomingFromEventIf(@, Head(cycle.toA))]
    /\ failed' = Asserted(cycle.of, Head(cycle.toA))
    /\ cycle' = Left([cycle EXCEPT !.toA = Tail(@)])

\* ... and then the messages to the core.
DeliverToB ==
    /\ cycle.toA = <<>> /\ cycle.toB # <<>>
    /\ IncomingFromPathfinder(cycle.of, Head(cycle.toB))
    /\ cycle' = Left([cycle EXCEPT !.toB = Tail(@)])

Deliver == failed = "no" /\ (DeliverToA \/ DeliverToB)

Trigger(i) == failed = "no" /\ i \in DOMAIN link /\ (TimeoutTrigger(i) \/ DryCycle(i))

\* A callback runs to its end before anything else happens.
Next == \/ Deliver
        \/ \E i \in DOMAIN link : Trigger(i)
        \/ /\ cycle = NoCycle /\ failed = "no"
           /\ \/ \E subnode \in BOOLEAN : RegPathfinderIface(subnode)
              \/ \E length \in 1..PingAt : CoreEvent(length)
              \/ \E i \in DOMAIN link : \E m \in Events(i) : PathfinderEvent(i, m)

\* A callback ends, and a timer that is set fires: the event loop takes the timers in the order in which they
\* are due, so that the callbacks of one ASynchronizer do not keep another from its turn.
Fairness == WF_vars(Deliver) /\ \A i \in 1..MaxPathfinders : SF_vars(Trigger(i))

Spec == Init /\ [][Next]_vars /\ Fairness

-----------------------------------------------------------------------------

\* The messages that wait or are being handed on to pathfinder i, and from it.
ToPathfinder(i) == (IF cycle.of = i THEN cycle.toA ELSE <<>>)
                       \o (IF i \in DOMAIN link THEN link[i].toA ELSE <<>>)
ToCore(i) == (IF cycle.of = i THEN cycle.toB ELSE <<>>)
                 \o (IF i \in DOMAIN link THEN link[i].toB ELSE <<>>)

\* A pathfinder that answers each PING with its own content, however late and whatever is sent
\* meanwhile, is never taken for a failed one: the count of a PONG is never above the
\* bytes that sendToPathfinder has counted (handleFromPathfinder, PONG).
HonestStaysConnected == \A i \in DOMAIN link \ Faulty : link[i].state # "ERROR"

\* incomingFromCore finds the pathfinder that a handler answers CONNECTED, and the first message that a
\* pathfinder gets is CONNECT (both are asserted), though pathfinders fail and events are under way.
ConnectedWhenAnswered == failed \notin {"incomingFromCore", "first event"}

\* No assertion of incomingFromCore or of incomingFromEventIf fails, but for one: a SubnodePathfinder
\* gets an event that its switch does not have (Assert_failure), and this only after a pathfinder of
\* another kind has registered.  Alone it gets no second CONNECT and hears nothing of itself.
NoAssertionFails ==
    /\ ConnectedWhenAnswered
    /\ failed = "unexpected event" => \E i \in DOMAIN link : ~link[i].subnode

\* What pathfinder i will have been told once all that is under way to it has arrived.
WillBeTold(i) ==
    LET ms == ToPathfinder(i)
        After[k \in 0..Len(ms)] == IF k = 0 THEN link[i] ELSE IncomingFromEventIf(After[k - 1], ms[k])
    IN  After[Len(ms)].told

\* A connected pathfinder that has been told of another is told when that one fails: with what is on its
\* way taken into account, it only knows pathfinders that are connected (PATHFINDER, PATHFINDER_GONE).
ToldOnlyOfConnected == \A i \in Connected : WillBeTold(i) \subseteq Connected

Has(ms, ev) == \E k \in DOMAIN ms : ms[k].ev = ev

\* A PING that has been sent to an honest pathfinder is answered and the answer is counted, although
\* the ASynchronizer between them gives its timer up in quiet times (timeoutTrigger, checkTimeout), unless
\* the process ends because a SubnodePathfinder gets an event that it does not know.
PingsAreAnswered == \A i \in 1..MaxPathfinders \ Faulty :
    /\ Has(ToPathfinder(i), "CORE_PING") ~> Has(ToCore(i), "PONG") \/ failed # "no"
    /\ Has(ToCore(i), "PONG") ~> ~Has(ToCore(i), "PONG") \/ failed # "no"

=============================================================================
