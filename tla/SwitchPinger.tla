----------------------------- MODULE SwitchPinger -----------------------------
(***************************************************************************)
(* Pings and their timeouts: util/Pinger.c and, on top of it,              *)
(* net/SwitchPinger.c.                                                     *)
(*                                                                         *)
(* A ping lives in an allocator of its own, a child of its user's.  The    *)
(* message that carries it is made in the same allocator, and the UDP      *)
(* layer adopts that until the message is written, so that freeing a ping  *)
(* may only move it (see Allocator).  Handles grow and cookies are random: *)
(* a reply to a ping that has gone finds nothing, and a value of Pings     *)
(* that is used again stands for another handle and cookie.                *)
(***************************************************************************)
EXTENDS Integers, FiniteSets

CONSTANTS Pings,           \* bound: pings at a time
          Labels,          \* the paths that are pinged
          VersionOf,       \* VersionOf[label]: the version of the node at label
          MaxConcurrent    \* maxConcurrentPings

ASSUME SwitchPingerAssumption == /\ IsFiniteSet(Pings)
                                 /\ MaxConcurrent \in Nat
                                 /\ 0 \notin {VersionOf[l] : l \in Labels}

VARIABLES ping,            \* ping[i]: outstandingPings of the Pinger, by handle
          outstanding,     \* outstandingPings of the SwitchPinger
          incoming,        \* incomingVersion
          queued,          \* the pings whose message the UDP layer has not written yet
          log              \* history: log[i], the callbacks for the latest ping i

vars == <<ping, outstanding, incoming, queued, log>>

\* freed by the freePing and onPingFree jobs.
NoPing == [label |-> "none", sent |-> FALSE, timer |-> FALSE, answered |-> FALSE,
           cancelled |-> FALSE, adopted |-> FALSE, parent |-> "none"]

NoLog == [calls |-> 0, late |-> FALSE, timeout |-> FALSE, version |-> 0, label |-> "none"]

Init == /\ ping = [i \in Pings |-> NoPing]
        /\ outstanding = 0
        /\ incoming = 0
        /\ queued = {}
        /\ log = [i \in Pings |-> NoLog]

\* Pinger_newPing: the ping, its timeout set and its message to be sent.
PingerNewPing(label) ==
    [NoPing EXCEPT !.label = label, !.timer = TRUE, !.parent = "user"]

\* SwitchPinger_newPing.
NewPing(i, label) ==
    /\ outstanding <= MaxConcurrent
    /\ ping[i] = NoPing /\ i \notin queued
    /\ ping' = [ping EXCEPT ![i] = PingerNewPing(label)]
    /\ outstanding' = outstanding + 1
    /\ log' = [log EXCEPT ![i] = [NoLog EXCEPT !.label = label]]
    /\ UNCHANGED <<incoming, queued>>

\* asyncSendPing and sendPing; below, the message is dropped, copied or queued.
SendPing(i) ==
    /\ ping[i] # NoPing /\ ~ping[i].sent
    /\ \E queue \in BOOLEAN :
           /\ ping' = [ping EXCEPT ![i].sent = TRUE, ![i].adopted = queue]
           /\ queued' = IF queue THEN queued \cup {i} ELSE queued
    /\ UNCHANGED <<outstanding, incoming, log>>

\* onPingFree.
OnPingFree == outstanding' = outstanding - 1

\* MUTANT: a ping is taken off the count when it is to be freed, not when it is.
FreePingEarly(i, p) ==
    /\ ping' = [ping EXCEPT ![i] = IF p.adopted
                                   THEN [p EXCEPT !.adopted = FALSE, !.parent = "request"]
                                   ELSE NoPing]
    /\ OnPingFree

\* Allocator_free of the ping's allocator, with the ping in state p: freePing and
\* onPingFree run unless it moves to its adopter.
FreePing(i, p) ==
    IF p.adopted
    THEN /\ ping' = [ping EXCEPT ![i] = [p EXCEPT !.adopted = FALSE, !.parent = "request"]]
         /\ UNCHANGED outstanding
    ELSE /\ ping' = [ping EXCEPT ![i] = NoPing]
         /\ OnPingFree

\* onPingResponse of the SwitchPinger, which calls the user; version is the
\* incomingVersion it finds.
OnPingResponse(i, version) ==
    log' = [log EXCEPT ![i].calls = @ + 1, ![i].late = @ \/ ping[i].cancelled,
                       ![i].version = version]

\* onPingResponse without a response: incomingVersion is what the last message left.
OnPingTimeout(i) ==
    log' = [log EXCEPT ![i].calls = @ + 1, ![i].late = @ \/ ping[i].cancelled,
                       ![i].version = incoming, ![i].timeout = TRUE]

\* callback() of the Pinger.
Callback(i, version) ==
    /\ OnPingResponse(i, version)
    /\ FreePing(i, [ping[i] EXCEPT !.answered = TRUE])

\* MUTANT: incomingVersion is set after the response has been passed on.
PingerPongReceivedFirst(i, version) ==
    IF ping[i].answered THEN UNCHANGED <<ping, outstanding, log>> ELSE Callback(i, incoming)

\* MUTANT: a second response is not recognised.
PongReceivedAgain(i, version) ==
    /\ ping[i] # NoPing /\ ping[i].sent
    /\ incoming' = version
    /\ Callback(i, version)
    /\ UNCHANGED queued

\* Pinger_pongReceived, of the handle and cookie of i.
PingerPongReceived(i, version) ==
    IF ping[i].answered THEN UNCHANGED <<ping, outstanding, log>> ELSE Callback(i, version)

\* messageFromControlHandler, with a pong, a key pong or an error (which tells no
\* version) that carries the handle and cookie of i.
PongReceived(i, version) ==
    /\ ping[i] # NoPing /\ ping[i].sent
    /\ incoming' = version
    /\ PingerPongReceived(i, version)
    /\ UNCHANGED queued

\* timeoutCallback.
Timeout(i) ==
    /\ ping[i].timer
    /\ IF ping[i].answered
       THEN /\ ping' = [ping EXCEPT ![i].timer = FALSE]
            /\ UNCHANGED <<outstanding, log>>
       ELSE /\ OnPingTimeout(i)
            /\ FreePing(i, [ping[i] EXCEPT !.answered = TRUE, !.timer = FALSE])
    /\ UNCHANGED <<incoming, queued>>

\* The user frees the allocator that was given to newPing.
Cancel(i) ==
    /\ ping[i].parent = "user"
    /\ FreePing(i, [ping[i] EXCEPT !.cancelled = TRUE])
    /\ UNCHANGED <<incoming, queued, log>>

\* MUTANT: the end of the request does not free the ping that has moved to it.
SendCompleteKeeping(i) ==
    /\ i \in queued
    /\ queued' = queued \ {i}
    /\ ping' = [ping EXCEPT ![i].adopted = FALSE]
    /\ UNCHANGED <<outstanding, incoming, log>>

\* sendComplete: the write request, and with it the adoption, ends.
SendComplete(i) ==
    /\ i \in queued
    /\ queued' = queued \ {i}
    /\ IF ping[i].parent = "request" THEN FreePing(i, ping[i])
       ELSE /\ ping' = [ping EXCEPT ![i].adopted = FALSE]
            /\ UNCHANGED outstanding
    /\ UNCHANGED <<incoming, log>>

Next == \E i \in Pings :
            \/ \E label \in Labels : NewPing(i, label)
            \/ SendPing(i)
            \/ PongReceived(i, VersionOf[ping[i].label]) \/ PongReceived(i, 0)
            \/ Timeout(i)
            \/ Cancel(i)
            \/ SendComplete(i)

\* The event loop fires timers and completes writes.
Fairness == \A i \in Pings : WF_vars(Timeout(i)) /\ WF_vars(SendComplete(i))

Spec == Init /\ [][Next]_vars /\ Fairness

-----------------------------------------------------------------------------
\* A user hears of a ping once: never a pong after a timeout, a timeout after a
\* pong, or a pong twice, even if the ping outlives its answer.
AnsweredOnce == \A i \in Pings : log[i].calls <= 1

\* onPingFree's assertion and more: the slots in use are exactly the pings that exist.
CountMatches == outstanding = Cardinality({i \in Pings : ping[i] # NoPing})

\* Every ping goes away again, so that its slot is not lost: answered, timed out or
\* cancelled, and whatever the UDP layer holds.
EveryPingEnds == \A i \in Pings : ping[i] # NoPing ~> ping[i] = NoPing

\* Pinger.h on newPing: "cancel the ping by freeing this allocator."
CancelIsFinal == \A i \in Pings : ~log[i].late

\* SwitchPinger.h on a response: "the version of the node which was pinged.", or none;
\* never the version that the answer to another ping has left in incomingVersion.  A
\* timeout, which is no response, does report what was left.
VersionOfPinged ==
    \A i \in Pings : log[i].timeout \/
        log[i].version \in {0} \cup {VersionOf[l] : l \in {log[i].label} \cap Labels}
=============================================================================
