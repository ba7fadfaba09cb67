---------------------------- MODULE SessionManager ----------------------------
(***************************************************************************)
(* net/SessionManager.c of one node: the table of its sessions, the paths  *)
(* it sends on, the messages that wait for a search, and the two timers'   *)
(* checks, against messages from inside, from the switch and from the      *)
(* pathfinder in any order.                                                *)
(*                                                                         *)
(* Of a CryptoAuth session there is what SessionManager can see, getState  *)
(* and whether resetIfTimeout would reset it (CryptoAuthSession has the    *)
(* rest, SessionHandles the handles of the other end).  A time is kept as  *)
(* its age in intervals of the timer and saturates where no test can tell; *)
(* that of a message counts the timer's runs since it was put there, and   *)
(* its time is over somewhere between two of them.                         *)
(***************************************************************************)
EXTENDS HandleMap, FiniteSets, FiniteSetsExt, Functions

CONSTANTS Addresses,        \* the ip6 of other nodes
          Labels,           \* switch labels
          NoLabel,          \* label 0
          FirstHandle,      \* firstHandle, random but for MIN_FIRST_HANDLE
          MaxBuffered,      \* maxBufferedMessages
          BufferTimeout,    \* the 10 s of checkTimedOutBuffers
          SetupReset, ResetAfter,     \* of the CryptoAuth sessions
          IdleAfter, SearchAfter, SessionTimeout,
          MaxHandles        \* bound: sessions ever made

ASSUME TimesAssumption == /\ IsFiniteSet(Addresses) /\ NoLabel \notin Labels
                          /\ {FirstHandle, MaxBuffered, BufferTimeout, SetupReset, ResetAfter,
                              IdleAfter, SearchAfter, SessionTimeout, MaxHandles} \subseteq Nat
                          /\ FirstHandle > 3
                          /\ SetupReset <= ResetAfter /\ IdleAfter < SearchAfter

VARIABLES map,       \* ifaceMap: addresses and handles in order
          session,   \* session[a]: the value of a's entry
          buffer,    \* bufMap: buffer[a], the message that waits for a
          astray,    \* history: the packets that left without a path or for an unknown version
          told       \* history: the addresses whose session the pathfinder was told of and not
                     \* yet told the end of

vars == <<map, session, buffer, astray, told>>

\* enum CryptoAuth_State.
INIT == 0
SENT_HELLO == 1
RECEIVED_HELLO == 2
SENT_KEY == 3
RECEIVED_KEY == 4
ESTABLISHED == 5

Open == DOMAIN session

Init == /\ map = EmptyMap
        /\ session = <<>>
        /\ buffer = <<>>
        /\ astray = {}
        /\ told = {}

Min2(a, b) == IF a < b THEN a ELSE b
Without(f, a) == [x \in DOMAIN f \ {a} |-> f[x]]
With(f, a, v) == [x \in DOMAIN f \cup {a} |-> IF x = a THEN v ELSE f[x]]

-----------------------------------------------------------------------------
\* CryptoAuth_resetIfTimeout.
ResetIfTimeout(s) ==
    IF /\ s.ca # SENT_HELLO
       /\ s.caAge >= SetupReset
       /\ s.caAge >= ResetAfter \/ s.ca # ESTABLISHED
    THEN [s EXCEPT !.ca = INIT, !.caAge = 0] ELSE s

\* CryptoAuth_encrypt, below the nonce limit.
Encrypted(s) == [s EXCEPT !.ca = CASE @ = INIT -> SENT_HELLO
                                   [] @ = RECEIVED_HELLO -> SENT_KEY
                                   [] OTHER -> @]

\* The states in which CryptoAuth_decrypt may leave s when it takes a packet of a kind.
HelloLeaves(s) == {RECEIVED_HELLO} \cup ({SENT_HELLO, SENT_KEY} \cap {s.ca})
KeyLeaves(s) == IF s.ca \in {SENT_HELLO, RECEIVED_KEY} THEN {RECEIVED_KEY} ELSE {}
TrafficLeaves(s) == IF s.ca >= SENT_KEY THEN {ESTABLISHED} ELSE {}

-----------------------------------------------------------------------------
\* A new entry as getSession makes it, with the handle that the map has given it.
NewEntry(a, version, label) ==
    [receiveHandle |-> Last(MapPut(map, a).handles) + FirstHandle, version |-> version,
     send |-> label, recv |-> NoLabel, in |-> 0, out |-> 0, search |-> SearchAfter,
     ca |-> INIT, caAge |-> 0]

\* MUTANT: a session that has lost its path does not take the new one.
EntryKeeping(a, version, label) ==
    IF a \in Open THEN [session[a] EXCEPT !.version = IF @ = 0 THEN version ELSE @]
    ELSE NewEntry(a, version, label)

\* getSession: the entry of a with what is new about it.
Entry(a, version, label) ==
    IF a \in Open
    THEN [session[a] EXCEPT !.version = IF @ = 0 THEN version ELSE @,
                            !.send = IF @ = NoLabel THEN label ELSE @]
    ELSE NewEntry(a, version, label)

\* getSession puts the entry and announces it if it is new.
PutAndAnnounce(a) == /\ map' = MapPut(map, a)
                     /\ told' = told \cup ({a} \ Open)

\* needsLookup: the new message takes the place of an old one for the same address; when
\* the buffer is full the messages that have timed out make room, or the new one is lost.
\* A message keeps the label that its header has by then.
Fresh(buf) == [a \in {x \in DOMAIN buf : buf[x].age <= BufferTimeout} |-> buf[a]]

NeedsLookup(a, label) ==
    LET others == Without(buffer, a)
        room == IF Cardinality(DOMAIN others) < MaxBuffered THEN others ELSE Fresh(others)
    IN  IF Cardinality(DOMAIN room) < MaxBuffered
        THEN With(room, a, [label |-> label, age |-> 0]) ELSE room

\* readyToSend: what it leaves of the session, and the packet that goes to the switch.
Sending(s) == [Encrypted(ResetIfTimeout(s)) EXCEPT !.out = 0]

PacketTo(a, s, kind, label) ==
    [to |-> a, kind |-> kind, version |-> s.version,
     label |-> IF label = NoLabel THEN s.send ELSE label]

Sends(m) == astray' = astray \cup {x \in {m} : x.version = 0 \/ x.label = NoLabel}

-----------------------------------------------------------------------------
\* incomingFromInsideIf, a message whose header has or lacks (0, NoLabel) the key and
\* version, and the label.
IncomingFromInside(a, kind, version, label) ==
    LET known == a \in Open \/ version # 0
        e == IF a \in Open THEN session[a] ELSE NewEntry(a, version, label)
        s == [e EXCEPT !.version = IF version # 0 THEN version ELSE @]
        path == IF label # NoLabel THEN label ELSE s.send
        r == ResetIfTimeout(s)
        addressed == known /\ s.version # 0 /\ path # NoLabel
        ready == addressed /\ (kind = "dht" \/ r.ca >= RECEIVED_KEY)
    IN  /\ IF known THEN PutAndAnnounce(a) ELSE UNCHANGED <<map, told>>
        /\ session' = IF ~known THEN session
                      ELSE With(session, a, IF ready THEN Sending(r)
                                            ELSE IF addressed THEN r ELSE s)
        /\ buffer' = IF ready THEN buffer
                     ELSE NeedsLookup(a, IF addressed THEN path ELSE label)
        /\ IF ready THEN Sends(PacketTo(a, r, kind, path)) ELSE UNCHANGED astray

\* What a packet that decrypt takes leaves, whatever its kind.
Received(s, ca, path) == [s EXCEPT !.ca = ca, !.in = 0, !.recv = path,
                                   !.send = IF @ = NoLabel THEN path ELSE @]

\* incomingFromSwitchIf, a handshake packet, which decrypt refuses or takes.
IncomingHandshake(a, path) ==
    LET s == ResetIfTimeout(Entry(a, 0, path))
    IN  /\ PutAndAnnounce(a)
        /\ \/ session' = With(session, a, s)
           \/ \E ca \in HelloLeaves(s) \cup KeyLeaves(s) :
                  session' = With(session, a, Received(s, ca, path))
        /\ UNCHANGED <<buffer, astray>>

\* incomingFromSwitchIf, traffic with a handle that decrypt takes.
IncomingTraffic(handle, path) ==
    LET index == IndexForHandle(map, handle - FirstHandle)
        a == map.keys[index]
    IN  /\ index # 0
        /\ \E ca \in TrafficLeaves(session[a]) :
               session' = [session EXCEPT ![a] = [Received(@, ca, path) EXCEPT !.caAge = 0]]
        /\ UNCHANGED <<map, buffer, astray, told>>

\* incomingFromEventIf, NODE of an address that a message waits for: the path is used if
\* the session has none, and whether it is broken is not looked at.
NodeForBuffered(a, version, path) ==
    LET s == Entry(a, version, path)
    IN  /\ a \in DOMAIN buffer
        /\ PutAndAnnounce(a)
        /\ IF s.ca >= RECEIVED_KEY
           THEN /\ session' = With(session, a, Sending(s))
                /\ Sends(PacketTo(a, s, "data", buffer[a].label))
                /\ buffer' = Without(buffer, a)
           ELSE /\ session' = With(session, a, s)
                /\ UNCHANGED <<buffer, astray>>

\* incomingFromEventIf, NODE with a path of an address that nothing waits for.
NodePath(a, version, path) ==
    /\ a \in Open \ DOMAIN buffer
    /\ session' = [session EXCEPT ![a].send = path, ![a].version = version]
    /\ UNCHANGED <<map, buffer, astray, told>>

\* incomingFromEventIf, NODE with a metric that says that the path is broken.
NodeBroken(a, path) ==
    /\ a \in Open \ DOMAIN buffer
    /\ session[a].send = path
    /\ session' = [session EXCEPT ![a].send = IF @ = session[a].recv THEN NoLabel
                                              ELSE session[a].recv]
    /\ UNCHANGED <<map, buffer, astray, told>>

\* incomingFromEventIf, SESSIONS: a pathfinder that has just connected, and knows nothing,
\* asks for all.
Sessions ==
    /\ told' = Range(map.keys)
    /\ UNCHANGED <<map, session, buffer, astray>>

-----------------------------------------------------------------------------
Aged(s) == [s EXCEPT !.in = Min2(@ + 1, SessionTimeout + 1), !.out = Min2(@ + 1, IdleAfter),
                     !.search = Min2(@ + 1, SearchAfter), !.caAge = Min2(@ + 1, ResetAfter)]

\* MUTANT: what we send keeps a session alive.
TimedOutByBoth(s) == Min2(s.in, s.out) > SessionTimeout

TimedOut(s) == s.in > SessionTimeout

Idle(s) == s.out >= IdleAfter /\ s.in >= IdleAfter
WantsSearch(s) == ~TimedOut(s) /\ ~Idle(s) /\ s.search >= SearchAfter

\* The loop of checkTimedOutSessions over the removals: from the last entry to the first.
SweepRound(m, live, acc, i) == IF m.keys[i] \in live THEN acc ELSE MapRemove(acc, i)

Swept(m, live) ==
    LET after[n \in 0 .. Len(m.keys)] ==
            IF n = 0 THEN m ELSE SweepRound(m, live, after[n - 1], Len(m.keys) - n + 1)
    IN  after[Len(m.keys)]

\* MUTANT: one end is announced in a cycle.
EndAnnouncedOnce(gone) == told' = IF gone = {} THEN told ELSE told \ {CHOOSE a \in gone : TRUE}

EndAnnounced(gone) == told' = told \ gone

Waited(age) == Min2(age + 1, BufferTimeout + 2)

\* Between two runs of the timer the time of a message is over.
MessageExpires(a) ==
    /\ a \in DOMAIN buffer /\ buffer[a].age = BufferTimeout
    /\ buffer' = [buffer EXCEPT ![a].age = Waited(@)]
    /\ UNCHANGED <<map, session, astray, told>>

\* An interval passes and the timer fires: checkTimedOutSessions ends sessions and searches
\* for one of the others, the last in the map that wants it, and checkTimedOutBuffers drops
\* messages.
Periodically ==
    LET old == [a \in Open |-> Aged(session[a])]
        live == {a \in Open : ~TimedOut(old[a])}
        wanting == {i \in DOMAIN map.keys : WantsSearch(old[map.keys[i]])}
        searched == IF wanting = {} THEN {} ELSE {map.keys[Max(wanting)]}
    IN  /\ map' = Swept(map, live)
        /\ session' = [a \in live |-> IF a \in searched THEN [old[a] EXCEPT !.search = 0]
                                      ELSE old[a]]
        /\ buffer' = Fresh([a \in DOMAIN buffer |-> [buffer[a] EXCEPT !.age = Waited(@)]])
        /\ EndAnnounced(Open \ live)
        /\ UNCHANGED astray

Next ==
    \/ \E a \in Addresses :
           \/ IncomingFromInside(a, "data", 0, NoLabel)
           \/ \E l \in Labels : \/ \E kind \in {"data", "dht"} : IncomingFromInside(a, kind, 1, l)
                                \/ IncomingHandshake(a, l)
                                \/ NodeForBuffered(a, 1, l)
                                \/ NodePath(a, 1, l)
                                \/ NodeBroken(a, l)
           \/ MessageExpires(a)
    \/ \E h \in FirstHandle .. FirstHandle + MaxHandles, l \in Labels : IncomingTraffic(h, l)
    \/ Sessions
    \/ Periodically

Spec == Init /\ [][Next]_vars

-----------------------------------------------------------------------------
\* The table is one of sessions with handles in ascending order, so that the binary search
\* leads every handle to the session that was given it, or to none: whatever was made and
\* has ended, no traffic is decrypted by another node's session.
HandleFindsSession ==
    /\ Range(map.keys) = Open /\ Len(map.keys) = Cardinality(Open)
    /\ \A h \in FirstHandle .. FirstHandle + MaxHandles :
           LET index == IndexForHandle(map, h - FirstHandle)
           IN  {a \in Open : session[a].receiveHandle = h}
               = IF index = 0 THEN {} ELSE {map.keys[index]}

\* The pathfinder knows of exactly the sessions that there are.
PathfinderToldOfSessions == told = Open

\* A message that leaves, also one that has waited while its session was reset, has ended
\* or has lost its path, is for a node of known version and has a path.
SentWithPath == astray = {}

\* No session outlives its timeout, however much is sent on it, no message waits longer
\* than its own and the rest of an interval, and the buffer is never too large.
NothingLingers ==
    /\ \A a \in Open : session[a].in <= SessionTimeout
    /\ \A a \in DOMAIN buffer : buffer[a].age <= BufferTimeout + 1
    /\ Cardinality(DOMAIN buffer) <= MaxBuffered
=============================================================================
