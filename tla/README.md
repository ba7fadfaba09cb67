# A verification of cjdns

cjdns is an encrypted IPv6 network.  A node is one process with one event loop.  It has
peers on link interfaces (UDP, Ethernet), forwards packets between them by a *label* in
which every switch on the way reads and replaces its own part, and runs end-to-end
encrypted sessions on top.  These TLA+ modules model the parts in which the program's
logic is: the cryptographic handshake, the replay window, the sessions and their handles,
labels and their way through the switches, the pathfinders and how the core watches them,
the tree of allocators on which the life of everything else depends, pings, and the table of
peers.  TLC checks them on small instances and TLAPS proves the most important results for
all instances.

    tlc -workers 2 -config PeerTable.cfg MCPeerTable      # a run
    tlapm CryptoAuthNetProofs.tla                         # the proofs of a module

`PROJECT.json` has the list of runs, of theorems, of findings and of hazards, and for
every definition that models code the lines it stands for.

## The system

Everything happens in callbacks of libuv's event loop, one at a time: a packet was read,
a timer fired, a write is complete, a client of the admin port asks for something.  So an
action of a module is a whole handler, and concurrency is between nodes, between a node and the
network, and between callbacks that come in an unexpected order.

| Component | State | Operations | Talks to |
|---|---|---|---|
| ReplayProtector | base and bit field of 64 nonces, three counters | checkNonce | called by CryptoAuth |
| CryptoAuth context | list of users | addUser, removeUsers, getAuth | admin (AuthorizedPasswords) |
| CryptoAuth session | nextNonce (which doubles as the state), role, two temporary keys, secret, established, window, time of last packet | setAuth, encrypt, decrypt, reset, resetIfTimeout | InterfaceController for peers, SessionManager end to end |
| Allocator | parent, children, adopters, onFree jobs, isFreeing | child, adopt, disown, free, onFree, onFreeComplete | everything: freeing an allocator is how an object ends |
| Pinger, SwitchPinger | outstanding pings by handle, their count, version of the last message | newPing, pong, timeout, cancel by free | InterfaceController, admin; its messages wait in the queue of UDPAddrIface |
| InterfaceController | peers by link address, their state, version, path, times | bootstrapPeer, beacon, message, merge, ping, forget, disconnect | SwitchCore for slots, EventEmitter for PEER and PEER_GONE |
| SwitchCore | slots, each with an interface and up or down | add, remove, swap, forward, send an error back | InterfaceController, the router interface |
| SubnodePathfinder | myPeers, supernode, searches | peer, peerGone, searchReq, ... | EventEmitter |
| SessionManager | sessions by IPv6 address and by handle, the other end's handles, paths, messages that wait for a lookup | send, receive, search, time out | CryptoAuth, EventEmitter, the router interface of the switch |
| EventEmitter, ASynchronizer | pathfinders, their state, unanswered bytes; two queues and a timer for each | connect, ping, pong, superiority, broadcast; hand on | everything in the core, pathfinders |
| Labels | none (encoding schemes) | compress, decompress, convert, splice, route | SwitchCore, pathfinders |
| ControlHandler | none | answer pings, hand on pongs and errors | SessionManager, SwitchPinger, EventEmitter |
| Subnode, DHT | nodes, links, supernode, searches | ping, find, announce | SessionManager through EventEmitter |
| IpTunnel | connections, addresses lent | request, grant, check | SessionManager, TUN |
| Admin, client, interfaces, benc, wire, util | requests, configuration, buffers | RPC, parse, system calls | all |

What makes a component correct, and what is hard about it:

* **Replay window.**  No nonce is accepted twice, no fresh one that is only a little late is
  refused, and the loss counter is right, though the window jumps in two ways.
* **Sessions.**  Hellos cross; any packet is lost, repeated or arrives in another state than
  it was meant for; each end times out alone; the counter runs out.  Keys and roles have to
  agree nevertheless, no nonce may be used twice with a key, no packet accepted twice, and
  the two ends have to find each other again whatever happened.
* **Users.**  Lookup is by first match in a list which grows and shrinks.
* **Allocators.**  A free moves adopted subtrees to adopters, which may be dying too, and
  asynchronous jobs delay it.
* **Pings.**  Pong, timeout, cancellation and the end of the UDP write come in any order,
  and freeing a ping may only move it.
* **Session table.**  A handle has to lead to its session though entries come and go; the handle
  of the other end is learned inside the handshake, and the other end may have restarted since.
  A message that waits may meet a session that is reset, ended and made again, or without a path.
* **Labels.**  Each switch takes its bits off the low end and puts those of the way back on the
  high end, in forms of three widths: they have to fit, or the packet be refused, everywhere.
* **Pathfinders.**  Pings, answers and events are under way in queues while bytes are counted
  and pathfinders come and fail; timers are given up when it is quiet.
* **Peers.**  A peer is known in four places: the map, its slot, its own path, and the
  pathfinder.  Merging, timing out, coming back and disconnecting change all four.

## Modules

| Module | Models | Kind |
|---|---|---|
| `ReplayProtector` | crypto/ReplayProtector.h | operators on a window |
| `ReplayStream` | a session's use of it | state machine |
| `CryptoAuthUsers` | addUser, removeUsers, getAuth | operators on the list |
| `UserTable` | an administrator's use of them | state machine |
| `CryptoAuthSession` | what each function of CryptoAuth.c does to a session | operators on a session and a packet |
| `CryptoAuthNet` | two nodes and a network that keeps every packet | state machine, safety |
| `SecureChannel` | what two sessions promise their users | abstract specification, implemented by `CryptoAuthNet` |
| `CryptoAuthLink` | two peers of InterfaceController.c with their sessions and its timing, and a link with bounded faults | state machine, liveness |
| `Allocator` | memory/Allocator.c | state machine |
| `SwitchPinger` | util/Pinger.c, net/SwitchPinger.c and the queue of UDPAddrIface.c | state machine |
| `PeerTable` | net/InterfaceController.c, the slots of SwitchCore.c, myPeers of SubnodePathfinder.c | state machine |
| `HandleMap` | util/Map.h with keys and handles | operators on a map |
| `SessionManager` | net/SessionManager.c of one node | state machine |
| `SessionHandles` | the handles that two SessionManagers tell each other | state machine over `CryptoAuthSession` |
| `EventEmitter` | net/EventEmitter.c, interface/ASynchronizer.c, the dispatch of SubnodePathfinder.c | state machine, liveness |
| `SwitchLabels` | switch/NumberCompress.h (v3x5x8), EncodingScheme.c, LabelSplicer.h, Bits.h | operators on labels |
| `SwitchNet` | receiveMessage and sendError of SwitchCore.c, extendRoute of NodeStore.c, ControlHandler.c | state machine |
| `MC...` | constants, symmetry and constraints for TLC | |
| `ReplayProtectorProofs`, `CryptoAuthNetProofs`, `AllocatorProofs`, `SwitchPingerProofs`, `PeerTableProofs`, `SessionHandlesProofs`, `SessionManagerProofs`, `EventEmitterProofs` | | proofs, of the modules they are named after; the first two also of `ReplayStream` and `UserTable` |

`CryptoAuthSession` extends `ReplayProtector` and `CryptoAuthUsers`; `CryptoAuthNet`,
`CryptoAuthLink` and `SessionHandles` compose two of its sessions with different networks, the last
with a SessionManager on each side.  `SessionManager` extends `HandleMap`, `SwitchNet` extends
`SwitchLabels`.  The other modules stand alone: each takes from its neighbours only what the
code lets it see.

### Correspondence with the code

*Replay window.*  `rp.seen` is the bit field as the set of nonces whose bit is 1, so a shift
right is forgetting what is below the new base.  `Slide` is a turn of the loop in
checkNonce, `SlideTo` the loop (three turns are enough; the proofs show it), `NonceOk` what
it returns and `Filed` what it leaves behind.  64, 32 and 47 are 2 * `Half`, `Half` and `Keep`.

*Sessions.*  A session is a record of the fields of the struct; `nextNonce` takes the values
0 to 4 of the states and then counts.  Temporary keys are model values; a secret is the *set*
of the two keys it is computed from; a packet's `box` is the set of temporary keys that it takes to open it
(none for a hello, which only needs the permanent keys; the receiver's for a key packet; both for
traffic), and its `initiator` the bit by which the two directions differ.  `Encrypt` is CryptoAuth_encrypt with
encryptHandshake: `Prepared` (the reset at the nonce limit), `Keyed` (the keys drawn or
kept), `Packet`, `Advanced`.  `DecryptHandshake` and `DecryptTraffic` are CryptoAuth_decrypt: a packet that
is refused changes nothing and is no step, except the replay counters.  `idle` is the time since
timeOfLastPacket, which handshake packets do not refresh.

*Links.*  `CryptoAuthLink` has one struct Peer on each side (`end`) with its session, and what decides when
a packet is sent: `Pinged` is iciPing for that peer, with the pause after a pong, the pings that an unresponsive peer
is spared and the forgetting of incoming ones; `Received` is receivedPostCryptoAuth with the ping that an early
message causes, and the pong or the version that the switch and SwitchPinger make of it at once.  A peer is made by
bootstrapPeer or by the first good message of a stranger.  What key pairs are called is normalised at every tick.

*Allocators.*  `heap` holds parents, ordered lists of children and adopters.  `Pivoted` is
pivotChildrenToAdoptedParents, one pass per depth as in the code, `Released` is
freeAllocator, and a job is on the allocator it was registered on until it is called, then on
the top of the dying tree if it is asynchronous.  `refused` remembers, for the callers, the adoptions that
isAncestorOf turned down: they too may be disowned.  `halted` says that the program hangs or
aborts, and nothing happens after.

*Pings.*  `ping[i]` is a ping with its timer and the parent of its allocator (the user, or the
write request that adopted it); `queued` are the messages in the UDP queue.

*Peers.*  A handler is a composition of operators on a record `T` of the whole state, as the
handler is a sequence of calls, and `Commit(T)` makes it a step.  Only the loop of iciPing,
which frees peers from the map it walks, takes a step per turn (nothing else runs
meanwhile).  An assertion that fails, or memory that is used after it was freed, sets `failed` and
ends the program.  Of a peer's session there is only what CryptoAuth_getState tells.
Ages are counted in ping intervals and saturate just above ForgetAfter.  Two history variables say
what the pathfinder ought to know: `told`, the peers that sendPeer has announced and not taken back, and
`stray`, the paths that moveEndpointIfNeeded has taken an announced peer away from.

*Session table.*  `SessionManager` has the parallel arrays of the map (`HandleMap`), the values by
address and the buffer.  Of a CryptoAuth session it keeps what getState tells and whether
resetIfTimeout would reset it; `HelloLeaves`, `KeyLeaves` and `TrafficLeaves` are the states that decrypt may
leave behind.  `IncomingFromInside`, `IncomingHandshake`, `IncomingTraffic` and the three `Node...` actions
are the handlers, each whole; `Periodically` is the timer with both of its checks, and
`MessageExpires` lets a message time out between two of its runs, so that needsLookup finds it.
`astray` collects packets that leave without a path or for an unknown version.

*Handles.*  In `SessionHandles` a packet of `CryptoAuthSession` also carries a handle, the sender's own inside
a handshake packet and the receiver's in front of traffic, as readyToSend writes them and
incomingFromSwitchIf reads them.  Each node has at most one entry, for the other; `EndSession`
stands for a timeout of any length and `Restart` begins with another firstHandle.

*Labels.*  A label is the set of positions of its 1 bits, 64 wide as in the code: a shift moves the
set, | is union, bit reversal reflects it.  `ErrorCode` has the refusals of receiveMessage
in their order, `TargetLabel` and `ShiftBits` what it writes, `Forward`, `Deliver`, `SendError` and `Drop` its four
ends.  `SwitchErrLabel` is the label in the event that handleError makes of an error: always 0.  Switches share nothing, so one packet is followed; `Extend` builds its route as extendRoute does, from what
EncodingSchemeModule tells of the way back.

*Pathfinders.*  `link[i]` is a pathfinder with both queues of its ASynchronizer and what it has been
told.  Each is a SubnodePathfinder, which sends only what SubnodePathfinder.c sends and asserts on events it does
not know (`Asserted`), or external.  A run of timeoutTrigger takes the queues (`cycle`) and hands the messages on one by one,
nothing else running meanwhile; what they cause is for the next run, as in the code.  Bytes are
counted in units; a PONG with a wrong cookie counts as one that is too high, since the code treats
them alike.

## Runs

Passing runs; every property has a mutant of the code that breaks it.

| Run | Checks | Instance, and why it is enough |
|---|---|---|
| `replay_window` | `AcceptedOnce`, `LateNonceAccepted`, `LostIsExact` | a window of 4, nonces to 11 in any order with repeats: half shifts, gap shifts and both in one call happen, nearly three windows are passed |
| `user_table` | `ListIsGranted`, `AddKeepsAuth` | 2 passwords, 2 logins and no login, 4 users: removals from anywhere, made-up logins used again |
| `cryptoauth_net` | `StateAgrees`, `SecretAgrees`, `RolesDiffer`, `NonceIsFresh`, `NoReplay`, `AcceptedFromPeer`, `AuthEnforced`, `IsSecureChannel`, `TypeOK` | 4 temporary keys, nonce limit 7; a server with three users, of which two share a login and two are bound to an address.  With the user that both agreed on, 6 packets: two handshakes in either role, crossed hellos, resets, the nonce limit.  With a wrong password, the password of a user bound elsewhere or here, with a login or alone, or none, changed at any time, 3 packets: a handshake.  The proofs take away the bounds |
| `cryptoauth_link` | `AlwaysLinksAgain` | one or both nodes told to connect; one fault: a packet lost or duplicated, a node restarted, the link down for any time; nonce limit 12, so that secrets wear out; timeouts as below |
| `session_handles` | `HandlesAgree`, `TrafficFindsItsSession` | 3 temporary keys, 4 packets, 2 sessions per life of a node, 2 values of firstHandle: a handshake, traffic and the beginning of another handshake after either end has ended, reset or restarted |
| `session_manager` | `HandleFindsSession`, `PathfinderToldOfSessions`, `SentWithPath`, `NothingLingers` | 2 addresses, 2 paths, handles 0 to 2, a buffer for 1 message: the buffer is full, entries are removed below others, sessions end while a message waits |
| `event_emitter` | `HonestStaysConnected`, `NoAssertionFails`, `ToldOnlyOfConnected`, `PingsAreAnswered` | an honest pathfinder, external or a SubnodePathfinder, and a faulty one, a ping every 2 units, the timer given up after one dry cycle: pings cross events, pongs nobody asked for, failure while events wait |
| `switch_net` | `AnswerReturns`, `ErrorNamesPath`, `FitsUnlessLong`, `ExtensionsSplice` | a row of 3 switches, interfaces 0, 32 and 256 (one of each form, both ends of the special cases), routes of 6 hops to and fro (the label is full after 6 wide ones), one change of an interface, and a label that never ends.  `NumbersComeBack`, an assumption of `MCSwitchNet`, takes all 257 numbers through every form.  `FitsUnlessLong` also holds for 9 hops without changes |
| `allocator` | `WellLinked`, `NoLeak`, `FreesOnlyOrphans`, `FreeingWaitsForJobs` | 4 allocators, 2 jobs, 2 adoptions: adopters above and beside the freed one and dying with it, an adoption made twice or refused and disowned later, two asynchronous jobs below one freed tree or two.  The proofs take away the bounds |
| `switch_pinger` | `AnsweredOnce`, `CountMatches`, `VersionOfPinged`, `EveryPingEnds` | 3 pings, 2 nodes of different versions, one ping allowed at a time: the limit is reached while messages are queued |
| `peer_table` | `PathLeadsToPeer`, `DownIsUnresponsive`, `PathfinderIsCurrent` | 2 peers of one key at 2 addresses, with beacons: merging, coming back, forgetting during the loop.  Peers of different keys only meet in a slot that is used again; with two keys, and no pings spared, `PathfinderIsCurrent` holds too (2.4 million states) |

The replay counters of a session are capped by `MaxRefused`: they only count.  In `PeerTable`
the runs let a peer tell a compatible version only; an incompatible one is
not announced and does not postpone the next ping.

The violation run `switch_pinger_cancel` checks `CancelIsFinal`, what Pinger.h:75 says ("cancel the ping by
freeing this allocator"): TLC shows a ping that was freed while its message is queued, and still calls
back.

### Other disagreements between the code and its comments

Met while modelling, and in the models as the code has them:

* CryptoAuth.c:977: addUser refuses a user only if the login is equal too; CryptoAuth.h:80 says
  DUPLICATE "if the same *password* already exists".
* CryptoAuth.c:594: requireAuth also refuses the key packet that answers our own hello;
  CryptoAuth.h:138 says "If this end begins the connection, this parameter has no effect."
* Allocator.c:358: a free moves an adopted allocator to its adopter and uses the adoption up, so a
  second free takes it from there; Allocator.h:275 says that it lives until the adopter is freed.
* Allocator.c:491: freeing the root while an asynchronous job holds a freed subtree stops the program
  with "unaccounted for memory" (`halted = "abort"`).
* Allocator.c:662: isAncestorOf looks at the first adopter for ever if it is not the one it looks for (`halted =
  "hang"`); line 647 says "return 1 if true, otherwise zero."
* Allocator.c:339: disown recognises an adoption that was refused by asking again whether the child is above the
  parent ("Rare but possible way that the child would never have been adopted", line 690).  If it has ceased to be,
  because what was between them has been freed and moved to an adopter, disconnectAdopted fails its assertion
  although nothing was wrong (`halted = "disown"`).
* SwitchPinger.c:299: maxConcurrentPings + 1 pings may be outstanding; line 60 says "Maximum number
  of pings which can be outstanding at one time."
* SwitchPinger.c:186: a timeout reports the version that the last message of any node left;
  SwitchPinger.h:68 says "the version of the node which was pinged."  (`VersionOfPinged` is about
  pongs, for which it is so.)
* InterfaceController.c:1006: incomingFromEventEmitterIf announces every ESTABLISHED peer, also one whose version
  is not known yet, for which sendPeer asserts in line 216 (`failed = "sendPeer"`).
* InterfaceController.c:404: when a bootstrapped peer is merged into an incoming one of the same key, the
  incoming one stays, and iciPing forgets it when it falls silent; InterfaceController.h:126 says "IC will
  *not* remove it".
* InterfaceController.c:859: bootstrapPeer to an address that is in use replaces the peer in the map, and
  the assertion of closeInterface fails when the first is freed (`failed = "closeInterface"`).
* InterfaceController.c:870: the freeAlloc job of bootstrapPeer stays when the peer is disconnected or merged
  (`failed = "freeAlloc"`), though InterfaceController.h:127 asks the caller to free the allocator.
* SwitchCore.c:283: with all slots in use addInterface takes the one past the end
  (`failed = "addInterface"`).
* InterfaceController.c:412: of three endpoints with one key only two are merged; line 389 says that there
  will be one.
* InterfaceController.c:618: a peer that a beacon announced may be relocated before it is established, and the
  pathfinder keeps its old path; the comment above says "we're sure the node will not be relocated".
  TLC refutes `AnnouncedStays` at once when beacons are accepted, and `AnnouncedStaysPut` proves it when not;
  `PathfinderIsCurrent` excepts the path that was left, and nothing else.
* InterfaceController.c:425: a message of an UNRESPONSIVE peer does not set timeOfLastMessage, so the next
  pingCallback may mark it again although it answers.
* InterfaceController.c:318: the peer that is announced again is the last that iciPing visits; the comment
  says "the first that we address".

* SessionManager.c:508: the layout of a message is chosen by the state before encrypt, which starts the session
  over at the nonce limit (CryptoAuth.c:485); the assertion in line 546 then fails (`LaidOut`).
* SessionManager.c:443: one search is started per cycle, for the newest session that wants one, so that with more
  busy sessions than cycles in sessionSearchAfterMilliseconds the oldest get none; SessionManager.h:73
  says "Number of milliseconds after which a new DHT search will be run to verify the path."
* SessionManager.c:473: of two messages for one address the old one is dropped; SessionManager.h:33 says
  that the new one is.
* SessionManager.c:680: while a message waits for a node, the metric of a NODE event is not looked at, and a broken
  path is taken; the message is sent with the label it had when it was buffered.
* EventEmitter.c:89: nothing tests the limit of struct Pathfinder (line 49, "if it goes over 65535, the state is
  set to error"): a silent pathfinder stays connected.  As a ping is sent only when the counter crosses
  8192, none is sent again once more than that remains after a PONG.
* EventEmitter.c:237: PING is answered with the PFChan_Pathfinder_PING event itself, and not with
  PFChan_Core_PONG as PFChan.h has it.
* EventEmitter.c:258: the answers to PATHFINDERS all describe the asking pathfinder (`pf` for `xpf`); the model
  has it (`Pathfinders`).
* EventEmitter.c:208: no PATHFINDER event is sent on CONNECT, though PFChan.h says "Emitted when a pathfinder
  connects".
* SubnodePathfinder.c:533: Assert_failure("unexpected event") on PATHFINDER, PATHFINDER_GONE and a PING that comes
  back, all of which EventEmitter sends and PFChan.h:189 announces.  A SubnodePathfinder that shares the core with
  a pathfinder of another kind fails on the first SUPERIORITY or failed PONG of the other (`failed = "unexpected
  event"`); `NoAssertionFails` says that it takes another kind, and Core.c registers only one pathfinder.
* ControlHandler.c:46: handleError does not use its label.  It shifts the message back over the RouteHeader that
  incomingFromCore has popped, and what it exposes is the end of that header, ip6, which ctrlFrame has set to zero
  (SessionManager.c:227).  The SWITCH_ERR event therefore carries label 0 where PFChan_Core_SwitchErr has the
  SwitchHeader of the error, and both pathfinders read the path that failed from there (SubnodePathfinder.c:273,
  dht/Pathfinder.c:253).  `ErrorNamesPath` ends at incomingFromCore for this reason.

`CHECK_DEADLOCK FALSE` stands where a bound stops the model (no keys, packets or users left) or the
program may end (abort, failed assertion, freed root).  `cryptoauth_link` checks deadlock:
there the two nodes never stop.

### Fairness

The event loop runs every callback that is due.  `CryptoAuthLink` assumes weak fairness of pingCallback, of
the delivery of packets, of the clock and of the end of an outage (written with the guards of the
actions, which are their ENABLED); of losses, duplicates, restarts and outages nothing is assumed except that there are
at most `MaxFaults`.  pingCallback runs once in a tick, and packets are faster than that.  `SwitchPinger`
assumes weak fairness of timeouts and of the end of a write, both events of libuv; sending and
pongs are not fair: a ping ends without them.  `EventEmitter` assumes weak fairness of the rest of a
callback that has begun, and strong fairness of the timer of each ASynchronizer: libuv takes timers in the
order in which they are due, so that the timers of one cannot keep another from its turn for ever,
although a callback in progress disables it again and again.

The timing of `cryptoauth_link` is that of InterfaceController.c.  pingCallback runs every 1.024 s.  A peer is not pinged
within 3 s of its last message or of its last pong (timeOfLastPing is set by onPingResponse, line 257, when a
pong has come, not when a ping is sent), so one that has fallen silent is pinged at every run until it
is UNRESPONSIVE after 20 s; from then on every 8th time, and a message that does not establish it causes a ping at once
unless pingCount is at the 7th.  A session is reset after 10 s while it is set up and after 60 s later, and an incoming
peer is forgotten after 256 s.  The cfg takes ticks of 4 s: `PingAfter` 1, `SetupReset` 3, `UnresponsiveAfter` 5, `ResetAfter` 8,
`ForgetAfter` 10, and `PingSkip` 2 and `EarlySkip` 3 for 8 and 7.  This keeps the order that matters: the 8 s between two pings to an
unresponsive peer are less than the 10 s of the reset, which are less than twice 8 s and than 20 s.  That
order is needed: as handshake packets do not refresh timeOfLastPacket, with `SetupReset` equal to `PingSkip` each end resets
itself before the other's next ping and TLC finds a livelock, and another if `EarlySkip` and `PingSkip` are equal, so that
the pings that answer a hello are always the ones left out.  The code has 10 s against 8.2 s, and 7 against 8.
With the code's own numbers in ticks of 1.024 s (3, 10, 20, 59, 8 and 7; `ForgetAfter` just above the reset) and a link
that is down at first for any time, `AlwaysLinksAgain` also holds; that takes 8.5 million states and is too long for a
run.  Not modelled is that one run of iciPing stops at the first peer it pings, so that with many silent peers on an interface each
waits for its turn: the pings to one peer are assumed not to be delayed by others.
The nonce limit of 12 is the smallest that leaves room for a handshake with its retries; the code has
2^32 - 16.

## Proofs

All theorems hold for every value of the constants that satisfies the named assumptions.

**`ReplayProtectorProofs`**: `ReplayRefused` (no nonce accepted twice), `LateAccepted` (a
nonce at most `Half` behind the highest is accepted unless it was) and `LossIsExact` (the counter of lost
packets), from `WindowAssumption` (Half > 0, Half <= Keep < 2 Half) and `StreamAssumption`.  `AcceptedOnce` is
not inductive: it does not say where an accepted nonce is remembered.  The invariant adds that the field lies in
the window, that every accepted nonce is in the field or below its base, and that what is below
the base is more than `Half` below some accepted nonce.  The lemmas on the window
do the work: a slide keeps what stays in the window, moves the base no further than allowed, and
three of them always end the loop; each counts what it leaves behind, so that the sum is the number of
nonces below the new base that were not accepted.

**`CryptoAuthNetProofs`**: `TypeCorrect`, `AssertionsHold`, `SecretIsCurrent`, `RolesAreDistinct`,
`NoncesAreFresh`, `TrafficAcceptedOnce`, `NoReflection` and `AuthIsEnforced`, for any keys, users, timeouts, nonce limit
above 4 and window, and any number of packets.  The invariant follows the life of a temporary key.  A
key is announced by one node and in one role (only in hellos or only in key packets); a
session's own key was announced by itself and hers by the other in the opposite role;
traffic boxed under the current key was sent with smaller nonces than the counter, and what was
accepted under it is in the window.  So two sessions that hold the same pair have opposite
roles (`RolesDiffer`); a key that was dropped never comes back, because keys are fresh, so neither do its
nonces (`NonceIsFresh`); and a replayed packet either does not open or is in the window
(`NoReplay`, by the lemmas on the window).  Each action has a lemma (`EncryptStep`,
`HandshakeStep`, `TrafficStep`, `QuietStep`), and `StepInv` combines them.  `AuthIsEnforced` follows the other's
key to the packet that brought it; that getAuth returns a user of the list is the least-number principle for
its loop (`LeastNat`).

`ImplementsChannel` says that `CryptoAuthNet` implements `SecureChannel`, with the traffic packets of the network
as what is sent: a new packet of a conversation and a direction has the same writer as those before it
and a higher number (`SlotsHaveWriters`, `EncryptFollows`, from the same invariant), and an
accepted one is delivered once to the other end.

The assumptions: `SessionAssumption` (nonce limit above 4, timeouts ordered), `NetAssumption` (two
nodes), `UsersAssumption` (a list of users is a sequence), and in the model, not as an axiom, that a random key
is never drawn twice and that a box opens only with its keys.

`ListHoldsGrants` and `AddingKeepsAuth`, of `UserTable` and in the same module because both need the lemmas on
getAuth, hold for lists of any length.  removeUsers is a recursive function over the rounds of its
loop, and what a round keeps is that the new list holds exactly the users seen so far that have another login, each
once.  A new user goes to the end of the list and getAuth takes the first it finds (`AddedLater`), so nobody loses
his place to a newcomer.

**`AllocatorProofs`**: `TreeIsLinked`, `NothingLeaks`, `FreeingWaits` and `FreesOrphans`, for any finite set of
allocators, any jobs and any adoptions, from `AllocatorAssumption`.  The invariant, `Inv`, is `Forest` and `JobsWait`.
`Forest`: the lists match the links (`Linked`); there is a rank that grows along every link to a parent
or an adopter, so that there is no cycle (`Ranked`); an allocator in use hangs on one in use, one being freed on
one being freed or on nothing, any other on nothing.  `JobsWait`: at the top of every tree
being freed a job is waiting, and nowhere else.  `WellLinked` and `NoLeak` are not inductive
because they say nothing of trees being freed, and give the loops that walk up and down no measure.
The hard step is pivotChildrenToAdoptedParents.  `Mid` holds in the middle of it: what is dead hangs, through
what is dead, on the allocator that is freed, and no surviving adopter has been lost.  After pass d all that is
left down to depth d is dead (`Below`); a tree of n allocators has no more than n levels (`Closes`), so in the end the dead are the whole
tree that remained, and who was adopted from outside has moved away.  The rank also shows that
the walk of isAncestorOf ends, and, when its answer is no, can be shifted so that the new adoption closes no
cycle.  The loops are recursive functions, as in `SessionManagerProofs` below.

**`SwitchPingerProofs`**: `UserHearsOnce`, `SlotsAreCounted` and `VersionIsOfPinged`, for any finite set of
pings, any limit and any versions (`SwitchPingerAssumption`).  The invariant follows one ping: it is called back only
while it exists and is unanswered, the call answers it, and it keeps its label as long as it exists.  The count is
the cardinality of the pings that exist; a step that makes or ends a ping changes both by one.

**`PeerTableProofs`**: `PathsLeadToPeers`, `DownOnlyUnresponsive`, `PathfinderStaysCurrent` and `AnnouncedStaysPut`, for any number of
peers, keys, addresses and slots, from `PeerTableAssumption` (two slots at least, timeouts ordered as the code's
are).  The properties say nothing of the map, nor of the slot past the end that addInterface searches
for; the invariant, `Good` (`TableIsSound`), does: the path of a peer and the owner of a slot are inverse, and
the slot is up unless the peer is UNRESPONSIVE (`Wired`); the map holds living peers only (`Mapped`), so that no
handler works on a freed one; the spare slot is vacant until something fails (`Spare`); and, as long as nothing has failed, the
announced peers are alive and the pathfinder has them at their paths and nothing else, but at the stray ones
(`UpToDate`, `Informed`).  For that an announced peer has to be ESTABLISHED, or, when beacons are accepted, at least not
UNRESPONSIVE (`Presentable`): a peer that becomes ESTABLISHED has not been announced before, so that the merge that follows
moves no announced peer, unless a beacon announced it.  It is an invariant of tables, and each operator on tables has a lemma
that it keeps it (`...Keeps`), also when it fails half-way; a handler, being a composition of
operators, has a proof that composes the lemmas.  `PathfinderStaysCurrent` is an invariant, and says of every
announced peer that it is there: a PEER that is lost, ignored or late would break it.

**`SessionHandlesProofs`**: `HandlesStayInStep` and `TrafficIsNeverLost`, for any number of nodes, keys, sessions,
restarts and packets, from `HandleAssumption` (the first handle is above the nonces of a handshake).  Neither is
inductive, as they are silent about packets.  The invariant says that a temporary key is made up
by one node for one session, that every handshake packet that carries it carries the handle of that session
too, and that traffic boxed with it names that handle; so whoever learns the key learns the handle
with it, and a session made again, or after a restart, has another key.

**`SessionManagerProofs`**: `HandleLeadsToSession`, `PathfinderIsTold`, `AlwaysSentWithPath` and
`EverythingTimesOut`, for any finite set of addresses and tables of any length, from `TimesAssumption` (the
constants are numbers, and ordered as the code's are).  Both loops are recursive functions over the rounds
of the loop, `SearchRound` for the binary search of indexForHandle and `SweepRound` for the removals of
checkTimedOutSessions.  `Loop` and `Induction`, which rest on the least-number principle, say of any such
function that it is defined and that what each round keeps holds at the end.  What the search keeps: a handle that is in the
table is in what remains of it, and that halves.  What the sweep keeps: the entries it has
visited are the live ones, and the handles ascend.  The invariant, `Inductive`, has the sorted handles, the
bijection between table, sessions and the pathfinder's list, the ages, and that no packet has gone astray.

**`EventEmitterProofs`**: `HonestNeverFails`, `AssertionsHold` (of `ConnectedWhenAnswered`, the first part of `NoAssertionFails`) and `ToldIsConnected`, for any number of pathfinders
of which any may be faulty, queues of any length, and messages of any length up to `PingAt`, from
`EventEmitterAssumption` (the constants are numbers, and a CONNECT is shorter than what is sent between pings).
The invariant looks at each link with all that is under way on it: nothing precedes CONNECT (`Begun`); behind every
PATHFINDER about one that is no longer connected there is a PATHFINDER_GONE (`Informed`); an honest
pathfinder has at most one PING or PONG under way, whose count is at most the counter, and the counter is at least
`PingAt` until the PONG is taken (`OnePing`).  The last is why a PONG never takes off too much: a second
PING only goes out when the counter crosses `PingAt` again.

Not proved: all liveness (`AlwaysLinksAgain`, `EveryPingEnds`, `PingsAreAnswered`), which is out of the prover's
reach, the second part of `NoAssertionFails`, and the properties of `SwitchNet`.  These are about the bits of labels that several switches
have shifted, with widths that are powers of two and positions that depend on all hops so far;
the provers do not find such arithmetic, and TLC checks it on routes of up to 6 hops of all three widths.

## What is not modelled

Byte layout, lengths and parsing; the strength of the cryptography; memory contents and
byte counts of allocators; sockets and devices; the admin RPC; several interfaces of one
node (the peers of `PeerTable` share one); beacons that are sent; widths of counters other than the nonce limit;
encoding schemes other than v3x5x8; the penalty and congestion of a path; the old router but for extendRoute; the
supernode, IpTunnel and the admin interface.
`PROJECT.json` lists every component with the reason.

## Plan

In this order:

1. `PeerTable` with fairness: silent incoming peers are forgotten, established ones announced.
2. `SupernodeHunter`, `ReachabilityCollector` and `ReachabilityAnnouncer`; `IpTunnel`; then
   `NodeStore` and `SearchRunner` of the old router.
3. Lemmas on the operators of `SwitchLabels` (what a splice leaves of the bits below it), the first step
   towards a proof of `AnswerReturns`.
