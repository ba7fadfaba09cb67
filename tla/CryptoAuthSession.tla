-------------------------- MODULE CryptoAuthSession --------------------------
(***************************************************************************)
(* One CryptoAuth session (crypto/CryptoAuth.c): what encrypt, decrypt,    *)
(* reset, resetIfTimeout and setAuth do to it, as operators on a record.   *)
(*                                                                         *)
(* Cryptography is symbolic.  A temporary key pair is one value of Keys.   *)
(* Between two given nodes a packet is boxed with the temporary keys that  *)
(* go into its secret, {} for a hello (permanent keys only), the peer's    *)
(* temporary key for a key packet and both temporary keys for traffic; it  *)
(* opens if the receiver computes the same box (and, for a handshake       *)
(* packet, finds the same password).  A packet is                          *)
(*   from       the permanent key in (or implied by) its header            *)
(*   nonce      0, 1 hello; 2, 3 key; 4 and above traffic                  *)
(*   box        as above                                                   *)
(*   temp       the temporary key that a handshake packet carries          *)
(*   auth       the challenge of a handshake packet                        *)
(*   initiator  the nonce slot in which a traffic packet was encrypted     *)
(*                                                                         *)
(* The clock is abstracted to idle, the time since timeOfLastPacket.       *)
(***************************************************************************)
EXTENDS ReplayProtector, CryptoAuthUsers

CONSTANTS Keys,          \* temporary key pairs
          NoKey,         \* the zeroed key
          NonceLimit,    \* 0xfffffff0 in the code: the nonce at which encrypt starts over
          SetupReset,    \* setupResetAfterInactivitySeconds
          ResetAfter     \* resetAfterInactivitySeconds

ASSUME SessionAssumption ==
    /\ NoKey \notin Keys
    /\ NonceLimit \in Nat /\ NonceLimit > 4
    /\ SetupReset \in Nat \ {0} /\ ResetAfter \in Nat /\ SetupReset <= ResetAfter

\* enum CryptoAuth_State, as values of nextNonce.
INIT == 0
SENT_HELLO == 1
RECEIVED_HELLO == 2
SENT_KEY == 3
RECEIVED_KEY == 4

NoAuth == [type |-> 0, login |-> None, password |-> None]

\* The calloced session of CryptoAuth_newSession.
NewSession == [nextNonce |-> INIT, isInitiator |-> FALSE, ourTemp |-> NoKey,
               herTemp |-> NoKey, secret |-> {}, established |-> FALSE,
               rp |-> EmptyWindow, idle |-> 0, auth |-> NoAuth]

\* MUTANT: her temporary key survives a reset.
ResetKeepingHer(s) == [s EXCEPT !.nextNonce = INIT, !.isInitiator = FALSE, !.ourTemp = NoKey,
                                !.secret = {}, !.established = FALSE, !.rp = EmptyWindow]

\* MUTANT: a reset initiator stays one.
ResetKeepingRole(s) == [s EXCEPT !.nextNonce = INIT, !.ourTemp = NoKey, !.herTemp = NoKey,
                                 !.secret = {}, !.established = FALSE, !.rp = EmptyWindow]

\* reset()
Reset(s) == [s EXCEPT !.nextNonce = INIT, !.isInitiator = FALSE, !.ourTemp = NoKey,
                      !.herTemp = NoKey, !.secret = {}, !.established = FALSE,
                      !.rp = EmptyWindow]

TimedOut(s) == /\ s.nextNonce # SENT_HELLO
               /\ s.idle >= SetupReset
               /\ s.idle >= ResetAfter \/ ~s.established

\* resetIfTimeout()
ResetIfTimeout(s) == IF TimedOut(s) THEN [Reset(s) EXCEPT !.idle = 0] ELSE s

\* CryptoAuth_setAuth.  Clearing the password of a session that has none goes
\* down the second branch and leaves authType 1 with a NULL password.
SetAuth(s, password, login) ==
    IF password = None /\ (s.auth.password # None \/ s.auth.type # 0)
    THEN Reset([s EXCEPT !.auth.password = None, !.auth.type = 0])
    ELSE IF s.auth.password = None \/ s.auth.password # password
    THEN Reset([s EXCEPT !.auth = [type |-> IF login = None THEN 1 ELSE 2,
                                   password |-> password,
                                   login |-> IF login = None THEN @.login ELSE login]])
    ELSE s

-----------------------------------------------------------------------------
\* CryptoAuth_encrypt up to the choice of the packet.
Prepared(s) == LET t == ResetIfTimeout(s)
               IN  IF t.nextNonce >= NonceLimit THEN Reset(t) ELSE t

\* Does a prepared session make up a key pair for the packet it sends next?
NeedsKey(s) == s.nextNonce \in {INIT, RECEIVED_HELLO}

\* The challenge a handshake packet carries.  With a NULL password the bytes that
\* authType announces are random, so no user matches them.
Challenge(s) == IF s.auth.password = None
                THEN [type |-> s.auth.type, login |-> NoKey, password |-> NoKey]
                ELSE s.auth

\* MUTANT: the shared secret is computed with every key pair.
KeyedTooSoon(s, fresh) ==
    IF NeedsKey(s) THEN [s EXCEPT !.ourTemp = fresh, !.secret = {fresh, s.herTemp}]
    ELSE IF s.nextNonce = RECEIVED_KEY THEN [s EXCEPT !.secret = {s.ourTemp, s.herTemp}]
    ELSE s

\* The prepared session with the keys of its next packet in place: a fresh pair
\* in encryptHandshake, the shared secret for the first traffic packet.
Keyed(s, fresh) ==
    IF NeedsKey(s) THEN [s EXCEPT !.ourTemp = fresh]
    ELSE IF s.nextNonce = RECEIVED_KEY THEN [s EXCEPT !.secret = {s.ourTemp, s.herTemp}]
    ELSE s

\* MUTANT: both directions encrypt in the initiator's nonce slot.
PacketOneSlot(s, from) ==
    IF s.nextNonce < RECEIVED_KEY
    THEN [from |-> from, nonce |-> s.nextNonce, temp |-> s.ourTemp, auth |-> Challenge(s),
          box |-> IF s.nextNonce < RECEIVED_HELLO THEN {} ELSE {s.herTemp},
          initiator |-> FALSE]
    ELSE [from |-> from, nonce |-> s.nextNonce, temp |-> NoKey, auth |-> NoAuth,
          box |-> s.secret, initiator |-> TRUE]

\* The packet that leaves, from a prepared and keyed session.
Packet(s, from) ==
    IF s.nextNonce < RECEIVED_KEY
    THEN [from |-> from, nonce |-> s.nextNonce, temp |-> s.ourTemp, auth |-> Challenge(s),
          box |-> IF s.nextNonce < RECEIVED_HELLO THEN {} ELSE {s.herTemp},
          initiator |-> FALSE]
    ELSE [from |-> from, nonce |-> s.nextNonce, temp |-> NoKey, auth |-> NoAuth,
          box |-> s.secret, initiator |-> s.isInitiator]

\* MUTANT: a traffic packet leaves the counter where it was.
AdvancedNot(s) ==
    IF s.nextNonce < RECEIVED_HELLO
    THEN [s EXCEPT !.nextNonce = SENT_HELLO, !.isInitiator = TRUE]
    ELSE IF s.nextNonce < RECEIVED_KEY THEN [s EXCEPT !.nextNonce = SENT_KEY]
    ELSE s

\* The session once the packet has left.
Advanced(s) ==
    IF s.nextNonce < RECEIVED_HELLO
    THEN [s EXCEPT !.nextNonce = SENT_HELLO, !.isInitiator = TRUE]
    ELSE [s EXCEPT !.nextNonce = IF @ < RECEIVED_KEY THEN SENT_KEY ELSE @ + 1]

-----------------------------------------------------------------------------
IsHello(m) == m.nonce < 2
IsKey(m) == m.nonce \in {2, 3}
IsTraffic(m) == m.nonce >= 4

\* The checks of decryptHandshake on the challenge, before anything is decrypted;
\* requireAuth is the session's flag.
AuthRequired(users, requireAuth, m) == requireAuth /\ GetAuth(users, m.auth) = None

\* MUTANT: requireAuth is not looked at.
AuthAcceptedAnyway(users, requireAuth, m) ==
    LET user == GetAuth(users, m.auth)
    IN  /\ user # None => user.ip6 \in {None, m.from}
        /\ user = None => m.auth.type = 0

AuthAccepted(users, requireAuth, m) ==
    LET user == GetAuth(users, m.auth)
    IN  /\ user # None => user.ip6 \in {None, m.from}
        /\ ~AuthRequired(users, requireAuth, m)
        /\ user = None => m.auth.type = 0

\* decryptRndNonce on a handshake packet.
HandshakeOpens(s, users, m) ==
    LET user == GetAuth(users, m.auth)
    IN  /\ m.box = IF IsHello(m) THEN {} ELSE {s.ourTemp}
        /\ user # None => user.password = m.auth.password

\* MUTANT: a repeat hello of the current session is taken in any state.
NotStrayLax(s, m) ==
    /\ m.nonce = 0 => m.temp # s.herTemp
    /\ m.nonce = 2 /\ s.nextNonce >= RECEIVED_KEY => m.temp # s.herTemp
    /\ m.nonce = 3 /\ s.nextNonce >= RECEIVED_KEY => m.temp = s.herTemp
    /\ IsKey(m) => s.nextNonce \notin {INIT, RECEIVED_HELLO, SENT_KEY}

\* "Post-decryption checking": dupes, stray keys and repeats that do not belong.
NotStray(s, m) ==
    /\ m.nonce = 0 => m.temp # s.herTemp
    /\ m.nonce = 2 /\ s.nextNonce >= RECEIVED_KEY => m.temp # s.herTemp
    /\ m.nonce = 3 /\ s.nextNonce >= RECEIVED_KEY => m.temp = s.herTemp
    /\ IsKey(m) => s.nextNonce \notin {INIT, RECEIVED_HELLO, SENT_KEY}
    /\ IsHello(m) /\ m.temp = s.herTemp => s.nextNonce \in {RECEIVED_HELLO, SENT_KEY}

\* decryptHandshake returns 0.
HandshakeOk(s, self, users, requireAuth, m) ==
    /\ m.from # self
    /\ AuthAccepted(users, requireAuth, m)
    /\ IsKey(m) => s.isInitiator
    /\ HandshakeOpens(s, users, m)
    /\ NotStray(s, m)

\* MUTANT: a new key does not recalculate the shared secret.
AfterKeyStale(s, m) ==
    [s EXCEPT !.herTemp = m.temp,
              !.nextNonce = IF @ > RECEIVED_KEY THEN @ + 1 ELSE RECEIVED_KEY,
              !.rp = EmptyWindow]

\* What an accepted key packet leaves.
AfterKey(s, m) ==
    [s EXCEPT !.herTemp = m.temp,
              !.secret = IF s.nextNonce > RECEIVED_KEY /\ m.nonce = 2
                         THEN {s.ourTemp, m.temp} ELSE @,
              !.nextNonce = IF @ > RECEIVED_KEY THEN @ + 1 ELSE RECEIVED_KEY,
              !.rp = EmptyWindow]

\* MUTANT: whoever has sent a hello stands firm.
AfterHelloFirm(s, lower, m) ==
    IF m.temp = s.herTemp THEN [s EXCEPT !.rp = EmptyWindow]
    ELSE IF s.nextNonce = SENT_HELLO THEN s
    ELSE [(IF s.nextNonce = INIT THEN s ELSE Reset(s))
              EXCEPT !.herTemp = m.temp, !.nextNonce = RECEIVED_HELLO, !.rp = EmptyWindow]

\* What an accepted hello leaves.  Hellos that cross: the lower permanent key wins,
\* lower says that it is hers.
AfterHello(s, lower, m) ==
    IF m.temp = s.herTemp THEN [s EXCEPT !.rp = EmptyWindow]
    ELSE IF s.nextNonce = SENT_HELLO /\ ~lower THEN s
    ELSE [(IF s.nextNonce = INIT THEN s ELSE Reset(s))
              EXCEPT !.herTemp = m.temp, !.nextNonce = RECEIVED_HELLO, !.rp = EmptyWindow]

\* The secret that CryptoAuth_decrypt tries on traffic.
TrafficBox(s) == IF s.established THEN s.secret ELSE {s.ourTemp, s.herTemp}

\* MUTANT: both directions use the same nonce slot.
TrafficOpensEitherWay(s, m) == /\ s.established \/ s.nextNonce >= SENT_KEY
                               /\ m.box = TrafficBox(s)

\* CryptoAuth_decrypt gets as far as ReplayProtector_checkNonce.
TrafficOpens(s, m) == /\ s.established \/ s.nextNonce >= SENT_KEY
                      /\ m.box = TrafficBox(s)
                      /\ m.initiator # s.isInitiator

\* What a traffic packet that opens leaves, accepted or refused as a replay.
AfterTraffic(s, m) ==
    IF NonceOk(s.rp, m.nonce)
    THEN [s EXCEPT !.rp = Filed(@, m.nonce), !.secret = TrafficBox(s),
                   !.nextNonce = IF s.established THEN @ ELSE @ + 3,
                   !.established = TRUE, !.idle = 0]
    ELSE [s EXCEPT !.rp = Filed(@, m.nonce)]

\* CryptoAuth_decrypt hands the packet to decryptHandshake, which accepts it.
TakesHandshake(s, self, users, requireAuth, m) ==
    /\ IsHello(m) \/ (IsKey(m) /\ ~s.established)
    /\ HandshakeOk(s, self, users, requireAuth, m)

AfterHandshake(s, lower, m) == IF IsHello(m) THEN AfterHello(s, lower, m) ELSE AfterKey(s, m)
=============================================================================
