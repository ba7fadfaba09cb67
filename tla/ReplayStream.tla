----------------------------- MODULE ReplayStream -----------------------------
(***************************************************************************)
(* One ReplayProtector fed with authenticated nonces that arrive in any    *)
(* order and any number of times.                                          *)
(***************************************************************************)
EXTENDS ReplayProtector

CONSTANTS MaxNonce,     \* largest nonce that arrives, 2^32 - 1 in the code
          MaxRefused    \* bound: how often the two refusal counters may grow

ASSUME StreamAssumption == MaxNonce \in Nat /\ MaxRefused \in Nat

Nonces == 0 .. MaxNonce

VARIABLES rp,       \* the struct
          accepts   \* history: how many times each nonce was accepted

streamVars == <<rp, accepts>>

StreamInit == /\ rp = EmptyWindow
              /\ accepts = [n \in Nonces |-> 0]

\* ReplayProtector_checkNonce.
CheckNonce(nonce) ==
    /\ NonceOk(rp, nonce) \/ rp.duplicates + rp.outOfRange < MaxRefused
    /\ rp' = Filed(rp, nonce)
    /\ accepts' = IF NonceOk(rp, nonce)
                  THEN [accepts EXCEPT ![nonce] = @ + 1]
                  ELSE accepts

StreamNext == \E nonce \in Nonces : CheckNonce(nonce)

StreamSpec == StreamInit /\ [][StreamNext]_streamVars

-----------------------------------------------------------------------------
\* The fields of the struct stay in range, the field within its 64 bits.
StreamTypeOK == /\ rp \in Windows
                /\ InField(rp)
                /\ accepts \in [Nonces -> Nat]

\* ReplayProtector_checkNonce never returns true twice for a nonce, however the
\* window has moved in between ("true if the packet is provably not a replay").
AcceptedOnce == \A n \in Nonces : accepts[n] <= 1

\* checkNonce's comment: only nonces more than 32 (Half) below the highest one
\* seen may be dropped erroneously; a later or slightly late nonce never is.
LateNonceAccepted ==
    \A n \in Nonces :
        (accepts[n] = 0 /\ \A m \in Nonces : accepts[m] > 0 => m <= n + Half)
            => NonceOk(rp, n)

\* lostPackets counts exactly the nonces that the window has left behind
\* without accepting them, over all the shifts that were made.
LostIsExact == rp.lost = Cardinality({n \in 0 .. rp.base - 1 : accepts[n] = 0})
=============================================================================
