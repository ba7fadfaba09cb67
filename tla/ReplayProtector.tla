--------------------------- MODULE ReplayProtector ---------------------------
(***************************************************************************)
(* The sliding window with which a CryptoAuth session refuses a traffic    *)
(* nonce that it has already accepted (crypto/ReplayProtector.h).          *)
(*                                                                         *)
(* The code keeps a 64 bit field whose bit i stands for the nonce          *)
(* baseOffset + i.  Here the field is the set of the nonces whose bit is   *)
(* set, so that shifting the field right by b is forgetting the nonces     *)
(* below baseOffset + b.  The sizes are parameters: the code has Half = 32 *)
(* (a full lower half moves the window by half) and Keep = 47 (a gap moves *)
(* it so that the new nonce lands on bit 47).                              *)
(***************************************************************************)
EXTENDS Integers, FiniteSets

CONSTANTS Half, Keep

Window == 2 * Half

ASSUME WindowAssumption == /\ Half \in Nat \ {0}
                           /\ Keep \in Half .. Window - 1

\* struct ReplayProtector.
Windows == [base : Nat, seen : SUBSET Nat, duplicates : Nat, lost : Int, outOfRange : Nat]

\* The bits of the field: base is bit 0.
InField(rp) == \A n \in rp.seen : rp.base <= n /\ n < rp.base + Window

\* The zeroed struct, as Bits_memset leaves it.
EmptyWindow == [base |-> 0, seen |-> {}, duplicates |-> 0, lost |-> 0, outOfRange |-> 0]

\* ReplayProtector_DO_SHIFT.
Shift(rp, bits) ==
    [rp EXCEPT !.base = rp.base + bits,
               !.seen = {n \in rp.seen : n >= rp.base + bits}]

\* RelayProtector_lostInShift: the clear bits that a shift pushes out.
LostInShift(rp, bits) ==
    bits - Cardinality({n \in rp.seen : n < rp.base + bits})

LowerHalfFull(rp) == \A i \in 0 .. Half - 1 : rp.base + i \in rp.seen

\* MUTANT: the half-window shift taken when only its first bit is checked in.
SlideEager(rp, nonce) ==
    IF nonce - rp.base < Window THEN rp
    ELSE IF rp.base \in rp.seen THEN Shift(rp, Half)
    ELSE LET bits == nonce - rp.base - Keep
         IN  [Shift(rp, bits) EXCEPT !.lost = rp.lost + LostInShift(rp, bits)]

\* MUTANT: a gap moves the window so far that the nonce lands on bit 0.
SlideToNonce(rp, nonce) ==
    IF nonce - rp.base < Window THEN rp
    ELSE IF LowerHalfFull(rp) THEN Shift(rp, Half)
    ELSE LET bits == nonce - rp.base
         IN  [Shift(rp, bits) EXCEPT !.lost = rp.lost + LostInShift(rp, bits)]

\* One round of the while (offset > 63) loop; the identity once the loop has ended.
Slide(rp, nonce) ==
    IF nonce - rp.base < Window THEN rp
    ELSE IF LowerHalfFull(rp) THEN Shift(rp, Half)
    ELSE LET bits == nonce - rp.base - Keep
         IN  [Shift(rp, bits) EXCEPT !.lost = rp.lost + LostInShift(rp, bits)]

\* The loop.  Two half shifts empty the field, after which a gap shift ends the
\* loop, so it never takes more than three rounds.
SlideTo(rp, nonce) == Slide(Slide(Slide(rp, nonce), nonce), nonce)

\* What ReplayProtector_checkNonce returns.
NonceOk(rp, nonce) == /\ nonce >= rp.base
                      /\ nonce \notin SlideTo(rp, nonce).seen

\* MUTANT: a nonce above the window is accepted without being filed.
FiledOnlyInWindow(rp, nonce) ==
    IF nonce >= rp.base + Window THEN SlideTo(rp, nonce)
    ELSE IF nonce < rp.base THEN [rp EXCEPT !.outOfRange = rp.outOfRange + 1]
    ELSE [rp EXCEPT !.seen = rp.seen \cup {nonce}]

\* What ReplayProtector_checkNonce leaves in the struct.
Filed(rp, nonce) ==
    IF nonce < rp.base THEN [rp EXCEPT !.outOfRange = rp.outOfRange + 1]
    ELSE LET slid == SlideTo(rp, nonce)
         IN  IF nonce \in slid.seen
             THEN [slid EXCEPT !.duplicates = slid.duplicates + 1]
             ELSE [slid EXCEPT !.seen = slid.seen \cup {nonce}]
=============================================================================
