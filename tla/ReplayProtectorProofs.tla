------------------------ MODULE ReplayProtectorProofs ------------------------
(***************************************************************************)
(* What checkNonce does to the window, for every Half and Keep that the    *)
(* assumption allows (the code's 32 and 47 among them) and every nonce,    *)
(* and what follows for a stream of nonces (module ReplayStream).          *)
(***************************************************************************)
EXTENDS ReplayStream, FiniteSetTheorems, TLAPS

\* What any number of rounds of the loop may do to the window before nonce is
\* filed: it moves up, to nonce at most, forgets exactly the bits it has passed,
\* and passes an unset bit only if that is more than Half below nonce.
SlidTo(w, s, nonce) ==
    /\ s \in Windows
    /\ InField(s)
    /\ s.base >= w.base
    /\ nonce >= s.base
    /\ s.seen = {n \in w.seen : n >= s.base}
    /\ \A n \in w.base .. s.base - 1 : n \in w.seen \/ n + Half < nonce

\* Pushing bits out of the field never yields an ill-typed counter.
LEMMA LostIsInteger ==
    ASSUME NEW w \in Windows, InField(w), NEW bits \in Int
    PROVE  LostInShift(w, bits) \in Int
<1> DEFINE out == {n \in w.seen : n < w.base + bits}
<1>1. Window \in Nat
  BY WindowAssumption, SMT DEF Window
<1>2. out \subseteq w.base .. (w.base + Window - 1)
  BY <1>1 DEF InField, Windows
<1>3. w.base \in Int /\ w.base + Window - 1 \in Int
  BY <1>1 DEF Windows
<1>4. IsFiniteSet(w.base .. (w.base + Window - 1))
  BY <1>3, FS_Interval
<1>5. IsFiniteSet(out)
  BY <1>2, <1>4, FS_Subset
<1>6. Cardinality(out) \in Nat
  BY <1>5, FS_CardinalityType
<1> QED  BY <1>6 DEF LostInShift

\* A shift moves the base, forgets what is below it and changes nothing else but
\* the loss counter.
LEMMA ShiftFields ==
    ASSUME NEW w \in Windows, InField(w), NEW bits \in Nat, NEW s,
           \/ s = Shift(w, bits)
           \/ s = [Shift(w, bits) EXCEPT !.lost = w.lost + LostInShift(w, bits)]
    PROVE  /\ s.base = w.base + bits
           /\ s.seen = {n \in w.seen : n >= w.base + bits}
           /\ s \in Windows
           /\ InField(s)
<1> DEFINE kept == {n \in w.seen : n >= w.base + bits}
           lostNow == w.lost + LostInShift(w, bits)
<1>1. kept \in SUBSET Nat /\ w.base + bits \in Nat /\ lostNow \in Int
  BY LostIsInteger DEF Windows
<1>2. /\ \A n \in kept : w.base + bits <= n /\ n < w.base + Window
      /\ kept \subseteq Int
  BY <1>1 DEF InField, Windows
<1> HIDE DEF kept, lostNow
<1>3. /\ s.base = w.base + bits
      /\ s.seen = kept
      /\ s \in Windows
  BY <1>1 DEF Shift, Windows, kept, lostNow
<1>4. InField(s)
  BY <1>1, <1>2, <1>3, WindowAssumption DEF InField, Window, Windows
<1> QED  BY <1>3, <1>4 DEF kept

\* One round of the loop moves the window as SlidTo says.
LEMMA SlideStep ==
    ASSUME NEW w \in Windows, InField(w), NEW nonce \in Nat, nonce >= w.base
    PROVE  SlidTo(w, Slide(w, nonce), nonce)
<1>0. /\ Half \in Nat /\ Half > 0 /\ Keep \in Nat /\ Keep >= Half /\ Keep < 2 * Half
      /\ nonce \in Nat /\ w.base \in Nat /\ w.seen \subseteq Nat /\ w.lost \in Int
  BY WindowAssumption DEF Window, Windows
<1>1. CASE nonce - w.base < Window
  BY <1>0, <1>1 DEF Slide, SlidTo, InField, Window, Windows
<1>2. CASE ~(nonce - w.base < Window) /\ LowerHalfFull(w)
  <2>1. Slide(w, nonce) = Shift(w, Half)
    BY <1>2 DEF Slide
  <2>2. \A n \in w.base .. w.base + Half - 1 : n \in w.seen
    <3> SUFFICES ASSUME NEW n \in w.base .. w.base + Half - 1 PROVE n \in w.seen
      OBVIOUS
    <3>1. n - w.base \in 0 .. Half - 1 /\ w.base + (n - w.base) = n
      BY <1>0
    <3> QED  BY <1>2, <3>1 DEF LowerHalfFull
  <2>3. /\ Slide(w, nonce).base = w.base + Half
        /\ Slide(w, nonce).seen = {n \in w.seen : n >= w.base + Half}
        /\ Slide(w, nonce) \in Windows
        /\ InField(Slide(w, nonce))
    BY <1>0, <2>1, ShiftFields
  <2> QED  BY <1>0, <1>2, <2>2, <2>3 DEF SlidTo, Window
<1>3. CASE ~(nonce - w.base < Window) /\ ~LowerHalfFull(w)
  <2> DEFINE bits == nonce - w.base - Keep
  <2>1. Slide(w, nonce) = [Shift(w, bits) EXCEPT !.lost = w.lost + LostInShift(w, bits)]
    BY <1>3 DEF Slide
  <2>2. bits \in Nat
    BY <1>0, <1>3 DEF Window
  <2>3. /\ Slide(w, nonce).base = w.base + bits
        /\ Slide(w, nonce).seen = {n \in w.seen : n >= w.base + bits}
        /\ Slide(w, nonce) \in Windows
        /\ InField(Slide(w, nonce))
    BY <2>1, <2>2, ShiftFields
  <2> QED  BY <1>0, <1>3, <2>3 DEF SlidTo, Window
<1> QED  BY <1>1, <1>2, <1>3

\* Rounds compose.
LEMMA SlidTransitive ==
    ASSUME NEW w \in Windows, NEW s, NEW t, NEW nonce \in Nat,
           SlidTo(w, s, nonce), SlidTo(s, t, nonce)
    PROVE  SlidTo(w, t, nonce)
  BY WindowAssumption DEF SlidTo, Windows

\* A round that leaves the loop running has found the lower half full.
LEMMA SlideEnds ==
    ASSUME NEW w \in Windows, InField(w), NEW nonce \in Nat, nonce >= w.base
    PROVE  \/ nonce - Slide(w, nonce).base < Window
           \/ /\ LowerHalfFull(w)
              /\ Slide(w, nonce).base = w.base + Half
              /\ Slide(w, nonce).seen = {n \in w.seen : n >= w.base + Half}
  BY WindowAssumption DEF Slide, Shift, Window, Windows

\* Three rounds are the whole loop: they leave nonce within the field, and the
\* window as SlidTo says.
LEMMA SlideToEnds ==
    ASSUME NEW w \in Windows, InField(w), NEW nonce \in Nat, nonce >= w.base
    PROVE  /\ SlidTo(w, SlideTo(w, nonce), nonce)
           /\ nonce - SlideTo(w, nonce).base < Window
<1> DEFINE s1 == Slide(w, nonce)
           s2 == Slide(s1, nonce)
           s3 == Slide(s2, nonce)
<1>0. /\ Half \in Nat /\ Half > 0 /\ Window = 2 * Half
      /\ nonce \in Nat /\ w.base \in Nat
  BY WindowAssumption DEF Window, Windows
<1>1. SlidTo(w, s1, nonce)
  BY SlideStep
<1>2. s1 \in Windows /\ InField(s1) /\ nonce >= s1.base
  BY <1>1 DEF SlidTo
<1>3. SlidTo(s1, s2, nonce)
  BY <1>2, SlideStep
<1>4. s2 \in Windows /\ InField(s2) /\ nonce >= s2.base
  BY <1>3 DEF SlidTo
<1>5. SlidTo(s2, s3, nonce)
  BY <1>4, SlideStep
<1>6. SlidTo(w, s2, nonce)
  BY <1>1, <1>3, SlidTransitive
<1>7. SlidTo(w, s3, nonce)
  BY <1>5, <1>6, SlidTransitive
<1>8. nonce - s3.base < Window
  <2> SUFFICES ASSUME ~(nonce - s3.base < Window) PROVE FALSE
    OBVIOUS
  <2>1. nonce - s1.base >= Window /\ nonce - s2.base >= Window
    BY <1>0, <1>2, <1>4, <1>3, <1>5 DEF SlidTo, Windows
  <2>2. /\ s1.base = w.base + Half
        /\ s1.seen = {n \in w.seen : n >= w.base + Half}
    BY <2>1, SlideEnds, <1>2, <1>0 DEF Windows
  <2>3. /\ s2.base = s1.base + Half
        /\ s2.seen = {n \in s1.seen : n >= s1.base + Half}
    BY <2>1, <1>2, <1>4, SlideEnds, <1>0 DEF Windows
  <2>4. LowerHalfFull(s2)
    BY <1>4, SlideEnds, <1>0 DEF Windows
  <2>5. s2.base \in s2.seen
    BY <2>4, <1>0, <1>4 DEF LowerHalfFull, Windows
  <2>6. s2.base \in w.seen /\ s2.base = w.base + Window
    BY <2>2, <2>3, <2>5, <1>0
  <2> QED  BY <2>6, <1>0 DEF InField
<1>9. SlideTo(w, nonce) = s3
  BY DEF SlideTo
<1> QED  BY <1>7, <1>8, <1>9


\* checkNonce in one statement: what was filed stays filed or falls below the
\* base for good, and what is accepted was not filed before and is now.
LEMMA FiledFacts ==
    ASSUME NEW w \in Windows, InField(w), NEW nonce \in Nat
    PROVE  /\ Filed(w, nonce) \in Windows
           /\ InField(Filed(w, nonce))
           /\ Filed(w, nonce).base >= w.base
           /\ \A n \in w.seen : n < Filed(w, nonce).base \/ n \in Filed(w, nonce).seen
           /\ NonceOk(w, nonce) => /\ nonce >= w.base /\ nonce \notin w.seen
                                  /\ nonce \in Filed(w, nonce).seen
<1>1. CASE nonce < w.base
  BY <1>1 DEF Filed, NonceOk, Windows, InField
<1>2. CASE nonce >= w.base
  <2> DEFINE s == SlideTo(w, nonce)
  <2> HIDE DEF s
  <2>1. SlidTo(w, s, nonce) /\ nonce - s.base < Window
    BY <1>2, SlideToEnds DEF s
  <2>2. s \in Windows /\ InField(s) /\ s.base >= w.base /\ nonce >= s.base
        /\ s.seen = {n \in w.seen : n >= s.base}
    BY <2>1 DEF SlidTo
  <2>3. CASE nonce \in s.seen
    <3>1. Filed(w, nonce) = [s EXCEPT !.duplicates = s.duplicates + 1]
      BY <1>2, <2>3 DEF Filed, s, Windows
    <3>2. ~NonceOk(w, nonce)
      BY <2>3 DEF NonceOk, s
    <3> QED  BY <2>2, <3>1, <3>2 DEF Windows, InField
  <2>4. CASE nonce \notin s.seen
    <3>1. Filed(w, nonce) = [s EXCEPT !.seen = s.seen \cup {nonce}]
      BY <1>2, <2>4 DEF Filed, s, Windows
    <3>2. nonce \notin w.seen
      BY <2>2, <2>4
    <3>3. Window \in Nat
      BY WindowAssumption DEF Window
    <3> QED  BY <1>2, <2>1, <2>2, <3>1, <3>2, <3>3 DEF Windows, InField
  <2> QED  BY <2>3, <2>4
<1> QED  BY <1>1, <1>2 DEF Windows
-----------------------------------------------------------------------------
\* The nonces from a up to b that the window has not filed.
Unfiled(w, a, b) == {n \in a .. b - 1 : n \notin w.seen}

\* lostPackets has grown by what the window has passed unfiled on its way to s.
LossCounted(w, s) == s.lost = w.lost + Cardinality(Unfiled(w, w.base, s.base))

\* The numbers from a up to b, some of them in S: the rest are b - a - |S|.
LEMMA RestOfInterval ==
    ASSUME NEW a \in Nat, NEW b \in Nat, a <= b, NEW S, S \subseteq a .. b - 1
    PROVE  /\ IsFiniteSet((a .. b - 1) \ S)
           /\ Cardinality((a .. b - 1) \ S) = b - a - Cardinality(S)
<1> DEFINE I == a .. b - 1
<1>1. IsFiniteSet(I) /\ Cardinality(I) = b - a
  <2>1. a \in Int /\ b - 1 \in Int
    OBVIOUS
  <2>2. IsFiniteSet(a .. b - 1)
    BY <2>1, FS_Interval
  <2>3. Cardinality(a .. b - 1) = IF a > b - 1 THEN 0 ELSE (b - 1) - a + 1
    BY <2>1, FS_Interval
  <2> QED  BY <2>2, <2>3
<1> HIDE DEF I
<1>2. IsFiniteSet(S)
  BY <1>1, FS_Subset DEF I
<1>3. Cardinality(I \ S) = Cardinality(I) - Cardinality(I \cap S) /\ IsFiniteSet(I \ S)
  BY <1>1, FS_Difference
<1>4. I \cap S = S
  BY DEF I
<1> QED  BY <1>1, <1>3, <1>4 DEF I

\* One round of the loop counts what it loses: nothing when the lower half is full.
LEMMA SlideLoss ==
    ASSUME NEW w \in Windows, InField(w), NEW nonce \in Nat, nonce >= w.base
    PROVE  LossCounted(w, Slide(w, nonce))
<1>0. /\ Half \in Nat /\ Half > 0 /\ Keep \in Nat /\ Keep >= Half /\ Keep < 2 * Half
      /\ nonce \in Nat /\ w.base \in Nat /\ w.seen \subseteq Nat /\ w.lost \in Int
  BY WindowAssumption DEF Window, Windows
<1>1. ASSUME NEW s, s.lost = w.lost, Unfiled(w, w.base, s.base) = {}
      PROVE  LossCounted(w, s)
  BY <1>0, <1>1, FS_EmptySet DEF LossCounted
<1>2. CASE nonce - w.base < Window
  <2>1. Slide(w, nonce) = w
    BY <1>2 DEF Slide
  <2>2. Unfiled(w, w.base, w.base) = {}
    BY <1>0 DEF Unfiled
  <2> QED  BY <1>1, <2>1, <2>2
<1>3. CASE ~(nonce - w.base < Window) /\ LowerHalfFull(w)
  <2>1. Slide(w, nonce).base = w.base + Half /\ Slide(w, nonce).lost = w.lost
    BY <1>3 DEF Slide, Shift, Windows
  <2>2. ASSUME NEW n \in w.base .. w.base + Half - 1 PROVE n \in w.seen
    <3>1. n - w.base \in 0 .. Half - 1 /\ w.base + (n - w.base) = n
      BY <1>0
    <3> QED  BY <1>3, <3>1 DEF LowerHalfFull
  <2>3. Unfiled(w, w.base, w.base + Half) = {}
    BY <1>0, <2>2 DEF Unfiled
  <2> QED  BY <1>1, <2>1, <2>3
<1>4. CASE ~(nonce - w.base < Window) /\ ~LowerHalfFull(w)
  <2> DEFINE bits == nonce - w.base - Keep
             top == w.base + bits
             out == {n \in w.seen : n < top}
  <2>1. Slide(w, nonce) = [Shift(w, bits) EXCEPT !.lost = w.lost + LostInShift(w, bits)]
    BY <1>4 DEF Slide
  <2>2. bits \in Nat /\ top \in Nat /\ w.base <= top /\ top - w.base = bits
    BY <1>0, <1>4 DEF Window
  <2>3. Slide(w, nonce).base = top /\ Slide(w, nonce).lost = w.lost + (bits - Cardinality(out))
    BY <2>1 DEF Shift, Windows, LostInShift
  <2> HIDE DEF bits, top
  <2>4. out \subseteq w.base .. top - 1
    BY <1>0, <2>2 DEF InField
  <2>5. Unfiled(w, w.base, top) = (w.base .. top - 1) \ out
    BY <1>0, <2>2 DEF Unfiled
  <2> HIDE DEF out
  <2>6. Cardinality((w.base .. top - 1) \ out) = top - w.base - Cardinality(out)
    <3>1. PICK a \in Nat, b \in Nat : a = w.base /\ b = top
      BY <1>0, <2>2
    <3>2. a <= b /\ out \subseteq a .. b - 1
      BY <2>2, <2>4, <3>1
    <3>3. Cardinality((a .. b - 1) \ out) = b - a - Cardinality(out)
      BY <3>2, RestOfInterval
    <3> QED  BY <3>1, <3>3
  <2> QED  BY <2>2, <2>3, <2>5, <2>6 DEF LossCounted
<1> QED  BY <1>2, <1>3, <1>4

\* What is lost on the way to s and from s up to c is lost on the way up to c.
LEMMA UnfiledAdds ==
    ASSUME NEW w \in Windows, NEW s \in Windows, NEW nonce, SlidTo(w, s, nonce),
           NEW c \in Nat, s.base <= c
    PROVE  /\ Cardinality(Unfiled(w, w.base, s.base)) + Cardinality(Unfiled(s, s.base, c))
                = Cardinality(Unfiled(w, w.base, c))
           /\ Cardinality(Unfiled(w, w.base, c)) \in Nat
           /\ Cardinality(Unfiled(w, w.base, s.base)) \in Nat
           /\ Cardinality(Unfiled(s, s.base, c)) \in Nat
<1> DEFINE a == w.base
           b == s.base
           A == Unfiled(w, a, b)
           B == Unfiled(s, b, c)
<1>0. a \in Nat /\ b \in Nat /\ a <= b /\ b <= c /\ s.seen = {n \in w.seen : n >= b}
  BY DEF SlidTo, Windows
<1> HIDE DEF a, b
<1>1. IsFiniteSet(A) /\ IsFiniteSet(B)
  <2>1. /\ a \in Int /\ b \in Int /\ b - 1 \in Int /\ c - 1 \in Int
        /\ A \subseteq a .. b - 1 /\ B \subseteq b .. c - 1
    BY <1>0 DEF Unfiled
  <2>2. IsFiniteSet(a .. b - 1) /\ IsFiniteSet(b .. c - 1)
    BY <2>1, FS_Interval
  <2> QED  BY <2>1, <2>2, FS_Subset
<1>2. A \cup B = Unfiled(w, a, c) /\ A \cap B = {}
  <2>1. ASSUME NEW n PROVE n \in A \cup B <=> n \in Unfiled(w, a, c)
    BY <1>0 DEF Unfiled
  <2>2. A \cap B = {}
    BY <1>0 DEF Unfiled
  <2> QED  BY <2>1, <2>2
<1> HIDE DEF A, B
<1>3. Cardinality(A \cup B) = Cardinality(A) + Cardinality(B) - Cardinality(A \cap B)
      /\ IsFiniteSet(A \cup B)
  BY <1>1, FS_Union
<1>4. Cardinality(A \cap B) = 0
  BY <1>2, FS_EmptySet
<1>5. Cardinality(A) \in Nat /\ Cardinality(B) \in Nat /\ Cardinality(A \cup B) \in Nat
  BY <1>1, <1>3, FS_CardinalityType
<1>6. Cardinality(A) + Cardinality(B) = Cardinality(A \cup B)
  BY <1>3, <1>4, <1>5
<1> QED  BY <1>2, <1>5, <1>6 DEF A, B, a, b

\* The loop counts what it loses.
LEMMA SlideToLoss ==
    ASSUME NEW w \in Windows, InField(w), NEW nonce \in Nat, nonce >= w.base
    PROVE  LossCounted(w, SlideTo(w, nonce))
<1> DEFINE s1 == Slide(w, nonce)
           s2 == Slide(s1, nonce)
           s3 == Slide(s2, nonce)
<1>1. ASSUME NEW s, NEW t, SlidTo(w, s, nonce), SlidTo(s, t, nonce),
             LossCounted(w, s), LossCounted(s, t)
      PROVE  LossCounted(w, t)
  <2>1. /\ s \in Windows /\ t \in Windows /\ w.base \in Nat /\ s.base \in Nat /\ t.base \in Nat
        /\ w.base <= s.base /\ s.base <= t.base /\ s.seen = {n \in w.seen : n >= s.base}
        /\ w.lost \in Int /\ s.lost \in Int /\ t.lost \in Int
    BY <1>1 DEF SlidTo, Windows
  <2> DEFINE A == Cardinality(Unfiled(w, w.base, s.base))
             B == Cardinality(Unfiled(s, s.base, t.base))
             C == Cardinality(Unfiled(w, w.base, t.base))
  <2>2. A + B = C /\ A \in Nat /\ B \in Nat /\ C \in Nat
    BY <1>1, <2>1, UnfiledAdds
  <2>3. s.lost = w.lost + A /\ t.lost = s.lost + B
    BY <1>1 DEF LossCounted
  <2> HIDE DEF A, B, C
  <2>4. t.lost = w.lost + C
    BY <2>1, <2>2, <2>3
  <2> QED  BY <2>4 DEF LossCounted, C
<1>2. SlidTo(w, s1, nonce) /\ LossCounted(w, s1)
  BY SlideStep, SlideLoss
<1>3. s1 \in Windows /\ InField(s1) /\ nonce >= s1.base
  BY <1>2 DEF SlidTo
<1>4. SlidTo(s1, s2, nonce) /\ LossCounted(s1, s2)
  BY <1>3, SlideStep, SlideLoss
<1>5. s2 \in Windows /\ InField(s2) /\ nonce >= s2.base
  BY <1>4 DEF SlidTo
<1>6. SlidTo(s2, s3, nonce) /\ LossCounted(s2, s3)
  BY <1>5, SlideStep, SlideLoss
<1> HIDE DEF s1, s2, s3
<1>7. SlidTo(w, s2, nonce) /\ LossCounted(w, s2)
  BY <1>1, <1>2, <1>4, SlidTransitive
<1>8. LossCounted(w, s3)
  BY <1>1, <1>6, <1>7
<1> QED  BY <1>8 DEF SlideTo, s1, s2, s3
-----------------------------------------------------------------------------
\* The inductive invariant: within the window the field records exactly what was
\* accepted, and what the window has passed unaccepted is far below some
\* accepted nonce.
Recorded == \A n \in Nonces : n >= rp.base => (n \in rp.seen <=> accepts[n] > 0)

PassedFarBelow ==
    \A n \in Nonces : (n < rp.base /\ accepts[n] = 0) =>
                          \E m \in Nonces : accepts[m] > 0 /\ m > n + Half

StreamInv == StreamTypeOK /\ AcceptedOnce /\ Recorded /\ PassedFarBelow

\* The zeroed struct satisfies the invariant.
LEMMA StreamInitInv == StreamInit => StreamInv
  BY WindowAssumption, StreamAssumption
     DEF StreamInit, StreamInv, StreamTypeOK, AcceptedOnce, Recorded, PassedFarBelow, EmptyWindow, Nonces,
         Windows, InField

\* A call of checkNonce preserves it, whether it returns true or false.
LEMMA StreamStepInv == StreamInv /\ [StreamNext]_streamVars => StreamInv'
<1> SUFFICES ASSUME StreamInv, [StreamNext]_streamVars PROVE StreamInv'
  OBVIOUS
<1>0. /\ Half \in Nat /\ Window \in Nat /\ Nonces \subseteq Nat
      /\ rp \in Windows /\ InField(rp) /\ accepts \in [Nonces -> Nat]
  BY WindowAssumption, StreamAssumption DEF StreamInv, StreamTypeOK, Windows, InField, Nonces, Window
<1>1. CASE UNCHANGED streamVars
  BY <1>1 DEF streamVars, StreamInv, StreamTypeOK, AcceptedOnce, Recorded, PassedFarBelow
<1>2. CASE StreamNext
  <2> PICK nonce \in Nonces : CheckNonce(nonce)
    BY <1>2 DEF StreamNext
  <2>1. CASE nonce < rp.base
    <3>1. /\ rp' = [rp EXCEPT !.outOfRange = rp.outOfRange + 1]
          /\ accepts' = accepts
      BY <1>0, <2>1 DEF CheckNonce, Filed, NonceOk, Windows
    <3> QED  BY <1>0, <3>1
             DEF StreamInv, StreamTypeOK, AcceptedOnce, Recorded, PassedFarBelow, Windows, InField
  <2>2. CASE nonce >= rp.base
    <3> DEFINE slid == SlideTo(rp, nonce)
    <3> HIDE DEF slid
    <3>1. SlidTo(rp, slid, nonce) /\ nonce - slid.base < Window
      BY <1>0, <2>2, SlideToEnds DEF slid
    <3>2. CASE nonce \in slid.seen
      <4>1. /\ rp' = [slid EXCEPT !.duplicates = slid.duplicates + 1]
            /\ accepts' = accepts
        BY <1>0, <2>2, <3>2 DEF CheckNonce, Filed, NonceOk, Windows, slid
      <4>2. accepts[nonce] > 0 /\ nonce \in rp.seen
        BY <1>0, <2>2, <3>1, <3>2 DEF SlidTo, StreamInv, Recorded
      <4>3. StreamTypeOK' /\ AcceptedOnce'
        BY <1>0, <3>1, <4>1 DEF StreamInv, StreamTypeOK, AcceptedOnce, SlidTo, Windows, InField
      <4>4. Recorded'
        BY <1>0, <3>1, <4>1 DEF StreamInv, Recorded, SlidTo, Windows
      <4>5. PassedFarBelow'
        BY <1>0, <3>1, <4>1, <4>2 DEF StreamInv, PassedFarBelow, Recorded, SlidTo, Windows
      <4> QED  BY <4>3, <4>4, <4>5 DEF StreamInv
    <3>3. CASE nonce \notin slid.seen
      <4>1. /\ rp' = [slid EXCEPT !.seen = slid.seen \cup {nonce}]
            /\ accepts' = [accepts EXCEPT ![nonce] = @ + 1]
        BY <1>0, <2>2, <3>3 DEF CheckNonce, Filed, NonceOk, Windows, slid
      <4>2. accepts[nonce] = 0
        BY <1>0, <2>2, <3>1, <3>3 DEF SlidTo, StreamInv, Recorded, Windows
      <4>3. StreamTypeOK'
        BY <1>0, <3>1, <4>1 DEF StreamInv, StreamTypeOK, SlidTo, Windows, InField
      <4>4. AcceptedOnce'
        BY <1>0, <4>1, <4>2 DEF StreamInv, AcceptedOnce
      <4>5. Recorded'
        BY <1>0, <3>1, <4>1, <4>2 DEF StreamInv, Recorded, SlidTo, Windows
      <4>6. PassedFarBelow'
        BY <1>0, <3>1, <4>1, <4>2 DEF StreamInv, PassedFarBelow, Recorded, SlidTo, Windows
      <4> QED  BY <4>3, <4>4, <4>5, <4>6 DEF StreamInv
    <3> QED  BY <3>2, <3>3
  <2> QED  BY <1>0, <2>1, <2>2 DEF Windows
<1> QED  BY <1>1, <1>2

\* No sequence of calls makes checkNonce return true twice for a nonce, and the
\* field never leaves its bounds.
THEOREM ReplayRefused == StreamSpec => [](StreamTypeOK /\ AcceptedOnce)
<1>1. StreamInv => StreamTypeOK /\ AcceptedOnce
  BY DEF StreamInv
<1> QED  BY StreamInitInv, StreamStepInv, <1>1, PTL DEF StreamSpec

\* A nonce at most Half below the highest accepted one is never refused unless
\* it was accepted before.
THEOREM LateAccepted == StreamSpec => []LateNonceAccepted
<1>1. StreamInv => LateNonceAccepted
  <2> SUFFICES ASSUME StreamInv,
                      NEW n \in Nonces, accepts[n] = 0,
                      \A m \in Nonces : accepts[m] > 0 => m <= n + Half
               PROVE  NonceOk(rp, n)
    BY DEF LateNonceAccepted
  <2>0. /\ Half \in Nat /\ Window \in Nat /\ Nonces \subseteq Nat
        /\ rp \in Windows /\ InField(rp) /\ accepts \in [Nonces -> Nat]
    BY WindowAssumption, StreamAssumption DEF StreamInv, StreamTypeOK, Windows, InField, Nonces, Window
  <2>1. n >= rp.base
    BY <2>0 DEF StreamInv, PassedFarBelow, Windows
  <2>2. n \notin rp.seen
    BY <2>0, <2>1 DEF StreamInv, Recorded
  <2>3. n \notin SlideTo(rp, n).seen
    BY <2>0, <2>1, <2>2, SlideToEnds DEF SlidTo
  <2> QED  BY <2>1, <2>3 DEF NonceOk
<1> QED  BY StreamInitInv, StreamStepInv, <1>1, PTL DEF StreamSpec
-----------------------------------------------------------------------------
\* The nonces below b that were never accepted.
Missed(b) == {n \in 0 .. b - 1 : accepts[n] = 0}

\* A call counts what it makes the window leave behind.
LEMMA LossStep == StreamInv /\ LostIsExact /\ [StreamNext]_streamVars => LostIsExact'
<1> SUFFICES ASSUME StreamInv, LostIsExact, [StreamNext]_streamVars PROVE LostIsExact'
  OBVIOUS
<1>0. /\ Half \in Nat /\ Window \in Nat /\ Nonces = 0 .. MaxNonce /\ MaxNonce \in Nat
      /\ rp \in Windows /\ InField(rp) /\ accepts \in [Nonces -> Nat]
  BY WindowAssumption, StreamAssumption DEF StreamInv, StreamTypeOK, Windows, InField, Nonces, Window
<1>1. CASE UNCHANGED streamVars
  BY <1>1 DEF streamVars, LostIsExact
<1>2. ASSUME NEW nonce \in Nonces, CheckNonce(nonce), nonce < rp.base PROVE LostIsExact'
  <2>1. /\ rp' = [rp EXCEPT !.outOfRange = rp.outOfRange + 1]
        /\ accepts' = accepts
    BY <1>0, <1>2 DEF CheckNonce, Filed, NonceOk, Windows
  <2>2. rp'.lost = rp.lost /\ rp'.base = rp.base
    BY <1>0, <2>1 DEF Windows
  <2> QED  BY <2>1, <2>2 DEF LostIsExact
<1>3. ASSUME NEW nonce \in Nonces, CheckNonce(nonce), nonce >= rp.base PROVE LostIsExact'
  <2> DEFINE slid == SlideTo(rp, nonce)
  <2> HIDE DEF slid
  <2>0. nonce \in Nat /\ rp.base \in Nat /\ rp.lost \in Int
    BY <1>0 DEF Windows
  <2>1. SlidTo(rp, slid, nonce) /\ LossCounted(rp, slid)
    BY <1>0, <1>3, <2>0, SlideToEnds, SlideToLoss DEF slid
  <2>2. slid \in Windows /\ slid.base \in Nat /\ rp.base <= slid.base /\ slid.base <= nonce
    BY <2>1 DEF SlidTo, Windows
  <2>3. /\ rp'.base = slid.base /\ rp'.lost = slid.lost
        /\ accepts' = accepts \/ accepts' = [accepts EXCEPT ![nonce] = @ + 1]
    BY <1>0, <1>3, <2>2 DEF CheckNonce, Filed, Windows, slid
  <2>4. {n \in 0 .. slid.base - 1 : accepts'[n] = 0} = Missed(slid.base)
    <3> SUFFICES ASSUME NEW n \in 0 .. slid.base - 1 PROVE accepts'[n] = accepts[n]
      BY DEF Missed
    <3>1. n \in Nonces /\ n # nonce
      BY <1>0, <2>0, <2>2
    <3> QED  BY <1>0, <2>3, <3>1
  <2>5. Missed(slid.base) = Missed(rp.base) \cup Unfiled(rp, rp.base, slid.base)
    <3>1. ASSUME NEW n \in rp.base .. slid.base - 1
          PROVE  n \notin rp.seen <=> accepts[n] = 0
      <4>1. n \in Nonces /\ n >= rp.base
        BY <1>0, <2>0, <2>2
      <4> QED  BY <1>0, <4>1 DEF StreamInv, Recorded
    <3>2. ASSUME NEW n
          PROVE  n \in Missed(slid.base) <=> n \in Missed(rp.base) \cup Unfiled(rp, rp.base, slid.base)
      BY <2>0, <2>2, <3>1 DEF Missed, Unfiled
    <3> QED  BY <3>2
  <2>6. Missed(rp.base) \cap Unfiled(rp, rp.base, slid.base) = {}
    BY <2>0, <2>2 DEF Missed, Unfiled
  <2>7. IsFiniteSet(Missed(rp.base)) /\ IsFiniteSet(Unfiled(rp, rp.base, slid.base))
    <3>1. /\ 0 \in Int /\ rp.base \in Int /\ rp.base - 1 \in Int /\ slid.base - 1 \in Int
          /\ Missed(rp.base) \subseteq 0 .. rp.base - 1
          /\ Unfiled(rp, rp.base, slid.base) \subseteq rp.base .. slid.base - 1
      BY <2>0, <2>2 DEF Missed, Unfiled
    <3>2. IsFiniteSet(0 .. rp.base - 1) /\ IsFiniteSet(rp.base .. slid.base - 1)
      BY <3>1, FS_Interval
    <3> QED  BY <3>1, <3>2, FS_Subset
  <2> DEFINE A == Missed(rp.base)
             B == Unfiled(rp, rp.base, slid.base)
  <2> HIDE DEF A, B
  <2>8. Cardinality(A \cup B) = Cardinality(A) + Cardinality(B) - Cardinality(A \cap B)
    BY <2>7, FS_Union DEF A, B
  <2>9. Cardinality(A \cap B) = 0
    BY <2>6, FS_EmptySet DEF A, B
  <2>10. Cardinality(A) \in Nat /\ Cardinality(B) \in Nat
    BY <2>7, FS_CardinalityType DEF A, B
  <2>11. rp.lost = Cardinality(A) /\ slid.lost = rp.lost + Cardinality(B)
    BY <2>1 DEF LostIsExact, Missed, LossCounted, A, B
  <2>12. slid.lost = Cardinality(A \cup B)
    BY <2>8, <2>9, <2>10, <2>11
  <2>13. A \cup B = {n \in 0 .. slid.base - 1 : accepts'[n] = 0}
    BY <2>4, <2>5 DEF A, B
  <2> QED  BY <2>3, <2>12, <2>13 DEF LostIsExact
<1> QED  BY <1>0, <1>1, <1>2, <1>3 DEF StreamNext, Nonces, Windows

\* lostPackets is exact, whatever arrives in whatever order.
THEOREM LossIsExact == StreamSpec => []LostIsExact
<1>1. StreamInit => LostIsExact
  <2> SUFFICES ASSUME StreamInit PROVE LostIsExact
    OBVIOUS
  <2>1. rp.lost = 0 /\ {n \in 0 .. rp.base - 1 : accepts[n] = 0} = {}
    BY DEF StreamInit, EmptyWindow
  <2> QED  BY <2>1, FS_EmptySet DEF LostIsExact
<1> QED  BY <1>1, StreamInitInv, StreamStepInv, LossStep, PTL DEF StreamSpec
=============================================================================
