---------------------------- MODULE SwitchLabels ----------------------------
(***************************************************************************)
(* Switch labels: switch/NumberCompress.h (v3x5x8, which the build takes), *)
(* switch/EncodingScheme.c, switch/LabelSplicer.h and what they use of     *)
(* util/Bits.h.                                                            *)
(*                                                                         *)
(* A label is the set of the positions of its 1 bits, so shifts move a     *)
(* set, | is union and & is intersection; a label is read from its low     *)
(* end.  The numbers of interfaces are numbers.                            *)
(***************************************************************************)
EXTENDS Integers, Sequences, FiniteSetsExt

CONSTANT Width             \* 64, the bits of a label

Invalid == {-1}            \* EncodingScheme_convertLabel_INVALID
TooLong == 0..(Width - 1)  \* UINT64_MAX, of LabelSplicer_splice

-----------------------------------------------------------------------------
(* Bits. *)

ShiftRight(l, n) == {b - n : b \in {c \in l : c >= n}}

ShiftLeft(l, n) == {b + n : b \in l} \cap (0..(Width - 1))

Low(l, n) == l \cap (0..(n - 1))

Xor(l, m) == (l \ m) \cup (m \ l)

\* Bits_bitReverse64.
BitReverse(l) == {Width - 1 - b : b \in l}

\* Bits_log2x64.
Log2(l) == IF l = {} THEN 0 ELSE Max(l)

\* Between a number below 2^11 and its bits.
BitsOf(n) == {b \in 0..10 : (n \div 2 ^ b) % 2 = 1}
NumberOf(l) == MapThenSumSet(LAMBDA b : 2 ^ b, l)

-----------------------------------------------------------------------------
(* NumberCompress_v3x5x8. *)

BitsUsedForLabel(l) == IF 0 \in l THEN 4 ELSE IF 1 \in l THEN 7 ELSE 10

BitsUsedForNumber(n) == IF n < 8 THEN 4 ELSE IF n < 33 THEN 7 ELSE 10

GetCompressed(n, bits) ==
    CASE n = 1 -> {0}
      [] bits = 4 -> IF n = 0 THEN {0, 1} ELSE BitsOf(2 * n + 1)
      [] bits = 7 -> IF n = 0 THEN {1} ELSE BitsOf(4 * (n - 1) + 2)
      [] bits = 10 -> IF n = 0 THEN {} ELSE BitsOf(4 * (n - 1))

GetDecompressed(l, bits) ==
    LET number == NumberOf(IF bits = 4 THEN Low(ShiftRight(l, 1), 3) ELSE Low(ShiftRight(l, 2), bits - 2))
    IN  CASE bits = 4 /\ number \in {0, 1} -> 1 - number
          [] bits # 4 /\ number # 0 -> number + 1
          [] OTHER -> number

-----------------------------------------------------------------------------
(* EncodingScheme.  Forms count from 1. *)

V358 == << [bitCount |-> 3, prefixLen |-> 1, prefix |-> {0}],
           [bitCount |-> 5, prefixLen |-> 2, prefix |-> {1}],
           [bitCount |-> 8, prefixLen |-> 2, prefix |-> {}] >>

FormSize(form) == form.bitCount + form.prefixLen

\* EncodingScheme_getFormNum; 0 is INVALID.
FormNum(scheme, l) ==
    LET fits == {i \in DOMAIN scheme : Low(l, scheme[i].prefixLen) = scheme[i].prefix}
    IN  IF Len(scheme) = 1 THEN 1 ELSE IF fits = {} THEN 0 ELSE Min(fits)

\* Which interface a director means, and the director for an interface: in v3x5x8 the form with
\* prefix 1 swaps 0 and 1, the others skip the number 1.
InterfaceOf(scheme, form, director) ==
    CASE scheme # V358 -> director
      [] scheme = V358 /\ form.prefix = {0} -> IF director = 1 THEN 0 ELSE director
      [] OTHER -> IF director = 0 THEN 0 ELSE director + 1

DirectorOf(scheme, form, n) ==
    CASE scheme # V358 -> n
      [] scheme = V358 /\ form.prefix = {0} -> IF n = 0 THEN 1 ELSE n
      [] OTHER -> IF n = 0 THEN 0 ELSE n - 1

BitLength(n) == Log2(BitsOf(n)) + 1

\* The form that convertLabel takes for CANNONICAL: the first that is wide enough.
CanonicalForm(scheme, n) ==
    LET minBits(form) == IF form.prefix = {0} THEN BitLength(n)
                         ELSE IF n = 0 THEN 64 ELSE BitLength(n - 1)
        wide == {i \in DOMAIN scheme : scheme[i].bitCount >= minBits(scheme[i])}
    IN  IF wide = {} THEN 0 ELSE Min(wide)

\* The end of convertLabel: the rest of the label behind the director in the form that was asked for.
InForm(scheme, n, rest, to) ==
    LET form == scheme[to]
        director == DirectorOf(scheme, form, n)
        head == ShiftLeft(BitsOf(director), form.prefixLen) \cup form.prefix
    IN  IF \/ BitLength(director) > form.bitCount
           \/ Log2(rest) + FormSize(form) > 59
           \/ head = {0}
        THEN Invalid
        ELSE ShiftLeft(rest, FormSize(form)) \cup head

\* EncodingScheme_convertLabel, with Canonical for convertTo_CANNONICAL.
Canonical == -1
ConvertLabel(scheme, l, to) ==
    LET num == FormNum(scheme, l)
        form == scheme[num]
        n == InterfaceOf(scheme, form, NumberOf(Low(ShiftRight(l, form.prefixLen), form.bitCount)))
        next == IF to = Canonical THEN CanonicalForm(scheme, n) ELSE to
    IN  CASE num = 0 -> Invalid
          [] num # 0 /\ (Len(scheme) = 1 \/ Low(l, FormSize(form)) = {0}) ->
                 IF to \in {1, Canonical} THEN l ELSE Invalid
          [] OTHER -> IF next \in DOMAIN scheme
                      THEN InForm(scheme, n, ShiftRight(l, FormSize(form)), next)
                      ELSE Invalid

-----------------------------------------------------------------------------
(* LabelSplicer. *)

Unsplice(fullPath, midPath) == ShiftRight(fullPath, Log2(midPath))

\* Mutant: the bit that ends viaHere is kept.
SpliceKeeping(goHere, viaHere) ==
    IF Log2(goHere) + Log2(viaHere) > 59 THEN TooLong
    ELSE ShiftLeft(goHere, Log2(viaHere)) \cup viaHere

Splice(goHere, viaHere) ==
    IF Log2(goHere) + Log2(viaHere) > 59 THEN TooLong
    ELSE Xor(ShiftLeft(Xor(goHere, {0}), Log2(viaHere)), viaHere)

\* midPath > destination is a comparison of numbers: the highest bit in which they differ decides.
RoutesThrough(destination, midPath) ==
    LET differ == Xor(destination, midPath)
    IN  /\ differ = {} \/ Max(differ) \in destination
        /\ \/ midPath \subseteq {0}
           \/ Low(destination, Log2(midPath)) = Low(midPath, Log2(midPath))

=============================================================================
