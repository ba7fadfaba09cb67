-------------------------- MODULE EventEmitterProofs --------------------------
(***************************************************************************)
(* What the core and the pathfinders rely on holds for any number of       *)
(* pathfinders, honest and faulty, and for any amount of waiting messages. *)
(*                                                                         *)
(* The invariant, Inductive, looks at one link at a time (Sound): at the   *)
(* pathfinder, at all that is under way to it and from it, and at who is   *)
(* connected.  It has three parts.                                         *)
(*   Begun     nothing goes to a pathfinder before it has connected, and   *)
(*             CONNECT is the first message that it finds;                 *)
(*   Informed  behind every PATHFINDER about one that is not connected     *)
(*             there is a PATHFINDER_GONE about it;                        *)
(*   OnePing   an honest pathfinder has one PING to answer at most, as the *)
(*             counter that passed PingAt only falls below it with the     *)
(*             PONG, and what that PONG takes off has been counted.        *)
(* Lemmas about one link say what each operation does to Sound, and lemmas *)
(* about all the links (OneLink, AllLinks) carry this over to the steps.   *)
(***************************************************************************)
EXTENDS EventEmitter, FiniteSetTheorems, WellFoundedInduction, TLAPS

\* A set of natural numbers has a least element.
LEMMA LeastNat ==
    ASSUME NEW S \in SUBSET Nat, S # {}
    PROVE  \E n \in S : \A m \in S : n <= m
<1> DEFINE R == {ss \in Nat \X Nat : ss[1] < ss[2]}
<1>1. IsWellFoundedOn(R, Nat)
  BY NatLessThanWellFounded DEF OpToRel
<1>2. \A x, y \in Nat : <<y, x>> \in R <=> y < x
  OBVIOUS
<1> HIDE DEF R
<1>3. PICK x \in S : \A y \in S : <<y, x>> \notin R
  BY <1>1, WFMin
<1>4. ASSUME NEW y \in S PROVE x <= y
  <2>1. x \in Nat /\ y \in Nat
    OBVIOUS
  <2>2. ~(y < x)
    BY <1>2, <1>3, <2>1, Zenon
  <2> QED  BY <2>1, <2>2
<1> QED  BY <1>4

\* What holds at first and is kept by every step of a finite run holds to its end.
LEMMA Induction ==
    ASSUME NEW n \in Nat, NEW f, NEW I, f[0] \in I[0],
           \A k \in 1 .. n : f[k - 1] \in I[k - 1] => f[k] \in I[k]
    PROVE  \A k \in 0 .. n : f[k] \in I[k]
<1> DEFINE Bad == {k \in 0 .. n : f[k] \notin I[k]}
<1>1. SUFFICES ASSUME Bad # {} PROVE FALSE
  OBVIOUS
<1>2. PICK m \in Bad : \A k \in Bad : m <= k
  <2>1. Bad \in SUBSET Nat
    OBVIOUS
  <2> HIDE DEF Bad
  <2> QED  BY <1>1, <2>1, LeastNat
<1>3. m # 0
  BY <1>2
<1>4. m - 1 \in 0 .. n /\ m - 1 \notin Bad /\ m \in 1 .. n
  BY <1>2, <1>3
<1>5. f[m - 1] \in I[m - 1]
  BY <1>4
<1> QED  BY <1>2, <1>4, <1>5

\* f is a run of n rounds from x, and G[k] the k-th round.
Runs(n, x, G, f) ==
    f = [k \in 0 .. n |-> IF k = 0 THEN x ELSE G[k][f[k - 1]]]

\* A run of n rounds exists, whatever the rounds are.
LEMMA LoopExists ==
    ASSUME NEW n \in Nat, NEW x, NEW G
    PROVE  \E f : Runs(n, x, G, f)
<1> DEFINE Bad == {m \in Nat : ~ \E f : Runs(m, x, G, f)}
<1>1. SUFFICES ASSUME Bad # {} PROVE FALSE
  OBVIOUS
<1>2. PICK m \in Bad : \A k \in Bad : m <= k
  <2>1. Bad \in SUBSET Nat  OBVIOUS
  <2> HIDE DEF Bad
  <2> QED BY <1>1, <2>1, LeastNat
<1>3. CASE m = 0
  <2> DEFINE f == [k \in 0 .. 0 |-> x]
  <2>1. Runs(0, x, G, f)
    BY DEF Runs
  <2> QED BY <1>3, <2>1
<1>4. CASE m # 0
  <2>1. m - 1 \in Nat /\ m - 1 \notin Bad
    BY <1>2, <1>4
  <2>2. PICK f : Runs(m - 1, x, G, f)
    BY <2>1
  <2> DEFINE g == [k \in 0 .. m |-> IF k = m THEN G[m][f[m-1]] ELSE f[k]]
  <2>3. Runs(m, x, G, g)
    <3>1. \A k \in 1 .. m - 1 : f[k] = G[k][f[k - 1]]
      BY <2>1, <2>2 DEF Runs
    <3>2. f[0] = x
      BY <2>1, <2>2 DEF Runs
    <3>3. \A k \in 1 .. m : g[k - 1] = f[k - 1]
      BY <1>2, <1>4
    <3>4. \A k \in 0 .. m : g[k] = IF k = 0 THEN x ELSE G[k][g[k - 1]]
      BY <1>2, <1>4, <3>1, <3>2, <3>3
    <3> QED  BY <3>4 DEF Runs
  <2> QED BY <2>3
<1> QED BY <1>3, <1>4


\* A loop whose rounds lead from I[k - 1] to I[k] has a run that is always in I.
LEMMA Loop ==
    ASSUME NEW n \in Nat, NEW x, NEW G, NEW I, x \in I[0],
           \A k \in 1 .. n : \A s \in I[k - 1] : G[k][s] \in I[k]
    PROVE  \E f : Runs(n, x, G, f) /\ \A k \in 0 .. n : f[k] \in I[k]
<1>1. PICK f : Runs(n, x, G, f)
  BY LoopExists
<1>2. f[0] = x /\ \A k \in 1 .. n : f[k] = G[k][f[k - 1]]
  BY <1>1 DEF Runs
<1>3. f[0] \in I[0] /\ \A k \in 1 .. n : f[k - 1] \in I[k - 1] => f[k] \in I[k]
  BY <1>2
<1>4. \A k \in 0 .. n : f[k] \in I[k]
  BY <1>3, Induction
<1> QED  BY <1>1, <1>4

-----------------------------------------------------------------------------
Kinds == {"CONNECT", "SUPERIORITY", "PING", "PONG", "PATHFINDERS", "PEERS", "NODE", "CORE_PING",
          "PATHFINDER", "PATHFINDER_GONE", "EVENT"}

Messages == [ev : Kinds, pf : Nat, count : Nat]

Links == [subnode : BOOLEAN, state : {"DISCONNECTED", "CONNECTED", "ERROR"}, bytes : Nat, toA : Seq(Messages),
          toB : Seq(Messages), armed : BOOLEAN, dryCycles : Nat, running : BOOLEAN,
          told : SUBSET Nat]

\* Two queues, one after the other: what is appended to the second...
LEMMA AppendAfter ==
    ASSUME NEW A \in Seq(Messages), NEW S \in Seq(Messages), NEW m \in Messages
    PROVE  A \o Append(S, m) = Append(A \o S, m)
<1> DEFINE l == A \o Append(S, m)
           r == Append(A \o S, m)
<1>1. l \in Seq(Messages) /\ r \in Seq(Messages) /\ Len(l) = Len(r)
  OBVIOUS
<1>2. \A k \in 1 .. Len(l) : l[k] = r[k]
  OBVIOUS
<1> HIDE DEF l, r
<1>3. l = r
  BY <1>1, <1>2
<1> QED  BY <1>3 DEF l, r

\* ... and what is taken from the first.
LEMMA TailBefore ==
    ASSUME NEW A \in Seq(Messages), NEW S \in Seq(Messages), A # <<>>
    PROVE  Tail(A) \o S = Tail(A \o S) /\ A \o S # <<>> /\ (A \o S)[1] = Head(A)
<1> DEFINE l == Tail(A) \o S
           r == Tail(A \o S)
<1>0. Len(A) \in Nat /\ Len(A) # 0 /\ Len(S) \in Nat
  OBVIOUS
<1>1. l \in Seq(Messages) /\ r \in Seq(Messages) /\ Len(l) = Len(r)
  BY <1>0
<1>2. \A k \in 1 .. Len(l) : l[k] = r[k]
  BY <1>0
<1>3. A \o S # <<>> /\ (A \o S)[1] = Head(A)
  BY <1>0
<1> HIDE DEF l, r
<1>4. l = r
  BY <1>1, <1>2
<1> QED  BY <1>3, <1>4 DEF l, r

\* Message k of q is an event about pathfinder j.
About(q, k, ev, j) == q[k].ev = ev /\ q[k].pf = j

\* Of a link and q, all that is under way to its pathfinder: nothing is sent before CONNECT, and
\* CONNECT comes first.
Begun(l, q) ==
    /\ l.state = "DISCONNECTED" => q = <<>> /\ l.bytes = 0 /\ ~l.running /\ l.told = {}
    /\ l.state # "DISCONNECTED" /\ ~l.running => q # <<>> /\ q[1].ev = "CONNECT"

\* That j is not connected is on its way to one that has been or will be told of j.
Informed(l, q, C) ==
    \A j \in Nat \ C :
        /\ j \in l.told => \E h \in 1 .. Len(q) : About(q, h, "PATHFINDER_GONE", j)
        /\ \A k \in 1 .. Len(q) : About(q, k, "PATHFINDER", j) =>
               \E h \in 1 .. Len(q) : k < h /\ About(q, h, "PATHFINDER_GONE", j)

At(q, ev) == {k \in 1 .. Len(q) : q[k].ev = ev}

\* At most one PING is out, and its bytes are counted and are so many that no other is sent.
\* b is all that is under way from the pathfinder.
OnePing(l, q, b) ==
    /\ l.state # "ERROR"
    /\ \A k, h \in At(q, "CORE_PING") : k = h
    /\ \A k, h \in At(b, "PONG") : k = h
    /\ At(q, "CORE_PING") = {} \/ At(b, "PONG") = {}
    /\ \A k \in At(q, "CORE_PING") : q[k].count <= l.bytes /\ l.bytes >= PingAt
    /\ \A k \in At(b, "PONG") : b[k].count <= l.bytes /\ l.bytes >= PingAt

\* Link i while A and B are left in the running cycle of its ASynchronizer, and C are connected.
Sound(i, l, A, B, C) ==
    /\ l \in Links
    /\ Begun(l, A \o l.toA)
    /\ l.state = "CONNECTED" => Informed(l, A \o l.toA, C)
    /\ i \notin Faulty => OnePing(l, A \o l.toA, B \o l.toB)

\* The constants are numbers.
LEMMA ConstantTypes ==
    /\ PingAt \in Nat /\ MaxBytes \in Nat /\ MaxQueue \in Nat /\ MaxDryCycles \in Nat
    /\ Peers \in Nat /\ 1 < PingAt
  BY EventEmitterAssumption

\* fromB and fromA.
LEMMA FromFacts ==
    ASSUME NEW l \in Links, NEW m \in Messages
    PROVE  /\ FromB(l, m) \in Links
           /\ FromB(l, m).toA = Append(l.toA, m) /\ FromB(l, m).state = l.state
           /\ FromB(l, m).bytes = l.bytes /\ FromB(l, m).toB = l.toB
           /\ FromB(l, m).running = l.running /\ FromB(l, m).told = l.told
           /\ FromA(l, m) \in Links
           /\ FromA(l, m).toB = Append(l.toB, m) /\ FromA(l, m).state = l.state
           /\ FromA(l, m).bytes = l.bytes /\ FromA(l, m).toA = l.toA
           /\ FromA(l, m).running = l.running /\ FromA(l, m).told = l.told
<1>1. Append(l.toA, m) \in Seq(Messages) /\ Append(l.toB, m) \in Seq(Messages)
  BY DEF Links
<1>2. FromB(l, m) \in Links /\ FromA(l, m) \in Links
  BY <1>1 DEF FromB, FromA, Links
<1>3. /\ FromB(l, m).toA = Append(l.toA, m) /\ FromB(l, m).state = l.state
      /\ FromB(l, m).bytes = l.bytes /\ FromB(l, m).toB = l.toB
      /\ FromB(l, m).running = l.running /\ FromB(l, m).told = l.told
  BY DEF FromB, Links
<1>4. /\ FromA(l, m).toB = Append(l.toB, m) /\ FromA(l, m).state = l.state
      /\ FromA(l, m).bytes = l.bytes /\ FromA(l, m).toA = l.toA
      /\ FromA(l, m).running = l.running /\ FromA(l, m).told = l.told
  BY DEF FromA, Links
<1> QED  BY <1>2, <1>3, <1>4

\* An event of one kind.
LEMMA MessageFacts ==
    ASSUME NEW ev \in Kinds, NEW j \in Nat, NEW count \in Nat
    PROVE  /\ Message(ev, j, count) \in Messages /\ Message(ev, j, count).ev = ev
           /\ Message(ev, j, count).pf = j /\ Message(ev, j, count).count = count
  BY DEF Message, Messages

\* A queue to which a message is added.
LEMMA PushedFacts ==
    ASSUME NEW q \in Seq(Messages), NEW m \in Messages
    PROVE  LET r == Append(q, m)
           IN  /\ r \in Seq(Messages) /\ Len(r) = Len(q) + 1 /\ r # <<>>
               /\ \A k \in 1 .. Len(q) : r[k] = q[k]
               /\ r[Len(q) + 1] = m
               /\ q # <<>> => r[1] = q[1]
               /\ \A ev : At(r, ev) = At(q, ev) \cup (IF m.ev = ev THEN {Len(q) + 1} ELSE {})
<1> DEFINE r == Append(q, m)
<1>1. /\ r \in Seq(Messages) /\ Len(r) = Len(q) + 1 /\ r # <<>> /\ Len(q) \in Nat
      /\ \A k \in 1 .. Len(q) : r[k] = q[k]
      /\ r[Len(q) + 1] = m
  OBVIOUS
<1>2. q # <<>> => r[1] = q[1]
  OBVIOUS
<1> HIDE DEF r
<1>3. ASSUME NEW ev
      PROVE  At(r, ev) = At(q, ev) \cup (IF m.ev = ev THEN {Len(q) + 1} ELSE {})
  <2>1. ASSUME NEW k
        PROVE  k \in At(r, ev) <=> k \in At(q, ev) \/ (m.ev = ev /\ k = Len(q) + 1)
    <3>1. k \in 1 .. Len(r) <=> k \in 1 .. Len(q) \/ k = Len(q) + 1
      BY <1>1
    <3>2. Len(q) + 1 \notin 1 .. Len(q)
      BY <1>1
    <3> QED  BY <1>1, <3>1, <3>2 DEF At
  <2> QED  BY <2>1
<1> QED  BY <1>1, <1>2, <1>3 DEF r

\* A message may be added for those who know of C; C2 are left after it.
Harmless(m, C, C2) ==
    /\ C2 \subseteq C
    /\ m.ev = "PATHFINDER" => m.pf \in C2
    /\ \A j \in C \ C2 : m.ev = "PATHFINDER_GONE" /\ m.pf = j

\* A harmless message does not hide that a pathfinder is gone.
LEMMA InformedPushed ==
    ASSUME NEW q \in Seq(Messages), NEW m \in Messages, NEW C, NEW C2, Harmless(m, C, C2),
           NEW l, Informed(l, q, C), NEW n, n.told = l.told
    PROVE  Informed(n, Append(q, m), C2)
<1> DEFINE r == Append(q, m)
           L == Len(q)
<1>1. /\ L \in Nat /\ Len(r) = L + 1 /\ r[L + 1] = m
      /\ \A k \in 1 .. L : r[k] = q[k] /\ k \in 1 .. Len(r) /\ k < L + 1
      /\ L + 1 \in 1 .. Len(r)
      /\ \A k \in 1 .. Len(r) : k \in 1 .. L \/ k = L + 1
  OBVIOUS
<1> HIDE DEF r, L
<1>2. SUFFICES ASSUME NEW j \in Nat \ C2
               PROVE  /\ j \in n.told => \E h \in 1 .. Len(r) : About(r, h, "PATHFINDER_GONE", j)
                      /\ \A k \in 1 .. Len(r) : About(r, k, "PATHFINDER", j) =>
                           \E h \in 1 .. Len(r) : k < h /\ About(r, h, "PATHFINDER_GONE", j)
  BY DEF Informed, r
<1>3. \A k \in 1 .. Len(r) : About(r, k, "PATHFINDER", j) => k \in 1 .. L
  BY <1>1 DEF Harmless, About
<1>4. CASE j \in C
  BY <1>1, <1>3, <1>4 DEF Harmless, About
<1>5. CASE j \notin C
  <2>1. /\ j \in l.told => \E h \in 1 .. L : About(q, h, "PATHFINDER_GONE", j)
        /\ \A k \in 1 .. L : About(q, k, "PATHFINDER", j) =>
               \E h \in 1 .. L : k < h /\ About(q, h, "PATHFINDER_GONE", j)
    BY <1>5 DEF Informed, L
  <2>2. \A k \in 1 .. L : \A ev : About(r, k, ev, j) <=> About(q, k, ev, j)
    BY <1>1 DEF About
  <2> QED  BY <1>1, <1>3, <2>1, <2>2
<1> QED  BY <1>4, <1>5

\* sendToPathfinder, with the PING that may go first.
LEMMA Sent ==
    ASSUME NEW i \in Nat, NEW l, NEW A \in Seq(Messages), NEW B \in Seq(Messages), NEW C, NEW C2,
           Sound(i, l, A, B, C), l.state = "CONNECTED",
           NEW m \in Messages, m.ev # "CORE_PING", Harmless(m, C, C2), NEW length \in Nat
    PROVE  /\ Sound(i, SendToPathfinder(l, i, m, length), A, B, C2)
           /\ SendToPathfinder(l, i, m, length).state = "CONNECTED"
<1> DEFINE q == A \o l.toA
           b == B \o l.toB
           pings == l.bytes < PingAt /\ l.bytes + length >= PingAt
           ping == Message("CORE_PING", i, l.bytes)
           p == Pinged(l, i, length)
           c == [p EXCEPT !.bytes = @ + length]
           r == FromB(c, m)
<1>1. /\ l \in Links /\ l.bytes \in Nat /\ l.toA \in Seq(Messages) /\ l.toB \in Seq(Messages)
      /\ Begun(l, q) /\ Informed(l, q, C) /\ (i \notin Faulty => OnePing(l, q, b))
      /\ q \in Seq(Messages) /\ b \in Seq(Messages)
  BY DEF Sound, Links
<1>2. ping \in Messages /\ ping.ev = "CORE_PING" /\ ping.count = l.bytes
  <2>1. "CORE_PING" \in Kinds
    BY DEF Kinds
  <2> QED  BY <1>1, <2>1, MessageFacts
<1>3. p = IF pings THEN FromB(l, ping) ELSE l
  BY DEF Pinged
<1>4. SendToPathfinder(l, i, m, length) = r
  BY DEF SendToPathfinder
<1> HIDE DEF ping, q, b, pings
<1>5. /\ p \in Links /\ p.state = l.state /\ p.bytes = l.bytes /\ p.toB = l.toB
      /\ p.running = l.running /\ p.told = l.told
      /\ p.toA = IF pings THEN Append(l.toA, ping) ELSE l.toA
  <2>1. CASE pings
    <3>1. p = FromB(l, ping)
      BY <1>3, <2>1
    <3> HIDE DEF p
    <3> QED  BY <1>1, <1>2, <2>1, <3>1, FromFacts
  <2>2. CASE ~pings
    <3>1. p = l
      BY <1>3, <2>2
    <3> HIDE DEF p
    <3> QED  BY <1>1, <2>2, <3>1
  <2> QED  BY <2>1, <2>2
<1> HIDE DEF p
<1>6. /\ c \in Links /\ c.state = l.state /\ c.bytes = l.bytes + length /\ c.toB = l.toB
      /\ c.running = l.running /\ c.told = l.told /\ c.toA = p.toA
  <2>1. p.bytes + length \in Nat
    BY <1>1, <1>5
  <2>2. c \in Links
    BY <1>5, <2>1 DEF Links
  <2>3. c.state = p.state /\ c.toB = p.toB /\ c.running = p.running /\ c.told = p.told
        /\ c.toA = p.toA
    BY <1>5 DEF Links
  <2>4. c.bytes = p.bytes + length
    BY <1>5 DEF Links
  <2> HIDE DEF c
  <2> QED  BY <1>5, <2>2, <2>3, <2>4
<1> HIDE DEF c
<1>7. /\ r \in Links /\ r.state = l.state /\ r.bytes = l.bytes + length /\ r.toB = l.toB
      /\ r.running = l.running /\ r.told = l.told /\ r.toA = Append(p.toA, m)
  <2>1. /\ r \in Links /\ r.state = c.state /\ r.bytes = c.bytes /\ r.toB = c.toB
        /\ r.running = c.running /\ r.told = c.told /\ r.toA = Append(c.toA, m)
    BY <1>6, FromFacts
  <2> HIDE DEF r
  <2> QED  BY <1>6, <2>1
<1> HIDE DEF r
<1> DEFINE q1 == IF pings THEN Append(q, ping) ELSE q
<1>8. q1 \in Seq(Messages) /\ A \o r.toA = Append(q1, m)
  <2>1. A \o p.toA = q1 /\ p.toA \in Seq(Messages)
    <3>1. A \o Append(l.toA, ping) = Append(A \o l.toA, ping)
      BY <1>1, <1>2, AppendAfter
    <3>2. Append(l.toA, ping) \in Seq(Messages)
      BY <1>1, <1>2
    <3> QED  BY <1>1, <1>5, <3>1, <3>2 DEF q
  <2>3. q1 \in Seq(Messages)
    BY <1>1, <1>2, PushedFacts
  <2> HIDE DEF q1
  <2>2. A \o Append(p.toA, m) = Append(A \o p.toA, m)
    BY <2>1, AppendAfter
  <2> QED  BY <1>7, <2>1, <2>2, <2>3
<1>9. Begun(r, Append(q1, m))
  <2>1. l.running \/ (q # <<>> /\ q[1].ev = "CONNECT")
    BY <1>1 DEF Begun
  <2>2. q # <<>> => q1 # <<>> /\ q1[1] = q[1]
    BY <1>1, <1>2, PushedFacts
  <2> HIDE DEF q1
  <2>3. q # <<>> => Append(q1, m) # <<>> /\ Append(q1, m)[1] = q[1]
    BY <1>8, <2>2, PushedFacts
  <2> QED  BY <1>7, <2>1, <2>3 DEF Begun
<1>10. Informed(r, Append(q1, m), C2)
  <2>1. Informed(l, q1, C)
    <3>1. Harmless(ping, C, C)
      BY <1>2 DEF Harmless
    <3> QED  BY <1>1, <1>2, <3>1, InformedPushed
  <2> HIDE DEF q1
  <2> QED  BY <1>7, <1>8, <2>1, InformedPushed
<1>11. ASSUME i \notin Faulty
       PROVE  OnePing(r, Append(q1, m), b)
  <2>1. OnePing(l, q, b)
    BY <1>1, <1>11
  <2>2. At(Append(q1, m), "CORE_PING") = At(q1, "CORE_PING")
        /\ \A k \in At(q1, "CORE_PING") : Append(q1, m)[k] = q1[k]
    <3> HIDE DEF q1
    <3> QED  BY <1>8, PushedFacts DEF At
  <2>3. CASE ~pings
    <3>1. q1 = q
      BY <2>3
    <3>2. \A n \in Nat : n <= l.bytes => n <= r.bytes
      BY <1>1, <1>7
    <3>3. l.bytes >= PingAt => r.bytes >= PingAt
      BY <1>1, <1>7, ConstantTypes
    <3>4. /\ \A k \in At(q, "CORE_PING") : q[k].count \in Nat
          /\ \A k \in At(b, "PONG") : b[k].count \in Nat
      <4>1. /\ \A k \in 1 .. Len(q) : q[k] \in Messages
            /\ \A k \in 1 .. Len(b) : b[k] \in Messages
        BY <1>1
      <4>2. \A x \in Messages : x.count \in Nat
        BY DEF Messages
      <4> QED  BY <4>1, <4>2 DEF At
    <3>5. r.state # "ERROR"
      BY <1>7
    <3> HIDE DEF q1
    <3>6. \A k \in At(q, "CORE_PING") : q[k].count <= r.bytes /\ r.bytes >= PingAt
      BY <2>1, <3>2, <3>3, <3>4 DEF OnePing
    <3>7. \A k \in At(b, "PONG") : b[k].count <= r.bytes /\ r.bytes >= PingAt
      BY <2>1, <3>2, <3>3, <3>4 DEF OnePing
    <3> QED  BY <2>1, <2>2, <3>1, <3>5, <3>6, <3>7 DEF OnePing
  <2>4. CASE pings
    <3>1. q1 = Append(q, ping)
      BY <2>4
    <3>2. At(q, "CORE_PING") = {} /\ At(b, "PONG") = {}
      BY <1>1, <2>1, <2>4, ConstantTypes DEF OnePing, pings
    <3>3. At(q1, "CORE_PING") = {Len(q) + 1} /\ q1[Len(q) + 1] = ping
      BY <1>1, <1>2, <3>1, <3>2, PushedFacts
    <3>4. ping.count <= r.bytes /\ r.bytes >= PingAt
      BY <1>1, <1>2, <1>7, <2>4, ConstantTypes DEF pings
    <3>5. r.state # "ERROR"
      BY <1>7
    <3> HIDE DEF q1
    <3> DEFINE s == Append(q1, m)
    <3>6. At(s, "CORE_PING") = {Len(q) + 1} /\ s[Len(q) + 1] = ping
      BY <2>2, <3>3
    <3> HIDE DEF s
    <3>7. OnePing(r, s, b)
      BY <3>2, <3>4, <3>5, <3>6 DEF OnePing
    <3> QED  BY <3>7 DEF s
  <2> QED  BY <2>3, <2>4
<1> QED
  <2> HIDE DEF q1
  <2>1. Sound(i, r, A, B, C2)
    BY <1>7, <1>8, <1>9, <1>10, <1>11 DEF Sound, b
  <2> QED  BY <1>4, <1>7, <2>1

\* A message that is not counted, as the answer to PING.
LEMMA Echoed ==
    ASSUME NEW i \in Nat, NEW l, NEW A \in Seq(Messages), NEW B \in Seq(Messages), NEW C,
           Sound(i, l, A, B, C), l.state = "CONNECTED", NEW m \in Messages, m.ev # "CORE_PING",
           Harmless(m, C, C)
    PROVE  Sound(i, FromB(l, m), A, B, C) /\ FromB(l, m).state = "CONNECTED"
<1>1. l \in Links /\ l.bytes \in Nat
  BY DEF Sound, Links
<1>2. [l EXCEPT !.bytes = @ + 0] = l
  <2>1. l.bytes + 0 = l.bytes
    BY <1>1
  <2> QED  BY <1>1, <2>1 DEF Links
<1>3. Pinged(l, i, 0) = l
  BY <1>1, ConstantTypes DEF Pinged
<1>4. SendToPathfinder(l, i, m, 0) = FromB(l, m)
  BY <1>2, <1>3 DEF SendToPathfinder
<1>5. /\ Sound(i, SendToPathfinder(l, i, m, 0), A, B, C)
      /\ SendToPathfinder(l, i, m, 0).state = "CONNECTED"
  BY Sent
<1> QED  BY <1>4, <1>5

\* A run of messages to one pathfinder.
LEMMA SeveralSent ==
    ASSUME NEW i \in Nat, NEW l, NEW A \in Seq(Messages), NEW B \in Seq(Messages), NEW C,
           Sound(i, l, A, B, C), l.state = "CONNECTED", NEW n \in Nat,
           NEW m \in Messages, m.ev # "CORE_PING", Harmless(m, C, C)
    PROVE  /\ Sound(i, SendSeveral(l, i, m, n), A, B, C)
           /\ SendSeveral(l, i, m, n).state = "CONNECTED"
<1> DEFINE S == {x \in Links : Sound(i, x, A, B, C) /\ x.state = "CONNECTED"}
           I == [k \in 0 .. n |-> S]
           G == [k \in 1 .. n |-> [x \in S |-> SendToPathfinder(x, i, m, 1)]]
           Rhs(f) == [k \in 0 .. n |-> IF k = 0 THEN l ELSE SendToPathfinder(f[k - 1], i, m, 1)]
           F == CHOOSE f : f = Rhs(f)
<1>1. SendSeveral(l, i, m, n) = F[n]
  BY DEF SendSeveral
<1>2. l \in S
  BY DEF Sound
<1>3. \A x \in S : SendToPathfinder(x, i, m, 1) \in S
  <2>1. ASSUME NEW x \in S
        PROVE  /\ Sound(i, SendToPathfinder(x, i, m, 1), A, B, C)
               /\ SendToPathfinder(x, i, m, 1).state = "CONNECTED"
    BY Sent
  <2> QED  BY <2>1 DEF Sound
<1> HIDE DEF S
<1>4. \A k \in 1 .. n : k \in 0 .. n /\ k - 1 \in 0 .. n
  OBVIOUS
<1>5. \A k \in 1 .. n : \A x \in I[k - 1] : G[k][x] = SendToPathfinder(x, i, m, 1)
                                          /\ G[k][x] \in I[k]
  BY <1>3, <1>4
<1>6. l \in I[0]
  BY <1>2
<1>7. PICK f : Runs(n, l, G, f) /\ \A k \in 0 .. n : f[k] \in I[k]
  <2> HIDE DEF I, G
  <2> QED  BY <1>5, <1>6, Loop
<1>8. \A k \in 1 .. n : G[k][f[k - 1]] = SendToPathfinder(f[k - 1], i, m, 1)
  BY <1>4, <1>5, <1>7
<1>9. f = Rhs(f)
  <2>1. f = [k \in 0 .. n |-> IF k = 0 THEN l ELSE G[k][f[k - 1]]]
    BY <1>7 DEF Runs
  <2> HIDE DEF G
  <2>2. \A k \in 0 .. n : (IF k = 0 THEN l ELSE G[k][f[k - 1]])
                           = IF k = 0 THEN l ELSE SendToPathfinder(f[k - 1], i, m, 1)
    BY <1>8
  <2> QED  BY <2>1, <2>2
<1>10. F = Rhs(F)
  BY <1>9
<1>11. F[0] = l /\ \A k \in 1 .. n : F[k] = SendToPathfinder(F[k - 1], i, m, 1)
  <2> HIDE DEF F
  <2> QED  BY <1>10
<1>12. \A k \in 1 .. n : F[k - 1] \in I[k - 1] => F[k] \in I[k]
  <2> HIDE DEF F
  <2> QED  BY <1>3, <1>4, <1>11
<1>13. F[n] \in I[n]
  <2> HIDE DEF F, I
  <2>1. \A k \in 0 .. n : F[k] \in I[k]
    BY <1>6, <1>11, <1>12, Induction
  <2> QED  BY <2>1
<1>14. F[n] \in S
  BY <1>13
<1> QED
  <2> HIDE DEF F
  <2> QED  BY <1>1, <1>14 DEF S

\* The rest of a queue.
LEMMA TailFacts ==
    ASSUME NEW q \in Seq(Messages), q # <<>>
    PROVE  /\ Tail(q) \in Seq(Messages) /\ Len(q) \in Nat /\ Len(Tail(q)) = Len(q) - 1
           /\ 1 \in 1 .. Len(q) /\ q[1] \in Messages
           /\ \A k \in 1 .. Len(Tail(q)) : k + 1 \in 1 .. Len(q) /\ Tail(q)[k] = q[k + 1]
           /\ \A h \in 1 .. Len(q) : h # 1 => h - 1 \in 1 .. Len(Tail(q)) /\ q[h] = Tail(q)[h - 1]
           /\ \A ev : \A k \in At(Tail(q), ev) : k \in Nat /\ k + 1 \in At(q, ev) /\ k + 1 # 1
                                            /\ Tail(q)[k] = q[k + 1]
<1> DEFINE r == Tail(q)
<1>1. r \in Seq(Messages) /\ Len(q) \in Nat /\ Len(q) # 0 /\ Len(r) = Len(q) - 1
  OBVIOUS
<1>2. \A k \in 1 .. Len(r) : k + 1 \in 1 .. Len(q) /\ r[k] = q[k + 1]
  BY <1>1
<1>3. 1 \in 1 .. Len(q) /\ q[1] \in Messages
  BY <1>1
<1> HIDE DEF r
<1>4. ASSUME NEW h \in 1 .. Len(q), h # 1
      PROVE  h - 1 \in 1 .. Len(r) /\ q[h] = r[h - 1]
  <2>1. h - 1 \in 1 .. Len(r) /\ (h - 1) + 1 = h
    BY <1>1, <1>4
  <2> QED  BY <1>2, <2>1
<1>5. \A ev : \A k \in At(r, ev) : k \in Nat /\ k + 1 \in At(q, ev) /\ k + 1 # 1 /\ r[k] = q[k + 1]
  BY <1>1, <1>2 DEF At
<1> QED  BY <1>1, <1>2, <1>3, <1>4, <1>5 DEF r

\* Of a queue that has lost its first message, to which the pathfinder has listened.
LEMMA InformedTail ==
    ASSUME NEW q \in Seq(Messages), q # <<>>, NEW C, NEW l, Informed(l, q, C), NEW n,
           \A j \in n.told : \/ j \in l.told /\ ~About(q, 1, "PATHFINDER_GONE", j)
                           \/ About(q, 1, "PATHFINDER", j)
    PROVE  Informed(n, Tail(q), C)
<1> DEFINE r == Tail(q)
<1>1. /\ Len(q) \in Nat /\ Len(r) = Len(q) - 1 /\ 1 \in 1 .. Len(q)
      /\ \A k \in 1 .. Len(r) : k + 1 \in 1 .. Len(q) /\ r[k] = q[k + 1]
      /\ \A h \in 1 .. Len(q) : h # 1 => h - 1 \in 1 .. Len(r) /\ q[h] = r[h - 1]
  BY TailFacts
<1> HIDE DEF r
<1>2. SUFFICES ASSUME NEW j \in Nat \ C
               PROVE  /\ j \in n.told => \E h \in 1 .. Len(r) : About(r, h, "PATHFINDER_GONE", j)
                      /\ \A k \in 1 .. Len(r) : About(r, k, "PATHFINDER", j) =>
                           \E h \in 1 .. Len(r) : k < h /\ About(r, h, "PATHFINDER_GONE", j)
  BY DEF Informed, r
<1>3. /\ j \in l.told => \E h \in 1 .. Len(q) : About(q, h, "PATHFINDER_GONE", j)
      /\ \A k \in 1 .. Len(q) : About(q, k, "PATHFINDER", j) =>
             \E h \in 1 .. Len(q) : k < h /\ About(q, h, "PATHFINDER_GONE", j)
  BY DEF Informed
<1>4. ASSUME j \in n.told PROVE \E h \in 1 .. Len(r) : About(r, h, "PATHFINDER_GONE", j)
  <2>1. \E h \in 1 .. Len(q) : h # 1 /\ About(q, h, "PATHFINDER_GONE", j)
    <3>1. CASE j \in l.told /\ ~About(q, 1, "PATHFINDER_GONE", j)
      BY <1>3, <3>1
    <3>2. CASE About(q, 1, "PATHFINDER", j)
      <4>1. PICK h \in 1 .. Len(q) : 1 < h /\ About(q, h, "PATHFINDER_GONE", j)
        BY <1>1, <1>3, <3>2
      <4> QED  BY <4>1
    <3> QED  BY <1>4, <3>1, <3>2
  <2>2. PICK h \in 1 .. Len(q) : h # 1 /\ About(q, h, "PATHFINDER_GONE", j)
    BY <2>1
  <2>3. h - 1 \in 1 .. Len(r) /\ About(r, h - 1, "PATHFINDER_GONE", j)
    BY <1>1, <2>2 DEF About
  <2> QED  BY <2>3
<1>5. ASSUME NEW k \in 1 .. Len(r), About(r, k, "PATHFINDER", j)
      PROVE  \E h \in 1 .. Len(r) : k < h /\ About(r, h, "PATHFINDER_GONE", j)
  <2>1. k + 1 \in 1 .. Len(q) /\ About(q, k + 1, "PATHFINDER", j)
    BY <1>1, <1>5 DEF About
  <2>2. PICK h \in 1 .. Len(q) : k + 1 < h /\ About(q, h, "PATHFINDER_GONE", j)
    BY <1>3, <2>1
  <2>3. h # 1 /\ k < h - 1
    BY <2>2
  <2>4. h - 1 \in 1 .. Len(r) /\ About(r, h - 1, "PATHFINDER_GONE", j)
    BY <1>1, <2>2, <2>3 DEF About
  <2> QED  BY <2>3, <2>4
<1> QED  BY <1>4, <1>5

\* incomingFromEventIf: the pathfinder takes the first message that is under way to it.
LEMMA Taken ==
    ASSUME NEW i \in Nat, NEW l, NEW A \in Seq(Messages), NEW B \in Seq(Messages), NEW C,
           Sound(i, l, A, B, C), A # <<>>
    PROVE  /\ Sound(i, IncomingFromEventIf(l, Head(A)), Tail(A), B, C)
           /\ IncomingFromEventIf(l, Head(A)).state = l.state
           /\ l.running \/ Head(A).ev = "CONNECT"
<1> DEFINE q == A \o l.toA
           b == B \o l.toB
           m == q[1]
           n == IncomingFromEventIf(l, m)
           pong == [m EXCEPT !.ev = "PONG"]
<1>1. /\ l \in Links /\ l.toA \in Seq(Messages) /\ l.toB \in Seq(Messages)
      /\ q \in Seq(Messages) /\ b \in Seq(Messages)
      /\ Begun(l, q) /\ (l.state = "CONNECTED" => Informed(l, q, C))
      /\ (i \notin Faulty => OnePing(l, q, b))
  BY DEF Sound, Links
<1>2. q # <<>> /\ m = Head(A) /\ Tail(A) \o l.toA = Tail(q)
  BY <1>1, TailBefore
<1> HIDE DEF q, b
<1>3. m \in Messages
  BY <1>1, <1>2, TailFacts
<1>4. l.running \/ m.ev = "CONNECT"
  BY <1>1, <1>2 DEF Begun
<1> HIDE DEF m
<1>5. pong \in Messages /\ pong.ev = "PONG" /\ pong.count = m.count
  BY <1>3 DEF Messages, Kinds
<1> HIDE DEF pong
<1>6. /\ n \in Links /\ n.state = l.state /\ n.bytes = l.bytes /\ n.toA = l.toA /\ n.running
      /\ n.toB = (IF m.ev = "CORE_PING" THEN Append(l.toB, pong) ELSE l.toB)
      /\ \A j \in n.told : \/ j \in l.told /\ ~About(q, 1, "PATHFINDER_GONE", j)
                          \/ About(q, 1, "PATHFINDER", j)
  <2>0. m = q[1] /\ m.pf \in Nat /\ l.told \in SUBSET Nat
    BY <1>1, <1>3 DEF m, Links, Messages
  <2>1. CASE m.ev = "CONNECT"
    <3>1. n = [l EXCEPT !.running = TRUE]
      BY <2>1 DEF IncomingFromEventIf
    <3> QED  BY <1>1, <2>0, <2>1, <3>1 DEF Links, About
  <2>2. CASE m.ev = "PATHFINDER"
    <3> DEFINE told == l.told \cup {m.pf}
    <3>0. told \in SUBSET Nat
      BY <2>0
    <3>1. n = [l EXCEPT !.told = told]
      BY <2>2 DEF IncomingFromEventIf
    <3> HIDE DEF told
    <3>2. n.told = told
      BY <1>1, <3>1 DEF Links
    <3>3. n \in Links /\ n.state = l.state /\ n.bytes = l.bytes /\ n.toA = l.toA /\ n.toB = l.toB
      BY <1>1, <3>0, <3>1 DEF Links
    <3>4. n.running
      BY <1>1, <1>4, <2>2, <3>1 DEF Links
    <3> HIDE DEF n
    <3> QED  BY <2>0, <2>2, <3>2, <3>3, <3>4 DEF About, told
  <2>3. CASE m.ev = "PATHFINDER_GONE"
    <3> DEFINE told == l.told \ {m.pf}
    <3>0. told \in SUBSET Nat
      BY <2>0
    <3>1. n = [l EXCEPT !.told = told]
      BY <2>3 DEF IncomingFromEventIf
    <3> HIDE DEF told
    <3>2. n.told = told
      BY <1>1, <3>1 DEF Links
    <3>3. n \in Links /\ n.state = l.state /\ n.bytes = l.bytes /\ n.toA = l.toA /\ n.toB = l.toB
      BY <1>1, <3>0, <3>1 DEF Links
    <3>4. n.running
      BY <1>1, <1>4, <2>3, <3>1 DEF Links
    <3> HIDE DEF n
    <3> QED  BY <2>0, <2>3, <3>2, <3>3, <3>4 DEF About, told
  <2>4. CASE m.ev = "CORE_PING"
    <3>1. n = FromA(l, pong)
      BY <2>4 DEF IncomingFromEventIf, pong
    <3> HIDE DEF n
    <3> QED  BY <1>1, <1>4, <1>5, <2>0, <2>4, <3>1, FromFacts DEF About
  <2>5. CASE m.ev \notin {"CONNECT", "PATHFINDER", "PATHFINDER_GONE", "CORE_PING"}
    <3>1. n = l
      BY <2>5 DEF IncomingFromEventIf
    <3> HIDE DEF n
    <3> QED  BY <1>1, <1>4, <2>0, <2>5, <3>1 DEF About
  <2> QED  BY <2>1, <2>2, <2>3, <2>4, <2>5
<1> HIDE DEF n
<1>7. Begun(n, Tail(q))
  BY <1>1, <1>2, <1>6 DEF Begun
<1>8. n.state = "CONNECTED" => Informed(n, Tail(q), C)
  BY <1>1, <1>2, <1>6, InformedTail
<1>9. ASSUME i \notin Faulty
      PROVE  OnePing(n, Tail(q), B \o n.toB)
  <2>1. OnePing(l, q, b)
    BY <1>1, <1>9
  <2>2. \A k \in At(Tail(q), "CORE_PING") : k \in Nat /\ k + 1 \in At(q, "CORE_PING") /\ k + 1 # 1
                                          /\ Tail(q)[k] = q[k + 1]
    BY <1>1, <1>2, TailFacts
  <2>3. CASE m.ev = "CORE_PING"
    <3>1. 1 \in At(q, "CORE_PING")
      BY <1>1, <1>2, <2>3, TailFacts DEF At, m
    <3>2. At(Tail(q), "CORE_PING") = {} /\ At(b, "PONG") = {}
      BY <2>1, <2>2, <3>1 DEF OnePing
    <3>3. B \o n.toB = Append(b, pong)
      <4>1. n.toB = Append(l.toB, pong)
        BY <1>6, <2>3
      <4>2. B \o Append(l.toB, pong) = Append(B \o l.toB, pong)
        BY <1>1, <1>5, AppendAfter
      <4> QED  BY <4>1, <4>2 DEF b
    <3> DEFINE c == Append(b, pong)
    <3>4. At(c, "PONG") = {Len(b) + 1} /\ c[Len(b) + 1] = pong
      BY <1>1, <1>5, <3>2, PushedFacts
    <3>5. pong.count <= l.bytes /\ l.bytes >= PingAt
      BY <1>5, <2>1, <3>1 DEF OnePing, m
    <3>6. n.state # "ERROR"
      BY <1>6, <2>1 DEF OnePing
    <3> HIDE DEF c
    <3>7. OnePing(n, Tail(q), c)
      BY <1>6, <3>2, <3>4, <3>5, <3>6 DEF OnePing
    <3> QED  BY <3>3, <3>7 DEF c
  <2>4. CASE m.ev # "CORE_PING"
    <3>1. B \o n.toB = b
      BY <1>6, <2>4 DEF b
    <3>2. \A k, h \in At(Tail(q), "CORE_PING") : k = h
      <4> SUFFICES ASSUME NEW k \in At(Tail(q), "CORE_PING"), NEW h \in At(Tail(q), "CORE_PING")
                   PROVE  k = h
        OBVIOUS
      <4>1. k + 1 = h + 1
        BY <2>1, <2>2 DEF OnePing
      <4> QED  BY <2>2, <4>1
    <3>3. At(q, "CORE_PING") = {} => At(Tail(q), "CORE_PING") = {}
      BY <2>2
    <3>4. \A k \in At(Tail(q), "CORE_PING") : Tail(q)[k].count <= n.bytes /\ n.bytes >= PingAt
      BY <1>6, <2>1, <2>2 DEF OnePing
    <3> QED  BY <1>6, <2>1, <3>1, <3>2, <3>3, <3>4 DEF OnePing
  <2> QED  BY <2>3, <2>4
<1>10. Tail(A) \o n.toA = Tail(q)
  BY <1>2, <1>6
<1>11. Sound(i, n, Tail(A), B, C)
  BY <1>6, <1>7, <1>8, <1>9, <1>10 DEF Sound
<1> QED  BY <1>2, <1>4, <1>6, <1>11 DEF n

\* The core takes the first message that is under way to it.
LEMMA TakenByCore ==
    ASSUME NEW i \in Nat, NEW l, NEW A \in Seq(Messages), NEW B \in Seq(Messages), NEW C,
           Sound(i, l, A, B, C), B # <<>>
    PROVE  Sound(i, l, A, Tail(B), C)
<1> DEFINE q == A \o l.toA
           b == B \o l.toB
<1>1. l \in Links /\ l.toB \in Seq(Messages) /\ b \in Seq(Messages)
  BY DEF Sound, Links
<1>2. b # <<>> /\ Tail(B) \o l.toB = Tail(b)
  BY <1>1, TailBefore
<1>3. ASSUME i \notin Faulty PROVE OnePing(l, q, Tail(b))
  <2>1. OnePing(l, q, b)
    BY <1>3 DEF Sound
  <2> HIDE DEF q, b
  <2>2. \A k \in At(Tail(b), "PONG") : k \in Nat /\ k + 1 \in At(b, "PONG")
                                     /\ Tail(b)[k] = b[k + 1]
    <3>1. b \in Seq(Messages) /\ b # <<>>
      BY <1>1, <1>2
    <3>2. \A k \in At(Tail(b), "PONG") : k \in Nat /\ k + 1 \in At(b, "PONG") /\ k + 1 # 1
                                       /\ Tail(b)[k] = b[k + 1]
      BY <3>1, TailFacts
    <3> QED  BY <3>2
  <2>3. \A k, h \in At(Tail(b), "PONG") : k = h
    <3> SUFFICES ASSUME NEW k \in At(Tail(b), "PONG"), NEW h \in At(Tail(b), "PONG")
                 PROVE  k = h
      OBVIOUS
    <3>1. k + 1 = h + 1
      BY <2>1, <2>2 DEF OnePing
    <3> QED  BY <2>2, <3>1
  <2> QED  BY <2>1, <2>2, <2>3 DEF OnePing
<1> QED  BY <1>2, <1>3 DEF Sound

\* More pathfinders connect; who is connected does not matter to a link that is not.
LEMMA OtherConnected ==
    ASSUME NEW i, NEW l, NEW A, NEW B, NEW C, Sound(i, l, A, B, C), NEW C2,
           C \subseteq C2 \/ l.state # "CONNECTED"
    PROVE  Sound(i, l, A, B, C2)
  BY DEF Sound, Informed

\* sendToPathfinder to one of all.
LEMMA SentToAll ==
    ASSUME NEW i \in Nat, NEW l, NEW A \in Seq(Messages), NEW B \in Seq(Messages), NEW C, NEW C2,
           Sound(i, l, A, B, C), NEW m \in Messages, m.ev # "CORE_PING", Harmless(m, C, C2),
           NEW length \in Nat
    PROVE  /\ Sound(i, SendToPathfinder(l, i, m, length), A, B, C2)
           /\ SendToPathfinder(l, i, m, length).state = l.state
<1>1. CASE l.state = "CONNECTED"
  <2>1. /\ Sound(i, SendToPathfinder(l, i, m, length), A, B, C2)
        /\ SendToPathfinder(l, i, m, length).state = "CONNECTED"
    BY <1>1, Sent
  <2> QED  BY <1>1, <2>1
<1>2. CASE l.state # "CONNECTED"
  <2>1. SendToPathfinder(l, i, m, length) = l
    BY <1>2 DEF SendToPathfinder
  <2> QED  BY <1>2, <2>1, OtherConnected
<1> QED  BY <1>1, <1>2

\* CONNECT.
LEMMA ConnectTaken ==
    ASSUME NEW i \in Nat, NEW l, NEW A \in Seq(Messages), NEW B \in Seq(Messages), NEW C,
           Sound(i, l, A, B, C), l.state \in {"CONNECTED", "DISCONNECTED"}
    PROVE  LET r == SendToPathfinder([l EXCEPT !.state = "CONNECTED"], i, Message("CONNECT", i, 0), 1)
           IN  Sound(i, r, A, B, C \cup {i}) /\ r.state = "CONNECTED"
<1> DEFINE n == [l EXCEPT !.state = "CONNECTED"]
           m == Message("CONNECT", i, 0)
           r == SendToPathfinder(n, i, m, 1)
           q == A \o l.toA
           b == B \o l.toB
<1>1. /\ l \in Links /\ l.toA \in Seq(Messages) /\ l.toB \in Seq(Messages)
      /\ q \in Seq(Messages) /\ b \in Seq(Messages)
  BY DEF Sound, Links
<1>2. m \in Messages /\ m.ev = "CONNECT"
  <2>1. "CONNECT" \in Kinds
    BY DEF Kinds
  <2> QED  BY <2>1, MessageFacts
<1>3. CASE l.state = "CONNECTED"
  <2>1. n = l
    BY <1>1, <1>3 DEF Links
  <2>2. Harmless(m, C, C) /\ m.ev # "CORE_PING"
    BY <1>2 DEF Harmless
  <2> HIDE DEF m
  <2>3. Sound(i, SendToPathfinder(l, i, m, 1), A, B, C)
        /\ SendToPathfinder(l, i, m, 1).state = "CONNECTED"
    BY <1>2, <1>3, <2>2, Sent
  <2> QED  BY <2>1, <2>3, OtherConnected DEF m
<1>4. CASE l.state = "DISCONNECTED"
  <2>1. q = <<>> /\ l.bytes = 0 /\ ~l.running /\ l.told = {}
    BY <1>4 DEF Sound, Begun
  <2>2. /\ n \in Links /\ n.state = "CONNECTED" /\ n.bytes = l.bytes /\ n.toA = l.toA /\ n.toB = l.toB
        /\ n.running = l.running /\ n.told = l.told
    BY <1>1 DEF Links
  <2> HIDE DEF n, m
  <2>3. Pinged(n, i, 1) = n
    BY <2>1, <2>2, ConstantTypes DEF Pinged
  <2> DEFINE d == n.bytes + 1
             c == [n EXCEPT !.bytes = d]
  <2>4. r = FromB(c, m)
    BY <2>2, <2>3 DEF SendToPathfinder
  <2>5. c \in Links /\ c.state = "CONNECTED" /\ c.toA = l.toA /\ c.toB = l.toB
        /\ c.told = l.told
    <3>1. d \in Nat
      BY <2>1, <2>2
    <3> HIDE DEF d
    <3>2. c \in Links
      BY <2>2, <3>1 DEF Links
    <3>3. c.state = n.state /\ c.toA = n.toA /\ c.toB = n.toB /\ c.told = n.told
      BY <2>2 DEF Links
    <3> HIDE DEF c
    <3> QED  BY <2>2, <3>2, <3>3
  <2> HIDE DEF c
  <2>6. /\ r \in Links /\ r.state = "CONNECTED" /\ r.toA = Append(l.toA, m) /\ r.toB = l.toB
        /\ r.told = {}
    <3> DEFINE f == FromB(c, m)
    <3>1. /\ f \in Links /\ f.state = c.state /\ f.toA = Append(c.toA, m) /\ f.toB = c.toB
          /\ f.told = c.told
      BY <1>2, <2>5, FromFacts
    <3>2. r = f
      BY <2>4
    <3> HIDE DEF f, r
    <3> QED  BY <2>1, <2>5, <3>1, <3>2
  <2> HIDE DEF r
  <2>7. A \o r.toA = Append(q, m) /\ B \o r.toB = b
    <3>1. A \o Append(l.toA, m) = Append(A \o l.toA, m)
      BY <1>1, <1>2, AppendAfter
    <3> QED  BY <2>6, <3>1
  <2> DEFINE s == Append(q, m)
  <2>8. s # <<>> /\ Len(s) = 1 /\ s[1] = m
    BY <1>2, <2>1
  <2> HIDE DEF s
  <2>9. Begun(r, s)
    BY <1>2, <2>6, <2>8 DEF Begun
  <2>10. Informed(r, s, C \cup {i})
    BY <1>2, <2>6, <2>8 DEF Informed, About
  <2>11. ASSUME i \notin Faulty PROVE OnePing(r, s, b)
    <3>1. OnePing(l, q, b)
      BY <2>11 DEF Sound
    <3>2. At(b, "PONG") = {}
      BY <2>1, <3>1, ConstantTypes DEF OnePing
    <3>3. At(s, "CORE_PING") = {}
      BY <1>2, <2>8 DEF At
    <3> QED  BY <2>6, <3>2, <3>3 DEF OnePing
  <2> QED  BY <2>6, <2>7, <2>9, <2>10, <2>11 DEF Sound, s, r, n, m
<1> QED  BY <1>3, <1>4

\* PONG: of an honest pathfinder it never takes off more than was counted.
LEMMA PongTaken ==
    ASSUME NEW i \in Nat, NEW l, NEW A \in Seq(Messages), NEW B \in Seq(Messages), NEW C,
           Sound(i, l, A, B, C), B # <<>>, l.state = "CONNECTED", Head(B).ev = "PONG"
    PROVE  /\ i \notin Faulty => Head(B).count <= l.bytes
           /\ Head(B).count <= l.bytes =>
                 LET n == [l EXCEPT !.bytes = @ - Head(B).count]
                 IN  Sound(i, n, A, Tail(B), C) /\ n.state = "CONNECTED"
<1> DEFINE q == A \o l.toA
           b == B \o l.toB
           m == Head(B)
           n == [l EXCEPT !.bytes = @ - m.count]
<1>1. /\ l \in Links /\ l.toB \in Seq(Messages) /\ b \in Seq(Messages) /\ l.bytes \in Nat
      /\ Begun(l, q) /\ Informed(l, q, C) /\ (i \notin Faulty => OnePing(l, q, b))
  BY DEF Sound, Links
<1>2. b # <<>> /\ Tail(B) \o l.toB = Tail(b) /\ b[1] = m
  BY <1>1, TailBefore
<1>3. m \in Messages /\ m.ev = "PONG" /\ m.count \in Nat
  BY <1>1, <1>2, TailFacts DEF Messages
<1> HIDE DEF q, b, m
<1>4. 1 \in At(b, "PONG")
  BY <1>1, <1>2, <1>3, TailFacts DEF At
<1>5. i \notin Faulty => m.count <= l.bytes
  BY <1>1, <1>2, <1>4 DEF OnePing
<1>6. ASSUME m.count <= l.bytes
      PROVE  Sound(i, n, A, Tail(B), C) /\ n.state = "CONNECTED"
  <2>1. l.bytes - m.count \in Nat
    BY <1>1, <1>3, <1>6
  <2>2. /\ n \in Links /\ n.state = l.state /\ n.toA = l.toA /\ n.toB = l.toB
        /\ n.running = l.running /\ n.told = l.told
    BY <1>1, <2>1 DEF Links
  <2> HIDE DEF n
  <2>3. Begun(n, q) /\ Informed(n, q, C)
    BY <1>1, <2>2 DEF Begun, Informed
  <2>4. ASSUME i \notin Faulty PROVE OnePing(n, q, Tail(b))
    <3>1. At(q, "CORE_PING") = {}
      BY <1>1, <1>4, <2>4 DEF OnePing
    <3>2. At(Tail(b), "PONG") = {}
      <4>1. \A k \in At(Tail(b), "PONG") : k + 1 \in At(b, "PONG") /\ k + 1 # 1
        BY <1>1, <1>2, TailFacts
      <4>2. \A k \in At(b, "PONG") : k = 1
        BY <1>1, <1>4, <2>4 DEF OnePing
      <4> QED  BY <4>1, <4>2
    <3> QED  BY <2>2, <3>1, <3>2 DEF OnePing
  <2> QED  BY <1>2, <2>2, <2>3, <2>4 DEF Sound, q
<1> QED  BY <1>5, <1>6 DEF m

\* A pathfinder that has failed.
LEMMA FailureTaken ==
    ASSUME NEW i \in Faulty, NEW l, NEW A, NEW B, NEW C, Sound(i, l, A, B, C),
           l.state = "CONNECTED", NEW C2
    PROVE  LET n == [l EXCEPT !.state = "ERROR"]
           IN  Sound(i, n, A, B, C2) /\ n.state = "ERROR"
<1> DEFINE n == [l EXCEPT !.state = "ERROR"]
<1>1. l \in Links /\ Begun(l, A \o l.toA)
  BY DEF Sound
<1>2. n \in Links /\ n.state = "ERROR" /\ n.toA = l.toA /\ n.running = l.running
  BY <1>1 DEF Links
<1> HIDE DEF n
<1>3. Sound(i, n, A, B, C2)
  BY <1>1, <1>2 DEF Sound, Begun
<1> QED  BY <1>2, <1>3 DEF n

-----------------------------------------------------------------------------
\* incomingFromEventIf, as to what the pathfinder has been told.
LEMMA ToldFacts ==
    ASSUME NEW x \in Links, NEW m \in Messages
    PROVE  LET y == IncomingFromEventIf(x, m)
           IN  /\ y \in Links
               /\ \A j \in y.told : \/ j \in x.told /\ ~(m.ev = "PATHFINDER_GONE" /\ m.pf = j)
                                    \/ m.ev = "PATHFINDER" /\ m.pf = j
<1> DEFINE y == IncomingFromEventIf(x, m)
<1>0. m.pf \in Nat /\ x.told \in SUBSET Nat
  BY DEF Links, Messages
<1>1. CASE m.ev = "CONNECT"
  <2>1. y = [x EXCEPT !.running = TRUE]
    BY <1>1 DEF IncomingFromEventIf
  <2> QED  BY <1>1, <2>1 DEF Links
<1>2. CASE m.ev \in {"PATHFINDER", "PATHFINDER_GONE"}
  <2> DEFINE told == IF m.ev = "PATHFINDER" THEN x.told \cup {m.pf} ELSE x.told \ {m.pf}
  <2>1. y = [x EXCEPT !.told = told]
    BY <1>2 DEF IncomingFromEventIf
  <2>2. told \in SUBSET Nat
    BY <1>0
  <2> HIDE DEF told
  <2>3. y \in Links /\ y.told = told
    BY <2>1, <2>2 DEF Links
  <2> HIDE DEF y
  <2> QED  BY <1>2, <2>3 DEF told, y
<1>3. CASE m.ev = "CORE_PING"
  <2> DEFINE pong == [m EXCEPT !.ev = "PONG"]
  <2>1. y = FromA(x, pong)
    BY <1>3 DEF IncomingFromEventIf
  <2>2. pong \in Messages
    BY DEF Messages, Kinds
  <2> HIDE DEF pong
  <2>3. y \in Links /\ y.told = x.told
    BY <2>1, <2>2, FromFacts
  <2> QED  BY <1>3, <2>3
<1>4. CASE m.ev \notin {"CONNECT", "PATHFINDER", "PATHFINDER_GONE", "CORE_PING"}
  <2>1. y = x
    BY <1>4 DEF IncomingFromEventIf
  <2> QED  BY <1>4, <2>1
<1> QED  BY <1>1, <1>2, <1>3, <1>4

\* What a pathfinder knows of once it has taken all that is under way to it.
LEMMA KnowsInTheEnd ==
    ASSUME NEW l \in Links, NEW q \in Seq(Messages), NEW C, Informed(l, q, C)
    PROVE  LET N == Len(q)
               F == CHOOSE f : f = [k \in 0 .. N |->
                        IF k = 0 THEN l ELSE IncomingFromEventIf(f[k - 1], q[k])]
           IN  \A j \in F[N].told : j \in C
<1> DEFINE N == Len(q)
           Rhs(f) == [k \in 0 .. N |-> IF k = 0 THEN l ELSE IncomingFromEventIf(f[k - 1], q[k])]
           F == CHOOSE f : f = Rhs(f)
           Safe(x, k) == \A j \in Nat \ C : j \in x.told =>
                             \E h \in 1 .. N : k < h /\ About(q, h, "PATHFINDER_GONE", j)
           I == [k \in 0 .. N |-> {x \in Links : Safe(x, k)}]
           G == [k \in 1 .. N |-> [x \in Links |-> IncomingFromEventIf(x, q[k])]]
<1>1. N \in Nat /\ (\A k \in 1 .. N : q[k] \in Messages) /\ N \in 0 .. N /\ 0 \in 0 .. N
      /\ \A k \in 1 .. N : k \in 0 .. N /\ k - 1 \in 0 .. N
  OBVIOUS
<1> HIDE DEF N
<1>2. ASSUME NEW x \in Links, NEW k \in 1 .. N
      PROVE  LET y == IncomingFromEventIf(x, q[k])
             IN  /\ y \in Links
                 /\ \A j \in y.told : \/ j \in x.told /\ ~About(q, k, "PATHFINDER_GONE", j)
                                      \/ About(q, k, "PATHFINDER", j)
  BY <1>1, ToldFacts DEF About
<1>3. \A x \in Links : x.told \in SUBSET Nat
  BY DEF Links
<1>4. ASSUME NEW k \in 1 .. N, NEW x \in I[k - 1]
      PROVE  IncomingFromEventIf(x, q[k]) \in I[k]
  <2> DEFINE y == IncomingFromEventIf(x, q[k])
  <2>1. x \in Links /\ Safe(x, k - 1) /\ k \in Nat
    BY <1>1, <1>4
  <2>2. /\ y \in Links
        /\ \A j \in y.told : \/ j \in x.told /\ ~About(q, k, "PATHFINDER_GONE", j)
                             \/ About(q, k, "PATHFINDER", j)
    BY <1>2, <2>1
  <2> HIDE DEF y
  <2>3. ASSUME NEW j \in Nat \ C, j \in y.told
        PROVE  \E h \in 1 .. N : k < h /\ About(q, h, "PATHFINDER_GONE", j)
    <3>1. CASE About(q, k, "PATHFINDER", j)
      BY <3>1 DEF Informed, N
    <3>2. CASE j \in x.told /\ ~About(q, k, "PATHFINDER_GONE", j)
      <4>1. PICK h \in 1 .. N : k - 1 < h /\ About(q, h, "PATHFINDER_GONE", j)
        BY <2>1, <3>2
      <4>2. h # k /\ k - 1 < h /\ h \in Nat
        BY <1>1, <3>2, <4>1
      <4>3. k < h
        BY <2>1, <4>2
      <4> QED  BY <4>1, <4>3
    <3> QED  BY <2>2, <2>3, <3>1, <3>2
  <2>4. Safe(y, k)
    BY <2>3
  <2> HIDE DEF Safe
  <2>5. y \in I[k]
    BY <1>1, <2>2, <2>4
  <2> QED  BY <2>5 DEF y
<1>5. l \in I[0]
  <2>1. Safe(l, 0)
    <3> SUFFICES ASSUME NEW j \in Nat \ C, j \in l.told
                 PROVE  \E h \in 1 .. N : 0 < h /\ About(q, h, "PATHFINDER_GONE", j)
      OBVIOUS
    <3>1. PICK h \in 1 .. N : About(q, h, "PATHFINDER_GONE", j)
      BY DEF Informed, N
    <3>2. 0 < h
      BY <1>1
    <3> QED  BY <3>1, <3>2
  <2> HIDE DEF Safe
  <2> QED  BY <1>1, <2>1
<1>6. \A k \in 1 .. N : \A x \in I[k - 1] : G[k][x] = IncomingFromEventIf(x, q[k])
                                          /\ G[k][x] \in I[k]
  <2>1. \A k \in 1 .. N : \A x \in I[k - 1] : x \in Links
    <3> HIDE DEF Safe
    <3> QED  BY <1>1
  <2> HIDE DEF I
  <2> QED  BY <1>4, <2>1
<1>7. F[0] = l /\ \A k \in 1 .. N : F[k] = IncomingFromEventIf(F[k - 1], q[k])
  <2>1. PICK f : Runs(N, l, G, f) /\ \A k \in 0 .. N : f[k] \in I[k]
    <3> HIDE DEF I, G
    <3> QED  BY <1>1, <1>5, <1>6, Loop
  <2>2. \A k \in 1 .. N : G[k][f[k - 1]] = IncomingFromEventIf(f[k - 1], q[k])
    <3> HIDE DEF I, G
    <3> QED  BY <1>1, <1>6, <2>1
  <2>3. f = [k \in 0 .. N |-> IF k = 0 THEN l ELSE G[k][f[k - 1]]]
    BY <2>1 DEF Runs
  <2> HIDE DEF I, G
  <2>4. \A k \in 0 .. N : (IF k = 0 THEN l ELSE G[k][f[k - 1]])
                           = IF k = 0 THEN l ELSE IncomingFromEventIf(f[k - 1], q[k])
    BY <1>1, <2>2
  <2>5. f = Rhs(f)
    BY <2>3, <2>4
  <2>6. F = Rhs(F)
    BY <2>5
  <2> HIDE DEF F
  <2> QED  BY <1>1, <2>6
<1>8. F[N] \in I[N]
  <2>1. \A k \in 1 .. N : F[k - 1] \in I[k - 1] => F[k] \in I[k]
    <3> HIDE DEF F, I
    <3> QED  BY <1>4, <1>7
  <2>2. \A k \in 0 .. N : F[k] \in I[k]
    <3> HIDE DEF F, I
    <3> QED  BY <1>1, <1>5, <1>7, <2>1, Induction
  <2> HIDE DEF F, I
  <2> QED  BY <1>1, <2>2
<1>9. F[N] \in Links /\ Safe(F[N], N)
  <2> HIDE DEF F, Safe
  <2> QED  BY <1>1, <1>8
<1>10. ASSUME NEW j \in F[N].told PROVE j \in C
  <2> HIDE DEF F
  <2>1. j \in Nat
    BY <1>3, <1>9
  <2>2. \A h \in 1 .. N : ~(N < h)
    BY <1>1
  <2> QED  BY <1>9, <2>1, <2>2
<1> QED  BY <1>10 DEF N

\* What a cycle has left of the messages of i.
LeftA(c, i) == IF c.of = i THEN c.toA ELSE <<>>
LeftB(c, i) == IF c.of = i THEN c.toB ELSE <<>>

Cycles == [of : Nat, toA : Seq(Messages), toB : Seq(Messages)]

CycleOK(c) == c \in Cycles /\ (c = NoCycle \/ c.of \in 1 .. Len(link))

SoundLinks(links, c, C) ==
    \A i \in 1 .. Len(link) : Sound(i, links[i], LeftA(c, i), LeftB(c, i), C)

\* The inductive invariant.
Inductive == /\ link \in Seq(Links) /\ ConnectedWhenAnswered
             /\ CycleOK(cycle) /\ SoundLinks(link, cycle, Connected)

\* What a cycle has left is a queue.
LEMMA LeftTypes ==
    ASSUME NEW c \in Cycles, NEW i
    PROVE  LeftA(c, i) \in Seq(Messages) /\ LeftB(c, i) \in Seq(Messages)
  BY DEF LeftA, LeftB, Cycles

\* The links after a step in which none is added.
LEMMA SameLinks ==
    ASSUME Inductive, NEW links, link' = links, DOMAIN links = 1 .. Len(link),
           links = [i \in 1 .. Len(link) |-> links[i]], ConnectedWhenAnswered', CycleOK(cycle'),
           SoundLinks(links, cycle', {i \in 1 .. Len(link) : links[i].state = "CONNECTED"})
    PROVE  Inductive'
<1>1. Len(link) \in Nat
  BY DEF Inductive
<1>2. \A i \in 1 .. Len(link) : links[i] \in Links
  BY DEF SoundLinks, Sound
<1>3. links \in Seq(Links) /\ Len(links) = Len(link)
  BY <1>1, <1>2
<1>4. Connected' = {i \in 1 .. Len(link) : links[i].state = "CONNECTED"}
  BY DEF Connected
<1> QED  BY <1>3, <1>4 DEF Inductive, SoundLinks, CycleOK

\* One link changes, and who is connected does not.
LEMMA OneLink ==
    ASSUME Inductive, NEW i \in 1 .. Len(link), NEW n, link' = [link EXCEPT ![i] = n],
           n.state = link[i].state, ConnectedWhenAnswered', CycleOK(cycle'),
           Sound(i, n, LeftA(cycle', i), LeftB(cycle', i), Connected),
           \A j \in 1 .. Len(link) : j # i => /\ LeftA(cycle', j) = LeftA(cycle, j)
                                             /\ LeftB(cycle', j) = LeftB(cycle, j)
    PROVE  Inductive'
<1> DEFINE links == [link EXCEPT ![i] = n]
<1>1. DOMAIN link = 1 .. Len(link) /\ link = [j \in 1 .. Len(link) |-> link[j]]
  BY DEF Inductive
<1>2. /\ DOMAIN links = 1 .. Len(link) /\ links = [j \in 1 .. Len(link) |-> links[j]]
      /\ \A j \in 1 .. Len(link) : links[j] = IF j = i THEN n ELSE link[j]
  BY <1>1
<1> HIDE DEF links
<1>3. {j \in 1 .. Len(link) : links[j].state = "CONNECTED"} = Connected
  BY <1>1, <1>2 DEF Connected
<1>4. SoundLinks(links, cycle', Connected)
  BY <1>2 DEF Inductive, SoundLinks
<1> QED  BY <1>2, <1>3, <1>4, SameLinks DEF links

\* The same for each of the links.
LEMMA SentToEach ==
    ASSUME NEW L \in Nat, NEW links, NEW c \in Cycles, NEW C, NEW C2, NEW m \in Messages,
           m.ev # "CORE_PING", Harmless(m, C, C2), NEW length \in Nat,
           \A i \in 1 .. L : Sound(i, links[i], LeftA(c, i), LeftB(c, i), C)
    PROVE  \A i \in 1 .. L :
               /\ Sound(i, SendToPathfinder(links[i], i, m, length), LeftA(c, i), LeftB(c, i), C2)
               /\ SendToPathfinder(links[i], i, m, length).state = links[i].state
<1> SUFFICES ASSUME NEW i \in 1 .. L
             PROVE  /\ Sound(i, SendToPathfinder(links[i], i, m, length), LeftA(c, i), LeftB(c, i), C2)
                    /\ SendToPathfinder(links[i], i, m, length).state = links[i].state
  OBVIOUS
<1>1. LeftA(c, i) \in Seq(Messages) /\ LeftB(c, i) \in Seq(Messages) /\ i \in Nat
  BY LeftTypes
<1>2. PICK j \in Nat, A \in Seq(Messages), B \in Seq(Messages) :
          j = i /\ A = LeftA(c, i) /\ B = LeftB(c, i)
  BY <1>1
<1>3. PICK l : l = links[i]
  OBVIOUS
<1>4. Sound(j, l, A, B, C)
  BY <1>2, <1>3
<1>5. Sound(j, SendToPathfinder(l, j, m, length), A, B, C2)
  BY <1>4, SentToAll
<1>6. SendToPathfinder(l, j, m, length).state = l.state
  BY <1>4, <1>5, SentToAll
<1> QED  BY <1>2, <1>3, <1>5, <1>6

\* A message goes to all, while the first of the messages from one may be taken.
LEMMA AllLinks ==
    ASSUME Inductive, NEW links, DOMAIN links = 1 .. Len(link), NEW m \in Messages,
           m.ev # "CORE_PING", NEW length \in Nat, link' = SendToAll(links, m, length),
           ConnectedWhenAnswered', CycleOK(cycle'), NEW C, SoundLinks(links, cycle', C),
           Harmless(m, C, {i \in 1 .. Len(link) : links[i].state = "CONNECTED"})
    PROVE  Inductive'
<1> DEFINE new == SendToAll(links, m, length)
           C2 == {i \in 1 .. Len(link) : links[i].state = "CONNECTED"}
<1>1. /\ DOMAIN new = 1 .. Len(link) /\ new = [i \in 1 .. Len(link) |-> new[i]]
      /\ \A i \in 1 .. Len(link) : new[i] = SendToPathfinder(links[i], i, m, length)
  BY DEF SendToAll
<1>0. Harmless(m, C, C2)
  OBVIOUS
<1> HIDE DEF new, C2
<1>2. ASSUME NEW i \in 1 .. Len(link)
      PROVE  /\ Sound(i, new[i], LeftA(cycle', i), LeftB(cycle', i), C2)
             /\ new[i].state = links[i].state
  <2>1. cycle' \in Cycles /\ Len(link) \in Nat
    BY DEF CycleOK, Inductive
  <2>2. \A j \in 1 .. Len(link) : Sound(j, links[j], LeftA(cycle', j), LeftB(cycle', j), C)
    BY DEF SoundLinks
  <2> QED  BY <1>0, <1>1, <2>1, <2>2, SentToEach
<1>3. {i \in 1 .. Len(link) : new[i].state = "CONNECTED"} = C2
  BY <1>2 DEF C2
<1>4. SoundLinks(new, cycle', C2)
  BY <1>2 DEF SoundLinks
<1> QED  BY <1>1, <1>3, <1>4, SameLinks DEF new

\* What the invariant says of the links, one by one.
LEMMA Facts ==
    ASSUME Inductive
    PROVE  /\ Len(link) \in Nat /\ DOMAIN link = 1 .. Len(link)
           /\ Connected = {i \in 1 .. Len(link) : link[i].state = "CONNECTED"}
           /\ cycle \in Cycles
           /\ \A i \in 1 .. Len(link) : /\ link[i] \in Links /\ i \in Nat
                                        /\ Sound(i, link[i], LeftA(cycle, i), LeftB(cycle, i), Connected)
<1>1. Len(link) \in Nat /\ DOMAIN link = 1 .. Len(link)
  BY DEF Inductive
<1>2. Connected = {i \in 1 .. Len(link) : link[i].state = "CONNECTED"} /\ cycle \in Cycles
  BY <1>1 DEF Inductive, Connected, CycleOK
<1>3. \A i \in 1 .. Len(link) : Sound(i, link[i], LeftA(cycle, i), LeftB(cycle, i), Connected)
  BY DEF Inductive, SoundLinks
<1>4. \A i \in 1 .. Len(link) : link[i] \in Links /\ i \in Nat
  BY <1>1, <1>3 DEF Sound
<1> QED  BY <1>1, <1>2, <1>3, <1>4

\* EventEmitter_regPathfinderIface.
LEMMA RegisterStep ==
    ASSUME Inductive, NEW subnode \in BOOLEAN, RegPathfinderIface(subnode), cycle = NoCycle
    PROVE  Inductive'
<1> DEFINE L == Len(link)
<1>1. L \in Nat /\ DOMAIN link = 1 .. L /\ link \in Seq(Links)
  BY Facts DEF Inductive
<1> DEFINE m == Message("CONNECT", L + 1, 0)
           o == NewLink(subnode)
           n == IF subnode THEN FromA(o, m) ELSE o
<1>2. /\ n \in Links /\ n.state = "DISCONNECTED" /\ n.bytes = 0 /\ n.toA = <<>>
      /\ ~n.running /\ n.told = {} /\ n.toB \in Seq(Messages)
      /\ At(n.toB, "PONG") = {}
  <2>1. /\ o \in Links /\ o.state = "DISCONNECTED" /\ o.bytes = 0 /\ o.toA = <<>>
        /\ o.toB = <<>> /\ ~o.running /\ o.told = {}
    BY DEF NewLink, Links
  <2>2. m \in Messages /\ m.ev = "CONNECT"
    <3>1. "CONNECT" \in Kinds
      BY DEF Kinds
    <3>2. L + 1 \in Nat /\ 0 \in Nat
      BY <1>1
    <3> HIDE DEF L
    <3> QED  BY <3>1, <3>2, MessageFacts
  <2>3. CASE subnode
    <3> HIDE DEF m
    <3> HIDE DEF o
    <3>2. /\ FromA(o, m) \in Links /\ FromA(o, m).toB = Append(o.toB, m)
          /\ FromA(o, m).state = o.state /\ FromA(o, m).bytes = o.bytes
          /\ FromA(o, m).toA = o.toA /\ FromA(o, m).running = o.running
          /\ FromA(o, m).told = o.told
      BY <2>1, <2>2, FromFacts
    <3>3. Append(<<>>, m) \in Seq(Messages) /\ At(Append(<<>>, m), "PONG") = {}
      BY <2>2 DEF At
    <3>4. n = FromA(o, m)
      BY <2>3
    <3> HIDE DEF n
    <3> QED  BY <2>1, <3>2, <3>3, <3>4
  <2>4. CASE ~subnode
    <3>1. n = o /\ At(<<>>, "PONG") = {} /\ <<>> \in Seq(Messages)
      BY <2>4 DEF At
    <3> HIDE DEF n, o
    <3> QED  BY <2>1, <3>1
  <2> QED  BY <2>3, <2>4
<1>3. link' = Append(link, n) /\ cycle' = cycle /\ failed' = failed
  BY DEF RegPathfinderIface
<1> HIDE DEF m, n, o
<1>4. /\ link' \in Seq(Links) /\ Len(link') = L + 1 /\ link'[L + 1] = n
      /\ \A i \in 1 .. L : link'[i] = link[i]
      /\ DOMAIN link' = 1 .. L + 1
  BY <1>1, <1>2, <1>3
<1>5. \A i \in 1 .. L + 1 : i \in 1 .. L \/ i = L + 1
  BY <1>1
<1>6. \A i \in 1 .. L : i \in 1 .. L + 1
  BY <1>1
<1>7. Connected' = Connected
  BY <1>1, <1>2, <1>4, <1>5, <1>6 DEF Connected
<1>8. /\ LeftA(cycle', L + 1) = <<>> /\ LeftB(cycle', L + 1) = <<>>
      /\ CycleOK(cycle)'
  BY <1>1, <1>3, <1>4 DEF LeftA, LeftB, NoCycle, CycleOK, Cycles
<1>9. Sound(L + 1, n, <<>>, <<>>, Connected)
  <2>1. <<>> \o n.toA = <<>> /\ <<>> \o n.toB = n.toB
    BY <1>2
  <2>2. \A ev : At(<<>>, ev) = {}
    BY DEF At
  <2> QED  BY <1>2, <2>1, <2>2 DEF Sound, Begun, OnePing
<1>10. ASSUME NEW i \in 1 .. L + 1
       PROVE  Sound(i, link'[i], LeftA(cycle', i), LeftB(cycle', i), Connected')
  <2>1. CASE i \in 1 .. L
    BY <1>3, <1>4, <1>7, <2>1 DEF Inductive, SoundLinks
  <2>2. CASE i = L + 1
    BY <1>4, <1>7, <1>8, <1>9, <2>2
  <2> QED  BY <1>5, <2>1, <2>2
<1>11. SoundLinks(link, cycle, Connected)'
  BY <1>4, <1>10 DEF SoundLinks
<1> QED  BY <1>3, <1>4, <1>8, <1>11 DEF Inductive, ConnectedWhenAnswered

\* A component of the core emits an event.
LEMMA CoreEventStep ==
    ASSUME Inductive, NEW length \in Nat, CoreEvent(length)
    PROVE  Inductive'
<1> DEFINE m == Message("EVENT", 0, 0)
<1>1. m \in Messages /\ m.ev = "EVENT"
  <2>1. "EVENT" \in Kinds
    BY DEF Kinds
  <2> QED  BY <2>1, MessageFacts
<1>2. link' = SendToAll(link, m, length) /\ cycle' = cycle /\ ConnectedWhenAnswered'
  BY DEF CoreEvent, Inductive, ConnectedWhenAnswered
<1> HIDE DEF m
<1>3. Harmless(m, Connected, Connected) /\ m.ev # "CORE_PING"
  BY <1>1 DEF Harmless
<1>4. CycleOK(cycle') /\ SoundLinks(link, cycle', Connected)
  BY <1>2 DEF Inductive, CycleOK
<1>5. DOMAIN link = 1 .. Len(link)
      /\ Harmless(m, Connected, {i \in 1 .. Len(link) : link[i].state = "CONNECTED"})
  BY <1>3, Facts
<1> QED  BY <1>1, <1>2, <1>3, <1>4, <1>5, AllLinks

\* A pathfinder emits an event.
LEMMA PathfinderEventStep ==
    ASSUME Inductive, NEW i \in 1 .. Len(link), NEW m \in Events(i), PathfinderEvent(i, m)
    PROVE  Inductive'
<1> DEFINE l == link[i]
           n == FromA(l, m)
           A == LeftA(cycle, i)
           B == LeftB(cycle, i)
<1>1. l \in Links /\ i \in Nat /\ Sound(i, l, A, B, Connected) /\ B \in Seq(Messages)
      /\ l.toB \in Seq(Messages)
  BY Facts, LeftTypes DEF Links
<1>2. m \in Messages /\ (i \notin Faulty => m.ev # "PONG")
  <2>1. TooHigh \in Nat
    BY ConstantTypes DEF TooHigh
  <2>2. ASSUME NEW ev \in {"CONNECT", "SUPERIORITY", "PING", "PATHFINDERS", "PEERS", "NODE"}
        PROVE  Message(ev, i, 0) \in Messages /\ Message(ev, i, 0).ev # "PONG"
    <3>1. ev \in Kinds /\ ev # "PONG"
      BY DEF Kinds
    <3> QED  BY <1>1, <3>1, MessageFacts
  <2>3. ASSUME NEW c \in {1, TooHigh} PROVE Message("PONG", i, c) \in Messages
    <3>1. "PONG" \in Kinds
      BY DEF Kinds
    <3> QED  BY <1>1, <2>1, <3>1, MessageFacts
  <2> QED  BY <2>2, <2>3 DEF Events
<1>3. /\ n \in Links /\ n.toB = Append(l.toB, m) /\ n.state = l.state /\ n.bytes = l.bytes
      /\ n.toA = l.toA /\ n.running = l.running /\ n.told = l.told
  BY <1>1, <1>2, FromFacts
<1>4. link' = [link EXCEPT ![i] = n] /\ cycle' = cycle /\ ConnectedWhenAnswered'
  BY DEF PathfinderEvent, Inductive, ConnectedWhenAnswered
<1> HIDE DEF l, n, A, B
<1>5. Sound(i, n, A, B, Connected)
  <2>0. B \o Append(l.toB, m) = Append(B \o l.toB, m)
    BY <1>1, <1>2, AppendAfter
  <2>1. B \o n.toB = Append(B \o l.toB, m) /\ B \o l.toB \in Seq(Messages)
    BY <1>1, <1>3, <2>0
  <2>2. Begun(n, A \o n.toA) /\ (n.state = "CONNECTED" => Informed(n, A \o n.toA, Connected))
    BY <1>1, <1>3 DEF Sound, Begun, Informed
  <2>3. ASSUME i \notin Faulty PROVE OnePing(n, A \o n.toA, B \o n.toB)
    <3> DEFINE b == B \o l.toB
               c == Append(b, m)
    <3>1. OnePing(l, A \o l.toA, b)
      BY <1>1, <2>3 DEF Sound
    <3>2. At(c, "PONG") = At(b, "PONG") /\ \A k \in At(b, "PONG") : c[k] = b[k]
      <4>1. m.ev # "PONG" /\ b \in Seq(Messages)
        BY <1>2, <2>1, <2>3
      <4> HIDE DEF b
      <4>2. At(c, "PONG") = At(b, "PONG") \cup (IF m.ev = "PONG" THEN {Len(b) + 1} ELSE {})
            /\ \A k \in 1 .. Len(b) : c[k] = b[k]
        BY <1>2, <4>1, PushedFacts
      <4> QED  BY <4>1, <4>2 DEF At
    <3> HIDE DEF b, c
    <3>3. OnePing(n, A \o n.toA, c)
      BY <1>3, <3>1, <3>2 DEF OnePing
    <3> QED  BY <2>1, <3>3 DEF b, c
  <2> QED  BY <1>3, <2>2, <2>3 DEF Sound
<1>6. CycleOK(cycle')
  BY <1>4 DEF Inductive, CycleOK
<1> QED  BY <1>3, <1>4, <1>5, <1>6, OneLink DEF l, A, B

\* timeoutTrigger takes the messages that wait.
LEMMA TriggerStep ==
    ASSUME Inductive, NEW i \in 1 .. Len(link), TimeoutTrigger(i)
    PROVE  Inductive'
<1> DEFINE l == link[i]
           n == [l EXCEPT !.toA = <<>>, !.toB = <<>>]
           c == [of |-> i, toA |-> l.toA, toB |-> l.toB]
<1>1. /\ l \in Links /\ i \in Nat /\ Sound(i, l, LeftA(cycle, i), LeftB(cycle, i), Connected)
      /\ l.toA \in Seq(Messages) /\ l.toB \in Seq(Messages)
  BY Facts DEF Links
<1>2. cycle = NoCycle /\ cycle' = c /\ ConnectedWhenAnswered'
      /\ link' = [link EXCEPT ![i] = n]
  <2>1. cycle = NoCycle /\ cycle' = c /\ ConnectedWhenAnswered'
        /\ link' = [link EXCEPT ![i].toA = <<>>, ![i].toB = <<>>]
    BY DEF TimeoutTrigger, Inductive, ConnectedWhenAnswered
  <2>2. DOMAIN link = 1 .. Len(link)
    BY Facts
  <2>3. [link EXCEPT ![i].toA = <<>>, ![i].toB = <<>>] = [link EXCEPT ![i] = n]
    BY <2>2
  <2> QED  BY <2>1, <2>3
<1>3. /\ n \in Links /\ n.state = l.state /\ n.bytes = l.bytes /\ n.toA = <<>> /\ n.toB = <<>>
      /\ n.running = l.running /\ n.told = l.told
  <2>0. <<>> \in Seq(Messages)
    OBVIOUS
  <2>1. PICK none : none = <<>> /\ none \in Seq(Messages)
    BY <2>0
  <2> HIDE DEF l
  <2>2. n = [l EXCEPT !.toA = none, !.toB = none]
    BY <2>1
  <2> HIDE DEF n
  <2>3. n \in Links
    BY <1>1, <2>1, <2>2 DEF Links
  <2>4. n.toA = none /\ n.toB = none
    BY <1>1, <2>2 DEF Links
  <2>5. n.state = l.state /\ n.bytes = l.bytes /\ n.running = l.running /\ n.told = l.told
    BY <1>1, <2>2 DEF Links
  <2> QED  BY <2>1, <2>3, <2>4, <2>5
<1>4. CycleOK(cycle')
  BY <1>1, <1>2 DEF CycleOK, Cycles
<1>5. \A j \in 1 .. Len(link) : LeftA(cycle, j) = <<>> /\ LeftB(cycle, j) = <<>>
  BY <1>2 DEF LeftA, LeftB, NoCycle
<1>6. /\ LeftA(cycle', i) = l.toA /\ LeftB(cycle', i) = l.toB
      /\ \A j \in 1 .. Len(link) : j # i => LeftA(cycle', j) = <<>> /\ LeftB(cycle', j) = <<>>
  BY <1>2 DEF LeftA, LeftB
<1> HIDE DEF l, n, c
<1>7. /\ l.toA \o n.toA = l.toA /\ l.toB \o n.toB = l.toB
      /\ <<>> \o l.toA = l.toA /\ <<>> \o l.toB = l.toB
  BY <1>1, <1>3
<1>8. Sound(i, l, <<>>, <<>>, Connected)
  BY <1>1, <1>5
<1>9. Sound(i, n, l.toA, l.toB, Connected)
  BY <1>3, <1>7, <1>8 DEF Sound, Begun, Informed, OnePing
<1> QED  BY <1>2, <1>3, <1>4, <1>5, <1>6, <1>9, OneLink DEF l

\* timeoutTrigger without a message.
LEMMA DryStep ==
    ASSUME Inductive, NEW i \in 1 .. Len(link), DryCycle(i)
    PROVE  Inductive'
<1> DEFINE l == link[i]
<1>1. /\ l \in Links /\ i \in Nat /\ Sound(i, l, LeftA(cycle, i), LeftB(cycle, i), Connected)
      /\ link = [j \in 1 .. Len(link) |-> link[j]]
  BY Facts DEF Inductive
<1>2. PICK n : /\ n \in Links /\ n.state = l.state /\ n.bytes = l.bytes /\ n.toA = l.toA
              /\ n.toB = l.toB /\ n.running = l.running /\ n.told = l.told
              /\ link' = [link EXCEPT ![i] = n]
  <2> DEFINE d == l.dryCycles + 1
             more == [l EXCEPT !.dryCycles = d]
             over == [l EXCEPT !.dryCycles = 0, !.armed = FALSE]
  <2>1. link' = [link EXCEPT ![i] = more] \/ link' = [link EXCEPT ![i] = over]
    BY Facts DEF DryCycle
  <2>2. /\ more \in Links /\ more.state = l.state /\ more.bytes = l.bytes /\ more.toA = l.toA
        /\ more.toB = l.toB /\ more.running = l.running /\ more.told = l.told
    <3>1. d \in Nat
      BY <1>1 DEF Links
    <3> HIDE DEF d, l
    <3>2. more \in Links
      BY <1>1, <3>1 DEF Links
    <3>3. /\ more.state = l.state /\ more.bytes = l.bytes /\ more.toA = l.toA
          /\ more.toB = l.toB /\ more.running = l.running /\ more.told = l.told
      BY <1>1 DEF Links
    <3> QED  BY <3>2, <3>3
  <2>3. /\ over \in Links /\ over.state = l.state /\ over.bytes = l.bytes /\ over.toA = l.toA
        /\ over.toB = l.toB /\ over.running = l.running /\ over.told = l.told
    BY <1>1 DEF Links
  <2> HIDE DEF more, over
  <2> QED  BY <2>1, <2>2, <2>3
<1>3. cycle' = cycle /\ ConnectedWhenAnswered' /\ CycleOK(cycle')
  BY DEF DryCycle, Inductive, CycleOK, ConnectedWhenAnswered
<1> HIDE DEF l
<1>4. Sound(i, n, LeftA(cycle, i), LeftB(cycle, i), Connected)
  BY <1>1, <1>2 DEF Sound, Begun, Informed, OnePing
<1> QED  BY <1>2, <1>3, <1>4, OneLink DEF l

\* One of the messages that a cycle has for its pathfinder is taken.
LEMMA CycleToA ==
    ASSUME Inductive, cycle.toA # <<>>, cycle' = Left([cycle EXCEPT !.toA = Tail(@)])
    PROVE  /\ cycle.of \in 1 .. Len(link) /\ CycleOK(cycle')
           /\ LeftA(cycle, cycle.of) = cycle.toA /\ LeftA(cycle', cycle.of) = Tail(cycle.toA)
           /\ LeftB(cycle', cycle.of) = LeftB(cycle, cycle.of)
           /\ \A j \in 1 .. Len(link) : j # cycle.of => /\ LeftA(cycle', j) = LeftA(cycle, j)
                                                      /\ LeftB(cycle', j) = LeftB(cycle, j)
<1> DEFINE r == Tail(cycle.toA)
           c == [cycle EXCEPT !.toA = r]
<1>1. /\ cycle \in Cycles /\ cycle.of \in Nat /\ cycle.toA \in Seq(Messages)
      /\ cycle.toB \in Seq(Messages)
  BY DEF Inductive, CycleOK, Cycles
<1>2. cycle # NoCycle
  BY DEF NoCycle
<1>3. cycle.of \in 1 .. Len(link)
  BY <1>2 DEF Inductive, CycleOK
<1>4. r \in Seq(Messages)
  BY <1>1
<1> HIDE DEF r
<1>5. c \in Cycles /\ c.of = cycle.of /\ c.toA = r /\ c.toB = cycle.toB
  BY <1>1, <1>4 DEF Cycles
<1>6. cycle' = Left(c)
  BY DEF r
<1> HIDE DEF c
<1>7. NoCycle \in Cycles /\ NoCycle.of = 0 /\ NoCycle.toA = <<>> /\ NoCycle.toB = <<>>
  BY DEF NoCycle, Cycles
<1>8. CycleOK(cycle')
  BY <1>3, <1>5, <1>6, <1>7 DEF CycleOK, Left
<1>9. Len(link) \in Nat
  BY Facts
<1>10. cycle.of # 0 /\ \A j \in 1 .. Len(link) : j # 0
  BY <1>3, <1>9
<1>11. CASE cycle' = c
  BY <1>3, <1>5, <1>8, <1>11 DEF LeftA, LeftB, r
<1>12. CASE cycle' = NoCycle /\ r = <<>> /\ cycle.toB = <<>>
  BY <1>3, <1>7, <1>8, <1>10, <1>12 DEF LeftA, LeftB, r
<1> QED  BY <1>5, <1>6, <1>11, <1>12 DEF Left

\* One of the messages that a cycle has for the core is taken.
LEMMA CycleToB ==
    ASSUME Inductive, cycle.toA = <<>>, cycle.toB # <<>>,
           cycle' = Left([cycle EXCEPT !.toB = Tail(@)])
    PROVE  /\ cycle.of \in 1 .. Len(link) /\ CycleOK(cycle')
           /\ LeftB(cycle, cycle.of) = cycle.toB /\ LeftB(cycle', cycle.of) = Tail(cycle.toB)
           /\ LeftA(cycle', cycle.of) = LeftA(cycle, cycle.of)
           /\ \A j \in 1 .. Len(link) : j # cycle.of => /\ LeftA(cycle', j) = LeftA(cycle, j)
                                                      /\ LeftB(cycle', j) = LeftB(cycle, j)
<1> DEFINE r == Tail(cycle.toB)
           c == [cycle EXCEPT !.toB = r]
<1>1. /\ cycle \in Cycles /\ cycle.of \in Nat /\ cycle.toA \in Seq(Messages)
      /\ cycle.toB \in Seq(Messages)
  BY DEF Inductive, CycleOK, Cycles
<1>2. cycle # NoCycle
  BY DEF NoCycle
<1>3. cycle.of \in 1 .. Len(link)
  BY <1>2 DEF Inductive, CycleOK
<1>4. r \in Seq(Messages)
  BY <1>1
<1> HIDE DEF r
<1>5. c \in Cycles /\ c.of = cycle.of /\ c.toB = r /\ c.toA = cycle.toA
  BY <1>1, <1>4 DEF Cycles
<1>6. cycle' = Left(c)
  BY DEF r
<1> HIDE DEF c
<1>7. NoCycle \in Cycles /\ NoCycle.of = 0 /\ NoCycle.toA = <<>> /\ NoCycle.toB = <<>>
  BY DEF NoCycle, Cycles
<1>8. CycleOK(cycle')
  BY <1>3, <1>5, <1>6, <1>7 DEF CycleOK, Left
<1>9. Len(link) \in Nat
  BY Facts
<1>10. cycle.of # 0 /\ \A j \in 1 .. Len(link) : j # 0
  BY <1>3, <1>9
<1>11. CASE cycle' = c
  BY <1>3, <1>5, <1>8, <1>11 DEF LeftA, LeftB, r
<1>12. CASE cycle' = NoCycle /\ r = <<>>
  BY <1>3, <1>7, <1>8, <1>10, <1>12 DEF LeftA, LeftB, r
<1> QED  BY <1>5, <1>6, <1>11, <1>12 DEF Left

\* The pathfinder takes a message in the cycle of its ASynchronizer.
LEMMA DeliverToAStep ==
    ASSUME Inductive, DeliverToA
    PROVE  Inductive'
<1> DEFINE i == cycle.of
           l == link[i]
           A == LeftA(cycle, i)
           B == LeftB(cycle, i)
           n == IncomingFromEventIf(l, Head(A))
<1>1. /\ i \in 1 .. Len(link) /\ CycleOK(cycle') /\ A = cycle.toA /\ A # <<>>
      /\ LeftA(cycle', i) = Tail(A) /\ LeftB(cycle', i) = B
      /\ \A j \in 1 .. Len(link) : j # i => /\ LeftA(cycle', j) = LeftA(cycle, j)
                                         /\ LeftB(cycle', j) = LeftB(cycle, j)
  BY CycleToA DEF DeliverToA
<1>2. /\ i \in Nat /\ Sound(i, l, A, B, Connected)
      /\ A \in Seq(Messages) /\ B \in Seq(Messages)
  BY <1>1, Facts, LeftTypes
<1>3. /\ link' = [link EXCEPT ![i] = n]
      /\ failed' = Asserted(i, Head(A))
  <2>1. /\ link' = [link EXCEPT ![i] = IncomingFromEventIf(@, Head(cycle.toA))]
        /\ failed' = Asserted(i, Head(cycle.toA))
    BY DEF DeliverToA
  <2> QED  BY <1>1, <2>1
<1> HIDE DEF l, A, B, i
<1>4. Sound(i, n, Tail(A), B, Connected)
  BY <1>1, <1>2, Taken
<1>5. n.state = l.state /\ (l.running \/ Head(A).ev = "CONNECT")
  BY <1>1, <1>2, <1>4, Taken
<1>6. ConnectedWhenAnswered'
  BY <1>3, <1>5 DEF Asserted, ConnectedWhenAnswered, l
<1> HIDE DEF n
<1> QED  BY <1>1, <1>3, <1>4, <1>5, <1>6, OneLink DEF l

\* The core takes a message in the cycle of an ASynchronizer: what all the cases of
\* incomingFromPathfinder start from.
LEMMA DeliverToBFacts ==
    ASSUME Inductive, DeliverToB
    PROVE  LET i == cycle.of
               l == link[i]
               A == LeftA(cycle, i)
               B == LeftB(cycle, i)
           IN  /\ i \in 1 .. Len(link) /\ i \in Nat /\ CycleOK(cycle')
               /\ A \in Seq(Messages) /\ B \in Seq(Messages) /\ B # <<>> /\ Tail(B) \in Seq(Messages)
               /\ Head(B) \in Messages
               /\ LeftA(cycle', i) = A /\ LeftB(cycle', i) = Tail(B)
               /\ \A j \in 1 .. Len(link) : j # i => /\ LeftA(cycle', j) = LeftA(cycle, j)
                                                  /\ LeftB(cycle', j) = LeftB(cycle, j)
               /\ Sound(i, l, A, B, Connected) /\ Sound(i, l, A, Tail(B), Connected)
               /\ SoundLinks(link, cycle', Connected)
               /\ IncomingFromPathfinder(i, Head(B))
<1> DEFINE i == cycle.of
           l == link[i]
           A == LeftA(cycle, i)
           B == LeftB(cycle, i)
<1>1. /\ i \in 1 .. Len(link) /\ CycleOK(cycle') /\ B = cycle.toB /\ B # <<>>
      /\ LeftA(cycle', i) = A /\ LeftB(cycle', i) = Tail(B)
      /\ \A j \in 1 .. Len(link) : j # i => /\ LeftA(cycle', j) = LeftA(cycle, j)
                                         /\ LeftB(cycle', j) = LeftB(cycle, j)
  BY CycleToB DEF DeliverToB
<1>2. /\ i \in Nat /\ Sound(i, l, A, B, Connected)
      /\ A \in Seq(Messages) /\ B \in Seq(Messages)
  BY <1>1, Facts, LeftTypes
<1>3. IncomingFromPathfinder(i, Head(B))
  BY <1>1 DEF DeliverToB
<1>4. Tail(B) \in Seq(Messages) /\ Head(B) \in Messages
  BY <1>1, <1>2
<1> HIDE DEF l, A, B, i
<1>5. Sound(i, l, A, Tail(B), Connected)
  BY <1>1, <1>2, TakenByCore
<1>6. SoundLinks(link, cycle', Connected)
  <2> SUFFICES ASSUME NEW j \in 1 .. Len(link)
               PROVE  Sound(j, link[j], LeftA(cycle', j), LeftB(cycle', j), Connected)
    BY DEF SoundLinks
  <2>1. CASE j = i
    BY <1>1, <1>5, <2>1 DEF l
  <2>2. CASE j # i
    BY <1>1, <2>2, Facts
  <2> QED  BY <2>1, <2>2
<1> QED  BY <1>1, <1>2, <1>3, <1>4, <1>5, <1>6 DEF i, l, A, B

\* incomingFromPathfinder, by the event that it is given.
LEMMA DeliverToBStep ==
    ASSUME Inductive, DeliverToB
    PROVE  Inductive'
<1> DEFINE i == cycle.of
           l == link[i]
           A == LeftA(cycle, i)
           B == LeftB(cycle, i)
           R == Tail(B)
           m == Head(B)
<1>1. /\ i \in 1 .. Len(link) /\ i \in Nat /\ CycleOK(cycle')
      /\ A \in Seq(Messages) /\ B \in Seq(Messages) /\ B # <<>> /\ R \in Seq(Messages)
      /\ m \in Messages
      /\ LeftA(cycle', i) = A /\ LeftB(cycle', i) = R
      /\ \A j \in 1 .. Len(link) : j # i => /\ LeftA(cycle', j) = LeftA(cycle, j)
                                         /\ LeftB(cycle', j) = LeftB(cycle, j)
      /\ Sound(i, l, A, B, Connected) /\ Sound(i, l, A, R, Connected)
      /\ SoundLinks(link, cycle', Connected)
      /\ IncomingFromPathfinder(i, m)
  BY DeliverToBFacts
<1>2. /\ Len(link) \in Nat /\ DOMAIN link = 1 .. Len(link)
      /\ link = [j \in 1 .. Len(link) |-> link[j]]
      /\ Connected = {j \in 1 .. Len(link) : link[j].state = "CONNECTED"}
      /\ ConnectedWhenAnswered
  BY Facts DEF Inductive
<1>3. i \in Connected <=> l.state = "CONNECTED"
  BY <1>1, <1>2
<1> HIDE DEF l, A, B, R, m, i
<1>4. ASSUME NEW n, link' = [link EXCEPT ![i] = n], n.state = l.state, ConnectedWhenAnswered',
             Sound(i, n, A, R, Connected)
      PROVE  Inductive'
  BY <1>1, <1>4, OneLink DEF l
<1>5. CASE link' = link /\ failed' = failed
  <2>1. link' = [link EXCEPT ![i] = l] /\ ConnectedWhenAnswered'
    BY <1>1, <1>2, <1>5 DEF l, ConnectedWhenAnswered
  <2> QED  BY <1>1, <1>4, <2>1
<1>6. CASE Listened(i, m) /\ Connect(i) /\ UNCHANGED failed
  <2> DEFINE n == SendToPathfinder([l EXCEPT !.state = "CONNECTED"], i, Message("CONNECT", i, 0), 1)
             links == [link EXCEPT ![i] = n]
             C == Connected \cup {i}
  <2>1. link' = links /\ ConnectedWhenAnswered'
    BY <1>2, <1>6 DEF Connect, l, ConnectedWhenAnswered
  <2>2. l.state \in {"CONNECTED", "DISCONNECTED"}
    BY <1>3, <1>6 DEF Listened, l
  <2>3. Sound(i, n, A, R, C)
    BY <1>1, <2>2, ConnectTaken
  <2>4. n.state = "CONNECTED"
    BY <1>1, <2>2, <2>3, ConnectTaken
  <2> HIDE DEF n
  <2>5. /\ DOMAIN links = 1 .. Len(link) /\ links = [j \in 1 .. Len(link) |-> links[j]]
        /\ \A j \in 1 .. Len(link) : links[j] = IF j = i THEN n ELSE link[j]
    BY <1>1, <1>2
  <2> HIDE DEF links
  <2>6. {j \in 1 .. Len(link) : links[j].state = "CONNECTED"} = C
    BY <1>1, <1>2, <2>4, <2>5
  <2>7. SoundLinks(links, cycle', C)
    <3> SUFFICES ASSUME NEW j \in 1 .. Len(link)
                 PROVE  Sound(j, links[j], LeftA(cycle', j), LeftB(cycle', j), C)
      BY DEF SoundLinks
    <3>1. CASE j = i
      BY <1>1, <2>3, <2>5, <3>1
    <3>2. CASE j # i
      <4>1. Sound(j, link[j], LeftA(cycle', j), LeftB(cycle', j), Connected)
        BY <1>1 DEF SoundLinks
      <4>2. Connected \subseteq C /\ links[j] = link[j]
        BY <2>5, <3>2
      <4> HIDE DEF C
      <4> QED  BY <4>1, <4>2, OtherConnected
    <3> QED  BY <3>1, <3>2
  <2> QED  BY <1>1, <2>1, <2>5, <2>6, <2>7, SameLinks
<1>7. CASE i \in Connected /\ Superiority(i) /\ UNCHANGED failed
  <2> DEFINE x == Message("PATHFINDER", i, 0)
  <2>1. x \in Messages /\ x.ev = "PATHFINDER" /\ x.pf = i
    <3>1. "PATHFINDER" \in Kinds
      BY DEF Kinds
    <3> QED  BY <1>1, <3>1, MessageFacts
  <2>2. link' = SendToAll(link, x, 1) /\ ConnectedWhenAnswered'
    BY <1>2, <1>7 DEF Superiority, ConnectedWhenAnswered
  <2> HIDE DEF x
  <2>3. x.ev # "CORE_PING"
        /\ Harmless(x, Connected, {j \in 1 .. Len(link) : link[j].state = "CONNECTED"})
    BY <1>2, <1>7, <2>1 DEF Harmless
  <2> QED  BY <1>1, <1>2, <2>1, <2>2, <2>3, AllLinks
<1>8. CASE i \in Connected /\ m.ev = "PING" /\ Ping(i, m) /\ UNCHANGED failed
  <2> DEFINE n == FromB(l, m)
  <2>1. link' = [link EXCEPT ![i] = n] /\ ConnectedWhenAnswered'
    BY <1>2, <1>8 DEF Ping, l, ConnectedWhenAnswered
  <2>2. m.ev # "CORE_PING" /\ Harmless(m, Connected, Connected) /\ l.state = "CONNECTED"
    BY <1>3, <1>8 DEF Harmless
  <2>3. Sound(i, n, A, R, Connected)
    BY <1>1, <2>2, Echoed
  <2>4. n.state = l.state
    BY <1>1, <2>2, <2>3, Echoed
  <2> HIDE DEF n
  <2> QED  BY <1>4, <2>1, <2>3, <2>4
<1>9. CASE i \in Connected /\ m.ev = "PONG" /\ Pong(i, m.count) /\ UNCHANGED failed
  <2>1. ConnectedWhenAnswered' /\ l.state = "CONNECTED" /\ Head(B).ev = "PONG"
    BY <1>2, <1>3, <1>9 DEF m, ConnectedWhenAnswered
  <2>2. l.bytes \in Nat /\ m.count \in Nat
    BY <1>1 DEF Sound, Links, Messages
  <2>3. CASE m.count <= l.bytes
    <3> DEFINE n == [l EXCEPT !.bytes = @ - m.count]
    <3>1. link' = [link EXCEPT ![i] = n]
      <4>1. ~(m.count > link[i].bytes)
        BY <2>2, <2>3 DEF l
      <4>2. link' = [link EXCEPT ![i].bytes = @ - m.count]
        BY <1>9, <4>1 DEF Pong
      <4> QED  BY <4>2 DEF l
    <3>2. Sound(i, n, A, R, Connected)
      BY <1>1, <2>1, <2>3, PongTaken DEF m, R
    <3>3. n.state = l.state
      BY <1>1 DEF Sound, Links
    <3> HIDE DEF n
    <3> QED  BY <1>4, <2>1, <3>1, <3>2, <3>3
  <2>4. CASE m.count > l.bytes
    <3> DEFINE n == [l EXCEPT !.state = "ERROR"]
               links == [link EXCEPT ![i] = n]
               x == Message("PATHFINDER_GONE", i, 0)
    <3>1. i \in Faulty
      <4>1. ~(m.count <= l.bytes)
        BY <2>2, <2>4
      <4> QED  BY <1>1, <2>1, <4>1, PongTaken DEF m
    <3>2. link' = SendToAll(links, x, 1)
      <4>1. link' = SendToAll([link EXCEPT ![i].state = "ERROR"], x, 1)
        BY <1>9, <2>4 DEF Pong, l
      <4> QED  BY <4>1 DEF l
    <3>3. Sound(i, n, A, R, Connected)
      BY <1>1, <2>1, <3>1, FailureTaken
    <3>4. n.state = "ERROR"
      BY <1>1, <2>1, <3>1, <3>3, FailureTaken
    <3> HIDE DEF n
    <3>5. x \in Messages /\ x.ev = "PATHFINDER_GONE" /\ x.pf = i
      <4>1. "PATHFINDER_GONE" \in Kinds
        BY DEF Kinds
      <4> QED  BY <1>1, <4>1, MessageFacts
    <3> HIDE DEF x
    <3>6. /\ DOMAIN links = 1 .. Len(link)
          /\ \A j \in 1 .. Len(link) : links[j] = IF j = i THEN n ELSE link[j]
      BY <1>1, <1>2
    <3> HIDE DEF links
    <3>7. {j \in 1 .. Len(link) : links[j].state = "CONNECTED"} = Connected \ {i}
      BY <1>1, <1>2, <3>4, <3>6
    <3>8. SoundLinks(links, cycle', Connected)
      BY <1>1, <3>3, <3>6 DEF SoundLinks
    <3>9. Harmless(x, Connected, Connected \ {i}) /\ x.ev # "CORE_PING"
      BY <3>5 DEF Harmless
    <3> QED  BY <1>1, <2>1, <3>2, <3>5, <3>6, <3>7, <3>8, <3>9, AllLinks
  <2> QED  BY <2>2, <2>3, <2>4
<1>10. CASE i \in Connected /\ Pathfinders(i) /\ UNCHANGED failed
  <2> DEFINE x == Message("PATHFINDER", i, 0)
             n == SendSeveral(l, i, x, Cardinality(Connected))
  <2>1. link' = [link EXCEPT ![i] = n] /\ ConnectedWhenAnswered'
    BY <1>2, <1>10 DEF Pathfinders, l, ConnectedWhenAnswered
  <2>2. x \in Messages /\ x.ev = "PATHFINDER" /\ x.pf = i
    <3>1. "PATHFINDER" \in Kinds
      BY DEF Kinds
    <3> QED  BY <1>1, <3>1, MessageFacts
  <2>3. Cardinality(Connected) \in Nat
    <3>1. Len(link) \in Nat /\ Connected \subseteq 1 .. Len(link)
      BY <1>2
    <3>2. IsFiniteSet(1 .. Len(link))
      BY <3>1, FS_Interval
    <3>3. IsFiniteSet(Connected)
      BY <3>1, <3>2, FS_Subset
    <3> QED  BY <3>3, FS_CardinalityType
  <2>4. x.ev # "CORE_PING" /\ Harmless(x, Connected, Connected) /\ l.state = "CONNECTED"
    BY <1>3, <1>10, <2>2 DEF Harmless
  <2> HIDE DEF x
  <2>5. Sound(i, n, A, R, Connected)
    BY <1>1, <2>2, <2>3, <2>4, SeveralSent
  <2>6. n.state = l.state
    BY <1>1, <2>2, <2>3, <2>4, <2>5, SeveralSent
  <2> HIDE DEF n
  <2> QED  BY <1>4, <2>1, <2>5, <2>6
<1>11. CASE i \in Connected /\ Answer(i) /\ failed' = IF i \in Connected THEN "no" ELSE "incomingFromCore"
  <2> DEFINE x == Message("EVENT", 0, 0)
             n == SendSeveral(l, i, x, Peers)
  <2>1. link' = [link EXCEPT ![i] = n] /\ ConnectedWhenAnswered'
    BY <1>11 DEF Answer, l, ConnectedWhenAnswered
  <2>2. x \in Messages /\ x.ev = "EVENT"
    <3>1. "EVENT" \in Kinds
      BY DEF Kinds
    <3> QED  BY <3>1, MessageFacts
  <2>3. Peers \in Nat
    BY ConstantTypes
  <2>4. x.ev # "CORE_PING" /\ Harmless(x, Connected, Connected) /\ l.state = "CONNECTED"
    BY <1>3, <1>11, <2>2 DEF Harmless
  <2> HIDE DEF x
  <2>5. Sound(i, n, A, R, Connected)
    BY <1>1, <2>2, <2>3, <2>4, SeveralSent
  <2>6. n.state = l.state
    BY <1>1, <2>2, <2>3, <2>4, <2>5, SeveralSent
  <2> HIDE DEF n
  <2> QED  BY <1>4, <2>1, <2>5, <2>6
<1> QED
  <2>1. Listened(i, m) => i \in Connected \/ m.ev = "CONNECT"
    BY DEF Listened
  <2>2. CASE ~Listened(i, m) /\ UNCHANGED <<link, failed>>
    BY <1>5, <2>2
  <2>3. CASE Listened(i, m) /\ Handle(i, m) /\ UNCHANGED failed
    <3>1. CASE m.ev = "CONNECT" /\ Connect(i)
      BY <1>6, <2>3, <3>1
    <3>2. CASE m.ev = "SUPERIORITY" /\ Superiority(i)
      BY <1>7, <2>1, <2>3, <3>2
    <3>3. CASE m.ev = "PING" /\ Ping(i, m)
      BY <1>8, <2>1, <2>3, <3>3
    <3>4. CASE m.ev = "PONG" /\ Pong(i, m.count)
      BY <1>9, <2>1, <2>3, <3>4
    <3>5. CASE m.ev = "PATHFINDERS" /\ Pathfinders(i)
      BY <1>10, <2>1, <2>3, <3>5
    <3> QED  BY <2>3, <3>1, <3>2, <3>3, <3>4, <3>5 DEF Handle
  <2>4. CASE Listened(i, m) /\ m.ev = "PEERS" /\ Answer(i) /\ failed' = IF i \in Connected THEN "no" ELSE "incomingFromCore"
    BY <1>11, <2>1, <2>4
  <2>5. CASE Listened(i, m) /\ m.ev = "NODE" /\ UNCHANGED <<link, failed>>
    BY <1>5, <2>5
  <2> QED  BY <1>1, <2>2, <2>3, <2>4, <2>5 DEF IncomingFromPathfinder

-----------------------------------------------------------------------------
\* The theorems.

\* Every step of the core, of a pathfinder and of a timer keeps every link sound.
THEOREM LinksAreSound == Spec => []Inductive
<1>1. Init => Inductive
  <2> SUFFICES ASSUME Init PROVE Inductive
    OBVIOUS
  <2>1. link = <<>> /\ cycle = NoCycle /\ ConnectedWhenAnswered
    BY DEF Init, ConnectedWhenAnswered
  <2>2. link \in Seq(Links) /\ Len(link) = 0
    BY <2>1
  <2>3. CycleOK(cycle)
    BY <2>1 DEF CycleOK, NoCycle, Cycles
  <2>4. SoundLinks(link, cycle, Connected)
    BY <2>2 DEF SoundLinks
  <2> QED  BY <2>1, <2>2, <2>3, <2>4 DEF Inductive
<1>2. Inductive /\ [Next]_vars => Inductive'
  <2> SUFFICES ASSUME Inductive, [Next]_vars PROVE Inductive'
    OBVIOUS
  <2>1. DOMAIN link = 1 .. Len(link)
    BY Facts
  <2>2. CASE DeliverToA
    BY <2>2, DeliverToAStep
  <2>3. CASE DeliverToB
    BY <2>3, DeliverToBStep
  <2>4. ASSUME NEW i \in 1 .. Len(link), Trigger(i) PROVE Inductive'
    BY <2>4, TriggerStep, DryStep DEF Trigger
  <2>5. ASSUME cycle = NoCycle, NEW subnode \in BOOLEAN, RegPathfinderIface(subnode)
        PROVE  Inductive'
    BY <2>5, RegisterStep
  <2>6. ASSUME NEW length \in 1 .. PingAt, CoreEvent(length) PROVE Inductive'
    BY <2>6, CoreEventStep, ConstantTypes
  <2>7. ASSUME NEW i \in 1 .. Len(link), NEW m \in Events(i), PathfinderEvent(i, m)
        PROVE  Inductive'
    BY <2>7, PathfinderEventStep
  <2>8. CASE UNCHANGED vars
    <3>1. link' = link /\ cycle' = cycle /\ failed' = failed
      BY <2>8 DEF vars
    <3>2. Connected' = Connected
      BY <3>1 DEF Connected
    <3> QED  BY <3>1, <3>2 DEF Inductive, CycleOK, SoundLinks, ConnectedWhenAnswered
  <2> QED  BY <2>1, <2>2, <2>3, <2>4, <2>5, <2>6, <2>7, <2>8 DEF Next, Deliver
<1> QED  BY <1>1, <1>2, PTL DEF Spec

\* A pathfinder that answers each PING with its own content is never taken for a failed one
\* (handleFromPathfinder, PONG).
THEOREM HonestNeverFails == Spec => []HonestStaysConnected
<1>1. Inductive => HonestStaysConnected
  <2> SUFFICES ASSUME Inductive, NEW i \in DOMAIN link \ Faulty PROVE link[i].state # "ERROR"
    BY DEF HonestStaysConnected
  <2>1. Sound(i, link[i], LeftA(cycle, i), LeftB(cycle, i), Connected)
    BY Facts
  <2> QED  BY <2>1 DEF Sound, OnePing
<1> QED  BY <1>1, LinksAreSound, PTL

\* Neither the assertion of incomingFromCore nor that of a pathfinder's first message fails.
THEOREM AssertionsHold == Spec => []ConnectedWhenAnswered
<1>1. Inductive => ConnectedWhenAnswered
  BY DEF Inductive
<1> QED  BY <1>1, LinksAreSound, PTL

\* With what is on its way to it, a connected pathfinder knows of connected ones only (PATHFINDER,
\* PATHFINDER_GONE).
THEOREM ToldIsConnected == Spec => []ToldOnlyOfConnected
<1>1. ASSUME Inductive, NEW i \in Connected PROVE WillBeTold(i) \subseteq Connected
  <2> DEFINE q == ToPathfinder(i)
             N == Len(q)
             l == link[i]
             Rhs(f) == [k \in 0 .. N |-> IF k = 0 THEN l ELSE IncomingFromEventIf(f[k - 1], q[k])]
             F == CHOOSE f : f = Rhs(f)
  <2>1. WillBeTold(i) = F[N].told
    BY DEF WillBeTold
  <2>2. /\ i \in 1 .. Len(link) /\ l.state = "CONNECTED" /\ i \in DOMAIN link
        /\ Sound(i, l, LeftA(cycle, i), LeftB(cycle, i), Connected)
        /\ LeftA(cycle, i) \in Seq(Messages) /\ l \in Links /\ l.toA \in Seq(Messages)
    BY <1>1, Facts, LeftTypes DEF Links
  <2>3. q = LeftA(cycle, i) \o l.toA
    BY <2>2 DEF ToPathfinder, LeftA
  <2>4. q \in Seq(Messages) /\ N \in Nat /\ Informed(l, q, Connected)
    BY <2>2, <2>3 DEF Sound
  <2>5. \A j \in F[N].told : j \in Connected
    <3> HIDE DEF q, l
    <3> QED  BY <2>2, <2>4, KnowsInTheEnd
  <2> QED  BY <2>1, <2>5
<1>2. Inductive => ToldOnlyOfConnected
  BY <1>1 DEF ToldOnlyOfConnected
<1> QED  BY <1>2, LinksAreSound, PTL
====
