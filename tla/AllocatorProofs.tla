--------------------------- MODULE AllocatorProofs ---------------------------
(***************************************************************************)
(* The tree of allocators stays a tree, nothing in use is freed and        *)
(* nothing that is out of use is kept, for any number of allocators,       *)
(* adoptions and onFree jobs.                                              *)
(***************************************************************************)
EXTENDS Allocator, FiniteSetTheorems, WellFoundedInduction, TLAPS

Lists == [Allocs -> Seq(Allocs)]

Parentage == [Allocs -> Allocs \cup {NoAlloc}]

Heaps == [parent : Parentage, kids : Lists, adopters : Lists, adopted : Lists,
          live : SUBSET Allocs, freeing : SUBSET Allocs]

Adopters(h, c) == ToSet(h.adopters[c])

\* The three parts of WellLinked, of the fields of a heap.
KidsMatch(P, K) ==
    \A p, c \in Allocs : Count(K[p], c) = IF P[c] = p /\ c # Root THEN 1 ELSE 0

AdoptionsMatch(D, A, L) ==
    \A p, c \in Allocs : /\ Count(D[p], c) = Count(A[c], p)
                         /\ Count(D[p], c) > 0 => p \in L /\ c \in L

Linked(h) == /\ h \in Heaps /\ KidsMatch(h.parent, h.kids)
             /\ AdoptionsMatch(h.adopted, h.adopters, h.live)

\* A set of natural numbers has a least element.
LEMMA LeastNat ==
    ASSUME NEW S \in SUBSET Nat, S # {}
    PROVE  \E n \in S : \A m \in S : n <= m
<1> DEFINE R == {ss \in Nat \X Nat : ss[1] < ss[2]}
<1>1. IsWellFoundedOn(R, Nat)
  BY NatLessThanWellFounded DEF OpToRel
<1>2. \A x, y \in Nat : <<y, x>> \in R <=> y < x
  OBVIOUS
<1> HIDE DEF R
<1>3. PICK x \in S : \A y \in S : <<y, x>> \notin R
  BY <1>1, WFMin
<1>4. ASSUME NEW y \in S PROVE x <= y
  <2>1. x \in Nat /\ y \in Nat
    OBVIOUS
  <2>2. ~(y < x)
    BY <1>2, <1>3, <2>1, Zenon
  <2> QED  BY <2>1, <2>2
<1> QED  BY <1>4

\* What holds at first and is kept by every step of a finite run holds to its end.
LEMMA Induction ==
    ASSUME NEW n \in Nat, NEW f, NEW I, f[0] \in I[0],
           \A k \in 1 .. n : f[k - 1] \in I[k - 1] => f[k] \in I[k]
    PROVE  \A k \in 0 .. n : f[k] \in I[k]
<1> DEFINE Bad == {k \in 0 .. n : f[k] \notin I[k]}
<1>1. SUFFICES ASSUME Bad # {} PROVE FALSE
  OBVIOUS
<1>2. PICK m \in Bad : \A k \in Bad : m <= k
  <2>1. Bad \in SUBSET Nat
    OBVIOUS
  <2> HIDE DEF Bad
  <2> QED  BY <1>1, <2>1, LeastNat
<1>3. m # 0
  BY <1>2
<1>4. m - 1 \in 0 .. n /\ m - 1 \notin Bad /\ m \in 1 .. n
  BY <1>2, <1>3
<1>5. f[m - 1] \in I[m - 1]
  BY <1>4
<1> QED  BY <1>2, <1>4, <1>5

\* f is a run of n rounds from x, and G[k] the k-th round.
Runs(n, x, G, f) ==
    f = [k \in 0 .. n |-> IF k = 0 THEN x ELSE G[k][f[k - 1]]]

\* A run of n rounds exists, whatever the rounds are.
LEMMA LoopExists ==
    ASSUME NEW n \in Nat, NEW x, NEW G
    PROVE  \E f : Runs(n, x, G, f)
<1> DEFINE Bad == {m \in Nat : ~ \E f : Runs(m, x, G, f)}
<1>1. SUFFICES ASSUME Bad # {} PROVE FALSE
  OBVIOUS
<1>2. PICK m \in Bad : \A k \in Bad : m <= k
  <2>1. Bad \in SUBSET Nat  OBVIOUS
  <2> HIDE DEF Bad
  <2> QED BY <1>1, <2>1, LeastNat
<1>3. CASE m = 0
  <2> DEFINE f == [k \in 0 .. 0 |-> x]
  <2>1. Runs(0, x, G, f)
    BY DEF Runs
  <2> QED BY <1>3, <2>1
<1>4. CASE m # 0
  <2>1. m - 1 \in Nat /\ m - 1 \notin Bad
    BY <1>2, <1>4
  <2>2. PICK f : Runs(m - 1, x, G, f)
    BY <2>1
  <2> DEFINE g == [k \in 0 .. m |-> IF k = m THEN G[m][f[m-1]] ELSE f[k]]
  <2>3. Runs(m, x, G, g)
    <3>1. \A k \in 1 .. m - 1 : f[k] = G[k][f[k - 1]]
      BY <2>1, <2>2 DEF Runs
    <3>2. f[0] = x
      BY <2>1, <2>2 DEF Runs
    <3>3. \A k \in 1 .. m : g[k - 1] = f[k - 1]
      BY <1>2, <1>4
    <3>4. \A k \in 0 .. m : g[k] = IF k = 0 THEN x ELSE G[k][g[k - 1]]
      BY <1>2, <1>4, <3>1, <3>2, <3>3
    <3> QED  BY <3>4 DEF Runs
  <2> QED BY <2>3
<1> QED BY <1>3, <1>4


\* A loop whose rounds lead from I[k - 1] to I[k] has a run that is always in I.
LEMMA Loop ==
    ASSUME NEW n \in Nat, NEW x, NEW G, NEW I, x \in I[0],
           \A k \in 1 .. n : \A s \in I[k - 1] : G[k][s] \in I[k]
    PROVE  \E f : Runs(n, x, G, f) /\ \A k \in 0 .. n : f[k] \in I[k]
<1>1. PICK f : Runs(n, x, G, f)
  BY LoopExists
<1>2. f[0] = x /\ \A k \in 1 .. n : f[k] = G[k][f[k - 1]]
  BY <1>1 DEF Runs
<1>3. f[0] \in I[0] /\ \A k \in 1 .. n : f[k - 1] \in I[k - 1] => f[k] \in I[k]
  BY <1>2
<1>4. \A k \in 0 .. n : f[k] \in I[k]
  BY <1>3, Induction
<1> QED  BY <1>1, <1>4

\* Min of natural numbers is one of them.
LEMMA MinIsOne ==
    ASSUME NEW S \in SUBSET Nat, S # {}
    PROVE  Min(S) \in S /\ \A y \in S : Min(S) <= y
<1>1. PICK x \in S : \A y \in S : x <= y
  BY LeastNat
<1> QED  BY <1>1 DEF Min

-----------------------------------------------------------------------------
\* t is s with a put in at place m.
Inserted(s, m, a, t) ==
    /\ m \in 1 .. Len(s) + 1 /\ Len(t) = Len(s) + 1 /\ t[m] = a
    /\ \A i \in 1 .. Len(s) : t[IF i < m THEN i ELSE i + 1] = s[i]

\* A list is finite, so its entries can be counted.
LEMMA CountIsNat ==
    ASSUME NEW s \in Seq(Allocs), NEW e
    PROVE  /\ IsFiniteSet({i \in DOMAIN s : s[i] = e}) /\ Count(s, e) \in Nat
           /\ Count(s, e) > 0 <=> e \in ToSet(s)
<1> DEFINE S == {i \in DOMAIN s : s[i] = e}
<1>1. Len(s) \in Nat /\ DOMAIN s = 1 .. Len(s)
  OBVIOUS
<1>2. IsFiniteSet(1 .. Len(s))
  BY <1>1, FS_Interval
<1>3. IsFiniteSet(S)
  BY <1>1, <1>2, FS_Subset
<1>4. Cardinality(S) \in Nat /\ (Cardinality(S) = 0 <=> S = {})
  BY <1>3, FS_CardinalityType, FS_EmptySet
<1>5. S # {} <=> e \in ToSet(s)
  BY DEF ToSet
<1> HIDE DEF S
<1>6. Count(s, e) = Cardinality(S)
  BY DEF Count, S
<1>7. Cardinality(S) > 0 <=> S # {}
  BY <1>4
<1> QED  BY <1>3, <1>4, <1>5, <1>6, <1>7 DEF S

\* Putting in an entry adds one to its count and nothing to the others.
LEMMA CountInserted ==
    ASSUME NEW s \in Seq(Allocs), NEW t \in Seq(Allocs), NEW m, NEW a, Inserted(s, m, a, t), NEW e
    PROVE  Count(t, e) = IF e = a THEN Count(s, e) + 1 ELSE Count(s, e)
<1> DEFINE S == {i \in DOMAIN s : s[i] = e}
           T == {i \in DOMAIN t : t[i] = e}
           f == [i \in S |-> IF i < m THEN i ELSE i + 1]
<1>1. PICK n \in Nat : /\ n = Len(s) /\ DOMAIN s = 1 .. n /\ DOMAIN t = 1 .. n + 1
                       /\ m \in 1 .. n + 1 /\ t[m] = a
                       /\ \A i \in 1 .. n : t[IF i < m THEN i ELSE i + 1] = s[i]
  BY DEF Inserted
<1>2. f \in [S -> T \ {m}]
  <2>1. ASSUME NEW i \in S PROVE (IF i < m THEN i ELSE i + 1) \in T \ {m}
    BY <1>1
  <2> QED  BY <2>1
<1>3. \A i, j \in S : f[i] = f[j] => i = j
  BY <1>1
<1>4. ASSUME NEW k \in T \ {m} PROVE \E i \in S : f[i] = k
  <2>1. CASE k < m
    <3>1. k \in S
      BY <1>1, <2>1
    <3> QED  BY <2>1, <3>1
  <2>2. CASE ~(k < m)
    <3>1. k - 1 \in 1 .. n /\ ~(k - 1 < m) /\ k - 1 + 1 = k
      BY <1>1, <2>2
    <3>2. k - 1 \in S
      BY <1>1, <3>1
    <3> QED  BY <3>1, <3>2
  <2> QED  BY <2>1, <2>2
<1>5. ExistsBijection(S, T \ {m})
  <2> HIDE DEF S, T, f
  <2>1. f \in Injection(S, T \ {m})
    BY <1>2, <1>3 DEF Injection, IsInjective
  <2>2. f \in Surjection(S, T \ {m})
    BY <1>2, <1>4 DEF Surjection
  <2> QED  BY <2>1, <2>2 DEF ExistsBijection, Bijection
<1>6. IsFiniteSet(S) /\ IsFiniteSet(T) /\ Count(s, e) = Cardinality(S) /\ Count(t, e) = Cardinality(T)
  BY CountIsNat DEF Count
<1>7. m \in T <=> e = a
  BY <1>1
<1> HIDE DEF S, T
<1>8. Cardinality(T \ {m}) = Cardinality(S)
  BY <1>5, <1>6, FS_Bijection
<1>9. Cardinality(T \ {m}) = IF m \in T THEN Cardinality(T) - 1 ELSE Cardinality(T)
  BY <1>6, FS_RemoveElement
<1>10. Cardinality(T) \in Nat /\ Cardinality(S) \in Nat
  BY <1>6, FS_CardinalityType
<1> QED  BY <1>6, <1>7, <1>8, <1>9, <1>10

\* An allocator is put at the front of a list.
LEMMA CountCons ==
    ASSUME NEW s \in Seq(Allocs), NEW a \in Allocs
    PROVE  /\ <<a>> \o s \in Seq(Allocs)
           /\ \A e : Count(<<a>> \o s, e) = IF e = a THEN Count(s, e) + 1 ELSE Count(s, e)
<1>1. PICK t : t = <<a>> \o s
  OBVIOUS
<1>2. t \in Seq(Allocs) /\ Len(t) = Len(s) + 1 /\ t[1] = a /\ \A i \in 1 .. Len(s) : t[i + 1] = s[i]
  BY <1>1
<1>3. Inserted(s, 1, a, t)
  BY <1>2 DEF Inserted
<1> QED  BY <1>1, <1>2, <1>3, CountInserted

\* RemoveFirst takes out one entry, if there is one.
LEMMA RemoveFirstInserted ==
    ASSUME NEW s \in Seq(Allocs), NEW a, NEW t, t = RemoveFirst(s, a)
    PROVE  /\ t \in Seq(Allocs)
           /\ a \in ToSet(s) => \E m : Inserted(t, m, a, s) /\ \A i \in 1 .. m - 1 : s[i] # a
           /\ a \notin ToSet(s) => t = s
<1> DEFINE I == {i \in 1 .. Len(s) : s[i] = a}
<1>1. PICK n \in Nat : n = Len(s) /\ DOMAIN s = 1 .. n
  OBVIOUS
<1>2. CASE a \notin ToSet(s)
  <2>1. ~ \E i \in 1 .. Len(s) : s[i] = a
    BY <1>1, <1>2 DEF ToSet
  <2> QED  BY <1>2, <2>1 DEF RemoveFirst
<1>3. CASE a \in ToSet(s)
  <2>1. I \in SUBSET Nat /\ I # {} /\ \E i \in 1 .. Len(s) : s[i] = a
    BY <1>1, <1>3 DEF ToSet
  <2>2. PICK m : m = Min(I)
    OBVIOUS
  <2>3. t = RemoveAt(s, m)
    BY <2>1, <2>2 DEF RemoveFirst, SelectInSeq
  <2>4. m \in 1 .. n /\ s[m] = a /\ \A i \in 1 .. n : s[i] = a => m <= i
    BY <1>1, <2>1, <2>2, MinIsOne
  <2>5. t = SubSeq(s, 1, m - 1) \o SubSeq(s, m + 1, n)
    BY <1>1, <2>3 DEF RemoveAt
  <2>6. PICK u, v : u = SubSeq(s, 1, m - 1) /\ v = SubSeq(s, m + 1, n)
    OBVIOUS
  <2>7. /\ u \in Seq(Allocs) /\ Len(u) = m - 1 /\ \A i \in 1 .. m - 1 : u[i] = s[i]
        /\ v \in Seq(Allocs) /\ Len(v) = n - m /\ \A i \in 1 .. n - m : v[i] = s[m + i]
    BY <1>1, <2>4, <2>6
  <2>8. /\ t \in Seq(Allocs) /\ Len(t) = n - 1
        /\ \A i \in 1 .. m - 1 : t[i] = s[i]
        /\ \A i \in 1 .. n - m : t[m - 1 + i] = s[m + i]
    BY <2>4, <2>5, <2>6, <2>7
  <2>9. \A i \in m .. n - 1 : t[i] = s[i + 1]
    <3>1. ASSUME NEW i \in m .. n - 1 PROVE t[i] = s[i + 1]
      <4>1. i - m + 1 \in 1 .. n - m /\ m - 1 + (i - m + 1) = i /\ m + (i - m + 1) = i + 1
        BY <2>4
      <4> QED  BY <2>8, <4>1
    <3> QED  BY <3>1
  <2>10. Inserted(t, m, a, s)
    <3>1. ASSUME NEW i \in 1 .. Len(t) PROVE s[IF i < m THEN i ELSE i + 1] = t[i]
      BY <2>4, <2>8, <2>9
    <3> QED  BY <1>1, <2>4, <2>8, <3>1 DEF Inserted
  <2>11. \A i \in 1 .. m - 1 : s[i] # a
    BY <2>4
  <2> QED  BY <1>3, <2>8, <2>10, <2>11
<1> QED  BY <1>2, <1>3

LEMMA CountRemoveFirst ==
    ASSUME NEW s \in Seq(Allocs), NEW a
    PROVE  /\ RemoveFirst(s, a) \in Seq(Allocs)
           /\ \A e : Count(RemoveFirst(s, a), e) =
                         IF e = a /\ Count(s, e) > 0 THEN Count(s, e) - 1 ELSE Count(s, e)
<1>1. PICK t : t = RemoveFirst(s, a)
  OBVIOUS
<1>2. t \in Seq(Allocs)
  BY <1>1, RemoveFirstInserted
<1>3. ASSUME NEW e
      PROVE  Count(t, e) = IF e = a /\ Count(s, e) > 0 THEN Count(s, e) - 1 ELSE Count(s, e)
  <2>1. Count(s, e) \in Nat /\ Count(t, e) \in Nat
    BY <1>2, CountIsNat
  <2>2. CASE a \in ToSet(s)
    <3>1. PICK m : Inserted(t, m, a, s)
      BY <1>1, <2>2, RemoveFirstInserted
    <3>2. Count(s, e) = IF e = a THEN Count(t, e) + 1 ELSE Count(t, e)
      BY <1>2, <3>1, CountInserted
    <3> QED  BY <2>1, <3>2
  <2>3. CASE a \notin ToSet(s)
    <3>1. t = s /\ ~(Count(s, a) > 0)
      BY <1>1, <2>3, RemoveFirstInserted, CountIsNat
    <3> QED  BY <3>1
  <2> QED  BY <2>2, <2>3
<1> QED  BY <1>1, <1>2, <1>3

\* The first entry is the one that RemoveFirst takes out.
LEMMA RemoveHead ==
    ASSUME NEW s \in Seq(Allocs), s # <<>>
    PROVE  /\ Head(s) \in Allocs /\ Head(s) = s[1] /\ Head(s) \in ToSet(s)
           /\ RemoveFirst(s, Head(s)) = Tail(s)
<1>1. Head(s) \in Allocs /\ Head(s) = s[1] /\ 1 \in DOMAIN s /\ Len(s) \in Nat /\ Len(s) > 0
  OBVIOUS
<1>2. s[1] \in ToSet(s)
  BY <1>1 DEF ToSet
<1>3. PICK t : t = RemoveFirst(s, s[1])
  OBVIOUS
<1>4. PICK m : Inserted(t, m, s[1], s) /\ \A i \in 1 .. m - 1 : s[i] # s[1]
  BY <1>2, <1>3, RemoveFirstInserted
<1>5. t \in Seq(Allocs)
  BY <1>3, RemoveFirstInserted
<1>6. PICK n \in Nat : n = Len(t)
  BY <1>5
<1>7. m \in 1 .. n + 1 /\ Len(s) = n + 1 /\ \A i \in 1 .. n : s[IF i < m THEN i ELSE i + 1] = t[i]
  BY <1>4, <1>6 DEF Inserted
<1>8. m = 1
  BY <1>4, <1>7
<1>9. \A i \in 1 .. n : t[i] = s[i + 1]
  BY <1>7, <1>8
<1>10. t = Tail(s)
  <2>1. Tail(s) \in Seq(Allocs) /\ Len(Tail(s)) = n /\ \A i \in 1 .. n : Tail(s)[i] = s[i + 1]
    BY <1>1, <1>7
  <2> QED  BY <1>5, <1>6, <1>9, <2>1
<1> QED  BY <1>1, <1>2, <1>3, <1>10
-----------------------------------------------------------------------------
\* An allocator leaves the list of its parent.
LEMMA KidsDisconnect ==
    ASSUME NEW P \in Parentage, NEW K \in Lists, KidsMatch(P, K), NEW a \in Allocs, a # Root,
           NEW p \in Allocs, P[a] = p,
           NEW P2 \in Parentage, P2[a] = NoAlloc, \A c \in Allocs : c # a => P2[c] = P[c],
           NEW K2 \in Lists, K2[p] = RemoveFirst(K[p], a), \A q \in Allocs : q # p => K2[q] = K[q]
    PROVE  KidsMatch(P2, K2)
<1>1. ASSUME NEW q \in Allocs, NEW c \in Allocs
      PROVE  Count(K2[q], c) = IF P2[c] = q /\ c # Root THEN 1 ELSE 0
  <2>1. Count(K[q], c) = IF P[c] = q /\ c # Root THEN 1 ELSE 0
    BY DEF KidsMatch
  <2>2. NoAlloc \notin Allocs
    BY AllocatorAssumption
  <2>3. CASE q = p
    <3>1. K[p] \in Seq(Allocs)
      BY DEF Lists
    <3>2. Count(K2[p], c) = IF c = a /\ Count(K[p], c) > 0 THEN Count(K[p], c) - 1 ELSE Count(K[p], c)
      BY <3>1, CountRemoveFirst
    <3>3. CASE c = a
      BY <2>1, <2>2, <2>3, <3>2, <3>3
    <3>4. CASE c # a
      BY <2>1, <2>3, <3>2, <3>4
    <3> QED  BY <3>3, <3>4
  <2>4. CASE q # p
    BY <2>1, <2>2, <2>4
  <2> QED  BY <2>3, <2>4
<1> QED  BY <1>1 DEF KidsMatch

\* An allocator without a parent joins the list of p.
LEMMA KidsConnect ==
    ASSUME NEW P \in Parentage, NEW K \in Lists, KidsMatch(P, K), NEW a \in Allocs, a # Root,
           P[a] = NoAlloc, NEW p \in Allocs,
           NEW P2 \in Parentage, P2[a] = p, \A c \in Allocs : c # a => P2[c] = P[c],
           NEW K2 \in Lists, K2[p] = <<a>> \o K[p], \A q \in Allocs : q # p => K2[q] = K[q]
    PROVE  KidsMatch(P2, K2)
<1>1. ASSUME NEW q \in Allocs, NEW c \in Allocs
      PROVE  Count(K2[q], c) = IF P2[c] = q /\ c # Root THEN 1 ELSE 0
  <2>1. Count(K[q], c) = IF P[c] = q /\ c # Root THEN 1 ELSE 0
    BY DEF KidsMatch
  <2>2. NoAlloc \notin Allocs
    BY AllocatorAssumption
  <2>3. CASE q = p
    <3>1. K[p] \in Seq(Allocs)
      BY DEF Lists
    <3>2. Count(K2[p], c) = IF c = a THEN Count(K[p], c) + 1 ELSE Count(K[p], c)
      BY <3>1, CountCons
    <3>3. CASE c = a
      <4>1. Count(K[p], c) = 0 /\ P2[c] = q
        BY <2>1, <2>2, <2>3, <3>3
      <4>2. Count(K2[q], c) = Count(K[p], c) + 1
        BY <2>3, <3>2, <3>3, Zenon
      <4>3. Count(K2[q], c) = 1
        BY <4>1, <4>2
      <4> QED  BY <3>3, <4>1, <4>3
    <3>4. CASE c # a
      BY <2>1, <2>3, <3>2, <3>4
    <3> QED  BY <3>3, <3>4
  <2>4. CASE q # p
    BY <2>1, <2>2, <2>4
  <2> QED  BY <2>3, <2>4
<1> QED  BY <1>1 DEF KidsMatch

\* An adoption ends on both sides, or there was none.
LEMMA AdoptionEnds ==
    ASSUME NEW D \in Lists, NEW A \in Lists, NEW L, AdoptionsMatch(D, A, L),
           NEW p \in Allocs, NEW c \in Allocs,
           NEW D2 \in Lists, D2[p] = RemoveFirst(D[p], c), \A q \in Allocs : q # p => D2[q] = D[q],
           NEW A2 \in Lists, A2[c] = RemoveFirst(A[c], p), \A x \in Allocs : x # c => A2[x] = A[x]
    PROVE  /\ AdoptionsMatch(D2, A2, L)
           /\ \A q, x \in Allocs : q # p => Count(A2[x], q) = Count(A[x], q)
           /\ \A q, x \in Allocs : Count(A2[x], q) <= Count(A[x], q)
<1>1. ASSUME NEW q \in Allocs, NEW x \in Allocs
      PROVE  /\ Count(D2[q], x) = Count(A2[x], q) /\ Count(D2[q], x) <= Count(D[q], x)
             /\ q # p => Count(A2[x], q) = Count(A[x], q)
  <2>1. /\ D[q] \in Seq(Allocs) /\ A[x] \in Seq(Allocs)
        /\ Count(D[q], x) \in Nat /\ Count(A[x], q) \in Nat /\ Count(D[q], x) = Count(A[x], q)
    BY CountIsNat DEF Lists, AdoptionsMatch
  <2>2. q = p => Count(D2[q], x) = IF x = c /\ Count(D[q], x) > 0 THEN Count(D[q], x) - 1 ELSE Count(D[q], x)
    BY <2>1, CountRemoveFirst
  <2>3. x = c => Count(A2[x], q) = IF q = p /\ Count(A[x], q) > 0 THEN Count(A[x], q) - 1 ELSE Count(A[x], q)
    BY <2>1, CountRemoveFirst
  <2>4. CASE q = p /\ x = c
    BY <2>1, <2>2, <2>3, <2>4
  <2>5. CASE q = p /\ x # c
    BY <2>1, <2>2, <2>5
  <2>6. CASE q # p /\ x = c
    BY <2>1, <2>3, <2>6
  <2>7. CASE q # p /\ x # c
    BY <2>1, <2>7
  <2> QED  BY <2>4, <2>5, <2>6, <2>7
<1>2. ASSUME NEW q \in Allocs, NEW x \in Allocs, Count(D2[q], x) > 0 PROVE q \in L /\ x \in L
  <2>1. Count(D[q], x) \in Nat /\ Count(D2[q], x) \in Nat
    BY CountIsNat DEF Lists
  <2>2. Count(D[q], x) > 0
    BY <1>1, <1>2, <2>1
  <2> QED  BY <2>2 DEF AdoptionsMatch
<1>3. \A q, x \in Allocs : Count(A2[x], q) <= Count(A[x], q)
  BY <1>1 DEF AdoptionsMatch
<1> QED  BY <1>1, <1>2, <1>3 DEF AdoptionsMatch

\* A list without entries is empty.
LEMMA EmptyList ==
    ASSUME NEW s \in Seq(Allocs)
    PROVE  /\ s = <<>> <=> ToSet(s) = {}
           /\ ToSet(s) = {e \in Allocs : Count(s, e) > 0}
<1>1. DOMAIN s = 1 .. Len(s) /\ Len(s) \in Nat
  OBVIOUS
<1>2. s # <<>> => s[1] \in ToSet(s)
  BY <1>1 DEF ToSet
<1>3. s = <<>> => ToSet(s) = {}
  BY DEF ToSet
<1>4. ToSet(s) \subseteq Allocs
  BY <1>1 DEF ToSet
<1>5. ToSet(s) = {e \in Allocs : Count(s, e) > 0}
  BY <1>4, CountIsNat
<1> QED  BY <1>2, <1>3, <1>5

\* The fields after disconnect, connect and disconnectAdopted.
Left(h, a, g) ==
    /\ g \in Heaps /\ g.live = h.live /\ g.freeing = h.freeing
    /\ g.adopters = h.adopters /\ g.adopted = h.adopted
    /\ g.parent[a] = NoAlloc /\ \A c \in Allocs : c # a => g.parent[c] = h.parent[c]
    /\ g.kids[h.parent[a]] = RemoveFirst(h.kids[h.parent[a]], a)
    /\ \A q \in Allocs : q # h.parent[a] => g.kids[q] = h.kids[q]

Joined(h, p, a, g) ==
    /\ g \in Heaps /\ g.live = h.live /\ g.freeing = h.freeing
    /\ g.adopters = h.adopters /\ g.adopted = h.adopted
    /\ g.parent[a] = p /\ \A c \in Allocs : c # a => g.parent[c] = h.parent[c]
    /\ g.kids[p] = <<a>> \o h.kids[p]
    /\ \A q \in Allocs : q # p => g.kids[q] = h.kids[q]

Ended(h, p, c, g) ==
    /\ g \in Heaps /\ g.live = h.live /\ g.freeing = h.freeing
    /\ g.parent = h.parent /\ g.kids = h.kids
    /\ g.adopted[p] = RemoveFirst(h.adopted[p], c)
    /\ \A q \in Allocs : q # p => g.adopted[q] = h.adopted[q]
    /\ g.adopters[c] = RemoveFirst(h.adopters[c], p)
    /\ \A x \in Allocs : x # c => g.adopters[x] = h.adopters[x]

LEMMA DisconnectFields ==
    ASSUME NEW h \in Heaps, NEW a \in Allocs, h.parent[a] \in Allocs, NEW g, g = Disconnect(h, a)
    PROVE  Left(h, a, g)
<1>1. PICK p \in Allocs : p = h.parent[a]
  OBVIOUS
<1>2. h.kids \in Lists /\ h.parent \in Parentage
  BY DEF Heaps
<1>3. PICK r : r = RemoveFirst(h.kids[p], a)
  OBVIOUS
<1>4. r \in Seq(Allocs)
  BY <1>2, <1>3, CountRemoveFirst DEF Lists
<1>5. PICK K, P : K = [h.kids EXCEPT ![p] = r] /\ P = [h.parent EXCEPT ![a] = NoAlloc]
  OBVIOUS
<1>6. K \in Lists /\ P \in Parentage
  BY <1>2, <1>4, <1>5 DEF Lists, Parentage
<1>7. g = [h EXCEPT !.kids = K, !.parent = P]
  BY <1>1, <1>3, <1>5 DEF Disconnect
<1>8. /\ g \in Heaps /\ g.live = h.live /\ g.freeing = h.freeing
      /\ g.adopters = h.adopters /\ g.adopted = h.adopted /\ g.kids = K /\ g.parent = P
  BY <1>6, <1>7 DEF Heaps
<1>9. /\ P[a] = NoAlloc /\ \A c \in Allocs : c # a => P[c] = h.parent[c]
      /\ K[p] = r /\ \A q \in Allocs : q # p => K[q] = h.kids[q]
  BY <1>2, <1>5 DEF Lists, Parentage
<1> QED  BY <1>1, <1>3, <1>8, <1>9 DEF Left

LEMMA ConnectFields ==
    ASSUME NEW h \in Heaps, NEW p \in Allocs, NEW a \in Allocs, NEW g, g = Connect(h, p, a)
    PROVE  Joined(h, p, a, g)
<1>2. h.kids \in Lists /\ h.parent \in Parentage
  BY DEF Heaps
<1>3. PICK r : r = <<a>> \o h.kids[p]
  OBVIOUS
<1>4. r \in Seq(Allocs)
  BY <1>2, <1>3, CountCons DEF Lists
<1>5. PICK K, P : K = [h.kids EXCEPT ![p] = r] /\ P = [h.parent EXCEPT ![a] = p]
  OBVIOUS
<1>6. K \in Lists /\ P \in Parentage
  BY <1>2, <1>4, <1>5 DEF Lists, Parentage
<1>7. g = [h EXCEPT !.kids = K, !.parent = P]
  BY <1>3, <1>5 DEF Connect
<1>8. /\ g \in Heaps /\ g.live = h.live /\ g.freeing = h.freeing
      /\ g.adopters = h.adopters /\ g.adopted = h.adopted /\ g.kids = K /\ g.parent = P
  BY <1>6, <1>7 DEF Heaps
<1>9. /\ P[a] = p /\ \A c \in Allocs : c # a => P[c] = h.parent[c]
      /\ K[p] = r /\ \A q \in Allocs : q # p => K[q] = h.kids[q]
  BY <1>2, <1>5 DEF Lists, Parentage
<1> QED  BY <1>3, <1>8, <1>9 DEF Joined

LEMMA DisconnectAdoptedFields ==
    ASSUME NEW h \in Heaps, NEW p \in Allocs, NEW c \in Allocs, NEW g, g = DisconnectAdopted(h, p, c)
    PROVE  Ended(h, p, c, g)
<1>2. h.adopted \in Lists /\ h.adopters \in Lists
  BY DEF Heaps
<1>3. PICK r, s : r = RemoveFirst(h.adopted[p], c) /\ s = RemoveFirst(h.adopters[c], p)
  OBVIOUS
<1>4. r \in Seq(Allocs) /\ s \in Seq(Allocs)
  BY <1>2, <1>3, CountRemoveFirst DEF Lists
<1>5. PICK D, A : D = [h.adopted EXCEPT ![p] = r] /\ A = [h.adopters EXCEPT ![c] = s]
  OBVIOUS
<1>6. D \in Lists /\ A \in Lists
  BY <1>2, <1>4, <1>5 DEF Lists
<1>7. g = [h EXCEPT !.adopted = D, !.adopters = A]
  BY <1>3, <1>5 DEF DisconnectAdopted
<1>8. /\ g \in Heaps /\ g.live = h.live /\ g.freeing = h.freeing
      /\ g.parent = h.parent /\ g.kids = h.kids /\ g.adopted = D /\ g.adopters = A
  BY <1>6, <1>7 DEF Heaps
<1>9. /\ D[p] = r /\ \A q \in Allocs : q # p => D[q] = h.adopted[q]
      /\ A[c] = s /\ \A x \in Allocs : x # c => A[x] = h.adopters[x]
  BY <1>2, <1>5 DEF Lists
<1> QED  BY <1>3, <1>8, <1>9 DEF Ended
-----------------------------------------------------------------------------
\* g is h after a has given up the first k allocators that it had adopted.
GivenUp(h, a, k, g) ==
    /\ g \in Heaps /\ g.live = h.live /\ g.freeing = h.freeing
    /\ g.parent = h.parent /\ g.kids = h.kids
    /\ AdoptionsMatch(g.adopted, g.adopters, g.live)
    /\ Len(g.adopted[a]) = Len(h.adopted[a]) - k
    /\ \A i \in 1 .. Len(h.adopted[a]) - k : g.adopted[a][i] = h.adopted[a][k + i]
    /\ \A c, q \in Allocs : q # a => Count(g.adopters[c], q) = Count(h.adopters[c], q)

LEMMA GiveUpRound ==
    ASSUME NEW h \in Heaps, NEW a \in Allocs, NEW k \in 1 .. Len(h.adopted[a]),
           NEW g, GivenUp(h, a, k - 1, g),
           NEW f, f = DisconnectAdopted(g, a, h.adopted[a][k])
    PROVE  GivenUp(h, a, k, f)
<1>0. PICK own \in Seq(Allocs) : own = h.adopted[a]
  BY DEF Heaps, Lists
<1>1. PICK n \in Nat : own = h.adopted[a] /\ n = Len(own)
  BY <1>0
<1>2. PICK c \in Allocs : c = own[k] /\ k \in 1 .. n
  BY <1>1
<1>3. PICK s : s = g.adopted[a]
  OBVIOUS
<1>4. s \in Seq(Allocs) /\ Len(s) = n - (k - 1) /\ \A i \in 1 .. n - (k - 1) : s[i] = own[k - 1 + i]
  BY <1>1, <1>3 DEF GivenUp, Heaps, Lists
<1>5. s # <<>> /\ Head(s) = c
  <2>1. 1 \in 1 .. n - (k - 1) /\ k - 1 + 1 = k
    BY <1>2
  <2>2. s[1] = own[k]
    BY <1>4, <2>1
  <2>3. Len(s) > 0
    BY <1>2, <1>4
  <2> QED  BY <1>2, <1>4, <2>2, <2>3
<1>6. /\ f \in Heaps /\ f.live = g.live /\ f.freeing = g.freeing
      /\ f.parent = g.parent /\ f.kids = g.kids
      /\ f.adopted[a] = RemoveFirst(s, c)
      /\ \A q \in Allocs : q # a => f.adopted[q] = g.adopted[q]
      /\ f.adopters[c] = RemoveFirst(g.adopters[c], a)
      /\ \A x \in Allocs : x # c => f.adopters[x] = g.adopters[x]
  <2>1. g \in Heaps /\ f = DisconnectAdopted(g, a, c)
    BY <1>1, <1>2 DEF GivenUp
  <2>2. /\ f \in Heaps /\ f.live = g.live /\ f.freeing = g.freeing
        /\ f.parent = g.parent /\ f.kids = g.kids
        /\ f.adopted[a] = RemoveFirst(g.adopted[a], c)
        /\ \A q \in Allocs : q # a => f.adopted[q] = g.adopted[q]
        /\ f.adopters[c] = RemoveFirst(g.adopters[c], a)
        /\ \A x \in Allocs : x # c => f.adopters[x] = g.adopters[x]
    <3>1. Ended(g, a, c, f)
      BY <2>1, DisconnectAdoptedFields
    <3> QED  BY <3>1 DEF Ended
  <2> QED  BY <1>3, <2>2
<1>7. /\ AdoptionsMatch(f.adopted, f.adopters, f.live)
      /\ \A q, x \in Allocs : q # a => Count(f.adopters[x], q) = Count(g.adopters[x], q)
  <2>1. PICK D, A, L : D = g.adopted /\ A = g.adopters /\ L = g.live
    OBVIOUS
  <2>2. PICK D2, A2 : D2 = f.adopted /\ A2 = f.adopters
    OBVIOUS
  <2>3. /\ D \in Lists /\ A \in Lists /\ D2 \in Lists /\ A2 \in Lists /\ AdoptionsMatch(D, A, L)
        /\ f.live = L
    BY <1>6, <2>1, <2>2 DEF GivenUp, Heaps
  <2>4. /\ D2[a] = RemoveFirst(D[a], c) /\ \A q \in Allocs : q # a => D2[q] = D[q]
        /\ A2[c] = RemoveFirst(A[c], a) /\ \A x \in Allocs : x # c => A2[x] = A[x]
    BY <1>3, <1>6, <2>1, <2>2
  <2>5. AdoptionsMatch(D2, A2, L) /\ \A q, x \in Allocs : q # a => Count(A2[x], q) = Count(A[x], q)
    BY <2>3, <2>4, AdoptionEnds
  <2> QED  BY <2>1, <2>2, <2>3, <2>5
<1>8. f.adopted[a] = Tail(s)
  BY <1>4, <1>5, <1>6, RemoveHead
<1>9. PICK t : t = f.adopted[a]
  OBVIOUS
<1>10. Len(t) = n - k /\ \A i \in 1 .. n - k : t[i] = own[k + i]
  <2>0. PICK m \in Nat : m = Len(s) /\ m > 0
    BY <1>2, <1>4
  <2>1. Len(t) = n - k /\ \A i \in 1 .. n - k : t[i] = s[i + 1]
    <3>1. Len(t) = m - 1 /\ \A i \in 1 .. m - 1 : t[i] = s[i + 1]
      BY <1>4, <1>5, <1>8, <1>9, <2>0
    <3>2. m - 1 = n - k
      BY <1>2, <1>4, <2>0
    <3> QED  BY <3>1, <3>2
  <2>2. \A i \in 1 .. n - k : i + 1 \in 1 .. n - (k - 1) /\ k - 1 + (i + 1) = k + i
    BY <1>2
  <2> QED  BY <1>4, <2>1, <2>2
<1> QED  BY <1>1, <1>6, <1>7, <1>9, <1>10 DEF GivenUp

\* An allocator has given up all that it had adopted, and nobody else has.
LEMMA GiveUpEnds ==
    ASSUME NEW h, Linked(h), NEW a \in Allocs
    PROVE  GivenUp(h, a, Len(h.adopted[a]), GiveUp(h, a))
<1> DEFINE own == h.adopted[a]
           n == Len(own)
           Put(k, g) == DisconnectAdopted(g, a, own[k])
           I == [k \in 0 .. n |-> {g \in Heaps : GivenUp(h, a, k, g)}]
           G == [k \in 1 .. n |-> [g \in Heaps |-> Put(k, g)]]
           Rhs(f) == [k \in 0 .. n |-> IF k = 0 THEN h ELSE DisconnectAdopted(f[k - 1], a, own[k])]
           F == CHOOSE f : f = Rhs(f)
<1>1. GiveUp(h, a) = F[n]
  BY DEF GiveUp
<1>2. n \in Nat /\ h \in Heaps /\ own \in Seq(Allocs)
  BY DEF Linked, Heaps, Lists
<1>3. ASSUME NEW k \in 1 .. n, NEW g \in Heaps, GivenUp(h, a, k - 1, g)
      PROVE  Put(k, g) \in Heaps /\ GivenUp(h, a, k, Put(k, g))
  <2>1. PICK f : f = Put(k, g)
    OBVIOUS
  <2>2. GivenUp(h, a, k, f)
    BY <1>2, <1>3, <2>1, GiveUpRound
  <2>3. f \in Heaps
    BY <2>2 DEF GivenUp
  <2> QED  BY <2>1, <2>2, <2>3
<1>4. GivenUp(h, a, 0, h)
  BY <1>2 DEF GivenUp, Linked
<1> HIDE DEF own, n
<1>5. \A k \in 1 .. n : k \in 0 .. n /\ k - 1 \in 0 .. n
  BY <1>2
<1>6. \A k \in 1 .. n : \A g \in I[k - 1] : g \in Heaps /\ G[k][g] = Put(k, g) /\ G[k][g] \in I[k]
  <2> HIDE DEF Put
  <2> QED  BY <1>3, <1>5
<1>7. h \in I[0]
  BY <1>2, <1>4
<1>8. PICK f : Runs(n, h, G, f) /\ \A k \in 0 .. n : f[k] \in I[k]
  <2> HIDE DEF I, G, Put
  <2> QED  BY <1>2, <1>6, <1>7, Loop
<1>9. \A k \in 1 .. n : G[k][f[k - 1]] = Put(k, f[k - 1])
  <2> HIDE DEF Put, G, I
  <2> QED  BY <1>5, <1>6, <1>8
<1>10. f = Rhs(f)
  <2>1. f = [k \in 0 .. n |-> IF k = 0 THEN h ELSE G[k][f[k - 1]]]
    BY <1>8 DEF Runs
  <2> HIDE DEF G
  <2>2. \A k \in 0 .. n : (IF k = 0 THEN h ELSE G[k][f[k - 1]])
                           = IF k = 0 THEN h ELSE DisconnectAdopted(f[k - 1], a, own[k])
    BY <1>2, <1>9
  <2> QED  BY <2>1, <2>2
<1>11. F = Rhs(F)
  BY <1>10
<1>12. F[0] = h /\ \A k \in 1 .. n : F[k] = Put(k, F[k - 1])
  <2> HIDE DEF F
  <2>1. \A k \in 0 .. n : F[k] = IF k = 0 THEN h ELSE Put(k, F[k - 1])
    <3>1. F = [k \in 0 .. n |-> IF k = 0 THEN h ELSE Put(k, F[k - 1])]
      BY <1>11
    <3> HIDE DEF Put
    <3> QED  BY <3>1
  <2> HIDE DEF Put
  <2>2. 0 \in 0 .. n /\ \A k \in 1 .. n : k \in 0 .. n /\ k # 0
    BY <1>2
  <2> QED  BY <2>1, <2>2
<1> HIDE DEF F, Put
<1>13. F[0] \in I[0] /\ \A k \in 1 .. n : F[k - 1] \in I[k - 1] => F[k] \in I[k]
  BY <1>3, <1>5, <1>7, <1>12
<1>14. F[n] \in I[n]
  <2> HIDE DEF I
  <2>1. \A k \in 0 .. n : F[k] \in I[k]
    BY <1>2, <1>13, Induction
  <2> QED  BY <1>2, <2>1
<1>15. GivenUp(h, a, n, F[n])
  BY <1>2, <1>14
<1> QED  BY <1>1, <1>15 DEF n, own
-----------------------------------------------------------------------------
LEMMA LeftLinked ==
    ASSUME NEW h, Linked(h), NEW a \in Allocs, a # Root, h.parent[a] \in Allocs, NEW g, Left(h, a, g)
    PROVE  Linked(g)
<1>1. PICK P, K : P = h.parent /\ K = h.kids
  OBVIOUS
<1>2. PICK P2, K2 : P2 = g.parent /\ K2 = g.kids
  OBVIOUS
<1>3. PICK p \in Allocs : p = P[a]
  BY <1>1
<1>4. P \in Parentage /\ K \in Lists /\ P2 \in Parentage /\ K2 \in Lists /\ KidsMatch(P, K)
  BY <1>1, <1>2 DEF Linked, Left, Heaps
<1>5. /\ P2[a] = NoAlloc /\ \A c \in Allocs : c # a => P2[c] = P[c]
      /\ K2[p] = RemoveFirst(K[p], a) /\ \A q \in Allocs : q # p => K2[q] = K[q]
  BY <1>1, <1>2, <1>3 DEF Left
<1>6. KidsMatch(P2, K2)
  BY <1>3, <1>4, <1>5, KidsDisconnect
<1> QED  BY <1>2, <1>6 DEF Linked, Left

LEMMA JoinedLinked ==
    ASSUME NEW h, Linked(h), NEW a \in Allocs, a # Root, h.parent[a] = NoAlloc, NEW p \in Allocs,
           NEW g, Joined(h, p, a, g)
    PROVE  Linked(g)
<1>1. PICK P, K : P = h.parent /\ K = h.kids
  OBVIOUS
<1>2. PICK P2, K2 : P2 = g.parent /\ K2 = g.kids
  OBVIOUS
<1>4. P \in Parentage /\ K \in Lists /\ P2 \in Parentage /\ K2 \in Lists /\ KidsMatch(P, K)
  BY <1>1, <1>2 DEF Linked, Joined, Heaps
<1>5. /\ P[a] = NoAlloc /\ P2[a] = p /\ \A c \in Allocs : c # a => P2[c] = P[c]
      /\ K2[p] = <<a>> \o K[p] /\ \A q \in Allocs : q # p => K2[q] = K[q]
  BY <1>1, <1>2 DEF Joined
<1>6. KidsMatch(P2, K2)
  BY <1>4, <1>5, KidsConnect
<1> QED  BY <1>2, <1>6 DEF Linked, Joined

\* The adopters are allocators in use, and so is what they have adopted.
LEMMA AdoptersLive ==
    ASSUME NEW h, Linked(h), NEW c \in Allocs
    PROVE  /\ Adopters(h, c) = {p \in Allocs : Count(h.adopters[c], p) > 0}
           /\ h.adopters[c] \in Seq(Allocs) /\ (h.adopters[c] = <<>> <=> Adopters(h, c) = {})
           /\ \A p \in Adopters(h, c) : p \in Allocs /\ p \in h.live /\ c \in h.live
<1>1. h.adopters[c] \in Seq(Allocs)
  BY DEF Linked, Heaps, Lists
<1>2. PICK s \in Seq(Allocs) : s = h.adopters[c]
  BY <1>1
<1>3. /\ Adopters(h, c) = {p \in Allocs : Count(h.adopters[c], p) > 0}
      /\ h.adopters[c] = <<>> <=> Adopters(h, c) = {}
  BY <1>2, EmptyList DEF Adopters
<1>4. ASSUME NEW p \in Allocs, Count(h.adopters[c], p) > 0 PROVE p \in h.live /\ c \in h.live
  BY <1>4 DEF Linked, AdoptionsMatch
<1> QED  BY <1>1, <1>3, <1>4

LEMMA EndedLinked ==
    ASSUME NEW h, Linked(h), NEW p \in Allocs, NEW c \in Allocs, NEW g, Ended(h, p, c, g)
    PROVE  /\ Linked(g)
           /\ \A x \in Allocs : /\ Adopters(g, x) \subseteq Adopters(h, x)
                                /\ Adopters(h, x) \subseteq Adopters(g, x) \cup {p}
                                /\ x # c => Adopters(g, x) = Adopters(h, x)
<1>1. PICK D, A, L : D = h.adopted /\ A = h.adopters /\ L = h.live
  OBVIOUS
<1>2. PICK D2, A2 : D2 = g.adopted /\ A2 = g.adopters
  OBVIOUS
<1>3. /\ D \in Lists /\ A \in Lists /\ D2 \in Lists /\ A2 \in Lists /\ AdoptionsMatch(D, A, L)
      /\ g.live = L
  BY <1>1, <1>2 DEF Linked, Ended, Heaps
<1>4. /\ D2[p] = RemoveFirst(D[p], c) /\ \A q \in Allocs : q # p => D2[q] = D[q]
      /\ A2[c] = RemoveFirst(A[c], p) /\ \A x \in Allocs : x # c => A2[x] = A[x]
  BY <1>1, <1>2 DEF Ended
<1>5. /\ AdoptionsMatch(D2, A2, L) /\ \A q, x \in Allocs : q # p => Count(A2[x], q) = Count(A[x], q)
      /\ \A q, x \in Allocs : Count(A2[x], q) <= Count(A[x], q)
  BY <1>3, <1>4, AdoptionEnds
<1>6. Linked(g)
  BY <1>2, <1>3, <1>5 DEF Linked, Ended
<1>7. ASSUME NEW x \in Allocs
      PROVE  /\ Adopters(g, x) \subseteq Adopters(h, x)
             /\ Adopters(h, x) \subseteq Adopters(g, x) \cup {p}
             /\ x # c => Adopters(g, x) = Adopters(h, x)
  <2>1. /\ Adopters(h, x) = {q \in Allocs : Count(A[x], q) > 0}
        /\ Adopters(g, x) = {q \in Allocs : Count(A2[x], q) > 0}
    BY <1>1, <1>2, <1>6, AdoptersLive
  <2>2. \A q \in Allocs : Count(A[x], q) \in Nat /\ Count(A2[x], q) \in Nat
    BY <1>3, CountIsNat DEF Lists
  <2>3. \A q \in Allocs : Count(A2[x], q) > 0 => Count(A[x], q) > 0
    BY <1>5, <2>2
  <2>4. x # c => A2[x] = A[x]
    BY <1>4
  <2> QED  BY <1>5, <2>1, <2>3, <2>4
<1> QED  BY <1>6, <1>7

-----------------------------------------------------------------------------
\* What pivotChildrenToAdoptedParents0 does to an allocator: it moves to its adopter p,
\* or is marked.
Moved(h, a, p, g) ==
    /\ Linked(g) /\ g.live = h.live /\ g.freeing = h.freeing /\ p \in Adopters(h, a)
    /\ g.parent[a] = p /\ \A c \in Allocs : c # a => g.parent[c] = h.parent[c]
    /\ \A c \in Allocs : /\ Adopters(g, c) \subseteq Adopters(h, c)
                         /\ c # a => Adopters(g, c) = Adopters(h, c)
    /\ Adopters(h, a) \subseteq Adopters(g, a) \cup {p}

Dropped(h, a, top, g) ==
    /\ Linked(g) /\ g.live = h.live \ {a} /\ g.freeing = h.freeing \cup {a} /\ Adopters(h, a) = {}
    /\ g.parent[a] = IF a = top /\ h.parent[a] # a THEN NoAlloc ELSE h.parent[a]
    /\ \A c \in Allocs : c # a => g.parent[c] = h.parent[c]
    /\ \A c \in Allocs : Adopters(g, c) = Adopters(h, c) \ {a}

LEMMA MoveDoes ==
    ASSUME NEW h, Linked(h), NEW a \in Allocs, a # Root, h.parent[a] \in Allocs,
           NEW p \in Allocs, p \in Adopters(h, a), NEW g,
           g = DisconnectAdopted(Connect(Disconnect(h, a), p, a), p, a)
    PROVE  Moved(h, a, p, g)
<1>1. PICK d : d = Disconnect(h, a)
  OBVIOUS
<1>2. Left(h, a, d)
  BY <1>1, DisconnectFields DEF Linked
<1>3. Linked(d)
  BY <1>2, LeftLinked
<1>4. PICK e : e = Connect(d, p, a)
  OBVIOUS
<1>5. Joined(d, p, a, e)
  BY <1>3, <1>4, ConnectFields DEF Linked
<1>6. Linked(e)
  BY <1>2, <1>3, <1>5, JoinedLinked DEF Left
<1>7. g = DisconnectAdopted(e, p, a)
  BY <1>1, <1>4
<1>8. Ended(e, p, a, g)
  BY <1>6, <1>7, DisconnectAdoptedFields DEF Linked
<1>9. /\ Linked(g)
      /\ \A x \in Allocs : /\ Adopters(g, x) \subseteq Adopters(e, x)
                           /\ Adopters(e, x) \subseteq Adopters(g, x) \cup {p}
                           /\ x # a => Adopters(g, x) = Adopters(e, x)
  BY <1>6, <1>8, EndedLinked
<1>10. \A x \in Allocs : Adopters(e, x) = Adopters(h, x)
  BY <1>2, <1>5 DEF Left, Joined, Adopters
<1>11. /\ g.live = h.live /\ g.freeing = h.freeing
       /\ g.parent[a] = p /\ \A c \in Allocs : c # a => g.parent[c] = h.parent[c]
  BY <1>2, <1>5, <1>8 DEF Left, Joined, Ended
<1> QED  BY <1>9, <1>10, <1>11 DEF Moved

LEMMA DropDoes ==
    ASSUME NEW h, Linked(h), NEW a \in Allocs, Adopters(h, a) = {}, NEW top,
           a = Root => h.parent[a] = a, a # Root => h.parent[a] \in Allocs,
           NEW g, g = Drop(h, a, top)
    PROVE  Dropped(h, a, top, g)
<1>1. PICK e : e = GiveUp(h, a)
  OBVIOUS
<1>2. PICK own \in Seq(Allocs) : own = h.adopted[a]
  BY DEF Linked, Heaps, Lists
<1>3. GivenUp(h, a, Len(own), e)
  BY <1>1, <1>2, GiveUpEnds
<1>4. /\ e \in Heaps /\ e.live = h.live /\ e.freeing = h.freeing
      /\ e.parent = h.parent /\ e.kids = h.kids
      /\ AdoptionsMatch(e.adopted, e.adopters, e.live)
      /\ \A c, q \in Allocs : q # a => Count(e.adopters[c], q) = Count(h.adopters[c], q)
  BY <1>3 DEF GivenUp
<1>5. Linked(e)
  BY <1>4 DEF Linked
<1>6. \A c \in Allocs : ~(Count(e.adopted[a], c) > 0)
  <2>1. PICK s \in Seq(Allocs) : s = e.adopted[a]
    BY <1>4 DEF Heaps, Lists
  <2>2. Len(s) = Len(own) - Len(own) /\ Len(own) \in Nat
    BY <1>2, <1>3, <2>1 DEF GivenUp
  <2>3. s = <<>>
    BY <2>1, <2>2
  <2>4. ToSet(s) = {}
    BY <2>3, EmptyList
  <2> QED  BY <2>1, <2>4, CountIsNat
<1>7. \A c \in Allocs : Adopters(e, c) = Adopters(h, c) \ {a}
  <2>1. ASSUME NEW c \in Allocs PROVE Adopters(e, c) = Adopters(h, c) \ {a}
    <3>1. /\ Adopters(e, c) = {p \in Allocs : Count(e.adopters[c], p) > 0}
          /\ Adopters(h, c) = {p \in Allocs : Count(h.adopters[c], p) > 0}
      BY <1>5, AdoptersLive
    <3>2. ~(Count(e.adopters[c], a) > 0)
      BY <1>4, <1>6 DEF AdoptionsMatch
    <3> QED  BY <1>4, <3>1, <3>2
  <2> QED  BY <2>1
<1>8. PICK d : d = IF a = top /\ h.parent[a] # a THEN Disconnect(e, a) ELSE e
  OBVIOUS
<1>9. /\ Linked(d) /\ d.live = h.live /\ d.freeing = h.freeing
      /\ d.adopters = e.adopters /\ d.adopted = e.adopted
      /\ d.parent[a] = IF a = top /\ h.parent[a] # a THEN NoAlloc ELSE h.parent[a]
      /\ \A c \in Allocs : c # a => d.parent[c] = h.parent[c]
  <2>1. CASE a = top /\ h.parent[a] # a
    <3>1. a # Root /\ e.parent[a] \in Allocs
      BY <1>4, <2>1
    <3>2. d = Disconnect(e, a)
      BY <1>8, <2>1
    <3>3. Left(e, a, d)
      BY <1>4, <3>1, <3>2, DisconnectFields
    <3>4. Linked(d)
      BY <1>5, <3>1, <3>3, LeftLinked
    <3> QED  BY <1>4, <2>1, <3>3, <3>4 DEF Left
  <2>2. CASE ~(a = top /\ h.parent[a] # a)
    <3>1. d = e
      BY <1>8, <2>2
    <3> QED  BY <1>4, <1>5, <2>2, <3>1
  <2> QED  BY <2>1, <2>2
<1>10. g = [d EXCEPT !.live = @ \ {a}, !.freeing = @ \cup {a}]
  BY <1>1, <1>8 DEF Drop
<1>11. /\ g \in Heaps /\ g.live = h.live \ {a} /\ g.freeing = h.freeing \cup {a}
       /\ g.parent = d.parent /\ g.kids = d.kids
       /\ g.adopters = e.adopters /\ g.adopted = e.adopted
  <2>1. d \in Heaps
    BY <1>9 DEF Linked
  <2> QED  BY <1>9, <1>10, <2>1 DEF Heaps
<1>12. AdoptionsMatch(e.adopted, e.adopters, h.live \ {a})
  <2>1. ASSUME NEW p \in Allocs, NEW c \in Allocs, Count(e.adopted[p], c) > 0
        PROVE  p \in h.live \ {a} /\ c \in h.live \ {a}
    <3>1. p \in h.live /\ c \in h.live /\ p # a
      BY <1>4, <1>6, <2>1 DEF AdoptionsMatch
    <3>2. Count(e.adopters[c], p) > 0
      BY <1>4, <2>1 DEF AdoptionsMatch
    <3>3. p \in Adopters(e, c)
      BY <1>5, <3>2, AdoptersLive
    <3>4. c # a
      BY <1>7, <3>3
    <3> QED  BY <3>1, <3>4
  <2> QED  BY <1>4, <2>1 DEF AdoptionsMatch
<1>13. Linked(g)
  BY <1>9, <1>11, <1>12 DEF Linked
<1>14. \A c \in Allocs : Adopters(g, c) = Adopters(h, c) \ {a}
  BY <1>7, <1>11 DEF Adopters
<1> QED  BY <1>9, <1>11, <1>13, <1>14 DEF Dropped

LEMMA VisitDoes ==
    ASSUME NEW h, Linked(h), NEW a \in Allocs, NEW top,
           a = Root => h.parent[a] = a /\ Adopters(h, a) = {}, a # Root => h.parent[a] \in Allocs,
           NEW g, g = Visit(h, a, top)
    PROVE  Dropped(h, a, top, g) \/ \E p \in Allocs : Moved(h, a, p, g)
<1>1. h.adopters[a] \in Seq(Allocs) /\ (h.adopters[a] = <<>> <=> Adopters(h, a) = {})
  BY AdoptersLive
<1>2. CASE h.adopters[a] = <<>>
  <2>1. g = Drop(h, a, top)
    BY <1>2 DEF Visit
  <2> QED  BY <1>1, <1>2, <2>1, DropDoes
<1>3. CASE h.adopters[a] # <<>>
  <2>1. PICK s \in Seq(Allocs) : s = h.adopters[a] /\ s # <<>>
    BY <1>1, <1>3
  <2>2. PICK p : p = Head(s)
    OBVIOUS
  <2>3. p \in Allocs /\ p \in Adopters(h, a)
    BY <2>1, <2>2, RemoveHead DEF Adopters
  <2>4. g = DisconnectAdopted(Connect(Disconnect(h, a), p, a), p, a)
    BY <1>3, <2>1, <2>2 DEF Visit
  <2>5. a # Root /\ h.parent[a] \in Allocs
    BY <1>1, <1>3
  <2> QED  BY <2>3, <2>4, <2>5, MoveDoes
<1> QED  BY <1>2, <1>3
-----------------------------------------------------------------------------
\* Induction up to n.
LEMMA UpTo ==
    ASSUME NEW n \in Nat, NEW S, 0 \in S, \A k \in 1 .. n : k - 1 \in S => k \in S
    PROVE  \A k \in 0 .. n : k \in S
<1> DEFINE Bad == {k \in 0 .. n : k \notin S}
<1>1. SUFFICES ASSUME Bad # {} PROVE FALSE
  OBVIOUS
<1>2. PICK m \in Bad : \A k \in Bad : m <= k
  <2>1. Bad \in SUBSET Nat
    OBVIOUS
  <2> HIDE DEF Bad
  <2> QED  BY <1>1, <2>1, LeastNat
<1>3. m # 0
  BY <1>2
<1>4. m - 1 \in 0 .. n /\ m - 1 \notin Bad /\ m \in 1 .. n
  BY <1>2, <1>3
<1> QED  BY <1>2, <1>4

NoRepeat(s) == \A i, j \in DOMAIN s : s[i] = s[j] => i = j

\* The children of p are those whose parent is p, each once.
LEMMA KidsAre ==
    ASSUME NEW h, Linked(h), NEW p \in Allocs
    PROVE  /\ h.kids[p] \in Seq(Allocs) /\ NoRepeat(h.kids[p])
           /\ \A c : c \in ToSet(h.kids[p]) <=> c \in Allocs /\ c # Root /\ h.parent[c] = p
<1>1. PICK s \in Seq(Allocs) : s = h.kids[p]
  BY DEF Linked, Heaps, Lists
<1>2. \A c \in Allocs : Count(s, c) = IF h.parent[c] = p /\ c # Root THEN 1 ELSE 0
  BY <1>1 DEF Linked, KidsMatch
<1>3. ToSet(s) = {e \in Allocs : Count(s, e) > 0}
  BY EmptyList
<1>4. ASSUME NEW i \in DOMAIN s, NEW j \in DOMAIN s, s[i] = s[j] PROVE i = j
  <2>1. PICK c \in Allocs : c = s[i]
    OBVIOUS
  <2> DEFINE S == {x \in DOMAIN s : s[x] = c}
  <2>2. i \in S /\ j \in S
    BY <1>4, <2>1
  <2>3. IsFiniteSet(S) /\ Count(s, c) = Cardinality(S)
    BY CountIsNat DEF Count
  <2> HIDE DEF S
  <2>4. Cardinality(S) # 0 /\ (Cardinality(S) = 1 => \E x : S = {x})
    BY <2>2, <2>3, FS_EmptySet, FS_Singleton
  <2>5. Cardinality(S) = 1
    BY <1>2, <2>3, <2>4
  <2> QED  BY <2>2, <2>4, <2>5
<1>5. \A c \in Allocs : Count(s, c) > 0 <=> c # Root /\ h.parent[c] = p
  BY <1>2
<1> QED  BY <1>1, <1>3, <1>4, <1>5 DEF NoRepeat

\* t has the children of the first k of s.
ChildrenOf(h, s, k, t) ==
    /\ t \in Seq(Allocs) /\ NoRepeat(t)
    /\ \A c : c \in ToSet(t) <=> c \in Allocs /\ c # Root /\ \E i \in 1 .. k : h.parent[c] = s[i]

LEMMA ChildrenRound ==
    ASSUME NEW h, Linked(h), NEW s \in Seq(Allocs), NoRepeat(s), NEW k \in 1 .. Len(s),
           NEW t, ChildrenOf(h, s, k - 1, t), NEW u, u = t \o h.kids[s[k]]
    PROVE  ChildrenOf(h, s, k, u)
<1>1. s[k] \in Allocs /\ DOMAIN s = 1 .. Len(s) /\ Len(s) \in Nat
  OBVIOUS
<1>2. PICK v \in Seq(Allocs) : v = h.kids[s[k]]
  BY <1>1, KidsAre
<1>3. /\ NoRepeat(v)
      /\ \A c : c \in ToSet(v) <=> c \in Allocs /\ c # Root /\ h.parent[c] = s[k]
  BY <1>1, <1>2, KidsAre
<1>4. PICK m \in Nat, n \in Nat : m = Len(t) /\ n = Len(v)
  BY DEF ChildrenOf
<1>5. t \in Seq(Allocs) /\ DOMAIN t = 1 .. m /\ DOMAIN v = 1 .. n
  BY <1>4 DEF ChildrenOf
<1>6. /\ u \in Seq(Allocs) /\ DOMAIN u = 1 .. m + n
      /\ \A i \in 1 .. m : u[i] = t[i]
      /\ \A i \in 1 .. n : u[m + i] = v[i]
  <2>1. u = t \o v
    BY <1>2
  <2>2. /\ u \in Seq(Allocs) /\ Len(u) = m + n
        /\ \A i \in 1 .. m + n : u[i] = IF i <= m THEN t[i] ELSE v[i - m]
    BY <1>4, <1>5, <2>1
  <2>3. ASSUME NEW i \in 1 .. n PROVE u[m + i] = v[i]
    <3>0. PICK j : j = m + i
      OBVIOUS
    <3>1. j \in 1 .. m + n /\ ~(j <= m) /\ j - m = i
      BY <1>4, <3>0
    <3>2. u[j] = v[j - m]
      BY <2>2, <3>1
    <3> QED  BY <3>0, <3>1, <3>2
  <2>4. ASSUME NEW i \in 1 .. m PROVE u[i] = t[i]
    <3>1. i \in 1 .. m + n /\ i <= m
      BY <1>4
    <3> QED  BY <2>2, <3>1
  <2> QED  BY <2>2, <2>3, <2>4
<1>7. \A i \in 1 .. m + n : i \in 1 .. m \/ (i - m \in 1 .. n /\ m + (i - m) = i)
  BY <1>4
<1>8. \A c : c \in ToSet(u) <=> c \in ToSet(t) \/ c \in ToSet(v)
  <2>1. ASSUME NEW i \in DOMAIN u PROVE u[i] \in ToSet(t) \/ u[i] \in ToSet(v)
    BY <1>5, <1>6, <1>7 DEF ToSet
  <2>2. ASSUME NEW i \in DOMAIN t PROVE t[i] \in ToSet(u)
    <3>1. i \in DOMAIN u /\ u[i] = t[i]
      BY <1>4, <1>5, <1>6
    <3> QED  BY <3>1 DEF ToSet
  <2>3. ASSUME NEW i \in DOMAIN v PROVE v[i] \in ToSet(u)
    <3>1. i \in 1 .. n /\ m + i \in 1 .. m + n
      BY <1>4, <1>5
    <3>2. m + i \in DOMAIN u /\ u[m + i] = v[i]
      BY <1>6, <3>1
    <3> QED  BY <3>2 DEF ToSet
  <2> QED  BY <2>1, <2>2, <2>3 DEF ToSet
<1>9. \A c : ~(c \in ToSet(t) /\ c \in ToSet(v))
  <2>1. ASSUME NEW c, c \in ToSet(t), c \in ToSet(v) PROVE FALSE
    <3>1. PICK i \in 1 .. k - 1 : h.parent[c] = s[i]
      BY <2>1 DEF ChildrenOf
    <3>2. s[i] = s[k]
      BY <1>3, <2>1, <3>1
    <3>3. i \in DOMAIN s /\ k \in DOMAIN s /\ i # k
      BY <1>1
    <3> QED  BY <3>2, <3>3 DEF NoRepeat
  <2> QED  BY <2>1
<1>10. NoRepeat(u)
  <2>1. ASSUME NEW i \in DOMAIN u, NEW j \in DOMAIN u, u[i] = u[j] PROVE i = j
    <3>1. CASE i \in 1 .. m /\ j \in 1 .. m
      BY <1>5, <1>6, <2>1, <3>1 DEF NoRepeat, ChildrenOf
    <3>2. CASE i \in 1 .. m /\ j - m \in 1 .. n /\ m + (j - m) = j
      <4>1. u[i] \in ToSet(t) /\ u[j] \in ToSet(v)
        BY <1>5, <1>6, <3>2 DEF ToSet
      <4> QED  BY <1>9, <2>1, <4>1
    <3>3. CASE j \in 1 .. m /\ i - m \in 1 .. n /\ m + (i - m) = i
      <4>1. u[j] \in ToSet(t) /\ u[i] \in ToSet(v)
        BY <1>5, <1>6, <3>3 DEF ToSet
      <4> QED  BY <1>9, <2>1, <4>1
    <3>4. CASE i - m \in 1 .. n /\ m + (i - m) = i /\ j - m \in 1 .. n /\ m + (j - m) = j
      <4>1. v[i - m] = v[j - m]
        BY <1>6, <2>1, <3>4
      <4>2. i - m = j - m
        BY <1>3, <1>5, <3>4, <4>1 DEF NoRepeat
      <4> QED  BY <3>4, <4>2
    <3> QED  BY <1>6, <1>7, <3>1, <3>2, <3>3, <3>4
  <2> QED  BY <2>1 DEF NoRepeat
<1>11. ASSUME NEW c
       PROVE  c \in ToSet(u) <=> c \in Allocs /\ c # Root /\ \E i \in 1 .. k : h.parent[c] = s[i]
  <2>1. c \in ToSet(t) <=> c \in Allocs /\ c # Root /\ \E i \in 1 .. k - 1 : h.parent[c] = s[i]
    BY DEF ChildrenOf
  <2>2. \A i \in 1 .. k : i = k \/ i \in 1 .. k - 1
    BY <1>1
  <2>3. k \in 1 .. k /\ \A i \in 1 .. k - 1 : i \in 1 .. k
    BY <1>1
  <2>4. (\E i \in 1 .. k : h.parent[c] = s[i]) <=> (\E i \in 1 .. k - 1 : h.parent[c] = s[i]) \/ h.parent[c] = s[k]
    BY <2>2, <2>3
  <2> QED  BY <1>3, <1>8, <2>1, <2>4
<1> QED  BY <1>6, <1>10, <1>11 DEF ChildrenOf

LEMMA ChildrenAre ==
    ASSUME NEW h, Linked(h), NEW s \in Seq(Allocs), NoRepeat(s)
    PROVE  ChildrenOf(h, s, Len(s), Children(h, s))
<1> DEFINE n == Len(s)
           Put(k, t) == t \o h.kids[s[k]]
           I == [k \in 0 .. n |-> {t \in Seq(Allocs) : ChildrenOf(h, s, k, t)}]
           G == [k \in 1 .. n |-> [t \in Seq(Allocs) |-> Put(k, t)]]
           Rhs(f) == [k \in 0 .. n |-> IF k = 0 THEN <<>> ELSE f[k - 1] \o h.kids[s[k]]]
           F == CHOOSE f : f = Rhs(f)
<1>1. Children(h, s) = F[n]
  BY DEF Children
<1>2. n \in Nat
  OBVIOUS
<1>3. ASSUME NEW k \in 1 .. n, NEW t \in Seq(Allocs), ChildrenOf(h, s, k - 1, t)
      PROVE  Put(k, t) \in Seq(Allocs) /\ ChildrenOf(h, s, k, Put(k, t))
  <2>1. PICK u : u = Put(k, t)
    OBVIOUS
  <2>2. ChildrenOf(h, s, k, u)
    BY <1>3, <2>1, ChildrenRound
  <2>3. u \in Seq(Allocs)
    BY <2>2 DEF ChildrenOf
  <2> QED  BY <2>1, <2>2, <2>3
<1>4. <<>> \in Seq(Allocs) /\ ChildrenOf(h, s, 0, <<>>)
  BY DEF ChildrenOf, NoRepeat, ToSet
<1> HIDE DEF n
<1>5. \A k \in 1 .. n : k \in 0 .. n /\ k - 1 \in 0 .. n
  BY <1>2
<1>6. \A k \in 1 .. n : \A t \in I[k - 1] : t \in Seq(Allocs) /\ G[k][t] = Put(k, t) /\ G[k][t] \in I[k]
  <2> HIDE DEF Put
  <2> QED  BY <1>3, <1>5
<1>7. <<>> \in I[0]
  BY <1>2, <1>4
<1>8. PICK f : Runs(n, <<>>, G, f) /\ \A k \in 0 .. n : f[k] \in I[k]
  <2> HIDE DEF I, G, Put
  <2> QED  BY <1>2, <1>6, <1>7, Loop
<1>9. \A k \in 1 .. n : G[k][f[k - 1]] = Put(k, f[k - 1])
  <2> HIDE DEF Put, G, I
  <2> QED  BY <1>5, <1>6, <1>8
<1>10. f = Rhs(f)
  <2>1. f = [k \in 0 .. n |-> IF k = 0 THEN <<>> ELSE G[k][f[k - 1]]]
    BY <1>8 DEF Runs
  <2> HIDE DEF G
  <2>2. \A k \in 0 .. n : (IF k = 0 THEN <<>> ELSE G[k][f[k - 1]])
                           = IF k = 0 THEN <<>> ELSE f[k - 1] \o h.kids[s[k]]
    <3>1. \A k \in 1 .. n : G[k][f[k - 1]] = f[k - 1] \o h.kids[s[k]]
      BY <1>9, Zenon
    <3>2. \A k \in 0 .. n : k = 0 \/ k \in 1 .. n
      BY <1>2
    <3> QED  BY <3>1, <3>2, Zenon
  <2> QED  BY <2>1, <2>2
<1>11. F = Rhs(F)
  BY <1>10
<1>12. F[0] = <<>> /\ \A k \in 1 .. n : F[k] = Put(k, F[k - 1])
  <2> HIDE DEF F
  <2>1. \A k \in 0 .. n : F[k] = IF k = 0 THEN <<>> ELSE Put(k, F[k - 1])
    <3>1. F = [k \in 0 .. n |-> IF k = 0 THEN <<>> ELSE Put(k, F[k - 1])]
      BY <1>11
    <3> HIDE DEF Put
    <3> QED  BY <3>1
  <2> HIDE DEF Put
  <2>2. 0 \in 0 .. n /\ \A k \in 1 .. n : k \in 0 .. n /\ k # 0
    BY <1>2
  <2> QED  BY <2>1, <2>2
<1> HIDE DEF F, Put
<1>13. F[0] \in I[0] /\ \A k \in 1 .. n : F[k - 1] \in I[k - 1] => F[k] \in I[k]
  BY <1>3, <1>5, <1>7, <1>12
<1>14. F[n] \in I[n]
  <2> HIDE DEF I
  <2>1. \A k \in 0 .. n : F[k] \in I[k]
    BY <1>2, <1>13, Induction
  <2> QED  BY <1>2, <2>1
<1>15. ChildrenOf(h, s, n, F[n])
  BY <1>2, <1>14
<1> QED  BY <1>1, <1>15 DEF n
-----------------------------------------------------------------------------
At(h, top, d) == ToSet(Level(h, top, d))

\* A list of allocators in which none is repeated.
GoodLevel(s) == s \in Seq(Allocs) /\ NoRepeat(s)

LEMMA DepthIsNat == Depth \in Nat
BY AllocatorAssumption, FS_CardinalityType DEF Depth

\* Each level holds the children of the one above, each once.
LEMMA LevelsAre ==
    ASSUME NEW h, Linked(h), NEW top \in Allocs
    PROVE  /\ \A d \in 0 .. Depth : GoodLevel(Level(h, top, d))
           /\ Level(h, top, 0) = <<top>>
           /\ \A d \in 1 .. Depth : Level(h, top, d) = Children(h, Level(h, top, d - 1))
<1> DEFINE Put(t) == Children(h, t)
           Good == {t \in Seq(Allocs) : GoodLevel(t)}
           I == [k \in 0 .. Depth |-> Good]
           G == [k \in 1 .. Depth |-> [t \in Good |-> Put(t)]]
           Rhs(f) == [k \in 0 .. Depth |-> IF k = 0 THEN <<top>> ELSE Children(h, f[k - 1])]
           F == CHOOSE f : f = Rhs(f)
<1>1. \A d : Level(h, top, d) = F[d]
  BY DEF Level
<1>2. Depth \in Nat
  BY DepthIsNat
<1>3. ASSUME NEW t \in Good PROVE Put(t) \in Good
  <2>1. t \in Seq(Allocs) /\ NoRepeat(t)
    BY DEF GoodLevel
  <2>2. ChildrenOf(h, t, Len(t), Children(h, t))
    BY <2>1, ChildrenAre
  <2> QED  BY <2>2 DEF ChildrenOf, GoodLevel
<1>4. <<top>> \in Good
  <2>1. PICK s : s = <<top>>
    OBVIOUS
  <2>2. s \in Seq(Allocs) /\ DOMAIN s = {1}
    BY <2>1
  <2> QED  BY <2>1, <2>2 DEF GoodLevel, NoRepeat
<1> HIDE DEF Good
<1>5. \A k \in 1 .. Depth : k \in 0 .. Depth /\ k - 1 \in 0 .. Depth
  BY <1>2
<1>6. \A k \in 1 .. Depth : \A t \in I[k - 1] : t \in Good /\ G[k][t] = Put(t) /\ G[k][t] \in I[k]
  <2> HIDE DEF Put
  <2> QED  BY <1>3, <1>5
<1>7. <<top>> \in I[0]
  BY <1>2, <1>4
<1>8. PICK f : Runs(Depth, <<top>>, G, f) /\ \A k \in 0 .. Depth : f[k] \in I[k]
  <2> HIDE DEF I, G, Put
  <2> QED  BY <1>2, <1>6, <1>7, Loop
<1>9. \A k \in 1 .. Depth : G[k][f[k - 1]] = Put(f[k - 1])
  <2> HIDE DEF Put, G, I
  <2> QED  BY <1>5, <1>6, <1>8
<1>10. f = Rhs(f)
  <2>1. f = [k \in 0 .. Depth |-> IF k = 0 THEN <<top>> ELSE G[k][f[k - 1]]]
    BY <1>8 DEF Runs
  <2> HIDE DEF G
  <2>2. \A k \in 0 .. Depth : (IF k = 0 THEN <<top>> ELSE G[k][f[k - 1]])
                           = IF k = 0 THEN <<top>> ELSE Children(h, f[k - 1])
    <3>1. \A k \in 1 .. Depth : G[k][f[k - 1]] = Children(h, f[k - 1])
      BY <1>9, Zenon
    <3>2. \A k \in 0 .. Depth : k = 0 \/ k \in 1 .. Depth
      BY <1>2
    <3> QED  BY <3>1, <3>2, Zenon
  <2> QED  BY <2>1, <2>2
<1>11. F = Rhs(F)
  BY <1>10
<1>12. F[0] = <<top>> /\ \A k \in 1 .. Depth : F[k] = Put(F[k - 1])
  <2> HIDE DEF F
  <2>1. \A k \in 0 .. Depth : F[k] = IF k = 0 THEN <<top>> ELSE Put(F[k - 1])
    <3>1. F = [k \in 0 .. Depth |-> IF k = 0 THEN <<top>> ELSE Put(F[k - 1])]
      BY <1>11
    <3> HIDE DEF Put
    <3> QED  BY <3>1
  <2> HIDE DEF Put
  <2>2. 0 \in 0 .. Depth /\ \A k \in 1 .. Depth : k \in 0 .. Depth /\ k # 0
    BY <1>2
  <2> QED  BY <2>1, <2>2
<1> HIDE DEF F
<1>14. \A k \in 0 .. Depth : F[k] \in Good
  <2> HIDE DEF Put
  <2>1. F[0] \in I[0] /\ \A k \in 1 .. Depth : F[k - 1] \in I[k - 1] => F[k] \in I[k]
    BY <1>3, <1>5, <1>7, <1>12
  <2>2. \A k \in 0 .. Depth : F[k] \in I[k]
    <3> HIDE DEF I
    <3> QED  BY <1>2, <2>1, Induction
  <2> QED  BY <2>2
<1>15. \A d \in 0 .. Depth : GoodLevel(F[d])
  BY <1>14 DEF Good
<1>16. \A d \in 1 .. Depth : F[d] = Children(h, F[d - 1])
  BY <1>12
<1> QED  BY <1>1, <1>12, <1>15, <1>16, Zenon

LEMMA AtIs ==
    ASSUME NEW h, Linked(h), NEW top \in Allocs
    PROVE  /\ At(h, top, 0) = {top}
           /\ \A d \in 0 .. Depth : At(h, top, d) \subseteq Allocs
           /\ \A d \in 1 .. Depth :
                At(h, top, d) = {c \in Allocs : c # Root /\ h.parent[c] \in At(h, top, d - 1)}
<1>1. At(h, top, 0) = {top}
  <2>1. Level(h, top, 0) = <<top>>
    BY LevelsAre
  <2>2. PICK s : s = <<top>>
    OBVIOUS
  <2>3. DOMAIN s = {1} /\ s[1] = top
    BY <2>2
  <2>4. ToSet(s) = {top}
    BY <2>3 DEF ToSet
  <2> QED  BY <2>1, <2>2, <2>4 DEF At
<1>2. ASSUME NEW d \in 0 .. Depth PROVE At(h, top, d) \subseteq Allocs
  <2>1. PICK s : s = Level(h, top, d)
    OBVIOUS
  <2>2. s \in Seq(Allocs)
    BY <2>1, LevelsAre DEF GoodLevel
  <2>3. ToSet(s) \subseteq Allocs
    BY <2>2, EmptyList
  <2> QED  BY <2>1, <2>3 DEF At
<1>3. ASSUME NEW d \in 1 .. Depth
      PROVE  At(h, top, d) = {c \in Allocs : c # Root /\ h.parent[c] \in At(h, top, d - 1)}
  <2>1. PICK s, t : s = Level(h, top, d - 1) /\ t = Level(h, top, d)
    OBVIOUS
  <2>2. d - 1 \in 0 .. Depth
    BY DepthIsNat
  <2>3. s \in Seq(Allocs) /\ NoRepeat(s) /\ t = Children(h, s)
    BY <2>1, <2>2, LevelsAre DEF GoodLevel
  <2>4. ChildrenOf(h, s, Len(s), t)
    BY <2>3, ChildrenAre
  <2>5. DOMAIN s = 1 .. Len(s)
    BY <2>3
  <2>6. \A c : c \in ToSet(t) <=> c \in Allocs /\ c # Root /\ h.parent[c] \in ToSet(s)
    BY <2>4, <2>5 DEF ChildrenOf, ToSet
  <2> QED  BY <2>1, <2>6 DEF At
<1> QED  BY <1>1, <1>2, <1>3

-----------------------------------------------------------------------------
\* What only ever adds allocators has no more to add after as many rounds as there
\* are allocators.
LEMMA Closes ==
    ASSUME NEW F, NEW U, U[0] \in SUBSET Allocs, U[0] # {},
           \A S \in SUBSET Allocs : F[S] \in SUBSET Allocs /\ S \subseteq F[S],
           \A k \in 1 .. Depth : U[k] = F[U[k - 1]]
    PROVE  U[Depth] \in SUBSET Allocs /\ F[U[Depth]] = U[Depth]
<1>0. Depth \in Nat /\ IsFiniteSet(Allocs) /\ Depth = Cardinality(Allocs)
  BY DepthIsNat, AllocatorAssumption DEF Depth
<1> DEFINE Ok == {k \in 0 .. Depth : /\ U[k] \in SUBSET Allocs
                                     /\ Cardinality(U[k]) >= k + 1 \/ F[U[k]] = U[k]}
<1>1. \A S \in SUBSET Allocs : /\ IsFiniteSet(S) /\ Cardinality(S) \in Nat
                               /\ Cardinality(S) <= Depth /\ (S # {} => Cardinality(S) # 0)
  BY <1>0, FS_Subset, FS_CardinalityType, FS_EmptySet
<1>2. 0 \in Ok
  <2>1. Cardinality(U[0]) \in Nat /\ Cardinality(U[0]) # 0
    BY <1>1
  <2>2. Cardinality(U[0]) >= 0 + 1
    BY <2>1
  <2> QED  BY <1>0, <2>2
<1>3. ASSUME NEW k \in 1 .. Depth, k - 1 \in Ok PROVE k \in Ok
  <2>1. PICK S \in SUBSET Allocs : S = U[k - 1]
    BY <1>3
  <2>2. PICK T : T = U[k]
    OBVIOUS
  <2>3. T = F[S] /\ T \in SUBSET Allocs /\ S \subseteq T
    BY <2>1, <2>2
  <2>3a. k \in 0 .. Depth
    BY <1>0
  <2>4. CASE T = S
    <3>1. F[U[k]] = U[k] /\ U[k] \in SUBSET Allocs
      BY <2>2, <2>3, <2>4, Zenon
    <3> QED  BY <2>3a, <3>1, Zenon
  <2>5. CASE T # S
    <3>1. Cardinality(S) >= k - 1 + 1
      BY <1>3, <2>1, <2>3, <2>5
    <3>2. Cardinality(S) < Cardinality(T)
      BY <1>1, <2>3, <2>5, FS_Subset
    <3>3. Cardinality(S) \in Nat /\ Cardinality(T) \in Nat
      BY <1>1, <2>3
    <3>4. Cardinality(T) >= k + 1
      BY <1>0, <3>1, <3>2, <3>3
    <3>5. Cardinality(U[k]) >= k + 1 /\ U[k] \in SUBSET Allocs
      BY <2>2, <2>3, <3>4, Zenon
    <3> QED  BY <2>3a, <3>5, Zenon
  <2> QED  BY <2>4, <2>5
<1>4. Depth \in Ok
  <2> HIDE DEF Ok
  <2>1. \A k \in 0 .. Depth : k \in Ok
    BY <1>0, <1>2, <1>3, UpTo
  <2> QED  BY <1>0, <2>1
<1>5. U[Depth] \in SUBSET Allocs
  BY <1>4
<1>6. ~(Cardinality(U[Depth]) >= Depth + 1)
  <2>1. Cardinality(U[Depth]) \in Nat /\ Cardinality(U[Depth]) <= Depth
    BY <1>1, <1>5
  <2> QED  BY <1>0, <2>1
<1> QED  BY <1>4, <1>5, <1>6

\* The children of the allocators of X are in X.
Closed(h, X) == \A c \in Allocs : c # Root /\ h.parent[c] \in X => c \in X

\* A subtree is what hangs on its top, and nothing else.
LEMMA SubtreeIs ==
    ASSUME NEW h, Linked(h), NEW top \in Allocs
    PROVE  /\ Subtree(h, top) \subseteq Allocs /\ top \in Subtree(h, top)
           /\ Closed(h, Subtree(h, top))
           /\ \A c \in Subtree(h, top) : c = top \/ (c # Root /\ h.parent[c] \in Subtree(h, top))
           /\ \A X : top \in X /\ Closed(h, X) => Subtree(h, top) \subseteq X
           /\ \A d \in 0 .. Depth : At(h, top, d) \subseteq Subtree(h, top)
           /\ \A c \in Subtree(h, top) : \E d \in 0 .. Depth : c \in At(h, top, d)
<1> DEFINE A == [d \in 0 .. Depth |-> At(h, top, d)]
           U == [k \in 0 .. Depth |-> UNION {A[d] : d \in 0 .. k}]
           Ch(S) == {c \in Allocs : c # Root /\ h.parent[c] \in S}
           F == [S \in SUBSET Allocs |-> S \cup Ch(S)]
<1>0. Depth \in Nat
  BY DepthIsNat
<1>1. /\ A[0] = {top} /\ \A d \in 0 .. Depth : A[d] \subseteq Allocs
      /\ \A d \in 1 .. Depth : A[d] = Ch(A[d - 1])
  <2>1. \A d \in 1 .. Depth : d \in 0 .. Depth /\ d - 1 \in 0 .. Depth
    BY <1>0
  <2> QED  BY <1>0, <2>1, AtIs
<1>2. Subtree(h, top) = U[Depth]
  BY <1>0 DEF Subtree, At
<1>2a. \A d \in 0 .. Depth : At(h, top, d) = A[d]
  OBVIOUS
<1> HIDE DEF A
<1>3. U[0] = {top}
  <2>1. 0 .. 0 = {0}
    OBVIOUS
  <2> QED  BY <1>0, <1>1, <2>1
<1>4. \A S \in SUBSET Allocs : F[S] \in SUBSET Allocs /\ S \subseteq F[S]
  OBVIOUS
<1>5. \A k \in 0 .. Depth : U[k] \in SUBSET Allocs /\ \A c : c \in U[k] <=> \E d \in 0 .. k : c \in A[d]
  BY <1>0, <1>1
<1>6. ASSUME NEW k \in 1 .. Depth PROVE U[k] = F[U[k - 1]]
  <2>1. k \in 0 .. Depth /\ k - 1 \in 0 .. Depth
    BY <1>0
  <2>2. /\ \A d \in 0 .. k : d \in 0 .. k - 1 \/ d = k
        /\ \A d \in 0 .. k - 1 : d \in 0 .. k /\ d + 1 \in 0 .. k /\ d + 1 \in 1 .. Depth /\ d + 1 - 1 = d
        /\ k \in 0 .. k /\ k - 1 \in 0 .. k - 1
    BY <1>0
  <2> HIDE DEF U
  <2>3. ASSUME NEW c \in U[k] PROVE c \in U[k - 1] \cup Ch(U[k - 1])
    <3>1. PICK d \in 0 .. k : c \in A[d]
      BY <1>5, <2>1
    <3>2. CASE d \in 0 .. k - 1
      BY <1>5, <2>1, <3>1, <3>2
    <3>3. CASE d = k
      <4>1. c \in Ch(A[k - 1])
        BY <1>1, <3>1, <3>3
      <4>2. A[k - 1] \subseteq U[k - 1]
        BY <1>5, <2>1, <2>2
      <4> QED  BY <4>1, <4>2
    <3> QED  BY <2>2, <3>2, <3>3
  <2>4. ASSUME NEW c \in U[k - 1] PROVE c \in U[k]
    <3>1. PICK d \in 0 .. k - 1 : c \in A[d]
      BY <1>5, <2>1
    <3> QED  BY <1>5, <2>1, <2>2, <3>1
  <2>5. ASSUME NEW c \in Ch(U[k - 1]) PROVE c \in U[k]
    <3>1. PICK d \in 0 .. k - 1 : h.parent[c] \in A[d]
      BY <1>5, <2>1
    <3>2. PICK e : e = d + 1
      OBVIOUS
    <3>3. e \in 0 .. k /\ e \in 1 .. Depth /\ e - 1 = d
      BY <2>2, <3>2
    <3>4. c \in A[e]
      <4>1. A[e] = Ch(A[d])
        BY <1>1, <3>3
      <4> QED  BY <3>1, <4>1
    <3> QED  BY <1>5, <2>1, <3>3, <3>4
  <2>6. U[k] = U[k - 1] \cup Ch(U[k - 1])
    BY <2>3, <2>4, <2>5
  <2> QED  BY <1>5, <2>1, <2>6
<1>7. U[Depth] \in SUBSET Allocs /\ F[U[Depth]] = U[Depth]
  <2> HIDE DEF U, F
  <2>1. U[0] \in SUBSET Allocs /\ U[0] # {}
    BY <1>3
  <2> QED  BY <1>4, <1>6, <2>1, Closes
<1> HIDE DEF U
<1>8. Closed(h, U[Depth])
  BY <1>7 DEF Closed
<1>9. \A c \in U[Depth] : \E d \in 0 .. Depth : c \in A[d]
  BY <1>0, <1>5
<1>10. \A d \in 0 .. Depth : A[d] \subseteq U[Depth]
  BY <1>0, <1>5
<1>11. top \in U[Depth]
  BY <1>0, <1>1, <1>10
<1>12. ASSUME NEW c \in U[Depth], c # top PROVE c # Root /\ h.parent[c] \in U[Depth]
  <2>1. PICK d \in 0 .. Depth : c \in A[d]
    BY <1>9
  <2>2. d # 0
    BY <1>1, <1>12, <2>1
  <2>3. d \in 1 .. Depth /\ d - 1 \in 0 .. Depth
    BY <1>0, <2>2
  <2>4. c # Root /\ h.parent[c] \in A[d - 1]
    BY <1>1, <2>1, <2>3
  <2> QED  BY <1>10, <2>3, <2>4
<1>13. ASSUME NEW X, top \in X, Closed(h, X) PROVE U[Depth] \subseteq X
  <2> DEFINE S == {d \in 0 .. Depth : A[d] \subseteq X}
  <2>1. 0 \in S
    BY <1>0, <1>1, <1>13
  <2>2. ASSUME NEW k \in 1 .. Depth, k - 1 \in S PROVE k \in S
    <3>1. k \in 0 .. Depth
      BY <1>0
    <3>2. A[k] = Ch(A[k - 1])
      BY <1>1
    <3> QED  BY <1>13, <2>2, <3>1, <3>2 DEF Closed
  <2>3. \A k \in 0 .. Depth : k \in S
    <3> HIDE DEF S
    <3> QED  BY <1>0, <2>1, <2>2, UpTo
  <2> QED  BY <1>9, <2>3
<1> QED  BY <1>2, <1>2a, <1>7, <1>8, <1>9, <1>10, <1>11, <1>12, <1>13

\* Everything that hangs on the root is reached, and nothing else.
LEMMA ReachableIs ==
    ASSUME NEW h
    PROVE  /\ Root \in Reachable(h)
           /\ \A c \in Allocs : Parents(h, c) \cap Reachable(h) # {} => c \in Reachable(h)
           /\ \A X : Root \in X /\ (\A c \in Allocs : Parents(h, c) \cap X # {} => c \in X)
                     => Reachable(h) \subseteq X
<1> DEFINE Put(S) == S \cup {c \in Allocs : Parents(h, c) \cap S # {}}
           I == [k \in 0 .. Depth |-> SUBSET Allocs]
           G == [k \in 1 .. Depth |-> [S \in SUBSET Allocs |-> Put(S)]]
           F == [S \in SUBSET Allocs |-> Put(S)]
           Rhs(f) == [n \in 0 .. Depth |->
                        IF n = 0 THEN {Root}
                        ELSE LET known == f[n - 1]
                             IN  known \cup {c \in Allocs : Parents(h, c) \cap known # {}}]
           W == CHOOSE f : f = Rhs(f)
<1>0. Depth \in Nat /\ Root \in Allocs
  BY DepthIsNat, AllocatorAssumption
<1>1. Reachable(h) = W[Depth]
  BY DEF Reachable
<1>3. \A S \in SUBSET Allocs : Put(S) \in SUBSET Allocs /\ S \subseteq Put(S)
  OBVIOUS
<1>5. \A k \in 1 .. Depth : k \in 0 .. Depth /\ k - 1 \in 0 .. Depth
  BY <1>0
<1>6. \A k \in 1 .. Depth : \A S \in I[k - 1] : S \in SUBSET Allocs /\ G[k][S] = Put(S) /\ G[k][S] \in I[k]
  <2> HIDE DEF Put
  <2> QED  BY <1>3, <1>5
<1>7. {Root} \in I[0]
  BY <1>0
<1>8. PICK f : Runs(Depth, {Root}, G, f) /\ \A k \in 0 .. Depth : f[k] \in I[k]
  <2> HIDE DEF I, G, Put
  <2> QED  BY <1>0, <1>6, <1>7, Loop
<1>9. \A k \in 1 .. Depth : G[k][f[k - 1]] = Put(f[k - 1])
  <2> HIDE DEF Put, G, I
  <2> QED  BY <1>5, <1>6, <1>8
<1>10. f = Rhs(f)
  <2>1. f = [k \in 0 .. Depth |-> IF k = 0 THEN {Root} ELSE G[k][f[k - 1]]]
    BY <1>8 DEF Runs
  <2>2. \A k \in 0 .. Depth : (IF k = 0 THEN {Root} ELSE G[k][f[k - 1]])
                           = IF k = 0 THEN {Root} ELSE Put(f[k - 1])
    <3> HIDE DEF G, Put
    <3>2. \A k \in 0 .. Depth : k = 0 \/ k \in 1 .. Depth
      BY <1>0
    <3> QED  BY <1>9, <3>2, Zenon
  <2>3. f = [k \in 0 .. Depth |-> IF k = 0 THEN {Root} ELSE Put(f[k - 1])]
    <3> HIDE DEF G, Put
    <3> QED  BY <2>1, <2>2
  <2> QED  BY <2>3, Zenon
<1>11. W = Rhs(W)
  <2>1. \E f2 : f2 = Rhs(f2)
    BY <1>10, Zenon
  <2> HIDE DEF Rhs
  <2> QED  BY <2>1, Zenon
<1>12. W[0] = {Root} /\ \A k \in 1 .. Depth : W[k] = Put(W[k - 1])
  <2> HIDE DEF W
  <2>1. W = [k \in 0 .. Depth |-> IF k = 0 THEN {Root} ELSE Put(W[k - 1])]
    BY <1>11, Zenon
  <2> HIDE DEF Put
  <2>2. 0 \in 0 .. Depth /\ \A k \in 1 .. Depth : k \in 0 .. Depth /\ k # 0
    BY <1>0
  <2> QED  BY <2>1, <2>2
<1> HIDE DEF W
<1>13. \A k \in 0 .. Depth : W[k] \in SUBSET Allocs
  <2>1. W[0] \in I[0] /\ \A k \in 1 .. Depth : W[k - 1] \in I[k - 1] => W[k] \in I[k]
    <3> HIDE DEF Put
    <3> QED  BY <1>3, <1>5, <1>7, <1>12
  <2>2. \A k \in 0 .. Depth : W[k] \in I[k]
    <3> HIDE DEF I
    <3> QED  BY <1>0, <2>1, Induction
  <2> QED  BY <2>2
<1>14. W[Depth] \in SUBSET Allocs /\ F[W[Depth]] = W[Depth]
  <2>1. \A S \in SUBSET Allocs : F[S] \in SUBSET Allocs /\ S \subseteq F[S]
    BY <1>3
  <2>2. \A k \in 1 .. Depth : W[k] = F[W[k - 1]]
    <3> HIDE DEF Put
    <3> QED  BY <1>5, <1>12, <1>13
  <2>3. W[0] \in SUBSET Allocs /\ W[0] # {}
    BY <1>0, <1>12
  <2> HIDE DEF F
  <2> QED  BY <2>1, <2>2, <2>3, Closes
<1>15. Root \in W[Depth]
  <2> DEFINE S == {k \in 0 .. Depth : Root \in W[k]}
  <2>1. 0 \in S
    BY <1>0, <1>12
  <2>2. ASSUME NEW k \in 1 .. Depth, k - 1 \in S PROVE k \in S
    BY <1>5, <1>12, <2>2
  <2> HIDE DEF S
  <2>3. \A k \in 0 .. Depth : k \in S
    BY <1>0, <2>1, <2>2, UpTo
  <2> QED  BY <1>0, <2>3 DEF S
<1>16. \A c \in Allocs : Parents(h, c) \cap W[Depth] # {} => c \in W[Depth]
  <2>1. Put(W[Depth]) = W[Depth]
    BY <1>14
  <2> QED  BY <2>1
<1>17. ASSUME NEW X, Root \in X, \A c \in Allocs : Parents(h, c) \cap X # {} => c \in X
       PROVE  W[Depth] \subseteq X
  <2> DEFINE S == {k \in 0 .. Depth : W[k] \subseteq X}
  <2>1. 0 \in S
    BY <1>0, <1>12, <1>17
  <2>2. ASSUME NEW k \in 1 .. Depth, k - 1 \in S PROVE k \in S
    <3>1. W[k - 1] \subseteq X /\ W[k] = Put(W[k - 1]) /\ k \in 0 .. Depth
      BY <1>5, <1>12, <2>2
    <3> QED  BY <1>17, <3>1
  <2> HIDE DEF S
  <2>3. \A k \in 0 .. Depth : k \in S
    BY <1>0, <2>1, <2>2, UpTo
  <2> QED  BY <1>0, <2>3 DEF S
<1> QED  BY <1>1, <1>15, <1>16, <1>17

-----------------------------------------------------------------------------
\* Ranks that grow along the links show that there is no cycle.
Increasing(h, r) ==
    \A c \in Allocs : /\ c # Root /\ h.parent[c] \in Allocs => r[h.parent[c]] < r[c]
                      /\ \A p \in Adopters(h, c) : r[p] < r[c]

Ranked(h) == \E N \in Nat : \E r \in [Allocs -> 0 .. N] : Increasing(h, r)

\* The heap between two calls: one tree below the root, and apart from it the trees of
\* allocators that are being freed.
Forest(h) ==
    /\ Linked(h) /\ Ranked(h)
    /\ h.parent[Root] \in {Root, NoAlloc} /\ Adopters(h, Root) = {}
    /\ Root \in h.live \cup h.freeing => h.parent[Root] = Root
    /\ h.live \cap h.freeing = {}
    /\ \A c \in Allocs \ {Root} :
         /\ c \in h.live => h.parent[c] \in h.live
         /\ c \in h.freeing => h.parent[c] \in h.freeing \cup {NoAlloc}
         /\ c \notin h.live \cup h.freeing => h.parent[c] = NoAlloc

\* Of any allocators there is one whose parent is not among them.
LEMMA Topmost ==
    ASSUME NEW h, Ranked(h), NEW S \in SUBSET Allocs, S # {}
    PROVE  \E a \in S : a # Root /\ h.parent[a] \in Allocs => h.parent[a] \notin S
<1>1. PICK N \in Nat : \E r \in [Allocs -> 0 .. N] : Increasing(h, r)
  BY DEF Ranked
<1>2. PICK r \in [Allocs -> 0 .. N] : Increasing(h, r)
  BY <1>1
<1> DEFINE R == {r[a] : a \in S}
<1>3. R \in SUBSET Nat /\ R # {}
  OBVIOUS
<1>4. PICK m \in R : \A k \in R : m <= k
  <2> HIDE DEF R
  <2> QED  BY <1>3, LeastNat
<1>5. PICK a \in S : m = r[a]
  BY <1>4
<1>6. ASSUME a # Root, h.parent[a] \in Allocs, h.parent[a] \in S PROVE FALSE
  <2>1. r[h.parent[a]] < r[a]
    BY <1>2, <1>6 DEF Increasing
  <2>2. r[a] <= r[h.parent[a]]
    BY <1>4, <1>5, <1>6
  <2>3. r[a] \in Nat /\ r[h.parent[a]] \in Nat
    BY <1>6
  <2> QED  BY <2>1, <2>2, <2>3
<1> QED  BY <1>6

Dead(h, g) == h.live \ g.live

\* No link of g is new: its parents were parents or adopters in h.
Kept(h, g) ==
    \A c \in Allocs : /\ Adopters(g, c) \subseteq Adopters(h, c)
                      /\ g.parent[c] \in {NoAlloc, h.parent[c]} \cup Adopters(h, c)

LEMMA KeptRanked ==
    ASSUME NEW h, Ranked(h), NEW g, Kept(h, g)
    PROVE  Ranked(g)
<1>1. PICK N \in Nat : \E r \in [Allocs -> 0 .. N] : Increasing(h, r)
  BY DEF Ranked
<1>2. PICK r \in [Allocs -> 0 .. N] : Increasing(h, r)
  BY <1>1
<1>3. ASSUME NEW c \in Allocs, c # Root, g.parent[c] \in Allocs PROVE r[g.parent[c]] < r[c]
  <2>1. NoAlloc \notin Allocs
    BY AllocatorAssumption
  <2>2. g.parent[c] = h.parent[c] \/ g.parent[c] \in Adopters(h, c)
    BY <1>3, <2>1 DEF Kept
  <2> QED  BY <1>2, <1>3, <2>2 DEF Increasing
<1>4. ASSUME NEW c \in Allocs, NEW p \in Adopters(g, c) PROVE r[p] < r[c]
  BY <1>2 DEF Increasing, Kept
<1>5. Increasing(g, r)
  BY <1>3, <1>4 DEF Increasing
<1> QED  BY <1>5 DEF Ranked

\* Amid the pivoting of top: what is dead hangs on top by dead allocators, what lives
\* hangs where it did or on an adopter, and no link to a living adopter is lost.
Mid(h, top, g) ==
    /\ Linked(g) /\ Kept(h, g) /\ g.live \subseteq h.live
    /\ g.freeing = h.freeing \cup Dead(h, g)
    /\ top \in Dead(h, g) /\ g.parent[Root] = h.parent[Root] /\ (top # Root => g.parent[top] = NoAlloc)
    /\ \A c \in Allocs \ {top} :
         /\ c \in Dead(h, g) => c # Root /\ g.parent[c] \in Dead(h, g)
         /\ c \notin h.live => g.parent[c] = h.parent[c]
         /\ c \in h.live /\ c # Root => g.parent[c] \in h.live
         /\ g.parent[c] = h.parent[c] \/ h.parent[c] \notin g.live
    /\ \A c \in Allocs : \A p \in Adopters(h, c) : p \in g.live => p \in Adopters(g, c) \/ g.parent[c] = p

LEMMA MidStarts ==
    ASSUME NEW h, Forest(h), NEW top \in h.live, NEW g, g = Visit(h, top, top)
    PROVE  Mid(h, top, g) \/ \E p \in Allocs : Moved(h, top, p, g)
<1>1. /\ Linked(h) /\ top \in Allocs /\ NoAlloc \notin Allocs /\ Root \in Allocs /\ h.live \subseteq Allocs
      /\ top = Root => h.parent[top] = top /\ Adopters(h, top) = {}
      /\ top # Root => h.parent[top] \in h.live /\ h.parent[top] \in Allocs
  BY AllocatorAssumption DEF Forest, Linked, Heaps
<1>2. Dropped(h, top, top, g) \/ \E p \in Allocs : Moved(h, top, p, g)
  BY <1>1, VisitDoes
<1>3. ASSUME Dropped(h, top, top, g) PROVE Mid(h, top, g)
  <2>1. /\ Linked(g) /\ g.live = h.live \ {top} /\ g.freeing = h.freeing \cup {top} /\ Adopters(h, top) = {}
        /\ g.parent[top] = IF h.parent[top] # top THEN NoAlloc ELSE h.parent[top]
        /\ \A c \in Allocs : c # top => g.parent[c] = h.parent[c]
        /\ \A c \in Allocs : Adopters(g, c) = Adopters(h, c) \ {top}
    BY <1>3 DEF Dropped
  <2>2. Dead(h, g) = {top}
    BY <2>1 DEF Dead
  <2>3. top # Root => h.parent[top] # top
    <3>1. CASE top # Root
      <4>1. PICK a \in {top} : a # Root /\ h.parent[a] \in Allocs => h.parent[a] \notin {top}
        BY <1>1, Topmost DEF Forest
      <4> QED  BY <1>1, <3>1, <4>1
    <3> QED  BY <3>1
  <2>4. Kept(h, g)
    BY <1>1, <2>1 DEF Kept
  <2>5. ASSUME NEW c \in Allocs \ {top}
        PROVE /\ c \in Dead(h, g) => c # Root /\ g.parent[c] \in Dead(h, g)
              /\ c \notin h.live => g.parent[c] = h.parent[c]
              /\ c \in h.live /\ c # Root => g.parent[c] \in h.live
              /\ g.parent[c] = h.parent[c]
    BY <2>1, <2>2 DEF Forest
  <2>6. g.parent[Root] = h.parent[Root] /\ (top # Root => g.parent[top] = NoAlloc)
    BY <1>1, <2>1, <2>3
  <2>7. \A c \in Allocs : \A p \in Adopters(h, c) : p \in g.live => p \in Adopters(g, c)
    BY <2>1
  <2> QED  BY <2>1, <2>2, <2>4, <2>5, <2>6, <2>7 DEF Mid
<1> QED  BY <1>2, <1>3

\* One more allocator whose parent is dead is visited.
LEMMA MidVisit ==
    ASSUME NEW h, Forest(h), NEW top \in h.live, NEW g, Mid(h, top, g),
           NEW c \in Allocs, c # Root, g.parent[c] \in Dead(h, g), NEW f, f = Visit(g, c, top)
    PROVE  /\ Mid(h, top, f) /\ f.live \subseteq g.live
           /\ \A x \in Allocs \ {c} : f.parent[x] = g.parent[x]
           /\ \/ c \notin f.live /\ f.parent[c] = g.parent[c]
              \/ f.parent[c] \in g.live
<1>1. /\ Linked(g) /\ NoAlloc \notin Allocs /\ Root \in Allocs /\ h.live \subseteq Allocs /\ g.live \subseteq h.live
  BY AllocatorAssumption DEF Forest, Mid, Linked, Heaps
<1>2. g.parent[c] \in Allocs /\ g.parent[c] \in h.live /\ g.parent[c] \notin g.live /\ c # top
  BY <1>1 DEF Dead, Mid
<1>3. c \in h.live
  <2>1. CASE c \notin h.live
    <3>1. g.parent[c] = h.parent[c]
      BY <1>2, <2>1 DEF Mid
    <3>2. h.parent[c] \in h.freeing \cup {NoAlloc}
      BY <2>1 DEF Forest
    <3> QED  BY <1>1, <1>2, <3>1, <3>2 DEF Forest
  <2> QED  BY <2>1
<1>4. Dropped(g, c, top, f) \/ \E p \in Allocs : Moved(g, c, p, f)
  BY <1>1, <1>2, VisitDoes
<1>5. CASE Dropped(g, c, top, f)
  <2>1. /\ Linked(f) /\ f.live = g.live \ {c} /\ f.freeing = g.freeing \cup {c} /\ Adopters(g, c) = {}
        /\ \A x \in Allocs : f.parent[x] = g.parent[x]
        /\ \A x \in Allocs : Adopters(f, x) = Adopters(g, x) \ {c}
    BY <1>2, <1>5 DEF Dropped
  <2>2. Dead(h, f) = Dead(h, g) \cup {c}
    BY <1>3, <2>1 DEF Dead
  <2>3. Kept(h, f)
    BY <2>1 DEF Kept, Mid
  <2>4. f.live \subseteq h.live /\ f.freeing = h.freeing \cup Dead(h, f) /\ top \in Dead(h, f)
    BY <1>1, <2>1, <2>2 DEF Mid
  <2>5. f.parent[Root] = h.parent[Root] /\ (top # Root => f.parent[top] = NoAlloc)
    BY <1>1, <2>1 DEF Mid
  <2>6. ASSUME NEW x \in Allocs \ {top}
        PROVE /\ x \in Dead(h, f) => x # Root /\ f.parent[x] \in Dead(h, f)
              /\ x \notin h.live => f.parent[x] = h.parent[x]
              /\ x \in h.live /\ x # Root => f.parent[x] \in h.live
              /\ f.parent[x] = h.parent[x] \/ h.parent[x] \notin f.live
    <3>1. f.parent[x] = g.parent[x]
      BY <2>1
    <3>2. /\ x \in Dead(h, g) => x # Root /\ g.parent[x] \in Dead(h, g)
          /\ x \notin h.live => g.parent[x] = h.parent[x]
          /\ x \in h.live /\ x # Root => g.parent[x] \in h.live
          /\ g.parent[x] = h.parent[x] \/ h.parent[x] \notin g.live
      BY DEF Mid
    <3> QED  BY <2>1, <2>2, <3>1, <3>2
  <2>7. ASSUME NEW x \in Allocs, NEW p \in Adopters(h, x), p \in f.live
        PROVE  p \in Adopters(f, x) \/ f.parent[x] = p
    <3>1. p \in g.live /\ p # c
      BY <2>1, <2>7
    <3>2. p \in Adopters(g, x) \/ g.parent[x] = p
      BY <3>1 DEF Mid
    <3> QED  BY <2>1, <3>1, <3>2
  <2>8. Mid(h, top, f)
    BY <2>1, <2>3, <2>4, <2>5, <2>6, <2>7 DEF Mid
  <2> QED  BY <2>1, <2>8
<1>6. ASSUME NEW p \in Allocs, Moved(g, c, p, f)
      PROVE  /\ Mid(h, top, f) /\ f.live \subseteq g.live
             /\ \A x \in Allocs \ {c} : f.parent[x] = g.parent[x]
             /\ f.parent[c] \in g.live
  <2>1. /\ Linked(f) /\ f.live = g.live /\ f.freeing = g.freeing /\ p \in Adopters(g, c)
        /\ f.parent[c] = p /\ \A x \in Allocs : x # c => f.parent[x] = g.parent[x]
        /\ \A x \in Allocs : /\ Adopters(f, x) \subseteq Adopters(g, x)
                             /\ x # c => Adopters(f, x) = Adopters(g, x)
        /\ Adopters(g, c) \subseteq Adopters(f, c) \cup {p}
    BY <1>6 DEF Moved
  <2>2. p \in g.live /\ c \in g.live
    BY <1>1, <2>1, AdoptersLive
  <2>3. Dead(h, f) = Dead(h, g)
    BY <2>1 DEF Dead
  <2>4. Kept(h, f)
    BY <2>1 DEF Kept, Mid
  <2>5. /\ f.live \subseteq h.live /\ f.freeing = h.freeing \cup Dead(h, f) /\ top \in Dead(h, f)
        /\ f.parent[Root] = h.parent[Root] /\ (top # Root => f.parent[top] = NoAlloc)
    BY <1>1, <1>2, <2>1, <2>3 DEF Mid
  <2>6. ASSUME NEW x \in Allocs \ {top}
        PROVE /\ x \in Dead(h, f) => x # Root /\ f.parent[x] \in Dead(h, f)
              /\ x \notin h.live => f.parent[x] = h.parent[x]
              /\ x \in h.live /\ x # Root => f.parent[x] \in h.live
              /\ f.parent[x] = h.parent[x] \/ h.parent[x] \notin f.live
    <3>1. /\ x \in Dead(h, g) => x # Root /\ g.parent[x] \in Dead(h, g)
          /\ x \notin h.live => g.parent[x] = h.parent[x]
          /\ x \in h.live /\ x # Root => g.parent[x] \in h.live
          /\ g.parent[x] = h.parent[x] \/ h.parent[x] \notin g.live
      BY DEF Mid
    <3>2. CASE x # c
      BY <2>1, <2>3, <3>1, <3>2
    <3>3. CASE x = c
      <4>1. x \notin Dead(h, f) /\ x \in h.live /\ f.parent[x] \in h.live
        BY <1>1, <2>1, <2>2, <3>3 DEF Dead
      <4>2. h.parent[x] \notin f.live
        BY <1>2, <2>1, <3>1, <3>3
      <4> QED  BY <4>1, <4>2
    <3> QED  BY <3>2, <3>3
  <2>7. ASSUME NEW x \in Allocs, NEW q \in Adopters(h, x), q \in f.live
        PROVE  q \in Adopters(f, x) \/ f.parent[x] = q
    <3>1. q \in g.live
      BY <2>1, <2>7
    <3>2. q \in Adopters(g, x) \/ g.parent[x] = q
      BY <3>1 DEF Mid
    <3>3. CASE x # c
      BY <2>1, <3>2, <3>3
    <3>4. CASE x = c
      BY <1>2, <2>1, <3>1, <3>2, <3>4
    <3> QED  BY <3>3, <3>4
  <2>8. Mid(h, top, f)
    BY <2>1, <2>4, <2>5, <2>6, <2>7 DEF Mid
  <2> QED  BY <2>1, <2>2, <2>8
<1> QED  BY <1>4, <1>5, <1>6

-----------------------------------------------------------------------------
\* f is g after the first k of s have been visited.
Visited(h, top, g, s, k, f) ==
    /\ f \in Heaps /\ Mid(h, top, f) /\ f.live \subseteq g.live
    /\ \A i \in 1 .. Len(s) : i > k => f.parent[s[i]] = g.parent[s[i]]
    /\ \A x \in Allocs : f.parent[x] = g.parent[x] \/ f.parent[x] \in g.live
    /\ \A i \in 1 .. k : s[i] \notin f.live \/ f.parent[s[i]] \in g.live

\* What one pass visits: allocators whose parents are dead.
Orphans(h, g, s) ==
    /\ s \in Seq(Allocs) /\ NoRepeat(s)
    /\ \A i \in 1 .. Len(s) : s[i] # Root /\ g.parent[s[i]] \in Dead(h, g)

LEMMA VisitRound ==
    ASSUME NEW h, Forest(h), NEW top \in h.live, NEW g, NEW s, Orphans(h, g, s), g.live \subseteq h.live,
           NEW k \in 1 .. Len(s), NEW e, Visited(h, top, g, s, k - 1, e), NEW f, f = Visit(e, s[k], top)
    PROVE  Visited(h, top, g, s, k, f)
<1>1. s \in Seq(Allocs) /\ DOMAIN s = 1 .. Len(s) /\ Len(s) \in Nat
  BY DEF Orphans
<1>2. PICK c \in Allocs : c = s[k] /\ c # Root
  BY <1>1 DEF Orphans
<1>3. e.parent[c] = g.parent[c] /\ g.parent[c] \in Dead(h, g)
  <2>1. k > k - 1
    BY <1>1
  <2> QED  BY <1>2, <2>1 DEF Orphans, Visited
<1>4. e.parent[c] \in Dead(h, e)
  BY <1>3 DEF Dead, Visited
<1>5. Mid(h, top, e) /\ f = Visit(e, c, top)
  BY <1>2 DEF Visited
<1>6. /\ Mid(h, top, f) /\ f.live \subseteq e.live
      /\ \A x \in Allocs \ {c} : f.parent[x] = e.parent[x]
      /\ \/ c \notin f.live /\ f.parent[c] = e.parent[c]
         \/ f.parent[c] \in e.live
  BY <1>2, <1>4, <1>5, MidVisit
<1>7. f \in Heaps
  BY <1>6 DEF Mid, Linked
<1>8. ASSUME NEW i \in 1 .. Len(s), i > k PROVE f.parent[s[i]] = g.parent[s[i]]
  <2>1. s[i] \in Allocs /\ s[i] # c /\ i > k - 1
    BY <1>1, <1>2, <1>8 DEF Orphans, NoRepeat
  <2> QED  BY <1>6, <2>1 DEF Visited
<1>9. ASSUME NEW x \in Allocs PROVE f.parent[x] = g.parent[x] \/ f.parent[x] \in g.live
  BY <1>3, <1>6 DEF Visited
<1>10. ASSUME NEW i \in 1 .. k PROVE s[i] \notin f.live \/ f.parent[s[i]] \in g.live
  <2>1. CASE i = k
    BY <1>2, <1>6, <2>1 DEF Visited
  <2>2. CASE i # k
    <3>1. i \in 1 .. k - 1 /\ s[i] \in Allocs \ {c}
      BY <1>1, <1>2, <2>2 DEF Orphans, NoRepeat
    <3> QED  BY <1>6, <3>1 DEF Visited
  <2> QED  BY <2>1, <2>2
<1> QED  BY <1>6, <1>7, <1>8, <1>9, <1>10 DEF Visited

LEMMA VisitAllDoes ==
    ASSUME NEW h, Forest(h), NEW top \in h.live, NEW g, Mid(h, top, g), NEW s, Orphans(h, g, s)
    PROVE  Visited(h, top, g, s, Len(s), VisitAll(g, s, top))
<1> DEFINE n == Len(s)
           Put(k, e) == Visit(e, s[k], top)
           I == [k \in 0 .. n |-> {e \in Heaps : Visited(h, top, g, s, k, e)}]
           G == [k \in 1 .. n |-> [e \in Heaps |-> Put(k, e)]]
           Rhs(f) == [k \in 0 .. n |-> IF k = 0 THEN g ELSE Visit(f[k - 1], s[k], top)]
           F == CHOOSE f : f = Rhs(f)
<1>1. VisitAll(g, s, top) = F[n]
  BY DEF VisitAll
<1>2. n \in Nat /\ g \in Heaps /\ g.live \subseteq h.live
  BY DEF Orphans, Mid, Linked
<1>3. ASSUME NEW k \in 1 .. n, NEW e \in Heaps, Visited(h, top, g, s, k - 1, e)
      PROVE  Put(k, e) \in Heaps /\ Visited(h, top, g, s, k, Put(k, e))
  <2>1. PICK f : f = Put(k, e)
    OBVIOUS
  <2>2. Visited(h, top, g, s, k, f)
    BY <1>2, <1>3, <2>1, VisitRound
  <2>3. f \in Heaps
    BY <2>2 DEF Visited
  <2> QED  BY <2>1, <2>2, <2>3
<1>4. Visited(h, top, g, s, 0, g)
  BY <1>2 DEF Visited
<1> HIDE DEF n
<1>5. \A k \in 1 .. n : k \in 0 .. n /\ k - 1 \in 0 .. n
  BY <1>2
<1>6. \A k \in 1 .. n : \A e \in I[k - 1] : e \in Heaps /\ G[k][e] = Put(k, e) /\ G[k][e] \in I[k]
  <2> HIDE DEF Put
  <2> QED  BY <1>3, <1>5
<1>7. g \in I[0]
  BY <1>2, <1>4
<1>8. PICK f : Runs(n, g, G, f) /\ \A k \in 0 .. n : f[k] \in I[k]
  <2> HIDE DEF I, G, Put
  <2> QED  BY <1>2, <1>6, <1>7, Loop
<1>9. \A k \in 1 .. n : G[k][f[k - 1]] = Put(k, f[k - 1])
  <2> HIDE DEF Put, G, I
  <2> QED  BY <1>5, <1>6, <1>8
<1>10. f = Rhs(f)
  <2>1. f = [k \in 0 .. n |-> IF k = 0 THEN g ELSE G[k][f[k - 1]]]
    BY <1>8 DEF Runs
  <2> HIDE DEF G
  <2>2. \A k \in 0 .. n : (IF k = 0 THEN g ELSE G[k][f[k - 1]])
                           = IF k = 0 THEN g ELSE Visit(f[k - 1], s[k], top)
    BY <1>2, <1>9
  <2> QED  BY <2>1, <2>2
<1>11. F = Rhs(F)
  BY <1>10
<1>12. F[0] = g /\ \A k \in 1 .. n : F[k] = Put(k, F[k - 1])
  <2> HIDE DEF F
  <2>1. \A k \in 0 .. n : F[k] = IF k = 0 THEN g ELSE Put(k, F[k - 1])
    <3>1. F = [k \in 0 .. n |-> IF k = 0 THEN g ELSE Put(k, F[k - 1])]
      BY <1>11
    <3> HIDE DEF Put
    <3> QED  BY <3>1
  <2> HIDE DEF Put
  <2>2. 0 \in 0 .. n /\ \A k \in 1 .. n : k \in 0 .. n /\ k # 0
    BY <1>2
  <2> QED  BY <2>1, <2>2
<1> HIDE DEF F, Put
<1>13. F[0] \in I[0] /\ \A k \in 1 .. n : F[k - 1] \in I[k - 1] => F[k] \in I[k]
  BY <1>3, <1>5, <1>7, <1>12
<1>14. F[n] \in I[n]
  <2> HIDE DEF I
  <2>1. \A k \in 0 .. n : F[k] \in I[k]
    BY <1>2, <1>13, Induction
  <2> QED  BY <1>2, <2>1
<1>15. Visited(h, top, g, s, n, F[n])
  BY <1>2, <1>14
<1> QED  BY <1>1, <1>15 DEF n

\* After the pass for depth d everything down to that depth is dead.
Below(h, top, d, g) ==
    g \in Heaps /\ Mid(h, top, g) /\ \A i \in 0 .. d : At(g, top, i) \subseteq Dead(h, g)

LEMMA PassRound ==
    ASSUME NEW h, Forest(h), NEW top \in h.live, NEW d \in 1 .. Depth, NEW g, Below(h, top, d - 1, g),
           NEW f, f = VisitAll(g, Level(g, top, d), top)
    PROVE  Below(h, top, d, f)
<1>0. Depth \in Nat /\ Linked(g) /\ Mid(h, top, g) /\ top \in Allocs /\ g.live \subseteq h.live
  BY DepthIsNat DEF Below, Mid, Forest, Linked, Heaps
<1>1. PICK s : s = Level(g, top, d)
  OBVIOUS
<1>2. s \in Seq(Allocs) /\ NoRepeat(s)
  <2>1. d \in 0 .. Depth
    BY <1>0
  <2> QED  BY <1>0, <1>1, <2>1, LevelsAre DEF GoodLevel
<1>3. At(g, top, d) = {c \in Allocs : c # Root /\ g.parent[c] \in At(g, top, d - 1)}
  BY <1>0, AtIs
<1>4. DOMAIN s = 1 .. Len(s) /\ ToSet(s) = At(g, top, d)
  BY <1>1, <1>2 DEF At
<1>5. \A i \in 1 .. Len(s) : s[i] \in At(g, top, d)
  BY <1>4 DEF ToSet
<1>6. At(g, top, d - 1) \subseteq Dead(h, g)
  <2>1. d - 1 \in 0 .. d - 1
    BY <1>0
  <2> QED  BY <2>1 DEF Below
<1>7. Orphans(h, g, s)
  BY <1>2, <1>3, <1>5, <1>6 DEF Orphans
<1>8. Visited(h, top, g, s, Len(s), f)
  BY <1>0, <1>1, <1>7, VisitAllDoes
<1>9. /\ f \in Heaps /\ Mid(h, top, f) /\ f.live \subseteq g.live /\ Linked(f)
      /\ \A x \in Allocs : f.parent[x] = g.parent[x] \/ f.parent[x] \in g.live
      /\ \A i \in 1 .. Len(s) : s[i] \notin f.live \/ f.parent[s[i]] \in g.live
  BY <1>8 DEF Visited, Mid
<1>10. Dead(h, g) \subseteq Dead(h, f)
  BY <1>9 DEF Dead
<1> DEFINE S == {i \in 0 .. d : At(f, top, i) \subseteq At(g, top, i)}
<1>11. 0 \in S
  BY <1>0, <1>9, AtIs
<1>12. ASSUME NEW i \in 1 .. d, i - 1 \in S PROVE i \in S
  <2>1. i \in 1 .. Depth /\ i \in 0 .. d /\ i - 1 \in 0 .. d - 1
    BY <1>0
  <2>2. /\ At(f, top, i) = {c \in Allocs : c # Root /\ f.parent[c] \in At(f, top, i - 1)}
        /\ At(g, top, i) = {c \in Allocs : c # Root /\ g.parent[c] \in At(g, top, i - 1)}
    BY <1>0, <1>9, <2>1, AtIs
  <2>3. At(f, top, i - 1) \subseteq At(g, top, i - 1) /\ At(g, top, i - 1) \subseteq Dead(h, g)
    BY <1>12, <2>1 DEF Below
  <2>4. ASSUME NEW c \in At(f, top, i) PROVE c \in At(g, top, i)
    <3>1. c \in Allocs /\ c # Root /\ f.parent[c] \in At(g, top, i - 1) /\ f.parent[c] \notin g.live
      BY <2>2, <2>3 DEF Dead
    <3>2. f.parent[c] = g.parent[c]
      BY <1>9, <3>1
    <3> QED  BY <2>2, <3>1, <3>2
  <2> QED  BY <2>1, <2>4
<1>13. \A i \in 0 .. d : i \in S
  <2> HIDE DEF S
  <2>1. d \in Nat
    BY <1>0
  <2> QED  BY <1>11, <1>12, <2>1, UpTo
<1>14. ASSUME NEW i \in 0 .. d PROVE At(f, top, i) \subseteq Dead(h, f)
  <2>1. At(f, top, i) \subseteq At(g, top, i)
    BY <1>13
  <2>2. CASE i \in 0 .. d - 1
    BY <1>10, <2>1, <2>2 DEF Below
  <2>3. CASE i = d
    <3>1. ASSUME NEW c \in At(f, top, d) PROVE c \in Dead(h, f)
      <4>1. c \in At(g, top, d)
        BY <2>1, <2>3, <3>1
      <4>2. PICK j \in 1 .. Len(s) : c = s[j]
        BY <1>4, <4>1 DEF ToSet
      <4>3. d - 1 \in 0 .. d
        BY <1>0
      <4>4. f.parent[c] \in At(f, top, d - 1)
        BY <1>0, <1>9, AtIs
      <4>5. At(f, top, d - 1) \subseteq At(g, top, d - 1)
        BY <1>13, <4>3
      <4>6. f.parent[c] \notin g.live
        BY <1>6, <4>4, <4>5 DEF Dead
      <4>7. c \notin f.live
        BY <1>9, <4>2, <4>6
      <4>8. c \in h.live
        <5>1. c \in Allocs /\ c # Root /\ g.parent[c] \in Dead(h, g)
          BY <1>3, <1>6, <4>1
        <5>2. CASE c \notin h.live
          <6>1. c # top
            BY <5>2
          <6>2. g.parent[c] = h.parent[c]
            BY <1>0, <5>1, <5>2, <6>1 DEF Mid
          <6>3. h.parent[c] \in h.freeing \cup {NoAlloc}
            BY <5>1, <5>2 DEF Forest
          <6>4. g.parent[c] \in h.live /\ h.live \subseteq Allocs /\ NoAlloc \notin Allocs
            BY <5>1, AllocatorAssumption DEF Dead, Forest, Linked, Heaps
          <6> QED  BY <6>2, <6>3, <6>4 DEF Forest
        <5> QED  BY <5>2
      <4> QED  BY <4>7, <4>8 DEF Dead
    <3> QED  BY <2>3, <3>1
  <2>4. i = d \/ i \in 0 .. d - 1
    BY <1>0
  <2> QED  BY <2>2, <2>3, <2>4
<1> QED  BY <1>9, <1>14 DEF Below

\* Pivoting saves top, or frees exactly what hung on it and on nothing else.
LEMMA PivotDoes ==
    ASSUME NEW h, Forest(h), NEW top \in h.live, NEW g, g = Pivoted(h, top)
    PROVE  \/ \E p \in Allocs : Moved(h, top, p, g)
           \/ Mid(h, top, g) /\ Closed(g, Dead(h, g))
<1> DEFINE first == Visit(h, top, top)
           Put(k, e) == VisitAll(e, Level(e, top, k), top)
           I == [k \in 0 .. Depth |-> {e \in Heaps : Below(h, top, k, e)}]
           G == [k \in 1 .. Depth |-> [e \in Heaps |-> Put(k, e)]]
           Rhs(f) == [k \in 0 .. Depth |->
                        IF k = 0 THEN first
                        ELSE LET above == f[k - 1] IN VisitAll(above, Level(above, top, k), top)]
           F == CHOOSE f : f = Rhs(f)
<1>0. Depth \in Nat /\ top \in Allocs /\ Linked(h)
  BY DepthIsNat DEF Forest, Linked, Heaps
<1>1. g = IF top \in first.live THEN first ELSE F[Depth]
  BY DEF Pivoted
<1>2. Mid(h, top, first) \/ \E p \in Allocs : Moved(h, top, p, first)
  BY MidStarts
<1> HIDE DEF first
<1>3. ASSUME NEW p \in Allocs, Moved(h, top, p, first) PROVE Moved(h, top, p, g)
  <2>1. top \in first.live
    BY <1>3 DEF Moved
  <2> QED  BY <1>1, <1>3, <2>1
<1>4. ASSUME Mid(h, top, first) PROVE Mid(h, top, g) /\ Closed(g, Dead(h, g))
  <2>1. g = F[Depth]
    BY <1>1, <1>4 DEF Mid, Dead
  <2>2. first \in Heaps /\ Below(h, top, 0, first)
    <3>1. first \in Heaps /\ Linked(first) /\ 0 .. 0 = {0}
      BY <1>4 DEF Mid, Linked
    <3>2. At(first, top, 0) = {top}
      BY <1>0, <3>1, AtIs
    <3>3. At(first, top, 0) \subseteq Dead(h, first)
      BY <1>4, <3>2 DEF Mid
    <3> QED  BY <1>4, <3>1, <3>3 DEF Below
  <2>3. ASSUME NEW k \in 1 .. Depth, NEW e \in Heaps, Below(h, top, k - 1, e)
        PROVE  Put(k, e) \in Heaps /\ Below(h, top, k, Put(k, e))
    <3>1. PICK f : f = Put(k, e)
      OBVIOUS
    <3>2. Below(h, top, k, f)
      BY <2>3, <3>1, PassRound
    <3>3. f \in Heaps
      BY <3>2 DEF Below
    <3> QED  BY <3>1, <3>2, <3>3
  <2>5. \A k \in 1 .. Depth : k \in 0 .. Depth /\ k - 1 \in 0 .. Depth
    BY <1>0
  <2>6. \A k \in 1 .. Depth : \A e \in I[k - 1] : e \in Heaps /\ G[k][e] = Put(k, e) /\ G[k][e] \in I[k]
    <3> HIDE DEF Put
    <3> QED  BY <2>3, <2>5
  <2>7. first \in I[0]
    BY <1>0, <2>2
  <2>8. PICK f : Runs(Depth, first, G, f) /\ \A k \in 0 .. Depth : f[k] \in I[k]
    <3> HIDE DEF I, G, Put
    <3> QED  BY <1>0, <2>6, <2>7, Loop
  <2>9. \A k \in 1 .. Depth : G[k][f[k - 1]] = Put(k, f[k - 1])
    <3> HIDE DEF Put, G, I
    <3> QED  BY <2>5, <2>6, <2>8
  <2>10. f = Rhs(f)
    <3>1. f = [k \in 0 .. Depth |-> IF k = 0 THEN first ELSE G[k][f[k - 1]]]
      BY <2>8 DEF Runs
    <3>2. \A k \in 0 .. Depth : (IF k = 0 THEN first ELSE G[k][f[k - 1]])
                                 = IF k = 0 THEN first ELSE Put(k, f[k - 1])
      <4> HIDE DEF G, Put
      <4>1. \A k \in 0 .. Depth : k = 0 \/ k \in 1 .. Depth
        BY <1>0
      <4> QED  BY <2>9, <4>1, Zenon
    <3>3. f = [k \in 0 .. Depth |-> IF k = 0 THEN first ELSE Put(k, f[k - 1])]
      <4> HIDE DEF G, Put
      <4> QED  BY <3>1, <3>2
    <3> QED  BY <3>3, Zenon
  <2>11. F = Rhs(F)
    <3>1. \E f2 : f2 = Rhs(f2)
      BY <2>10, Zenon
    <3> HIDE DEF Rhs
    <3> QED  BY <3>1, Zenon
  <2>12. F[0] = first /\ \A k \in 1 .. Depth : F[k] = Put(k, F[k - 1])
    <3> HIDE DEF F
    <3>1. F = [k \in 0 .. Depth |-> IF k = 0 THEN first ELSE Put(k, F[k - 1])]
      BY <2>11, Zenon
    <3> HIDE DEF Put
    <3>2. 0 \in 0 .. Depth /\ \A k \in 1 .. Depth : k \in 0 .. Depth /\ k # 0
      BY <1>0
    <3> QED  BY <3>1, <3>2
  <2> HIDE DEF F, Put
  <2>13. F[0] \in I[0] /\ \A k \in 1 .. Depth : F[k - 1] \in I[k - 1] => F[k] \in I[k]
    BY <2>3, <2>5, <2>7, <2>12
  <2>14. F[Depth] \in I[Depth]
    <3> HIDE DEF I
    <3>1. \A k \in 0 .. Depth : F[k] \in I[k]
      BY <1>0, <2>13, Induction
    <3> QED  BY <1>0, <3>1
  <2>15. Below(h, top, Depth, g)
    BY <1>0, <2>1, <2>14
  <2>16. Mid(h, top, g) /\ Linked(g) /\ \A i \in 0 .. Depth : At(g, top, i) \subseteq Dead(h, g)
    BY <2>15 DEF Below, Mid
  <2>17. Closed(g, Subtree(g, top)) /\ top \in Subtree(g, top) /\ Subtree(g, top) \subseteq Dead(h, g)
    BY <1>0, <2>16, SubtreeIs
  <2>18. Dead(h, g) \subseteq Subtree(g, top)
    <3> DEFINE S == Dead(h, g) \ Subtree(g, top)
    <3>1. SUFFICES ASSUME S # {} PROVE FALSE
      OBVIOUS
    <3>2. S \in SUBSET Allocs
      BY DEF Dead, Forest, Linked, Heaps
    <3>3. Ranked(g)
      BY <2>16, KeptRanked DEF Mid, Forest
    <3>4. PICK a \in S : a # Root /\ g.parent[a] \in Allocs => g.parent[a] \notin S
      <4> HIDE DEF S
      <4> QED  BY <3>1, <3>2, <3>3, Topmost
    <3>5. a \in Allocs /\ a # top /\ a \in Dead(h, g) /\ Dead(h, g) \subseteq Allocs
      BY <2>17, <3>2 DEF Dead, Forest, Linked, Heaps
    <3>6. a # Root /\ g.parent[a] \in Dead(h, g)
      BY <2>16, <3>5 DEF Mid
    <3>7. g.parent[a] \in Subtree(g, top)
      BY <3>4, <3>5, <3>6
    <3> QED  BY <2>17, <3>5, <3>6, <3>7 DEF Closed
  <2>19. Dead(h, g) = Subtree(g, top)
    BY <2>17, <2>18
  <2> QED  BY <2>16, <2>17, <2>19
<1> QED  BY <1>2, <1>3, <1>4

LEMMA MovedForest ==
    ASSUME NEW h, Forest(h), NEW top \in h.live, NEW p, NEW g, Moved(h, top, p, g)
    PROVE  Forest(g) /\ g.live = h.live /\ g.freeing = h.freeing /\ \A c \in Allocs \ h.live : g.parent[c] = h.parent[c]
<1>1. Linked(h) /\ top \in Allocs /\ p \in Adopters(h, top) /\ Root \in Allocs
  BY AllocatorAssumption DEF Forest, Linked, Heaps, Moved
<1>2. p \in h.live /\ top # Root
  BY <1>1, AdoptersLive DEF Forest
<1>3. Kept(h, g)
  BY <1>1 DEF Kept, Moved
<1>4. Ranked(g)
  BY <1>3, KeptRanked DEF Forest
<1>5. Linked(g) /\ g.live = h.live /\ g.freeing = h.freeing /\ g.parent[Root] = h.parent[Root] /\ Adopters(g, Root) = {}
  BY <1>1, <1>2 DEF Moved, Forest
<1>6. ASSUME NEW c \in Allocs \ {Root}
      PROVE  /\ c \in g.live => g.parent[c] \in g.live
             /\ c \in g.freeing => g.parent[c] \in g.freeing \cup {NoAlloc}
             /\ c \notin g.live \cup g.freeing => g.parent[c] = NoAlloc
  <2>1. /\ c \in h.live => h.parent[c] \in h.live
        /\ c \in h.freeing => h.parent[c] \in h.freeing \cup {NoAlloc}
        /\ c \notin h.live \cup h.freeing => h.parent[c] = NoAlloc
        /\ h.live \cap h.freeing = {}
    BY DEF Forest
  <2>2. CASE c = top
    <3>1. g.parent[c] = p
      BY <2>2 DEF Moved
    <3> QED  BY <1>2, <1>5, <2>1, <2>2, <3>1
  <2>3. CASE c # top
    <3>1. g.parent[c] = h.parent[c]
      BY <2>3 DEF Moved
    <3> QED  BY <1>5, <2>1, <3>1
  <2> QED  BY <2>2, <2>3
<1>7. Forest(g)
  BY <1>4, <1>5, <1>6 DEF Forest
<1>8. \A c \in Allocs \ h.live : g.parent[c] = h.parent[c]
  BY DEF Moved
<1> QED  BY <1>5, <1>7, <1>8

LEMMA PivotForest ==
    ASSUME NEW h, Forest(h), NEW top \in h.live, NEW g, Mid(h, top, g), Closed(g, Dead(h, g))
    PROVE  Forest(g)
<1>1. /\ Linked(g) /\ g.live \subseteq h.live /\ h.live \subseteq Allocs /\ Root \in Allocs /\ top \in Allocs
      /\ g.freeing = h.freeing \cup Dead(h, g) /\ top \in Dead(h, g)
      /\ g.parent[Root] = h.parent[Root] /\ (top # Root => g.parent[top] = NoAlloc)
  BY AllocatorAssumption DEF Mid, Forest, Linked, Heaps
<1>2. Ranked(g)
  BY KeptRanked DEF Mid, Forest
<1>3. Adopters(g, Root) = {} /\ g.parent[Root] \in {Root, NoAlloc}
  BY <1>1 DEF Mid, Kept, Forest
<1>4. Root \in g.live \cup g.freeing => g.parent[Root] = Root
  BY <1>1 DEF Dead, Forest
<1>5. g.live \cap g.freeing = {}
  BY <1>1 DEF Dead, Forest
<1>6. ASSUME NEW c \in Allocs \ {Root}
      PROVE  /\ c \in g.live => g.parent[c] \in g.live
             /\ c \in g.freeing => g.parent[c] \in g.freeing \cup {NoAlloc}
             /\ c \notin g.live \cup g.freeing => g.parent[c] = NoAlloc
  <2>1. /\ c \in h.live => h.parent[c] \in h.live
        /\ c \in h.freeing => h.parent[c] \in h.freeing \cup {NoAlloc}
        /\ c \notin h.live \cup h.freeing => h.parent[c] = NoAlloc
        /\ h.live \cap h.freeing = {}
    BY DEF Forest
  <2>2. c # top => /\ c \in Dead(h, g) => g.parent[c] \in Dead(h, g)
                   /\ c \notin h.live => g.parent[c] = h.parent[c]
                   /\ c \in h.live => g.parent[c] \in h.live
    BY DEF Mid
  <2>3. c \in g.live => g.parent[c] \in g.live
    <3>1. ASSUME c \in g.live PROVE g.parent[c] \in g.live
      <4>1. c # top /\ c \notin Dead(h, g) /\ c \in h.live
        BY <1>1, <3>1 DEF Dead
      <4>2. g.parent[c] \notin Dead(h, g)
        BY <4>1 DEF Closed
      <4> QED  BY <2>2, <4>1, <4>2 DEF Dead
    <3> QED  BY <3>1
  <2>4. c \in g.freeing => g.parent[c] \in g.freeing \cup {NoAlloc}
    <3>1. CASE c = top
      BY <1>1, <3>1
    <3>2. CASE c # top /\ c \in Dead(h, g)
      BY <1>1, <2>2, <3>2
    <3>3. CASE c # top /\ c \in h.freeing
      BY <1>1, <2>1, <2>2, <3>3
    <3> QED  BY <1>1, <3>1, <3>2, <3>3
  <2>5. c \notin g.live \cup g.freeing => g.parent[c] = NoAlloc
    BY <1>1, <2>1, <2>2 DEF Dead
  <2> QED  BY <2>3, <2>4, <2>5
<1> QED  BY <1>1, <1>2, <1>3, <1>4, <1>5, <1>6 DEF Forest

-----------------------------------------------------------------------------
\* b is the top of a tree.
Top(h, b) == b = Root \/ h.parent[b] = NoAlloc

\* freeAllocator releases a whole tree that is being freed and touches no other.
LEMMA ReleasedForest ==
    ASSUME NEW h, Forest(h), NEW t \in h.freeing, Top(h, t), NEW g, g = Released(h, t)
    PROVE  /\ Forest(g) /\ g.live = h.live /\ g.freeing \subseteq h.freeing /\ t \notin g.freeing
           /\ \A b \in h.freeing : b # t /\ Top(h, b) => b \in g.freeing
           /\ \A b \in g.freeing : g.parent[b] = h.parent[b]
<1>1. /\ Linked(h) /\ h \in Heaps /\ t \in Allocs /\ NoAlloc \notin Allocs /\ Root \in Allocs
      /\ h.live \subseteq Allocs /\ h.freeing \subseteq Allocs
  BY AllocatorAssumption DEF Forest, Linked, Heaps
<1>2. PICK gone : gone = Subtree(h, t)
  OBVIOUS
<1>3. /\ gone \subseteq Allocs /\ t \in gone /\ Closed(h, gone)
      /\ \A c \in gone : c = t \/ (c # Root /\ h.parent[c] \in gone)
  BY <1>1, <1>2, SubtreeIs
<1>4. gone \subseteq h.freeing
  <2>1. Closed(h, h.freeing)
    <3>1. ASSUME NEW c \in Allocs, c # Root, h.parent[c] \in h.freeing PROVE c \in h.freeing
      BY <1>1, <3>1 DEF Forest
    <3> QED  BY <3>1 DEF Closed
  <2> QED  BY <1>1, <1>2, <2>1, SubtreeIs
<1>5. PICK P, K : /\ P = [a \in Allocs |-> IF a \in gone THEN NoAlloc ELSE h.parent[a]]
                  /\ K = [a \in Allocs |-> IF a \in gone THEN <<>> ELSE h.kids[a]]
  OBVIOUS
<1>6. P \in Parentage /\ K \in Lists
  BY <1>1, <1>5 DEF Parentage, Lists, Heaps
<1>7. g = [h EXCEPT !.freeing = h.freeing \ gone, !.parent = P, !.kids = K]
  BY <1>2, <1>5 DEF Released
<1>8. /\ g \in Heaps /\ g.live = h.live /\ g.freeing = h.freeing \ gone /\ g.parent = P /\ g.kids = K
      /\ g.adopters = h.adopters /\ g.adopted = h.adopted
  BY <1>1, <1>6, <1>7 DEF Heaps
<1>9. \A a \in Allocs : /\ P[a] = IF a \in gone THEN NoAlloc ELSE h.parent[a]
                        /\ a \in gone => K[a] = <<>>
                        /\ a \notin gone => K[a] = h.kids[a]
  BY <1>5
<1>10. KidsMatch(P, K)
  <2>1. ASSUME NEW q \in Allocs, NEW c \in Allocs
        PROVE  Count(K[q], c) = IF P[c] = q /\ c # Root THEN 1 ELSE 0
    <3>1. CASE q \in gone
      <4>1. Count(K[q], c) = 0
        <5>0. PICK s : s = <<>>
          OBVIOUS
        <5>1. s = <<>> /\ s \in Seq(Allocs)
          BY <5>0
        <5>2. ToSet(s) = {} /\ Count(s, c) \in Nat /\ (Count(s, c) > 0 <=> c \in ToSet(s))
          BY <5>1, EmptyList, CountIsNat
        <5>3. Count(s, c) = 0
          BY <5>2
        <5>4. K[q] = s
          BY <1>9, <3>1, <5>1, Zenon
        <5> QED  BY <5>3, <5>4
      <4>2. ~(P[c] = q /\ c # Root)
        BY <1>1, <1>3, <1>9, <3>1 DEF Closed
      <4> QED  BY <4>1, <4>2
    <3>2. CASE q \notin gone
      <4>1. Count(K[q], c) = IF h.parent[c] = q /\ c # Root THEN 1 ELSE 0
        <5>1. Count(h.kids[q], c) = IF h.parent[c] = q /\ c # Root THEN 1 ELSE 0
          BY <1>1 DEF Linked, KidsMatch
        <5>2. K[q] = h.kids[q]
          BY <1>9, <3>2
        <5> QED  BY <5>1, <5>2
      <4>2. CASE c \notin gone
        BY <1>9, <4>1, <4>2
      <4>3. CASE c \in gone
        <5>1. ~(h.parent[c] = q /\ c # Root)
          BY <1>1, <1>3, <3>2, <4>3 DEF Top
        <5>2. P[c] = NoAlloc
          BY <1>9, <4>3
        <5> QED  BY <1>1, <4>1, <5>1, <5>2
      <4> QED  BY <4>2, <4>3
    <3> QED  BY <3>1, <3>2
  <2> QED  BY <2>1 DEF KidsMatch
<1>11. Linked(g)
  BY <1>1, <1>8, <1>10 DEF Linked
<1>12. Kept(h, g)
  BY <1>8, <1>9 DEF Kept, Adopters
<1>13. Ranked(g)
  BY <1>12, KeptRanked DEF Forest
<1>14. /\ g.parent[Root] \in {Root, NoAlloc} /\ Adopters(g, Root) = {}
       /\ Root \in g.live \cup g.freeing => g.parent[Root] = Root
  <2>1. Adopters(g, Root) = {}
    BY <1>8 DEF Adopters, Forest
  <2>2. g.parent[Root] = IF Root \in gone THEN NoAlloc ELSE h.parent[Root]
    BY <1>1, <1>8, <1>9
  <2>3. Root \in g.live \cup g.freeing => Root \notin gone /\ Root \in h.live \cup h.freeing
    BY <1>4, <1>8 DEF Forest
  <2> QED  BY <2>1, <2>2, <2>3 DEF Forest
<1>15. ASSUME NEW c \in Allocs \ {Root}
       PROVE  /\ c \in g.live => g.parent[c] \in g.live
              /\ c \in g.freeing => g.parent[c] \in g.freeing \cup {NoAlloc}
              /\ c \notin g.live \cup g.freeing => g.parent[c] = NoAlloc
  <2>1. /\ c \in h.live => h.parent[c] \in h.live
        /\ c \in h.freeing => h.parent[c] \in h.freeing \cup {NoAlloc}
        /\ c \notin h.live \cup h.freeing => h.parent[c] = NoAlloc
        /\ h.live \cap h.freeing = {}
    BY DEF Forest
  <2>2. g.parent[c] = IF c \in gone THEN NoAlloc ELSE h.parent[c]
    BY <1>8, <1>9
  <2>3. CASE c \in gone
    <3>1. c \notin g.live /\ g.parent[c] = NoAlloc
      BY <1>4, <1>8, <2>1, <2>2, <2>3
    <3> QED  BY <3>1
  <2>4. CASE c \notin gone
    <3>1. g.parent[c] = h.parent[c] /\ h.parent[c] \notin gone
      BY <1>3, <2>2, <2>4 DEF Closed
    <3> QED  BY <1>8, <2>1, <2>4, <3>1
  <2> QED  BY <2>3, <2>4
<1>16. Forest(g)
  <2>1. g.live \cap g.freeing = {}
    BY <1>8 DEF Forest
  <2> QED  BY <1>11, <1>13, <1>14, <1>15, <2>1 DEF Forest
<1>17. ASSUME NEW b \in h.freeing, b # t, Top(h, b) PROVE b \in g.freeing
  <2>1. b \notin gone
    BY <1>1, <1>3, <1>17 DEF Top
  <2> QED  BY <1>8, <2>1
<1>18. \A b \in g.freeing : g.parent[b] = h.parent[b]
  BY <1>1, <1>8, <1>9
<1> QED  BY <1>3, <1>8, <1>16, <1>17, <1>18

-----------------------------------------------------------------------------
\* isAncestorOf comes to an end on every heap without cycles.
Answers == {"yes", "no", "loops"}

WalkStep(h, p, w) ==
    [a \in Allocs \cup {NoAlloc} |->
        IF a = p THEN "yes"
        ELSE IF a = NoAlloc THEN "no"
        ELSE IF h.parent[a] = a THEN "no"
        ELSE LET byBirth == w[h.parent[a]]
             IN  IF byBirth # "no" \/ h.adopters[a] = <<>> THEN byBirth
                 ELSE IF w[Head(h.adopters[a])] = "yes" THEN "yes" ELSE "loops"]

Walk(h, p) == CHOOSE w : w = WalkStep(h, p, w)

LEMMA WalkIs ==
    ASSUME NEW h, NEW p, NEW c
    PROVE  IsAncestorOf(h, p, c) = Walk(h, p)[c]
BY DEF IsAncestorOf, Walk, WalkStep

\* One more round of the walk changes nothing for a if it changes nothing above a.
LEMMA StepSame ==
    ASSUME NEW h, Linked(h), NEW p, NEW a \in Allocs, NEW v, NEW w,
           h.parent[a] # a => v[h.parent[a]] = w[h.parent[a]],
           \A q \in Adopters(h, a) : v[q] = w[q]
    PROVE  WalkStep(h, p, v)[a] = WalkStep(h, p, w)[a]
<1>1. h.adopters[a] \in Seq(Allocs)
  BY AdoptersLive
<1>2. PICK s \in Seq(Allocs) : s = h.adopters[a]
  BY <1>1
<1>3. s # <<>> => v[Head(s)] = w[Head(s)]
  <2>1. s # <<>> => Head(s) \in Adopters(h, a)
    BY <1>2, RemoveHead DEF Adopters
  <2> QED  BY <2>1
<1>4. PICK q : q = h.parent[a]
  OBVIOUS
<1> DEFINE Val(u) == IF a = p THEN "yes" ELSE IF a = NoAlloc THEN "no" ELSE IF q = a THEN "no"
                     ELSE IF u[q] # "no" \/ s = <<>> THEN u[q]
                          ELSE IF u[Head(s)] = "yes" THEN "yes" ELSE "loops"
<1>5. WalkStep(h, p, v)[a] = Val(v) /\ WalkStep(h, p, w)[a] = Val(w)
  BY <1>2, <1>4 DEF WalkStep
<1>6. Val(v) = Val(w)
  <2>1. CASE q = a
    BY <2>1
  <2>2. CASE q # a
    <3>1. v[q] = w[q]
      BY <1>4, <2>2
    <3>2. CASE s = <<>>
      BY <3>1, <3>2, Zenon
    <3>3. CASE s # <<>>
      <4>1. v[Head(s)] = w[Head(s)]
        BY <1>3, <3>3
      <4> QED  BY <3>1, <4>1, Zenon
    <3> QED  BY <3>2, <3>3
  <2> QED  BY <2>1, <2>2
<1> HIDE DEF Val
<1> QED  BY <1>5, <1>6, Zenon

LEMMA WalkType ==
    ASSUME NEW h, Linked(h), NEW p \in Allocs, NEW w \in [Allocs \cup {NoAlloc} -> Answers]
    PROVE  /\ WalkStep(h, p, w) \in [Allocs \cup {NoAlloc} -> Answers]
           /\ WalkStep(h, p, w)[NoAlloc] = "no"
<1>1. NoAlloc \notin Allocs
  BY AllocatorAssumption
<1>2. ASSUME NEW a \in Allocs \cup {NoAlloc} PROVE WalkStep(h, p, w)[a] \in Answers
  <2>1. CASE a = NoAlloc
    BY <1>1, <2>1 DEF WalkStep, Answers
  <2>2. CASE a \in Allocs
    <3>1. PICK q \in Allocs \cup {NoAlloc} : q = h.parent[a]
      BY <2>2 DEF Linked, Heaps, Parentage
    <3>2. w[q] \in Answers
      OBVIOUS
    <3>3. WalkStep(h, p, w)[a] \in {"yes", "no", "loops", w[q]}
      BY <3>1 DEF WalkStep
    <3> QED  BY <3>2, <3>3 DEF Answers
  <2> QED  BY <2>1, <2>2
<1>3. WalkStep(h, p, w)[NoAlloc] = "no"
  BY <1>1 DEF WalkStep
<1>4. DOMAIN WalkStep(h, p, w) = Allocs \cup {NoAlloc} /\ WalkStep(h, p, w) = [a \in Allocs \cup {NoAlloc} |-> WalkStep(h, p, w)[a]]
  BY DEF WalkStep
<1>5. PICK v : v = WalkStep(h, p, w)
  OBVIOUS
<1>6. v = [a \in Allocs \cup {NoAlloc} |-> v[a]] /\ \A a \in Allocs \cup {NoAlloc} : v[a] \in Answers
  BY <1>2, <1>4, <1>5
<1>7. v \in [Allocs \cup {NoAlloc} -> Answers]
  BY <1>6
<1> QED  BY <1>3, <1>5, <1>7

LEMMA WalkEnds ==
    ASSUME NEW h, Forest(h), NEW p \in Allocs
    PROVE  Walk(h, p) = WalkStep(h, p, Walk(h, p))
<1> DEFINE W == [Allocs \cup {NoAlloc} -> Answers]
           Put(w) == WalkStep(h, p, w)
<1>1. PICK N \in Nat : \E r \in [Allocs -> 0 .. N] : Increasing(h, r)
  BY DEF Forest, Ranked
<1>2. PICK r \in [Allocs -> 0 .. N] : Increasing(h, r)
  BY <1>1
<1>3. Linked(h) /\ NoAlloc \notin Allocs
  BY AllocatorAssumption DEF Forest
<1> DEFINE Settled(k, w) == /\ k > 0 => w[NoAlloc] = "no"
                            /\ \A a \in Allocs : r[a] + 1 < k => Put(w)[a] = w[a]
           n == N + 2
           I == [k \in 0 .. n |-> {w \in W : Settled(k, w)}]
           G == [k \in 1 .. n |-> [w \in W |-> Put(w)]]
<1>4. \A w \in W : Put(w) \in W /\ Put(w)[NoAlloc] = "no"
  BY <1>3, WalkType
<1>5. ASSUME NEW k \in 1 .. n, NEW w \in W, Settled(k - 1, w) PROVE Settled(k, Put(w))
  <2>1. PICK v \in W : v = Put(w)
    BY <1>4
  <2>2. v[NoAlloc] = "no"
    BY <1>4, <2>1
  <2>3. ASSUME NEW a \in Allocs, r[a] + 1 < k PROVE Put(v)[a] = v[a]
    <3>1. r[a] \in Nat /\ k - 1 > 0 /\ k \in Nat
      BY <2>3
    <3>2. w[NoAlloc] = "no"
      BY <1>5, <3>1
    <3>3. ASSUME NEW q \in Allocs, r[q] < r[a] PROVE v[q] = w[q]
      <4>1. r[q] \in Nat
        OBVIOUS
      <4>2. r[q] + 1 < k - 1
        BY <2>3, <3>1, <3>3, <4>1
      <4> QED  BY <1>5, <2>1, <4>2
    <3>4. h.parent[a] # a => v[h.parent[a]] = w[h.parent[a]]
      <4>1. ASSUME h.parent[a] # a PROVE v[h.parent[a]] = w[h.parent[a]]
        <5>1. PICK q : q = h.parent[a]
          OBVIOUS
        <5>2. q \in Allocs \cup {NoAlloc}
          BY <1>3, <5>1 DEF Linked, Heaps, Parentage
        <5>3. CASE q = NoAlloc
          BY <2>2, <3>2, <5>1, <5>3
        <5>4. CASE q \in Allocs
          <6>1. a # Root
            BY <1>3, <4>1, <5>1, <5>4 DEF Forest
          <6>2. r[q] < r[a]
            BY <1>2, <5>1, <5>4, <6>1 DEF Increasing
          <6> QED  BY <3>3, <5>1, <5>4, <6>2
        <5> QED  BY <5>2, <5>3, <5>4
      <4> QED  BY <4>1
    <3>5. ASSUME NEW q \in Adopters(h, a) PROVE v[q] = w[q]
      <4>1. q \in Allocs
        BY <1>3, AdoptersLive
      <4>2. r[q] < r[a]
        BY <1>2 DEF Increasing
      <4> QED  BY <3>3, <4>1, <4>2
    <3>6. WalkStep(h, p, v)[a] = WalkStep(h, p, w)[a]
      <4> HIDE DEF W
      <4> QED  BY <1>3, <3>4, <3>5, StepSame
    <3> QED  BY <2>1, <3>6
  <2> HIDE DEF Put
  <2> QED  BY <2>1, <2>2, <2>3
<1> HIDE DEF Settled, W, Put
<1>6. PICK w0 : w0 \in W
  <2>1. [a \in Allocs \cup {NoAlloc} |-> "no"] \in W
    BY DEF W, Answers
  <2> QED  BY <2>1
<1>7. n \in Nat /\ \A k \in 1 .. n : k \in 0 .. n /\ k - 1 \in 0 .. n
  OBVIOUS
<1>8. Settled(0, w0)
  <2>1. \A a \in Allocs : r[a] \in Nat
    OBVIOUS
  <2>2. \A a \in Allocs : ~(r[a] + 1 < 0)
    BY <2>1
  <2> QED  BY <2>2 DEF Settled
<1>9. w0 \in I[0]
  BY <1>6, <1>7, <1>8
<1>10. \A k \in 1 .. n : \A w \in I[k - 1] : G[k][w] \in I[k]
  <2> HIDE DEF n
  <2> QED  BY <1>4, <1>5, <1>7
<1>11. PICK f : Runs(n, w0, G, f) /\ \A k \in 0 .. n : f[k] \in I[k]
  <2> HIDE DEF n, G, I
  <2> QED  BY <1>7, <1>9, <1>10, Loop
<1>12. PICK w : w = f[n]
  OBVIOUS
<1>13. w \in W /\ Settled(n, w)
  BY <1>7, <1>11, <1>12
<1>14. w = Put(w)
  <2>1. \A a \in Allocs : r[a] + 1 < n
    OBVIOUS
  <2>2. \A a \in Allocs \cup {NoAlloc} : Put(w)[a] = w[a]
    BY <1>4, <1>13, <2>1 DEF Settled
  <2>3. Put(w) \in W
    BY <1>4, <1>13
  <2> QED  BY <1>13, <2>2, <2>3 DEF W
<1>15. \E w2 : w2 = WalkStep(h, p, w2)
  BY <1>14 DEF Put
<1> QED  BY <1>15 DEF Walk

\* What isAncestorOf answers "no" for has no adopter, and a parent for which the answer
\* is "no" too.
LEMMA WalkNo ==
    ASSUME NEW h, Forest(h), NEW p \in Allocs, NEW w, w = Walk(h, p)
    PROVE  /\ w[p] = "yes"
           /\ \A a \in Allocs : w[a] = "no" =>
                /\ Adopters(h, a) = {}
                /\ a # Root /\ h.parent[a] \in Allocs => w[h.parent[a]] = "no"
<1>1. w = WalkStep(h, p, w) /\ Linked(h) /\ NoAlloc \notin Allocs
  BY WalkEnds, AllocatorAssumption DEF Forest
<1>2. w[p] = "yes"
  <2>1. WalkStep(h, p, w)[p] = "yes"
    BY DEF WalkStep
  <2> QED  BY <1>1, <2>1
<1>3. ASSUME NEW a \in Allocs, w[a] = "no"
      PROVE  /\ Adopters(h, a) = {}
             /\ a # Root /\ h.parent[a] \in Allocs => w[h.parent[a]] = "no"
  <2>1. PICK q, s : q = h.parent[a] /\ s = h.adopters[a]
    OBVIOUS
  <2>2. WalkStep(h, p, w)[a] = IF a = p THEN "yes" ELSE IF a = NoAlloc THEN "no" ELSE IF q = a THEN "no"
                     ELSE IF w[q] # "no" \/ s = <<>> THEN w[q]
                          ELSE IF w[Head(s)] = "yes" THEN "yes" ELSE "loops"
    BY <2>1 DEF WalkStep
  <2>3. "no" = IF a = p THEN "yes" ELSE IF a = NoAlloc THEN "no" ELSE IF q = a THEN "no"
                     ELSE IF w[q] # "no" \/ s = <<>> THEN w[q]
                          ELSE IF w[Head(s)] = "yes" THEN "yes" ELSE "loops"
    BY <1>1, <1>3, <2>2, Zenon
  <2>4. s = <<>> <=> Adopters(h, a) = {}
    BY <1>1, <2>1, AdoptersLive
  <2>5. a = Root => Adopters(h, a) = {}
    BY DEF Forest
  <2>6. a # Root /\ q \in Allocs => q # a
    <3>1. PICK b \in {a} : b # Root /\ h.parent[b] \in Allocs => h.parent[b] \notin {a}
      BY Topmost DEF Forest
    <3> QED  BY <2>1, <3>1
  <2>7. q = a \/ (w[q] = "no" /\ s = <<>>)
    <3>1. CASE w[q] # "no"
      BY <1>1, <2>3, <3>1
    <3>2. CASE s # <<>> /\ w[q] = "no"
      BY <1>1, <2>3, <3>2
    <3> QED  BY <3>1, <3>2
  <2>8. q = a => a = Root
    BY <2>6
  <2> QED  BY <2>1, <2>4, <2>5, <2>6, <2>7, <2>8
<1> QED  BY <1>2, <1>3

\* Every allocator in use descends from the root, so isAncestorOf never lets anybody
\* adopt the root.
LEMMA RootIsAncestor ==
    ASSUME NEW h, Forest(h), NEW p \in h.live, IsAncestorOf(h, Root, p) = "no"
    PROVE  FALSE
<1>1. PICK w : w = Walk(h, Root)
  OBVIOUS
<1>2. Root \in Allocs /\ h.live \subseteq Allocs /\ w[p] = "no"
  BY <1>1, WalkIs, AllocatorAssumption DEF Forest, Linked, Heaps
<1> DEFINE S == {a \in h.live : w[a] = "no"}
<1>3. S \in SUBSET Allocs /\ S # {}
  BY <1>2
<1>4. PICK a \in S : a # Root /\ h.parent[a] \in Allocs => h.parent[a] \notin S
  <2> HIDE DEF S
  <2> QED  BY <1>3, Topmost DEF Forest
<1>5. w[Root] = "yes"
  BY <1>1, <1>2, WalkNo
<1>6. a # Root /\ a \in Allocs /\ a \in h.live /\ w[a] = "no"
  BY <1>2, <1>4, <1>5
<1>7. h.parent[a] \in h.live /\ h.parent[a] \in Allocs
  BY <1>2, <1>6 DEF Forest
<1>8. w[h.parent[a]] = "no"
  BY <1>1, <1>2, <1>6, <1>7, WalkNo
<1> QED  BY <1>4, <1>6, <1>7, <1>8

WithAdoption(h, p, c) == [h EXCEPT !.adopted[p] = <<c>> \o @, !.adopters[c] = <<p>> \o @]

\* An adoption that isAncestorOf allows makes no cycle.
LEMMA AdoptForest ==
    ASSUME NEW h, Forest(h), NEW p \in h.live, NEW c \in h.live, IsAncestorOf(h, c, p) = "no",
           NEW g, g = WithAdoption(h, p, c)
    PROVE  Forest(g) /\ g.live = h.live /\ g.freeing = h.freeing /\ g.parent = h.parent
<1>1. p \in Allocs /\ c \in Allocs /\ Linked(h) /\ h \in Heaps
  BY DEF Forest, Linked, Heaps
<1>2. PICK D, A : D = h.adopted /\ A = h.adopters
  OBVIOUS
<1>3. D \in Lists /\ A \in Lists /\ AdoptionsMatch(D, A, h.live)
  BY <1>1, <1>2 DEF Linked, Heaps
<1>4. PICK r, s : r = <<c>> \o D[p] /\ s = <<p>> \o A[c]
  OBVIOUS
<1>5. /\ D[p] \in Seq(Allocs) /\ A[c] \in Seq(Allocs) /\ r \in Seq(Allocs) /\ s \in Seq(Allocs)
      /\ \A e : Count(r, e) = IF e = c THEN Count(D[p], e) + 1 ELSE Count(D[p], e)
      /\ \A e : Count(s, e) = IF e = p THEN Count(A[c], e) + 1 ELSE Count(A[c], e)
  BY <1>1, <1>3, <1>4, CountCons DEF Lists
<1>6. PICK D2, A2 : D2 = [D EXCEPT ![p] = r] /\ A2 = [A EXCEPT ![c] = s]
  OBVIOUS
<1>7. /\ D2 \in Lists /\ A2 \in Lists
      /\ D2[p] = r /\ \A q \in Allocs : q # p => D2[q] = D[q]
      /\ A2[c] = s /\ \A x \in Allocs : x # c => A2[x] = A[x]
  BY <1>1, <1>3, <1>5, <1>6 DEF Lists
<1>8. g = [h EXCEPT !.adopted = D2, !.adopters = A2]
  BY <1>2, <1>4, <1>6 DEF WithAdoption
<1>9. /\ g \in Heaps /\ g.live = h.live /\ g.freeing = h.freeing /\ g.parent = h.parent /\ g.kids = h.kids
      /\ g.adopted = D2 /\ g.adopters = A2
  BY <1>1, <1>7, <1>8 DEF Heaps
<1>10. ASSUME NEW q \in Allocs, NEW x \in Allocs
       PROVE  /\ Count(D2[q], x) = Count(A2[x], q)
              /\ Count(A2[x], q) > 0 <=> Count(A[x], q) > 0 \/ (q = p /\ x = c)
  <2>1. /\ Count(D[q], x) = Count(A[x], q) /\ Count(A[x], q) \in Nat
    BY <1>3, CountIsNat DEF AdoptionsMatch, Lists
  <2>2. q = p => Count(D2[q], x) = IF x = c THEN Count(D[q], x) + 1 ELSE Count(D[q], x)
    BY <1>5, <1>7
  <2>3. x = c => Count(A2[x], q) = IF q = p THEN Count(A[x], q) + 1 ELSE Count(A[x], q)
    BY <1>5, <1>7
  <2>4. CASE q = p /\ x = c
    BY <2>1, <2>2, <2>3, <2>4
  <2>5. CASE q = p /\ x # c
    BY <1>7, <2>1, <2>2, <2>5
  <2>6. CASE q # p /\ x = c
    BY <1>7, <2>1, <2>3, <2>6
  <2>7. CASE q # p /\ x # c
    BY <1>7, <2>1, <2>7
  <2> QED  BY <2>4, <2>5, <2>6, <2>7
<1>11. AdoptionsMatch(D2, A2, h.live)
  <2>1. ASSUME NEW q \in Allocs, NEW x \in Allocs, Count(D2[q], x) > 0 PROVE q \in h.live /\ x \in h.live
    <3>1. Count(A2[x], q) > 0
      BY <1>10, <2>1
    <3>2. Count(A[x], q) > 0 \/ (q = p /\ x = c)
      BY <1>10, <3>1
    <3> QED  BY <1>3, <3>2 DEF AdoptionsMatch
  <2> QED  BY <1>10, <2>1 DEF AdoptionsMatch
<1>12. Linked(g)
  BY <1>1, <1>9, <1>11 DEF Linked
<1>13. \A x \in Allocs : \A q \in Adopters(g, x) : q \in Adopters(h, x) \/ (q = p /\ x = c)
  <2>1. ASSUME NEW x \in Allocs, NEW q \in Adopters(g, x) PROVE q \in Adopters(h, x) \/ (q = p /\ x = c)
    <3>1. q \in Allocs /\ Count(A2[x], q) > 0
      BY <1>9, <1>12, AdoptersLive
    <3>2. Count(A[x], q) > 0 \/ (q = p /\ x = c)
      BY <1>10, <3>1
    <3> QED  BY <1>1, <1>2, <3>1, <3>2, AdoptersLive
  <2> QED  BY <2>1
<1>14. c # Root
  BY RootIsAncestor
<1>15. PICK w : w = Walk(h, c)
  OBVIOUS
<1>16. /\ w[p] = "no" /\ w[c] = "yes"
       /\ \A a \in Allocs : w[a] = "no" =>
            /\ Adopters(h, a) = {}
            /\ a # Root /\ h.parent[a] \in Allocs => w[h.parent[a]] = "no"
  BY <1>1, <1>15, WalkIs, WalkNo
<1>17. Ranked(g)
  <2>1. PICK N \in Nat : \E k \in [Allocs -> 0 .. N] : Increasing(h, k)
    BY DEF Forest, Ranked
  <2>2. PICK k \in [Allocs -> 0 .. N] : Increasing(h, k)
    BY <2>1
  <2>3. PICK m : m = [a \in Allocs |-> IF w[a] = "no" THEN k[a] ELSE k[a] + N + 1]
    OBVIOUS
  <2>4. \A a \in Allocs : k[a] \in Nat /\ k[a] <= N /\ m[a] = IF w[a] = "no" THEN k[a] ELSE k[a] + N + 1
    BY <2>3
  <2>5. m \in [Allocs -> 0 .. (N + N + 1)] /\ N + N + 1 \in Nat
    <3>1. \A a \in Allocs : m[a] \in 0 .. (N + N + 1)
      BY <2>4
    <3> QED  BY <2>3, <3>1
  <2>6. ASSUME NEW x \in Allocs, NEW q \in Allocs, k[q] < k[x], w[x] = "no" => w[q] = "no" PROVE m[q] < m[x]
    BY <2>4, <2>6
  <2>7. ASSUME NEW x \in Allocs, x # Root, g.parent[x] \in Allocs PROVE m[g.parent[x]] < m[x]
    <3>1. PICK q \in Allocs : q = h.parent[x] /\ q = g.parent[x]
      BY <1>9, <2>7
    <3>2. k[q] < k[x] /\ (w[x] = "no" => w[q] = "no")
      BY <1>16, <2>2, <2>7, <3>1 DEF Increasing
    <3> QED  BY <2>6, <3>1, <3>2
  <2>8. ASSUME NEW x \in Allocs, NEW q \in Adopters(g, x) PROVE m[q] < m[x]
    <3>1. CASE q \in Adopters(h, x)
      <4>1. q \in Allocs /\ k[q] < k[x] /\ w[x] # "no"
        BY <1>1, <1>16, <2>2, <3>1, AdoptersLive DEF Increasing
      <4> QED  BY <2>6, <4>1
    <3>2. CASE q = p /\ x = c
      BY <1>1, <1>16, <2>4, <3>2
    <3> QED  BY <1>13, <3>1, <3>2
  <2>9. Increasing(g, m)
    BY <2>7, <2>8 DEF Increasing
  <2> QED  BY <2>5, <2>9 DEF Ranked
<1>18. Adopters(g, Root) = {}
  <2>1. Root \in Allocs
    BY AllocatorAssumption
  <2> QED  BY <1>13, <1>14, <2>1 DEF Forest
<1> QED  BY <1>9, <1>12, <1>17, <1>18 DEF Forest

\* A new child is a leaf of the tree.
LEMMA ChildForest ==
    ASSUME NEW h, Forest(h), NEW p \in h.live, NEW a \in Allocs, a \notin h.live \cup h.freeing \cup {Root},
           NEW g, g = Connect([h EXCEPT !.live = @ \cup {a}], p, a)
    PROVE  /\ Forest(g) /\ g.live = h.live \cup {a} /\ g.freeing = h.freeing
           /\ \A c \in Allocs : c # a => g.parent[c] = h.parent[c]
<1>1. /\ p \in Allocs /\ Linked(h) /\ h \in Heaps /\ NoAlloc \notin Allocs /\ Root \in Allocs
      /\ h.live \subseteq Allocs /\ h.freeing \subseteq Allocs
  BY AllocatorAssumption DEF Forest, Linked, Heaps
<1>2. PICK e : e = [h EXCEPT !.live = h.live \cup {a}]
  OBVIOUS
<1>3. /\ e \in Heaps /\ e.live = h.live \cup {a} /\ e.freeing = h.freeing /\ e.parent = h.parent
      /\ e.kids = h.kids /\ e.adopters = h.adopters /\ e.adopted = h.adopted
  BY <1>1, <1>2 DEF Heaps
<1>4. Linked(e)
  <2>1. AdoptionsMatch(h.adopted, h.adopters, h.live \cup {a})
    BY <1>1 DEF Linked, AdoptionsMatch
  <2> QED  BY <1>1, <1>3, <2>1 DEF Linked
<1>5. h.parent[a] = NoAlloc
  BY DEF Forest
<1>6. g = Connect(e, p, a)
  BY <1>2
<1>7. Joined(e, p, a, g)
  BY <1>1, <1>3, <1>6, ConnectFields
<1>8. Linked(g)
  BY <1>1, <1>3, <1>4, <1>5, <1>7, JoinedLinked
<1>9. /\ g.live = h.live \cup {a} /\ g.freeing = h.freeing /\ g.parent[a] = p
      /\ \A c \in Allocs : c # a => g.parent[c] = h.parent[c]
      /\ \A c \in Allocs : Adopters(g, c) = Adopters(h, c)
  BY <1>3, <1>7 DEF Joined, Adopters
<1>10. ASSUME NEW c \in Allocs PROVE g.parent[c] # a /\ a \notin Adopters(g, c)
  <2>1. a \notin Adopters(h, c)
    BY <1>1, AdoptersLive
  <2>2. h.parent[c] # a
    <3>1. CASE c = Root
      BY <1>1, <3>1 DEF Forest
    <3>2. CASE c # Root
      <4>1. h.parent[c] \in h.live \cup h.freeing \cup {NoAlloc}
        BY <3>2 DEF Forest
      <4> QED  BY <1>1, <4>1
    <3> QED  BY <3>1, <3>2
  <2> QED  BY <1>9, <2>1, <2>2
<1>11. Ranked(g)
  <2>1. PICK N \in Nat : \E k \in [Allocs -> 0 .. N] : Increasing(h, k)
    BY DEF Forest, Ranked
  <2>2. PICK k \in [Allocs -> 0 .. N] : Increasing(h, k)
    BY <2>1
  <2>3. PICK m : m = [k EXCEPT ![a] = k[p] + 1]
    OBVIOUS
  <2>4. /\ \A c \in Allocs : k[c] \in Nat /\ k[c] <= N
        /\ m[a] = k[p] + 1 /\ \A c \in Allocs : c # a => m[c] = k[c]
    BY <2>3
  <2>5. m \in [Allocs -> 0 .. (N + 1)] /\ N + 1 \in Nat
    <3>1. \A c \in Allocs : m[c] \in 0 .. (N + 1)
      BY <1>1, <2>4
    <3>2. m = [c \in Allocs |-> m[c]]
      BY <2>3
    <3> QED  BY <3>1, <3>2
  <2>6. p # a
    OBVIOUS
  <2>7. ASSUME NEW x \in Allocs, x # Root, g.parent[x] \in Allocs PROVE m[g.parent[x]] < m[x]
    <3>1. CASE x = a
      BY <1>1, <1>9, <2>4, <2>6, <3>1
    <3>2. CASE x # a
      <4>1. PICK q \in Allocs : q = g.parent[x] /\ q = h.parent[x] /\ q # a
        BY <1>9, <1>10, <2>7, <3>2
      <4>2. k[q] < k[x]
        BY <2>2, <2>7, <4>1 DEF Increasing
      <4> QED  BY <2>4, <3>2, <4>1, <4>2
    <3> QED  BY <3>1, <3>2
  <2>8. ASSUME NEW x \in Allocs, NEW q \in Adopters(g, x) PROVE m[q] < m[x]
    <3>1. q \in Adopters(h, x) /\ q # a
      BY <1>9, <1>10
    <3>2. q \in Allocs /\ x # a
      BY <1>1, <3>1, AdoptersLive
    <3>3. k[q] < k[x]
      BY <2>2, <3>1 DEF Increasing
    <3> QED  BY <2>4, <3>1, <3>2, <3>3
  <2>9. Increasing(g, m)
    BY <2>7, <2>8 DEF Increasing
  <2> QED  BY <2>5, <2>9 DEF Ranked
<1>12. ASSUME NEW c \in Allocs \ {Root}
       PROVE  /\ c \in g.live => g.parent[c] \in g.live
              /\ c \in g.freeing => g.parent[c] \in g.freeing \cup {NoAlloc}
              /\ c \notin g.live \cup g.freeing => g.parent[c] = NoAlloc
  <2>1. /\ c \in h.live => h.parent[c] \in h.live
        /\ c \in h.freeing => h.parent[c] \in h.freeing \cup {NoAlloc}
        /\ c \notin h.live \cup h.freeing => h.parent[c] = NoAlloc
    BY DEF Forest
  <2>2. CASE c = a
    BY <1>9, <2>2
  <2>3. CASE c # a
    BY <1>9, <2>1, <2>3
  <2> QED  BY <2>2, <2>3
<1>13. /\ g.parent[Root] \in {Root, NoAlloc} /\ Adopters(g, Root) = {}
       /\ Root \in g.live \cup g.freeing => g.parent[Root] = Root
       /\ g.live \cap g.freeing = {}
  <2>1. Root # a /\ g.parent[Root] = h.parent[Root] /\ Adopters(g, Root) = Adopters(h, Root)
    BY <1>1, <1>9
  <2> QED  BY <1>9, <2>1 DEF Forest
<1>14. Forest(g)
  BY <1>8, <1>11, <1>12, <1>13 DEF Forest
<1> QED  BY <1>9, <1>14

\* An adoption ends.
LEMMA EndedForest ==
    ASSUME NEW h, Forest(h), NEW p \in Allocs, NEW c \in Allocs, NEW g, g = DisconnectAdopted(h, p, c)
    PROVE  Forest(g) /\ g.live = h.live /\ g.freeing = h.freeing /\ g.parent = h.parent
<1>1. Linked(h) /\ h \in Heaps /\ Root \in Allocs
  BY AllocatorAssumption DEF Forest, Linked
<1>2. Ended(h, p, c, g)
  BY <1>1, DisconnectAdoptedFields
<1>3. Linked(g) /\ \A x \in Allocs : Adopters(g, x) \subseteq Adopters(h, x)
  BY <1>1, <1>2, EndedLinked
<1>4. g.live = h.live /\ g.freeing = h.freeing /\ g.parent = h.parent
  BY <1>2 DEF Ended
<1>5. Ranked(g)
  <2>1. Kept(h, g)
    BY <1>3, <1>4 DEF Kept
  <2> QED  BY <2>1, KeptRanked DEF Forest
<1>6. Adopters(g, Root) = {}
  BY <1>1, <1>3 DEF Forest
<1> QED  BY <1>3, <1>4, <1>5, <1>6 DEF Forest

-----------------------------------------------------------------------------
JobType == [on : Allocs \cup {NoAlloc}, async : BOOLEAN, called : BOOLEAN]

\* A job that has been called waits on the top of a tree that is being freed, every such
\* tree has one, and a job that has not been called is on an allocator in use.
JobsWait(h, jb) ==
    /\ jb \in [Jobs -> JobType]
    /\ \A j \in Jobs : jb[j].called => jb[j].on \in h.freeing /\ Top(h, jb[j].on)
    /\ \A j \in Jobs : jb[j] # NoJob /\ ~jb[j].called => jb[j].on \in h.live
    /\ \A b \in h.freeing : Top(h, b) => \E j \in Jobs : jb[j].called /\ jb[j].on = b

\* The inductive invariant.
Inv == Forest(heap) /\ JobsWait(heap, job)

\* Jobs are not concerned by what happens to the tree in use.
LEMMA JobsKeep ==
    ASSUME NEW h, NEW jb, JobsWait(h, jb), NEW g, g.freeing = h.freeing, h.live \subseteq g.live,
           \A b \in h.freeing : g.parent[b] = h.parent[b]
    PROVE  JobsWait(g, jb)
BY DEF JobsWait, Top

LEMMA InitInv == Init => Inv
<1> SUFFICES ASSUME Init PROVE Inv
  OBVIOUS
<1>1. Root \in Allocs /\ NoAlloc \notin Allocs
  BY AllocatorAssumption
<1>2. /\ \A a \in Allocs : /\ heap.parent[a] = IF a = Root THEN Root ELSE NoAlloc
                           /\ heap.kids[a] = <<>> /\ heap.adopters[a] = <<>> /\ heap.adopted[a] = <<>>
      /\ heap.live = {Root} /\ heap.freeing = {} /\ heap \in Heaps
  BY <1>1 DEF Init, Heaps, Lists, Parentage
<1>3. \A c : Count(<<>>, c) = 0
  <2>1. PICK s : s = <<>>
    OBVIOUS
  <2>2. s \in Seq(Allocs) /\ s = <<>>
    BY <2>1
  <2>3. ASSUME NEW c PROVE Count(s, c) = 0
    <3>1. Count(s, c) \in Nat /\ (Count(s, c) > 0 <=> c \in ToSet(s)) /\ ToSet(s) = {}
      BY <2>2, CountIsNat, EmptyList
    <3> QED  BY <3>1
  <2> QED  BY <2>1, <2>3
<1>4. \A p, c \in Allocs : /\ Count(heap.kids[p], c) = 0 /\ Count(heap.adopted[p], c) = 0
                           /\ Count(heap.adopters[c], p) = 0
  BY <1>2, <1>3, Zenon
<1>5. Linked(heap)
  <2>1. KidsMatch(heap.parent, heap.kids)
    BY <1>1, <1>2, <1>4 DEF KidsMatch
  <2>2. AdoptionsMatch(heap.adopted, heap.adopters, heap.live)
    BY <1>4 DEF AdoptionsMatch
  <2> QED  BY <1>2, <2>1, <2>2 DEF Linked
<1>6. \A c \in Allocs : Adopters(heap, c) = {}
  BY <1>2, <1>5, AdoptersLive
<1>7. Ranked(heap)
  <2>1. PICK r : r = [a \in Allocs |-> 0]
    OBVIOUS
  <2>2. r \in [Allocs -> 0 .. 0] /\ 0 \in Nat
    BY <2>1
  <2>3. Increasing(heap, r)
    BY <1>1, <1>2, <1>6 DEF Increasing
  <2> QED  BY <2>2, <2>3 DEF Ranked
<1>8. Forest(heap)
  BY <1>1, <1>2, <1>5, <1>6, <1>7 DEF Forest
<1>9. JobsWait(heap, job)
  <2>1. NoJob \in JobType /\ ~NoJob.called
    BY DEF NoJob, JobType
  <2>2. job \in [Jobs -> JobType] /\ \A j \in Jobs : job[j] = NoJob
    BY <2>1 DEF Init
  <2> HIDE DEF NoJob
  <2>3. \A j \in Jobs : ~job[j].called
    BY <2>1, <2>2
  <2> QED  BY <1>2, <2>2, <2>3 DEF JobsWait
<1> QED  BY <1>8, <1>9 DEF Inv, Init

\* An allocator that is being freed is released when its last job is gone.
LEMMA ReleaseKeepsJobs ==
    ASSUME NEW h, Forest(h), NEW t \in h.freeing, Top(h, t), NEW g, g = Released(h, t),
           NEW jb \in [Jobs -> JobType],
           \A j \in Jobs : jb[j].on # t,
           \A j \in Jobs : jb[j].called => jb[j].on \in h.freeing /\ Top(h, jb[j].on),
           \A j \in Jobs : jb[j] # NoJob /\ ~jb[j].called => jb[j].on \in h.live,
           \A b \in h.freeing : b # t /\ Top(h, b) => \E j \in Jobs : jb[j].called /\ jb[j].on = b
    PROVE  JobsWait(g, jb)
<1>1. /\ g.live = h.live /\ g.freeing \subseteq h.freeing /\ t \notin g.freeing
      /\ \A b \in h.freeing : b # t /\ Top(h, b) => b \in g.freeing
      /\ \A b \in g.freeing : g.parent[b] = h.parent[b]
  BY ReleasedForest
<1>2. ASSUME NEW j \in Jobs, jb[j].called PROVE jb[j].on \in g.freeing /\ Top(g, jb[j].on)
  <2>1. jb[j].on \in h.freeing /\ Top(h, jb[j].on) /\ jb[j].on # t
    BY <1>2
  <2>2. jb[j].on \in g.freeing
    BY <1>1, <2>1
  <2> QED  BY <1>1, <2>1, <2>2 DEF Top
<1>3. ASSUME NEW b \in g.freeing, Top(g, b) PROVE \E j \in Jobs : jb[j].called /\ jb[j].on = b
  <2>1. b \in h.freeing /\ b # t /\ Top(h, b)
    BY <1>1, <1>3 DEF Top
  <2> QED  BY <2>1
<1> QED  BY <1>1, <1>2, <1>3 DEF JobsWait

\* What a step frees had no adopter that survives, and only the allocator that was
\* named had a parent that does.
OnlyOrphans ==
    LET dying == heap.live \ heap'.live
    IN  /\ \A c \in dying : ToSet(heap.adopters[c]) \cap heap'.live = {}
        /\ Cardinality({c \in dying : heap.parent[c] \in heap'.live}) <= 1

LEMMA NothingFreed ==
    ASSUME heap.live \subseteq heap'.live
    PROVE  OnlyOrphans
<1>1. heap.live \ heap'.live = {}
  OBVIOUS
<1>2. Cardinality({c \in {} : heap.parent[c] \in heap'.live}) = 0
  <2>1. {c \in {} : heap.parent[c] \in heap'.live} = {}
    OBVIOUS
  <2> QED  BY <2>1, FS_EmptySet
<1> QED  BY <1>1, <1>2 DEF OnlyOrphans

\* The calls of CallJobs.
LEMMA CallJobsDoes ==
    ASSUME job \in [Jobs -> JobType], NEW dying, NoAlloc \notin dying, NEW top \in dying, top \in Allocs,
           NEW jb, jb = CallJobs(dying, top)
    PROVE  /\ jb \in [Jobs -> JobType]
           /\ \A j \in Jobs : job[j].on \notin dying => jb[j] = job[j]
           /\ \A j \in Jobs : job[j].on \in dying => jb[j] = NoJob \/ (jb[j].called /\ jb[j].on = top)
           /\ \A j \in Jobs : jb[j].on = top => jb[j].called
<1>1. NoJob \in JobType /\ NoJob.on = NoAlloc /\ [on |-> top, async |-> TRUE, called |-> TRUE] \in JobType
  BY DEF NoJob, JobType
<1>2. PICK full : full = [on |-> top, async |-> TRUE, called |-> TRUE]
  OBVIOUS
<1>3. full \in JobType /\ full.called /\ full.on = top
  BY <1>1, <1>2
<1>4. jb = [j \in Jobs |-> IF job[j].on \notin dying THEN job[j] ELSE IF job[j].async THEN full ELSE NoJob]
  BY <1>2 DEF CallJobs
<1> HIDE DEF NoJob, JobType
<1>5. \A j \in Jobs : /\ job[j].on \notin dying => jb[j] = job[j]
                      /\ job[j].on \in dying => jb[j] = full \/ jb[j] = NoJob
  BY <1>4
<1>6. jb \in [Jobs -> JobType]
  <2>1. \A j \in Jobs : jb[j] \in JobType
    BY <1>1, <1>3, <1>5
  <2>2. jb = [j \in Jobs |-> jb[j]]
    BY <1>4
  <2> QED  BY <2>1, <2>2
<1>7. ASSUME NEW j \in Jobs, jb[j].on = top PROVE jb[j].called
  <2>1. CASE job[j].on \notin dying
    BY <1>5, <1>7, <2>1
  <2>2. CASE job[j].on \in dying
    <3>1. jb[j] = NoJob => FALSE
      BY <1>1, <1>7
    <3>2. jb[j] = full
      BY <1>5, <2>2, <3>1
    <3> QED  BY <1>3, <3>2
  <2> QED  BY <2>1, <2>2
<1>8. \A j \in Jobs : job[j].on \in dying => jb[j] = NoJob \/ (jb[j].called /\ jb[j].on = top)
  BY <1>3, <1>5
<1> QED  BY <1>5, <1>6, <1>7, <1>8

LEMMA FreeTopInv ==
    ASSUME Inv, NEW top \in heap.live, FreeTop(top)
    PROVE  Inv' /\ OnlyOrphans
<1>1. PICK g : g = Pivoted(heap, top)
  OBVIOUS
<1>2. PICK dying : dying = heap.live \ g.live
  OBVIOUS
<1>3. PICK jb : jb = CallJobs(dying, top)
  OBVIOUS
<1>4. /\ job' = jb
      /\ heap' = IF top \in dying /\ \A j \in Jobs : jb[j].on # top THEN Released(g, top) ELSE g
  BY <1>1, <1>2, <1>3 DEF FreeTop
<1>5. /\ Forest(heap) /\ JobsWait(heap, job) /\ job \in [Jobs -> JobType]
      /\ top \in Allocs /\ NoAlloc \notin Allocs /\ heap.live \subseteq Allocs /\ heap.freeing \subseteq Allocs
      /\ heap.live \cap heap.freeing = {}
  BY AllocatorAssumption DEF Inv, JobsWait, Forest, Linked, Heaps
<1>6. \/ \E p \in Allocs : Moved(heap, top, p, g)
      \/ Mid(heap, top, g) /\ Closed(g, Dead(heap, g))
  BY <1>1, <1>5, PivotDoes
<1>7. ASSUME NEW p \in Allocs, Moved(heap, top, p, g) PROVE Inv' /\ OnlyOrphans
  <2>1. /\ Forest(g) /\ g.live = heap.live /\ g.freeing = heap.freeing
        /\ \A c \in Allocs \ heap.live : g.parent[c] = heap.parent[c]
    BY <1>5, <1>7, MovedForest
  <2>2. dying = {} /\ heap' = g
    BY <1>2, <1>4, <2>1
  <2>3. jb = job
    <3>1. jb = [j \in Jobs |-> job[j]]
      BY <1>3, <2>2 DEF CallJobs
    <3> QED  BY <1>5, <3>1
  <2>4. JobsWait(g, job)
    <3>1. \A b \in heap.freeing : g.parent[b] = heap.parent[b]
      BY <1>5, <2>1
    <3> QED  BY <1>5, <2>1, <3>1, JobsKeep
  <2>6. Forest(heap') /\ JobsWait(heap', job')
    BY <1>4, <2>1, <2>2, <2>3, <2>4
  <2>7. OnlyOrphans
    BY <2>1, <2>2, NothingFreed
  <2> QED  BY <2>6, <2>7 DEF Inv
<1>8. ASSUME Mid(heap, top, g), Closed(g, Dead(heap, g)) PROVE Inv' /\ OnlyOrphans
  <2>1. Forest(g)
    BY <1>5, <1>8, PivotForest
  <2>2. /\ dying = Dead(heap, g) /\ top \in dying /\ g.live \subseteq heap.live
        /\ g.freeing = heap.freeing \cup dying /\ NoAlloc \notin dying /\ dying \subseteq heap.live
        /\ heap.live = g.live \cup dying
    BY <1>2, <1>5, <1>8 DEF Mid, Dead
  <2>3. /\ jb \in [Jobs -> JobType]
        /\ \A j \in Jobs : job[j].on \notin dying => jb[j] = job[j]
        /\ \A j \in Jobs : job[j].on \in dying => jb[j] = NoJob \/ (jb[j].called /\ jb[j].on = top)
        /\ \A j \in Jobs : jb[j].on = top => jb[j].called
    BY <1>3, <1>5, <2>2, CallJobsDoes
  <2>4. Top(g, top) /\ top \in g.freeing
    BY <1>8, <2>2 DEF Mid, Top
  <2>5. \A b \in heap.freeing : g.parent[b] = heap.parent[b]
    BY <1>5, <1>8 DEF Mid
  <2>6. ~NoJob.called
    BY DEF NoJob
  <2>7. ASSUME NEW j \in Jobs, jb[j].called PROVE jb[j].on \in g.freeing /\ Top(g, jb[j].on)
    <3>1. CASE job[j].on \notin dying
      <4>1. job[j].on \in heap.freeing /\ Top(heap, job[j].on) /\ jb[j].on = job[j].on
        BY <1>5, <2>3, <2>7, <3>1 DEF JobsWait
      <4> QED  BY <2>2, <2>5, <4>1 DEF Top
    <3>2. CASE job[j].on \in dying
      <4>1. jb[j] # NoJob
        BY <2>6, <2>7
      <4>2. jb[j].on = top
        BY <2>3, <3>2, <4>1
      <4> QED  BY <2>4, <4>2
    <3> QED  BY <3>1, <3>2
  <2>8. ASSUME NEW j \in Jobs, jb[j] # NoJob, ~jb[j].called PROVE jb[j].on \in g.live
    <3>1. job[j].on \notin dying
      BY <2>3, <2>8
    <3>2. jb[j] = job[j]
      BY <2>3, <3>1
    <3>3. job[j].on \in heap.live
      BY <1>5, <2>8, <3>2 DEF JobsWait
    <3> QED  BY <2>2, <3>1, <3>2, <3>3
  <2>9. ASSUME NEW b \in g.freeing, b # top, Top(g, b) PROVE \E j \in Jobs : jb[j].called /\ jb[j].on = b
    <3>1. CASE b \in dying
      <4>1. b \in Allocs /\ b # Root /\ g.parent[b] \in dying
        BY <1>5, <1>8, <2>2, <2>9, <3>1 DEF Mid
      <4> QED  BY <1>5, <2>2, <2>9, <4>1 DEF Top
    <3>2. CASE b \notin dying
      <4>1. b \in heap.freeing /\ Top(heap, b)
        BY <2>2, <2>5, <2>9, <3>2 DEF Top
      <4>2. PICK j \in Jobs : job[j].called /\ job[j].on = b
        BY <1>5, <4>1 DEF JobsWait
      <4>3. jb[j] = job[j]
        BY <2>3, <3>2, <4>2
      <4> QED  BY <4>2, <4>3
    <3> QED  BY <3>1, <3>2
  <2>10. Forest(heap') /\ JobsWait(heap', job') /\ heap'.live = g.live
    <3>1. CASE \A j \in Jobs : jb[j].on # top
      <4>1. PICK f : f = Released(g, top) /\ f = heap'
        BY <1>4, <2>2, <3>1
      <4>2. Forest(f) /\ f.live = g.live
        BY <2>1, <2>4, <4>1, ReleasedForest
      <4>3. /\ \A j \in Jobs : jb[j].called => jb[j].on \in g.freeing /\ Top(g, jb[j].on)
            /\ \A j \in Jobs : jb[j] # NoJob /\ ~jb[j].called => jb[j].on \in g.live
            /\ \A b \in g.freeing : b # top /\ Top(g, b) => \E j \in Jobs : jb[j].called /\ jb[j].on = b
        BY <2>7, <2>8, <2>9, Zenon
      <4>4. JobsWait(f, jb)
        BY <2>1, <2>3, <2>4, <3>1, <4>1, <4>3, ReleaseKeepsJobs
      <4> QED  BY <1>4, <4>1, <4>2, <4>4
    <3>2. CASE ~(\A j \in Jobs : jb[j].on # top)
      <4>1. heap' = g
        BY <1>4, <3>2
      <4>2. PICK j \in Jobs : jb[j].on = top /\ jb[j].called
        BY <2>3, <3>2
      <4>3. \A b \in g.freeing : Top(g, b) => \E i \in Jobs : jb[i].called /\ jb[i].on = b
        BY <2>9, <4>2
      <4>4. JobsWait(g, jb)
        BY <2>3, <2>7, <2>8, <4>3 DEF JobsWait
      <4> QED  BY <1>4, <2>1, <4>1, <4>4
    <3> QED  BY <3>1, <3>2
  <2>12. Inv'
    BY <2>10 DEF Inv
  <2>13. OnlyOrphans
    <3>1. heap.live \ heap'.live = dying
      BY <1>2, <2>10
    <3>2. ASSUME NEW c \in dying, NEW p \in Adopters(heap, c), p \in g.live PROVE FALSE
      <4>1. c \in Allocs /\ Linked(g) /\ c \notin g.live
        BY <1>5, <1>8, <2>2 DEF Mid, Dead
      <4>2. p \in Adopters(g, c) \/ g.parent[c] = p
        BY <1>8, <3>2, <4>1 DEF Mid
      <4>3. p \notin Adopters(g, c)
        BY <4>1, AdoptersLive
      <4>4. g.parent[c] \notin g.live
        <5>1. CASE c # top
          BY <1>8, <2>2, <4>1, <5>1 DEF Mid, Dead
        <5>2. CASE c = top /\ top # Root
          BY <1>5, <1>8, <2>2, <5>2 DEF Mid
        <5>3. CASE c = top /\ top = Root
          <6>1. g.parent[Root] \in {Root, NoAlloc}
            BY <2>1 DEF Forest
          <6> QED  BY <1>5, <2>2, <4>1, <5>3, <6>1
        <5> QED  BY <5>1, <5>2, <5>3
      <4> QED  BY <3>2, <4>2, <4>3, <4>4
    <3>3. \A c \in dying : ToSet(heap.adopters[c]) \cap heap'.live = {}
      BY <2>10, <3>2 DEF Adopters
    <3>4. PICK S : S = {c \in dying : heap.parent[c] \in heap'.live}
      OBVIOUS
    <3>5. S \subseteq {top}
      <4>1. ASSUME NEW c \in dying, c # top, heap.parent[c] \in g.live PROVE FALSE
        <5>1. c \in Allocs /\ g.parent[c] \in dying
          BY <1>5, <1>8, <2>2, <4>1 DEF Mid
        <5>2. g.parent[c] = heap.parent[c]
          BY <1>8, <4>1, <5>1 DEF Mid
        <5> QED  BY <2>2, <4>1, <5>1, <5>2 DEF Dead
      <4> QED  BY <2>10, <3>4, <4>1
    <3>6. Cardinality(S) <= 1
      <4>1. S = {} \/ S = {top}
        BY <3>5
      <4>2. Cardinality({}) = 0 /\ Cardinality({top}) = 1
        BY FS_EmptySet, FS_Singleton
      <4> QED  BY <4>1, <4>2
    <3> QED  BY <3>1, <3>3, <3>4, <3>6 DEF OnlyOrphans
  <2> QED  BY <2>12, <2>13
<1> QED  BY <1>6, <1>7, <1>8

-----------------------------------------------------------------------------
LEMMA AdoptInv ==
    ASSUME Inv, NEW p \in Allocs, NEW c \in Allocs, Adopt(p, c)
    PROVE  Inv' /\ OnlyOrphans
<1>1. job' = job /\ Forest(heap) /\ JobsWait(heap, job)
  BY DEF Adopt, Inv
<1>2. CASE heap' = heap
  <2>1. Inv'
    BY <1>1, <1>2 DEF Inv
  <2>2. OnlyOrphans
    BY <1>2, NothingFreed
  <2> QED  BY <2>1, <2>2
<1>3. CASE /\ {p, c} \subseteq heap.live
           /\ IsAncestorOf(heap, c, p) = "no"
           /\ heap' = WithAdoption(heap, p, c)
  <2>1. PICK g : g = heap'
    OBVIOUS
  <2>2. Forest(g) /\ g.live = heap.live /\ g.freeing = heap.freeing /\ g.parent = heap.parent
    BY <1>1, <1>3, <2>1, AdoptForest
  <2>3. JobsWait(g, job)
    BY <1>1, <2>2, JobsKeep
  <2>4. Inv'
    BY <1>1, <2>1, <2>2, <2>3 DEF Inv
  <2>5. OnlyOrphans
    BY <2>1, <2>2, NothingFreed
  <2> QED  BY <2>4, <2>5
<1> QED  BY <1>2, <1>3 DEF Adopt, WithAdoption

LEMMA ChildInv ==
    ASSUME Inv, NEW p \in Allocs, NEW a \in Allocs, Child(p, a)
    PROVE  Inv' /\ OnlyOrphans
<1>1. PICK g : g = heap'
  OBVIOUS
<1>2. /\ p \in heap.live /\ a \notin heap.live \cup heap.freeing \cup {Root}
      /\ g = Connect([heap EXCEPT !.live = @ \cup {a}], p, a)
      /\ job' = job /\ Forest(heap) /\ JobsWait(heap, job)
  BY <1>1 DEF Child, Inv
<1>3. /\ Forest(g) /\ g.live = heap.live \cup {a} /\ g.freeing = heap.freeing
      /\ \A c \in Allocs : c # a => g.parent[c] = heap.parent[c]
  BY <1>2, ChildForest
<1>4. JobsWait(g, job)
  <2>1. \A b \in heap.freeing : g.parent[b] = heap.parent[b]
    BY <1>2, <1>3 DEF Forest, Linked, Heaps
  <2> QED  BY <1>2, <1>3, <2>1, JobsKeep
<1>5. Inv'
  BY <1>1, <1>2, <1>3, <1>4 DEF Inv
<1>6. OnlyOrphans
  BY <1>1, <1>3, NothingFreed
<1> QED  BY <1>5, <1>6

LEMMA FreeInv ==
    ASSUME Inv, NEW a \in Allocs, Free(a)
    PROVE  Inv' /\ OnlyOrphans
<1>1. CASE FreeTop(a)
  BY <1>1, FreeTopInv DEF Free
<1>2. CASE UNCHANGED <<heap, job>>
  <2>1. Inv'
    BY <1>2 DEF Inv
  <2>2. OnlyOrphans
    BY <1>2, NothingFreed
  <2> QED  BY <2>1, <2>2
<1> QED  BY <1>1, <1>2 DEF Free

LEMMA DisownInv ==
    ASSUME Inv, NEW p \in Allocs, NEW c \in Allocs, Disown(p, c)
    PROVE  Inv' /\ OnlyOrphans
<1>1. Forest(heap) /\ JobsWait(heap, job)
  BY DEF Inv
<1>2. CASE Free(c)
  BY <1>2, FreeInv
<1>3. CASE UNCHANGED <<heap, job>>
  <2>1. Inv'
    BY <1>3 DEF Inv
  <2>2. OnlyOrphans
    BY <1>3, NothingFreed
  <2> QED  BY <2>1, <2>2
<1>4. CASE {p, c} \subseteq heap.live /\ heap' = DisconnectAdopted(heap, p, c) /\ job' = job
  <2>1. PICK g : g = heap'
    OBVIOUS
  <2>2. Forest(g) /\ g.live = heap.live /\ g.freeing = heap.freeing /\ g.parent = heap.parent
    BY <1>1, <1>4, <2>1, EndedForest
  <2>3. JobsWait(g, job)
    BY <1>1, <2>2, JobsKeep
  <2>4. Inv'
    BY <1>4, <2>1, <2>2, <2>3 DEF Inv
  <2>5. OnlyOrphans
    BY <2>1, <2>2, NothingFreed
  <2> QED  BY <2>4, <2>5
<1> QED  BY <1>2, <1>3, <1>4 DEF Disown, vars

LEMMA JobTypes ==
    /\ NoJob \in JobType /\ ~NoJob.called
    /\ \A a \in Allocs, b \in BOOLEAN :
         /\ [on |-> a, async |-> b, called |-> FALSE] \in JobType
         /\ [on |-> a, async |-> b, called |-> FALSE].on = a
         /\ ~[on |-> a, async |-> b, called |-> FALSE].called
BY DEF NoJob, JobType

LEMMA OnFreeInv ==
    ASSUME Inv, NEW a \in Allocs, NEW j \in Jobs, OnFree(a, j)
    PROVE  Inv' /\ OnlyOrphans
<1>1. PICK b \in BOOLEAN : job' = [job EXCEPT ![j] = [on |-> a, async |-> b, called |-> FALSE]]
  BY DEF OnFree
<1>2. PICK new : new = [on |-> a, async |-> b, called |-> FALSE]
  OBVIOUS
<1>3. new \in JobType /\ new.on = a /\ ~new.called /\ ~NoJob.called
  BY <1>2, JobTypes
<1>4. /\ a \in heap.live /\ job[j] = NoJob /\ heap' = heap
      /\ Forest(heap) /\ JobsWait(heap, job) /\ job \in [Jobs -> JobType]
  BY DEF OnFree, Inv, JobsWait
<1> HIDE DEF NoJob, JobType
<1>5. PICK jb : jb = job' /\ jb \in [Jobs -> JobType] /\ jb[j] = new /\ \A i \in Jobs : i # j => jb[i] = job[i]
  BY <1>1, <1>2, <1>3, <1>4
<1>6. JobsWait(heap, jb)
  <2>1. ASSUME NEW i \in Jobs, jb[i].called PROVE jb[i].on \in heap.freeing /\ Top(heap, jb[i].on)
    <3>1. i # j /\ jb[i] = job[i]
      BY <1>3, <1>5, <2>1
    <3> QED  BY <1>4, <2>1, <3>1 DEF JobsWait
  <2>2. ASSUME NEW i \in Jobs, jb[i] # NoJob, ~jb[i].called PROVE jb[i].on \in heap.live
    <3>1. CASE i = j
      BY <1>3, <1>4, <1>5, <3>1
    <3>2. CASE i # j
      <4>1. jb[i] = job[i]
        BY <1>5, <3>2
      <4> QED  BY <1>4, <2>2, <4>1 DEF JobsWait
    <3> QED  BY <3>1, <3>2
  <2>3. ASSUME NEW t \in heap.freeing, Top(heap, t) PROVE \E i \in Jobs : jb[i].called /\ jb[i].on = t
    <3>1. PICK i \in Jobs : job[i].called /\ job[i].on = t
      BY <1>4, <2>3 DEF JobsWait
    <3>2. i # j
      BY <1>3, <1>4, <3>1
    <3>3. jb[i] = job[i]
      BY <1>5, <3>2
    <3> QED  BY <3>1, <3>3
  <2> QED  BY <1>5, <2>1, <2>2, <2>3 DEF JobsWait
<1>7. Inv'
  BY <1>4, <1>5, <1>6 DEF Inv
<1>8. OnlyOrphans
  BY <1>4, NothingFreed
<1> QED  BY <1>7, <1>8

LEMMA CancelOnFreeInv ==
    ASSUME Inv, NEW j \in Jobs, CancelOnFree(j)
    PROVE  Inv' /\ OnlyOrphans
<1>1. NoJob \in JobType /\ ~NoJob.called
  BY JobTypes
<1>2. /\ ~job[j].called /\ job' = [job EXCEPT ![j] = NoJob] /\ heap' = heap
      /\ Forest(heap) /\ JobsWait(heap, job) /\ job \in [Jobs -> JobType]
  BY DEF CancelOnFree, Inv, JobsWait
<1> HIDE DEF NoJob, JobType
<1>3. PICK jb : jb = job' /\ jb \in [Jobs -> JobType] /\ jb[j] = NoJob /\ \A i \in Jobs : i # j => jb[i] = job[i]
  BY <1>1, <1>2
<1>4. JobsWait(heap, jb)
  <2>1. ASSUME NEW i \in Jobs, jb[i].called PROVE jb[i].on \in heap.freeing /\ Top(heap, jb[i].on)
    <3>1. i # j /\ jb[i] = job[i]
      BY <1>1, <1>3, <2>1
    <3> QED  BY <1>2, <2>1, <3>1 DEF JobsWait
  <2>2. ASSUME NEW i \in Jobs, jb[i] # NoJob, ~jb[i].called PROVE jb[i].on \in heap.live
    <3>1. i # j /\ jb[i] = job[i]
      BY <1>3, <2>2
    <3> QED  BY <1>2, <2>2, <3>1 DEF JobsWait
  <2>3. ASSUME NEW t \in heap.freeing, Top(heap, t) PROVE \E i \in Jobs : jb[i].called /\ jb[i].on = t
    <3>1. PICK i \in Jobs : job[i].called /\ job[i].on = t
      BY <1>2, <2>3 DEF JobsWait
    <3>2. i # j /\ jb[i] = job[i]
      BY <1>2, <1>3, <3>1
    <3> QED  BY <3>1, <3>2
  <2> QED  BY <1>3, <2>1, <2>2, <2>3 DEF JobsWait
<1>5. Inv'
  BY <1>2, <1>3, <1>4 DEF Inv
<1>6. OnlyOrphans
  BY <1>2, NothingFreed
<1> QED  BY <1>5, <1>6

LEMMA OnFreeCompleteInv ==
    ASSUME Inv, NEW j \in Jobs, OnFreeComplete(j)
    PROVE  Inv' /\ OnlyOrphans
<1>1. NoJob \in JobType /\ ~NoJob.called /\ NoJob.on = NoAlloc /\ NoAlloc \notin Allocs
  BY JobTypes, AllocatorAssumption DEF NoJob
<1>2. /\ job[j].called /\ job' = [job EXCEPT ![j] = NoJob]
      /\ Forest(heap) /\ JobsWait(heap, job) /\ job \in [Jobs -> JobType]
  BY DEF OnFreeComplete, Inv, JobsWait
<1>3. PICK t : t = job[j].on
  OBVIOUS
<1>4. t \in heap.freeing /\ Top(heap, t) /\ t \in Allocs
  BY <1>2, <1>3 DEF JobsWait, Forest, Linked, Heaps
<1>5. heap' = IF \A i \in Jobs \ {j} : job[i].on # t THEN Released(heap, t) ELSE heap
  BY <1>3 DEF OnFreeComplete
<1> HIDE DEF NoJob, JobType
<1>6. PICK jb : jb = job' /\ jb \in [Jobs -> JobType] /\ jb[j] = NoJob /\ \A i \in Jobs : i # j => jb[i] = job[i]
  BY <1>1, <1>2
<1>7. ASSUME NEW i \in Jobs, jb[i].called PROVE jb[i].on \in heap.freeing /\ Top(heap, jb[i].on)
  <2>1. i # j /\ jb[i] = job[i]
    BY <1>1, <1>6, <1>7
  <2> QED  BY <1>2, <1>7, <2>1 DEF JobsWait
<1>8. ASSUME NEW i \in Jobs, jb[i] # NoJob, ~jb[i].called PROVE jb[i].on \in heap.live
  <2>1. i # j /\ jb[i] = job[i]
    BY <1>6, <1>8
  <2> QED  BY <1>2, <1>8, <2>1 DEF JobsWait
<1>9. ASSUME NEW b \in heap.freeing, b # t, Top(heap, b) PROVE \E i \in Jobs : jb[i].called /\ jb[i].on = b
  <2>1. PICK i \in Jobs : job[i].called /\ job[i].on = b
    BY <1>2, <1>9 DEF JobsWait
  <2>2. i # j
    BY <1>3, <1>9, <2>1
  <2>3. jb[i] = job[i]
    BY <1>6, <2>2
  <2> QED  BY <2>1, <2>3
<1>10. Forest(heap') /\ JobsWait(heap', jb) /\ heap'.live = heap.live
  <2>1. CASE \A i \in Jobs \ {j} : job[i].on # t
    <3>1. PICK g : g = heap' /\ g = Released(heap, t)
      BY <1>5, <2>1
    <3>2. Forest(g) /\ g.live = heap.live
      BY <1>2, <1>4, <3>1, ReleasedForest
    <3>3. ASSUME NEW i \in Jobs PROVE jb[i].on # t
      <4>1. CASE i = j
        <5>1. jb[i] = NoJob
          BY <1>6, <4>1
        <5> QED  BY <1>1, <1>4, <5>1
      <4>2. CASE i # j
        <5>1. jb[i] = job[i]
          BY <1>6, <4>2
        <5> QED  BY <2>1, <4>2, <5>1
      <4> QED  BY <4>1, <4>2
    <3>4. /\ \A i \in Jobs : jb[i].on # t
          /\ \A i \in Jobs : jb[i].called => jb[i].on \in heap.freeing /\ Top(heap, jb[i].on)
          /\ \A i \in Jobs : jb[i] # NoJob /\ ~jb[i].called => jb[i].on \in heap.live
          /\ \A b \in heap.freeing : b # t /\ Top(heap, b) => \E i \in Jobs : jb[i].called /\ jb[i].on = b
      BY <1>7, <1>8, <1>9, <3>3, Zenon
    <3>5. Forest(heap) /\ g = Released(heap, t) /\ jb \in [Jobs -> JobType]
      BY <1>2, <1>6, <3>1
    <3>6. JobsWait(g, jb)
      BY <1>4, <3>4, <3>5, ReleaseKeepsJobs
    <3> QED  BY <3>1, <3>2, <3>6
  <2>2. CASE ~(\A i \in Jobs \ {j} : job[i].on # t)
    <3>1. heap' = heap
      BY <1>5, <2>2
    <3>2. PICK i \in Jobs \ {j} : job[i].on = t
      BY <2>2
    <3>3. job[i] # NoJob
      BY <1>1, <1>4, <3>2
    <3>4. job[i].called
      <4>1. CASE ~job[i].called
        <5>1. t \in heap.live
          BY <1>2, <3>2, <3>3, <4>1 DEF JobsWait
        <5> QED  BY <1>2, <1>4, <5>1 DEF Forest
      <4> QED  BY <4>1
    <3>5. jb[i] = job[i]
      BY <1>6, <3>2
    <3>6. \A b \in heap.freeing : Top(heap, b) => \E k \in Jobs : jb[k].called /\ jb[k].on = b
      BY <1>9, <3>2, <3>4, <3>5
    <3>7. JobsWait(heap, jb)
      BY <1>6, <1>7, <1>8, <3>6 DEF JobsWait
    <3> QED  BY <1>2, <3>1, <3>7
  <2> QED  BY <2>1, <2>2
<1>11. Inv'
  BY <1>6, <1>10 DEF Inv
<1>12. OnlyOrphans
  BY <1>10, NothingFreed
<1> QED  BY <1>11, <1>12

LEMMA StepInv ==
    ASSUME Inv, [Next]_vars
    PROVE  Inv' /\ [OnlyOrphans]_vars
<1>1. CASE UNCHANGED vars
  <2>1. heap' = heap /\ job' = job
    BY <1>1 DEF vars
  <2>2. Inv'
    BY <2>1 DEF Inv
  <2> QED  BY <1>1, <2>2
<1>2. ASSUME NEW a \in Allocs, NEW p \in Allocs, Child(p, a) PROVE Inv' /\ OnlyOrphans
  BY <1>2, ChildInv
<1>3. ASSUME NEW a \in Allocs, NEW p \in Allocs, Adopt(p, a) PROVE Inv' /\ OnlyOrphans
  BY <1>3, AdoptInv
<1>4. ASSUME NEW a \in Allocs, NEW p \in Allocs, Disown(p, a) PROVE Inv' /\ OnlyOrphans
  BY <1>4, DisownInv
<1>5. ASSUME NEW a \in Allocs, Free(a) PROVE Inv' /\ OnlyOrphans
  BY <1>5, FreeInv
<1>6. ASSUME NEW a \in Allocs, NEW j \in Jobs, OnFree(a, j) PROVE Inv' /\ OnlyOrphans
  BY <1>6, OnFreeInv
<1>7. ASSUME NEW j \in Jobs, CancelOnFree(j) PROVE Inv' /\ OnlyOrphans
  BY <1>7, CancelOnFreeInv
<1>8. ASSUME NEW j \in Jobs, OnFreeComplete(j) PROVE Inv' /\ OnlyOrphans
  BY <1>8, OnFreeCompleteInv
<1> QED  BY <1>1, <1>2, <1>3, <1>4, <1>5, <1>6, <1>7, <1>8 DEF Next

LEMMA InvHolds == Spec => []Inv
<1>1. Inv /\ [Next]_vars => Inv'
  BY StepInv
<1> QED  BY InitInv, <1>1, PTL DEF Spec

-----------------------------------------------------------------------------
\* The assertions of disconnect, connect and disconnectAdopted never fail: the lists of
\* children and of adoptions agree with each other and name nothing that is being freed.
THEOREM TreeIsLinked == Spec => []WellLinked
<1>1. Inv => WellLinked
  <2> SUFFICES ASSUME Inv, NEW p \in Allocs, NEW c \in Allocs
               PROVE  /\ Count(heap.kids[p], c) = IF heap.parent[c] = p /\ c # Root THEN 1 ELSE 0
                      /\ Count(heap.adopted[p], c) = Count(heap.adopters[c], p)
                      /\ Count(heap.adopted[p], c) > 0 => {p, c} \subseteq heap.live
    BY DEF WellLinked
  <2>1. KidsMatch(heap.parent, heap.kids) /\ AdoptionsMatch(heap.adopted, heap.adopters, heap.live)
    BY DEF Inv, Forest, Linked
  <2> QED  BY <2>1 DEF KidsMatch, AdoptionsMatch
<1> QED  BY InvHolds, <1>1, PTL

\* "Any allocator which has no surviving parent allocator will be implicitly freed", and
\* no other: while the root is in use, so are exactly the allocators that hang on it.
THEOREM NothingLeaks == Spec => []NoLeak
<1>1. Inv => NoLeak
  <2> SUFFICES ASSUME Inv, Root \in heap.live PROVE heap.live = Reachable(heap)
    BY DEF NoLeak
  <2>1. PICK h : h = heap
    OBVIOUS
  <2>2. /\ Forest(h) /\ Linked(h) /\ Root \in Allocs /\ NoAlloc \notin Allocs
        /\ h.live \subseteq Allocs /\ h.live \cap h.freeing = {} /\ Root \in h.live
    BY <2>1, AllocatorAssumption DEF Inv, Forest, Linked, Heaps
  <2>3. ASSUME NEW c \in Allocs, Parents(h, c) \cap h.live # {} PROVE c \in h.live
    <3>1. PICK p \in h.live : p = h.parent[c] \/ p \in Adopters(h, c)
      BY <2>3 DEF Parents, Adopters
    <3>2. CASE p \in Adopters(h, c)
      BY <2>2, <3>2, AdoptersLive
    <3>3. CASE p = h.parent[c]
      BY <2>2, <3>3 DEF Forest
    <3> QED  BY <3>1, <3>2, <3>3
  <2>4. Reachable(h) \subseteq h.live
    BY <2>2, <2>3, ReachableIs
  <2>5. h.live \subseteq Reachable(h)
    <3> DEFINE S == h.live \ Reachable(h)
    <3>1. SUFFICES ASSUME S # {} PROVE FALSE
      OBVIOUS
    <3>2. PICK a \in S : a # Root /\ h.parent[a] \in Allocs => h.parent[a] \notin S
      <4>1. S \in SUBSET Allocs
        BY <2>2
      <4> HIDE DEF S
      <4> QED  BY <2>2, <3>1, <4>1, Topmost DEF Forest
    <3>3. a \in Allocs /\ a # Root /\ a \in h.live
      BY <2>2, <3>2, ReachableIs
    <3>4. h.parent[a] \in h.live /\ h.parent[a] \in Allocs
      BY <2>2, <3>3 DEF Forest
    <3>5. h.parent[a] \in Reachable(h)
      BY <3>2, <3>3, <3>4
    <3>6. Parents(h, a) \cap Reachable(h) # {}
      BY <3>5 DEF Parents
    <3> QED  BY <3>2, <3>3, <3>6, ReachableIs
  <2> QED  BY <2>1, <2>4, <2>5
<1> QED  BY InvHolds, <1>1, PTL

\* Memory that is being freed waits for an asynchronous onFree job below the allocator
\* that was freed, and no job outlives the memory that it waits for.
THEOREM FreeingWaits == Spec => []FreeingWaitsForJobs
<1>1. Inv => FreeingWaitsForJobs
  <2> SUFFICES ASSUME Inv PROVE FreeingWaitsForJobs
    OBVIOUS
  <2>1. PICK h : h = heap
    OBVIOUS
  <2>2. Forest(h) /\ Linked(h) /\ JobsWait(h, job) /\ h.freeing \subseteq Allocs
    BY <2>1 DEF Inv, Forest, Linked, Heaps
  <2> DEFINE S == {a \in h.freeing : \A j \in Jobs : job[j].called => a \notin Subtree(h, job[j].on)}
  <2>3. S = {}
    <3>1. SUFFICES ASSUME S # {} PROVE FALSE
      OBVIOUS
    <3>2. PICK a \in S : a # Root /\ h.parent[a] \in Allocs => h.parent[a] \notin S
      <4>1. S \in SUBSET Allocs
        BY <2>2
      <4> HIDE DEF S
      <4> QED  BY <2>2, <3>1, <4>1, Topmost DEF Forest
    <3>3. a \in h.freeing /\ a \in Allocs
      BY <2>2, <3>2
    <3>4. CASE Top(h, a)
      <4>1. PICK j \in Jobs : job[j].called /\ job[j].on = a
        BY <2>2, <3>3, <3>4 DEF JobsWait
      <4>2. a \in Subtree(h, a)
        BY <2>2, <3>3, SubtreeIs
      <4> QED  BY <3>2, <4>1, <4>2
    <3>5. CASE ~Top(h, a)
      <4>1. a # Root /\ h.parent[a] \in h.freeing /\ h.parent[a] \in Allocs
        BY <2>2, <3>3, <3>5 DEF Forest, Top
      <4>2. PICK j \in Jobs : job[j].called /\ h.parent[a] \in Subtree(h, job[j].on)
        BY <3>2, <4>1
      <4>3. PICK t \in Allocs : t = job[j].on
        BY <2>2, <4>2 DEF JobsWait
      <4>4. a \in Subtree(h, t)
        BY <2>2, <3>3, <4>1, <4>2, <4>3, SubtreeIs DEF Closed
      <4> QED  BY <3>2, <4>2, <4>3, <4>4
    <3> QED  BY <3>4, <3>5
  <2>4. \A a \in h.freeing : \E j \in Jobs : job[j].called /\ a \in Subtree(h, job[j].on)
    BY <2>3
  <2>5. /\ \A j \in Jobs : job[j].called => job[j].on \in h.freeing
        /\ \A j \in Jobs : job[j] # NoJob /\ ~job[j].called => job[j].on \in h.live
    BY <2>2 DEF JobsWait
  <2> QED  BY <2>1, <2>4, <2>5, Zenon DEF FreeingWaitsForJobs
<1> QED  BY InvHolds, <1>1, PTL

\* One call of free or disown takes down nothing that an adopter which survives it has
\* adopted, and only the allocator it names from a parent which survives.
THEOREM FreesOrphans == Spec => FreesOnlyOrphans
<1>1. Inv /\ [Next]_vars => [OnlyOrphans]_vars
  BY StepInv
<1> QED  BY InvHolds, <1>1, PTL DEF Spec, FreesOnlyOrphans, OnlyOrphans
=============================================================================
