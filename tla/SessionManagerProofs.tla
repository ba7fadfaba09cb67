------------------------- MODULE SessionManagerProofs -------------------------
(***************************************************************************)
(* The table of sessions is sound, for any number of addresses and handles.*)
(*                                                                         *)
(* The two loops, indexForHandle's binary search and the removals of       *)
(* checkTimedOutSessions, are recursive functions.  Loop and Induction say *)
(* of any such loop that it ends and that what every round keeps holds at  *)
(* its end; Searching and Sweeping are what the rounds keep.  With them    *)
(* the invariant is preserved by every handler: the handles in the table   *)
(* ascend, and table, sessions and the pathfinder's list are about the     *)
(* same addresses (TableOK).                                               *)
(***************************************************************************)
EXTENDS SessionManager, FiniteSetTheorems, WellFoundedInduction, TLAPS

\* A set of natural numbers has a least element.
LEMMA LeastNat ==
    ASSUME NEW S \in SUBSET Nat, S # {}
    PROVE  \E n \in S : \A m \in S : n <= m
<1> DEFINE R == {ss \in Nat \X Nat : ss[1] < ss[2]}
<1>1. IsWellFoundedOn(R, Nat)
  BY NatLessThanWellFounded DEF OpToRel
<1>2. \A x, y \in Nat : <<y, x>> \in R <=> y < x
  OBVIOUS
<1> HIDE DEF R
<1>3. PICK x \in S : \A y \in S : <<y, x>> \notin R
  BY <1>1, WFMin
<1>4. ASSUME NEW y \in S PROVE x <= y
  <2>1. x \in Nat /\ y \in Nat
    OBVIOUS
  <2>2. ~(y < x)
    BY <1>2, <1>3, <2>1, Zenon
  <2> QED  BY <2>1, <2>2
<1> QED  BY <1>4

\* What holds at first and is kept by every step of a finite run holds to its end.
LEMMA Induction ==
    ASSUME NEW n \in Nat, NEW f, NEW I, f[0] \in I[0],
           \A k \in 1 .. n : f[k - 1] \in I[k - 1] => f[k] \in I[k]
    PROVE  \A k \in 0 .. n : f[k] \in I[k]
<1> DEFINE Bad == {k \in 0 .. n : f[k] \notin I[k]}
<1>1. SUFFICES ASSUME Bad # {} PROVE FALSE
  OBVIOUS
<1>2. PICK m \in Bad : \A k \in Bad : m <= k
  <2>1. Bad \in SUBSET Nat
    OBVIOUS
  <2> HIDE DEF Bad
  <2> QED  BY <1>1, <2>1, LeastNat
<1>3. m # 0
  BY <1>2
<1>4. m - 1 \in 0 .. n /\ m - 1 \notin Bad /\ m \in 1 .. n
  BY <1>2, <1>3
<1>5. f[m - 1] \in I[m - 1]
  BY <1>4
<1> QED  BY <1>2, <1>4, <1>5

\* f is a run of n rounds from x, and G[k] the k-th round.
Runs(n, x, G, f) ==
    f = [k \in 0 .. n |-> IF k = 0 THEN x ELSE G[k][f[k - 1]]]

\* A run of n rounds exists, whatever the rounds are.
LEMMA LoopExists ==
    ASSUME NEW n \in Nat, NEW x, NEW G
    PROVE  \E f : Runs(n, x, G, f)
<1> DEFINE Bad == {m \in Nat : ~ \E f : Runs(m, x, G, f)}
<1>1. SUFFICES ASSUME Bad # {} PROVE FALSE
  OBVIOUS
<1>2. PICK m \in Bad : \A k \in Bad : m <= k
  <2>1. Bad \in SUBSET Nat  OBVIOUS
  <2> HIDE DEF Bad
  <2> QED BY <1>1, <2>1, LeastNat
<1>3. CASE m = 0
  <2> DEFINE f == [k \in 0 .. 0 |-> x]
  <2>1. Runs(0, x, G, f)
    BY DEF Runs
  <2> QED BY <1>3, <2>1
<1>4. CASE m # 0
  <2>1. m - 1 \in Nat /\ m - 1 \notin Bad
    BY <1>2, <1>4
  <2>2. PICK f : Runs(m - 1, x, G, f)
    BY <2>1
  <2> DEFINE g == [k \in 0 .. m |-> IF k = m THEN G[m][f[m-1]] ELSE f[k]]
  <2>3. Runs(m, x, G, g)
    <3>1. \A k \in 1 .. m - 1 : f[k] = G[k][f[k - 1]]
      BY <2>1, <2>2 DEF Runs
    <3>2. f[0] = x
      BY <2>1, <2>2 DEF Runs
    <3>3. \A k \in 1 .. m : g[k - 1] = f[k - 1]
      BY <1>2, <1>4
    <3>4. \A k \in 0 .. m : g[k] = IF k = 0 THEN x ELSE G[k][g[k - 1]]
      BY <1>2, <1>4, <3>1, <3>2, <3>3
    <3> QED  BY <3>4 DEF Runs
  <2> QED BY <2>3
<1> QED BY <1>3, <1>4


\* A loop whose rounds lead from I[k - 1] to I[k] has a run that is always in I.
LEMMA Loop ==
    ASSUME NEW n \in Nat, NEW x, NEW G, NEW I, x \in I[0],
           \A k \in 1 .. n : \A s \in I[k - 1] : G[k][s] \in I[k]
    PROVE  \E f : Runs(n, x, G, f) /\ \A k \in 0 .. n : f[k] \in I[k]
<1>1. PICK f : Runs(n, x, G, f)
  BY LoopExists
<1>2. f[0] = x /\ \A k \in 1 .. n : f[k] = G[k][f[k - 1]]
  BY <1>1 DEF Runs
<1>3. f[0] \in I[0] /\ \A k \in 1 .. n : f[k - 1] \in I[k - 1] => f[k] \in I[k]
  BY <1>2
<1>4. \A k \in 0 .. n : f[k] \in I[k]
  BY <1>3, Induction
<1> QED  BY <1>1, <1>4

\* The entry in the middle of len entries above base, and the halves that it leaves.
LEMMA Halves ==
    ASSUME NEW base \in Nat, NEW len \in Nat, len # 0
    PROVE  LET middle == base + len \div 2 + 1
               upper == (len - 1) \div 2
               lower == len \div 2
           IN  /\ middle \in Nat /\ base < middle /\ middle <= base + len
               /\ upper \in Nat /\ upper <= len - 1 /\ middle + upper = base + len
               /\ lower \in Nat /\ lower <= len - 1 /\ base + lower = middle - 1
<1> DEFINE upper == (len - 1) \div 2
           lower == len \div 2
<1>1. lower \in Nat /\ upper \in Nat /\ lower + upper = len - 1
  OBVIOUS
<1> HIDE DEF upper, lower
<1>2. LET middle == base + lower + 1
      IN  /\ middle \in Nat /\ base < middle /\ middle <= base + len
          /\ upper \in Nat /\ upper <= len - 1 /\ middle + upper = base + len
          /\ lower \in Nat /\ lower <= len - 1 /\ base + lower = middle - 1
  BY <1>1
<1> QED  BY <1>2 DEF upper, lower

\* RemoveAt closes the gap.
LEMMA RemoveAtFacts ==
    ASSUME NEW T, NEW s \in Seq(T), NEW i \in 1 .. Len(s)
    PROVE  /\ RemoveAt(s, i) \in Seq(T)
           /\ Len(RemoveAt(s, i)) = Len(s) - 1
           /\ \A k \in 1 .. Len(s) - 1 :
                  RemoveAt(s, i)[k] = s[IF k < i THEN k ELSE k + 1]
<1> DEFINE u == SubSeq(s, 1, i - 1)
           v == SubSeq(s, i + 1, Len(s))
<1>1. u \in Seq(T) /\ Len(u) = i - 1 /\ \A k \in 1 .. i - 1 : u[k] = s[k]
  OBVIOUS
<1>2. v \in Seq(T) /\ Len(v) = Len(s) - i /\ \A k \in 1 .. Len(s) - i : v[k] = s[k + i]
  OBVIOUS
<1>3. RemoveAt(s, i) = u \o v
  BY DEF RemoveAt
<1> HIDE DEF u, v
<1>4. u \o v \in Seq(T) /\ Len(u \o v) = Len(s) - 1
  BY <1>1, <1>2
<1>5. ASSUME NEW k \in 1 .. Len(s) - 1
      PROVE  (u \o v)[k] = s[IF k < i THEN k ELSE k + 1]
  BY <1>1, <1>2
<1> QED  BY <1>3, <1>4, <1>5

\* struct Map with keys and handles.
Maps == [keys : Seq(Addresses), handles : Seq(Nat), nextHandle : Nat]

\* What binary search needs, and that no key is there twice.
Sorted(m) ==
    /\ m \in Maps
    /\ Len(m.handles) = Len(m.keys)
    /\ \A i \in 1 .. Len(m.keys) : m.handles[i] < m.nextHandle
    /\ \A i, j \in 1 .. Len(m.keys) : i < j => m.handles[i] < m.handles[j]
                                               /\ m.keys[i] # m.keys[j]

\* put: a key that is there changes nothing, a new one gets the next handle.
LEMMA PutFacts ==
    ASSUME NEW m, Sorted(m), NEW a \in Addresses
    PROVE  /\ Sorted(MapPut(m, a))
           /\ (\E i \in 1 .. Len(m.keys) : m.keys[i] = a) => MapPut(m, a) = m
           /\ (\A i \in 1 .. Len(m.keys) : m.keys[i] # a) =>
                 /\ MapPut(m, a) = [keys |-> Append(m.keys, a),
                                    handles |-> Append(m.handles, m.nextHandle),
                                    nextHandle |-> m.nextHandle + 1]
                 /\ Last(MapPut(m, a).handles) = m.nextHandle
<1>1. DOMAIN m.keys = 1 .. Len(m.keys) /\ 0 \notin DOMAIN m.keys
  BY DEF Sorted, Maps
<1>2. CASE \E i \in 1 .. Len(m.keys) : m.keys[i] = a
  BY <1>1, <1>2 DEF MapPut, IndexForKey
<1>3. CASE \A i \in 1 .. Len(m.keys) : m.keys[i] # a
  <2> DEFINE r == [keys |-> Append(m.keys, a), handles |-> Append(m.handles, m.nextHandle),
                   nextHandle |-> m.nextHandle + 1]
  <2>1. MapPut(m, a) = r
    BY <1>1, <1>3 DEF MapPut, IndexForKey
  <2>2. r \in Maps /\ Len(r.keys) = Len(m.keys) + 1 /\ Len(r.handles) = Len(r.keys)
    BY DEF Sorted, Maps
  <2>3. /\ \A i \in 1 .. Len(m.keys) : r.keys[i] = m.keys[i] /\ r.handles[i] = m.handles[i]
        /\ r.keys[Len(r.keys)] = a /\ r.handles[Len(r.keys)] = m.nextHandle
    <3> DEFINE ks == m.keys
               hs == m.handles
    <3>1. ks \in Seq(Addresses) /\ hs \in Seq(Nat) /\ Len(hs) = Len(ks)
          /\ m.nextHandle \in Nat
      BY DEF Sorted, Maps
    <3>2. r.keys = Append(ks, a) /\ r.handles = Append(hs, m.nextHandle)
      OBVIOUS
    <3> HIDE DEF ks, hs, r
    <3>3. \A i \in 1 .. Len(ks) : r.keys[i] = ks[i]
      BY <3>1, <3>2
    <3>4. \A i \in 1 .. Len(ks) : r.handles[i] = hs[i]
      BY <3>1, <3>2
    <3>5. r.keys[Len(ks) + 1] = a /\ r.handles[Len(ks) + 1] = m.nextHandle
      BY <3>1, <3>2
    <3> QED  BY <2>2, <3>3, <3>4, <3>5 DEF ks, hs
  <2>4. Last(r.handles) = m.nextHandle
    BY <2>2, <2>3 DEF Last
  <2>5. \A i \in 1 .. Len(m.keys) : m.handles[i] \in Nat
    BY DEF Sorted, Maps
  <2>6. r.nextHandle = m.nextHandle + 1 /\ m.nextHandle \in Nat
    BY DEF Sorted, Maps
  <2> HIDE DEF r
  <2>7. Sorted(r)
    <3>1. \A i \in 1 .. Len(m.keys) : r.handles[i] < m.nextHandle /\ r.keys[i] # a
      BY <1>3, <2>3 DEF Sorted
    <3>2. \A i \in 1 .. Len(r.keys) : r.handles[i] < r.nextHandle
      <4> SUFFICES ASSUME NEW i \in 1 .. Len(r.keys) PROVE r.handles[i] < r.nextHandle
        OBVIOUS
      <4>1. Len(m.keys) \in Nat
        BY DEF Sorted, Maps
      <4>2. CASE i \in 1 .. Len(m.keys)
        BY <2>3, <2>5, <2>6, <3>1, <4>2
      <4>3. CASE i = Len(r.keys)
        BY <2>3, <2>6, <4>3
      <4> QED  BY <2>2, <4>1, <4>2, <4>3
    <3>3. ASSUME NEW i \in 1 .. Len(r.keys), NEW j \in 1 .. Len(r.keys), i < j
          PROVE  r.handles[i] < r.handles[j] /\ r.keys[i] # r.keys[j]
      <4>1. Len(m.keys) \in Nat
        BY DEF Sorted, Maps
      <4>2. i \in 1 .. Len(m.keys)
        BY <2>2, <3>3, <4>1
      <4>3. CASE j \in 1 .. Len(m.keys)
        BY <2>3, <3>3, <4>2, <4>3 DEF Sorted
      <4>4. CASE j = Len(r.keys)
        BY <2>3, <3>1, <4>2, <4>4
      <4> QED  BY <2>2, <4>1, <4>3, <4>4
    <3> QED  BY <2>2, <3>2, <3>3 DEF Sorted
  <2> QED  BY <1>3, <2>1, <2>4, <2>7 DEF r
<1> QED  BY <1>2, <1>3

\* remove: the entries above move down, and the table stays sorted.
LEMMA RemoveFacts ==
    ASSUME NEW m, Sorted(m), NEW i \in 1 .. Len(m.keys)
    PROVE  LET r == MapRemove(m, i)
           IN  /\ Sorted(r)
               /\ Len(r.keys) = Len(m.keys) - 1 /\ r.nextHandle = m.nextHandle
               /\ \A k \in 1 .. Len(r.keys) : LET j == IF k < i THEN k ELSE k + 1
                                             IN  /\ r.keys[k] = m.keys[j]
                                                 /\ r.handles[k] = m.handles[j]
<1> DEFINE r == MapRemove(m, i)
           L == Len(m.keys)
<1>1. /\ m.keys \in Seq(Addresses) /\ m.handles \in Seq(Nat) /\ Len(m.handles) = L
      /\ L \in Nat /\ m.nextHandle \in Nat
  BY DEF Sorted, Maps
<1>2. /\ r.keys = RemoveAt(m.keys, i) /\ r.handles = RemoveAt(m.handles, i)
      /\ r.nextHandle = m.nextHandle
  BY DEF MapRemove, Sorted, Maps
<1>3. /\ r.keys \in Seq(Addresses) /\ Len(r.keys) = L - 1
      /\ \A k \in 1 .. L - 1 : r.keys[k] = m.keys[IF k < i THEN k ELSE k + 1]
  BY <1>1, <1>2, RemoveAtFacts
<1>4. /\ r.handles \in Seq(Nat) /\ Len(r.handles) = L - 1
      /\ \A k \in 1 .. L - 1 : r.handles[k] = m.handles[IF k < i THEN k ELSE k + 1]
  <2>1. i \in 1 .. Len(m.handles)
    BY <1>1
  <2> QED  BY <1>1, <1>2, <2>1, RemoveAtFacts
<1>5. r \in Maps
  <2>1. RemoveAt(m.keys, i) \in Seq(Addresses) /\ RemoveAt(m.handles, i) \in Seq(Nat)
    BY <1>2, <1>3, <1>4
  <2>2. m \in Maps
    BY DEF Sorted
  <2> QED  BY <2>1, <2>2 DEF MapRemove, Maps
<1>7. \A k \in 1 .. L : m.handles[k] \in Nat
  BY <1>1
<1> HIDE DEF r
<1>6. Sorted(r)
  <2>1. ASSUME NEW k \in 1 .. L - 1 PROVE r.handles[k] < r.nextHandle
    <3> DEFINE j == IF k < i THEN k ELSE k + 1
    <3>1. j \in 1 .. L
      BY <1>1
    <3> HIDE DEF j
    <3>2. m.handles[j] < m.nextHandle
      BY <3>1 DEF Sorted
    <3> QED  BY <1>2, <1>4, <3>2 DEF j
  <2>2. ASSUME NEW k \in 1 .. L - 1, NEW h \in 1 .. L - 1, k < h
        PROVE  r.handles[k] < r.handles[h] /\ r.keys[k] # r.keys[h]
    <3> DEFINE j == IF k < i THEN k ELSE k + 1
               g == IF h < i THEN h ELSE h + 1
    <3>1. j \in 1 .. L /\ g \in 1 .. L /\ j < g
      BY <1>1, <2>2
    <3>2. r.handles[k] = m.handles[j] /\ r.handles[h] = m.handles[g] /\ r.keys[k] = m.keys[j]
          /\ r.keys[h] = m.keys[g]
      BY <1>3, <1>4
    <3> HIDE DEF j, g
    <3>3. m.handles[j] < m.handles[g] /\ m.keys[j] # m.keys[g]
      BY <3>1 DEF Sorted
    <3> QED  BY <3>2, <3>3
  <2> QED  BY <1>3, <1>4, <1>5, <2>1, <2>2 DEF Sorted
<1> QED  BY <1>2, <1>3, <1>4, <1>6 DEF r

\* What indexForHandle knows after n rounds: what it found has the handle, and else the handle
\* can only be in the len entries above base, which are at most those not looked at.
Searching(m, handle, n) ==
    {s \in [base : Nat, len : Nat, found : 0 .. Len(m.keys)] :
        /\ s.base + s.len <= Len(m.keys)
        /\ s.found # 0 => m.handles[s.found] = handle
        /\ s.found = 0 => /\ s.len <= Len(m.keys) - n
                          /\ \A j \in 1 .. Len(m.keys) :
                                 m.handles[j] = handle => s.base < j /\ j <= s.base + s.len}

\* A round of indexForHandle.
LEMMA SearchRoundFacts ==
    ASSUME NEW m, Sorted(m), NEW handle \in Int, NEW n \in 1 .. Len(m.keys),
           NEW s \in Searching(m, handle, n - 1)
    PROVE  SearchRound(m, handle, s) \in Searching(m, handle, n)
<1> DEFINE L == Len(m.keys)
           middle == s.base + s.len \div 2 + 1
           upper == (s.len - 1) \div 2
           lower == s.len \div 2
<1>0. L \in Nat /\ \A j \in 1 .. L : m.handles[j] \in Nat
  BY DEF Sorted, Maps
<1>1. /\ s \in [base : Nat, len : Nat, found : 0 .. L]
      /\ s.base \in Nat /\ s.len \in Nat /\ s.found \in 0 .. L
      /\ s.base + s.len <= L /\ (s.found # 0 => m.handles[s.found] = handle)
  BY DEF Searching
<1>2. s.found = 0 => /\ s.len <= L - (n - 1)
                    /\ \A j \in 1 .. L : m.handles[j] = handle => s.base < j /\ j <= s.base + s.len
  BY DEF Searching
<1>3. CASE s.len = 0 \/ s.found # 0
  <2>1. SearchRound(m, handle, s) = s
    BY <1>3 DEF SearchRound
  <2>2. s.found = 0 => s.len <= L - n
    BY <1>0, <1>1, <1>2, <1>3
  <2> QED  BY <1>1, <1>2, <2>1, <2>2 DEF Searching
<1>4. CASE s.len # 0 /\ s.found = 0
  <2>1. /\ middle \in 1 .. L /\ s.base < middle /\ middle <= s.base + s.len
        /\ upper \in Nat /\ lower \in Nat /\ upper <= s.len - 1 /\ lower <= s.len - 1
        /\ middle + upper = s.base + s.len /\ s.base + lower = middle - 1
    <3>1. s.base \in Nat /\ s.len \in Nat /\ s.len # 0 /\ s.base + s.len <= L /\ L \in Nat
      BY <1>0, <1>1, <1>4
    <3>2. /\ middle \in Nat /\ s.base < middle /\ middle <= s.base + s.len
          /\ upper \in Nat /\ upper <= s.len - 1 /\ middle + upper = s.base + s.len
          /\ lower \in Nat /\ lower <= s.len - 1 /\ s.base + lower = middle - 1
      BY <3>1, Halves
    <3> HIDE DEF middle, lower, upper, L
    <3>3. middle \in 1 .. L
      BY <3>1, <3>2
    <3> QED  BY <3>2, <3>3
  <2>2. /\ \A j \in 1 .. L : j > middle => m.handles[middle] < m.handles[j]
        /\ \A j \in 1 .. L : j < middle => m.handles[j] < m.handles[middle]
    <3>1. \A i, j \in 1 .. L : i < j => m.handles[i] < m.handles[j]
      BY DEF Sorted
    <3>2. middle \in 1 .. L /\ middle \in Nat /\ \A j \in 1 .. L : j > middle => middle < j
      BY <1>0, <2>1
    <3> HIDE DEF middle, L
    <3> QED  BY <3>1, <3>2
  <2>3. SearchRound(m, handle, s) = IF handle = m.handles[middle] THEN [s EXCEPT !.found = middle]
                                    ELSE IF handle > m.handles[middle]
                                    THEN [s EXCEPT !.base = middle, !.len = upper]
                                    ELSE [s EXCEPT !.len = lower]
    BY <1>4 DEF SearchRound
  <2> HIDE DEF middle, upper, lower, L
  <2>4. CASE handle = m.handles[middle]
    <3> DEFINE t == [s EXCEPT !.found = middle]
    <3>0. middle \in 0 .. L
      BY <1>0, <2>1
    <3>1. t \in [base : Nat, len : Nat, found : 0 .. L] /\ t.found = middle /\ t.base = s.base
          /\ t.len = s.len
      BY <1>1, <3>0
    <3> HIDE DEF t
    <3>2. t \in Searching(m, handle, n)
      BY <1>0, <1>1, <2>1, <2>4, <3>1 DEF Searching, L
    <3> QED  BY <2>3, <2>4, <3>2 DEF t
  <2>5. CASE handle # m.handles[middle] /\ handle > m.handles[middle]
    <3> DEFINE t == [s EXCEPT !.base = middle, !.len = upper]
    <3>0. middle \in Nat /\ upper \in Nat
      BY <1>0, <2>1
    <3>1. t \in [base : Nat, len : Nat, found : 0 .. L] /\ t.found = 0 /\ t.base = middle
          /\ t.len = upper
      BY <1>1, <1>4, <3>0
    <3> HIDE DEF t
    <3>2. upper <= L - n
      BY <1>0, <1>1, <1>2, <1>4, <2>1
    <3>3. ASSUME NEW j \in 1 .. L, m.handles[j] = handle
          PROVE  middle < j /\ j <= middle + upper
      <4>1. s.base < j /\ j <= s.base + s.len
        BY <1>2, <1>4, <3>3
      <4>2. ~(j < middle) /\ j # middle
        BY <1>0, <2>1, <2>2, <2>5, <3>3
      <4> QED  BY <1>0, <1>1, <2>1, <4>1, <4>2
    <3>4. t \in Searching(m, handle, n)
      <4>1. t.base + t.len <= L
        BY <1>0, <1>1, <2>1, <3>1, <3>2
      <4> QED  BY <3>1, <3>2, <3>3, <4>1 DEF Searching, L
    <3> QED  BY <2>3, <2>5, <3>4 DEF t
  <2>6. CASE handle # m.handles[middle] /\ ~(handle > m.handles[middle])
    <3> DEFINE t == [s EXCEPT !.len = lower]
    <3>1. t \in [base : Nat, len : Nat, found : 0 .. L] /\ t.found = 0 /\ t.base = s.base
          /\ t.len = lower
      BY <1>0, <1>1, <1>4, <2>1
    <3> HIDE DEF t
    <3>2. lower <= L - n /\ s.base + lower <= L
      <4>1. lower \in Nat /\ lower <= s.len - 1
        BY <2>1
      <4>2. s.len <= L - (n - 1) /\ s.base + s.len <= L /\ n \in Nat
        BY <1>0, <1>1, <1>2, <1>4
      <4> HIDE DEF lower, L
      <4> QED  BY <1>0, <1>1, <4>1, <4>2
    <3>3. ASSUME NEW j \in 1 .. L, m.handles[j] = handle
          PROVE  s.base < j /\ j <= s.base + lower
      <4>1. s.base < j /\ j <= s.base + s.len
        BY <1>2, <1>4, <3>3
      <4>2. ~(j > middle) /\ j # middle
        BY <1>0, <2>1, <2>2, <2>6, <3>3
      <4> QED  BY <1>0, <1>1, <2>1, <4>1, <4>2
    <3>4. t \in Searching(m, handle, n)
      <4>1. t.base + t.len <= L
        BY <1>0, <1>1, <2>1, <3>1, <3>2
      <4> QED  BY <3>1, <3>2, <3>3, <4>1 DEF Searching, L
    <3> QED  BY <2>3, <2>6, <3>4 DEF t
  <2> QED  BY <2>4, <2>5, <2>6
<1> QED  BY <1>1, <1>3, <1>4

\* indexForHandle finds the handle if the table has it.
LEMMA SearchFacts ==
    ASSUME NEW m, Sorted(m), NEW handle \in Int
    PROVE  LET i == IndexForHandle(m, handle)
           IN  /\ i \in 0 .. Len(m.keys)
               /\ i # 0 => m.handles[i] = handle
               /\ i = 0 => \A j \in 1 .. Len(m.keys) : m.handles[j] # handle
<1> DEFINE L == Len(m.keys)
           x == [base |-> 0, len |-> L, found |-> 0]
           I == [k \in 0 .. L |-> Searching(m, handle, k)]
           G == [k \in 1 .. L |-> [s \in I[k - 1] |-> SearchRound(m, handle, s)]]
           Rhs(f) == [k \in 0 .. L |-> IF k = 0 THEN x ELSE SearchRound(m, handle, f[k - 1])]
           F == CHOOSE f : f = Rhs(f)
<1>1. L \in Nat
  BY DEF Sorted, Maps
<1>2. IndexForHandle(m, handle) = F[L].found
  BY DEF IndexForHandle
<1>3. x \in Searching(m, handle, 0)
  BY <1>1 DEF Searching
<1>4. \A k \in 1 .. L : \A s \in Searching(m, handle, k - 1) :
          SearchRound(m, handle, s) \in Searching(m, handle, k)
  BY SearchRoundFacts
<1>5. x \in I[0]
  BY <1>1, <1>3
<1>6. \A k \in 1 .. L : k \in 0 .. L /\ k - 1 \in 0 .. L
  BY <1>1
<1>7. \A k \in 1 .. L : \A s \in I[k - 1] : G[k][s] = SearchRound(m, handle, s)
                                          /\ G[k][s] \in I[k]
  BY <1>4, <1>6
<1>8. PICK f : Runs(L, x, G, f) /\ \A k \in 0 .. L : f[k] \in I[k]
  <2> HIDE DEF L, x, I, G
  <2> QED  BY <1>1, <1>5, <1>7, Loop
<1>9. \A k \in 1 .. L : G[k][f[k - 1]] = SearchRound(m, handle, f[k - 1])
  BY <1>6, <1>7, <1>8
<1>10. f = Rhs(f)
  <2>1. f = [k \in 0 .. L |-> IF k = 0 THEN x ELSE G[k][f[k - 1]]]
    BY <1>8 DEF Runs
  <2> HIDE DEF G, x, L
  <2>2. \A k \in 0 .. L : (IF k = 0 THEN x ELSE G[k][f[k - 1]])
                           = IF k = 0 THEN x ELSE SearchRound(m, handle, f[k - 1])
    BY <1>1, <1>9
  <2> QED  BY <2>1, <2>2
<1>11. F = Rhs(F)
  BY <1>10
<1>12. F[0] = x /\ \A k \in 1 .. L : F[k] = SearchRound(m, handle, F[k - 1])
  <2> HIDE DEF F, x, L
  <2> QED  BY <1>1, <1>11
<1>13. \A k \in 1 .. L : F[k - 1] \in I[k - 1] => F[k] \in I[k]
  <2> HIDE DEF F
  <2> QED  BY <1>4, <1>6, <1>12
<1>14. F[L] \in I[L]
  <2> HIDE DEF F, I, x, L
  <2>1. \A k \in 0 .. L : F[k] \in I[k]
    BY <1>1, <1>5, <1>12, <1>13, Induction
  <2> QED  BY <1>1, <2>1
<1>15. F[L] \in Searching(m, handle, L)
  BY <1>1, <1>14
<1> QED
  <2> HIDE DEF F
  <2> QED  BY <1>1, <1>2, <1>15 DEF Searching

\* The same entry in two maps.
SameEntry(m, i, r, j) == m.keys[i] = r.keys[j] /\ m.handles[i] = r.handles[j]

\* The table after n rounds of the sweep: the entries that it has not come to are where they
\* were, and above them are those of live sessions.
Sweeping(m, live, n) ==
    {r \in Maps :
        /\ Sorted(r) /\ r.nextHandle = m.nextHandle
        /\ Len(r.keys) >= Len(m.keys) - n
        /\ \A i \in 1 .. Len(m.keys) - n : SameEntry(r, i, m, i)
        /\ \A i \in Len(m.keys) - n + 1 .. Len(r.keys) :
              \E j \in 1 .. Len(m.keys) : m.keys[j] \in live /\ SameEntry(r, i, m, j)
        /\ \A j \in Len(m.keys) - n + 1 .. Len(m.keys) :
              m.keys[j] \in live => \E i \in 1 .. Len(r.keys) : SameEntry(r, i, m, j)}

\* A round of the removals.
LEMMA SweepRoundFacts ==
    ASSUME NEW m, Sorted(m), NEW live, NEW n \in 1 .. Len(m.keys),
           NEW r \in Sweeping(m, live, n - 1)
    PROVE  SweepRound(m, live, r, Len(m.keys) - n + 1) \in Sweeping(m, live, n)
<1> DEFINE L == Len(m.keys)
           i == L - n + 1
           t == SweepRound(m, live, r, i)
<1>1. L \in Nat /\ i \in 1 .. L /\ L - (n - 1) = i /\ L - n = i - 1 /\ L - n + 1 = i
  BY DEF Sorted, Maps
<1>2. /\ Sorted(r) /\ r.nextHandle = m.nextHandle
      /\ Len(r.keys) \in Nat /\ Len(r.keys) >= i
      /\ \A k \in 1 .. i : SameEntry(r, k, m, k)
      /\ \A k \in i + 1 .. Len(r.keys) :
            \E j \in 1 .. L : m.keys[j] \in live /\ SameEntry(r, k, m, j)
      /\ \A j \in i + 1 .. L :
            m.keys[j] \in live => \E k \in 1 .. Len(r.keys) : SameEntry(r, k, m, j)
  BY <1>1 DEF Sweeping, Sorted, Maps
<1> HIDE DEF i, L
<1>3. SUFFICES /\ Sorted(t) /\ t.nextHandle = m.nextHandle
               /\ Len(t.keys) >= i - 1
               /\ \A k \in 1 .. i - 1 : SameEntry(t, k, m, k)
               /\ \A k \in i .. Len(t.keys) :
                     \E j \in 1 .. L : m.keys[j] \in live /\ SameEntry(t, k, m, j)
               /\ \A j \in i .. L :
                     m.keys[j] \in live => \E k \in 1 .. Len(t.keys) : SameEntry(t, k, m, j)
  <2> HIDE DEF t
  <2>1. t \in Maps
    BY <1>3 DEF Sorted
  <2>2. t \in Sweeping(m, live, n)
    BY <1>1, <1>3, <2>1 DEF Sweeping, L
  <2> QED  BY <2>2 DEF t, i, L
<1>4. CASE m.keys[i] \in live
  <2>1. t = r
    BY <1>4 DEF SweepRound
  <2>2. SameEntry(r, i, m, i)
    BY <1>1, <1>2
  <2>3. ASSUME NEW k \in i .. Len(r.keys)
        PROVE  \E j \in 1 .. L : m.keys[j] \in live /\ SameEntry(r, k, m, j)
    <3>1. k = i \/ k \in i + 1 .. Len(r.keys)
      BY <1>1, <1>2
    <3> QED  BY <1>1, <1>2, <1>4, <2>2, <3>1
  <2>4. ASSUME NEW j \in i .. L, m.keys[j] \in live
        PROVE  \E k \in 1 .. Len(r.keys) : SameEntry(r, k, m, j)
    <3>1. j = i \/ j \in i + 1 .. L
      BY <1>1
    <3>2. i \in 1 .. Len(r.keys)
      BY <1>1, <1>2
    <3> QED  BY <1>2, <2>2, <2>4, <3>1, <3>2
  <2>5. Len(r.keys) >= i - 1 /\ \A k \in 1 .. i - 1 : SameEntry(r, k, m, k)
    BY <1>1, <1>2
  <2> QED  BY <1>2, <2>1, <2>3, <2>4, <2>5
<1>5. CASE m.keys[i] \notin live
  <2>1. t = MapRemove(r, i)
    BY <1>5 DEF SweepRound
  <2>2. i \in 1 .. Len(r.keys)
    BY <1>1, <1>2
  <2>3. /\ Sorted(t) /\ Len(t.keys) = Len(r.keys) - 1 /\ t.nextHandle = r.nextHandle
        /\ \A k \in 1 .. Len(t.keys) : SameEntry(t, k, r, IF k < i THEN k ELSE k + 1)
    <3> HIDE DEF t
    <3> QED  BY <1>2, <2>1, <2>2, RemoveFacts DEF SameEntry
  <2> HIDE DEF t
  <2>4. \A k \in 1 .. i - 1 : SameEntry(t, k, r, k)
    BY <1>1, <1>2, <2>3
  <2>5. \A k \in i .. Len(t.keys) : k + 1 \in i + 1 .. Len(r.keys) /\ SameEntry(t, k, r, k + 1)
    BY <1>1, <1>2, <2>3
  <2>6. Len(t.keys) >= i - 1 /\ \A k \in 1 .. i - 1 : SameEntry(t, k, m, k)
    <3>1. \A k \in 1 .. i - 1 : SameEntry(r, k, m, k)
      BY <1>1, <1>2
    <3> QED  BY <1>1, <1>2, <2>3, <2>4, <3>1 DEF SameEntry
  <2>7. ASSUME NEW k \in i .. Len(t.keys)
        PROVE  \E j \in 1 .. L : m.keys[j] \in live /\ SameEntry(t, k, m, j)
    <3>1. PICK j \in 1 .. L : m.keys[j] \in live /\ SameEntry(r, k + 1, m, j)
      BY <1>2, <2>5
    <3> QED  BY <2>5, <3>1 DEF SameEntry
  <2>8. ASSUME NEW j \in i .. L, m.keys[j] \in live
        PROVE  \E k \in 1 .. Len(t.keys) : SameEntry(t, k, m, j)
    <3>1. j \in i + 1 .. L
      BY <1>1, <1>5, <2>8
    <3>2. PICK k \in 1 .. Len(r.keys) : SameEntry(r, k, m, j)
      BY <1>2, <2>8, <3>1
    <3>3. SameEntry(r, i, m, i)
      BY <1>1, <1>2
    <3>4. k # i
      BY <1>5, <2>8, <3>2, <3>3 DEF SameEntry
    <3>5. CASE k < i
      <4>1. k \in 1 .. Len(t.keys) /\ SameEntry(t, k, r, k)
        BY <1>1, <1>2, <2>3, <2>4, <3>5
      <4> QED  BY <3>2, <4>1 DEF SameEntry
    <3>6. CASE k > i
      <4>1. k - 1 \in 1 .. Len(t.keys) /\ SameEntry(t, k - 1, r, (k - 1) + 1) /\ (k - 1) + 1 = k
        BY <1>1, <1>2, <2>3, <2>5, <3>6
      <4> QED  BY <3>2, <4>1 DEF SameEntry
    <3> QED  BY <1>1, <3>4, <3>5, <3>6
  <2> QED  BY <1>2, <2>3, <2>6, <2>7, <2>8
<1> QED  BY <1>4, <1>5

\* checkTimedOutSessions leaves exactly the entries of the live sessions.
LEMMA SweptFacts ==
    ASSUME NEW m, Sorted(m), NEW live
    PROVE  LET r == Swept(m, live)
           IN  /\ Sorted(r)
               /\ \A i \in 1 .. Len(r.keys) :
                     \E j \in 1 .. Len(m.keys) : m.keys[j] \in live /\ SameEntry(r, i, m, j)
               /\ \A j \in 1 .. Len(m.keys) :
                     m.keys[j] \in live => \E i \in 1 .. Len(r.keys) : SameEntry(r, i, m, j)
<1> DEFINE L == Len(m.keys)
           I == [k \in 0 .. L |-> Sweeping(m, live, k)]
           G == [k \in 1 .. L |-> [s \in I[k - 1] |-> SweepRound(m, live, s, L - k + 1)]]
           Rhs(f) == [k \in 0 .. L |-> IF k = 0 THEN m ELSE SweepRound(m, live, f[k - 1], L - k + 1)]
           F == CHOOSE f : f = Rhs(f)
<1>1. L \in Nat /\ m \in Maps
  BY DEF Sorted, Maps
<1>2. Swept(m, live) = F[L]
  BY DEF Swept
<1>3. m \in Sweeping(m, live, 0)
  BY <1>1 DEF Sweeping, SameEntry
<1>4. \A k \in 1 .. L : \A s \in Sweeping(m, live, k - 1) :
          SweepRound(m, live, s, L - k + 1) \in Sweeping(m, live, k)
  BY SweepRoundFacts
<1>5. m \in I[0]
  BY <1>1, <1>3
<1>6. \A k \in 1 .. L : k \in 0 .. L /\ k - 1 \in 0 .. L
  BY <1>1
<1>7. \A k \in 1 .. L : \A s \in I[k - 1] : G[k][s] = SweepRound(m, live, s, L - k + 1)
                                          /\ G[k][s] \in I[k]
  BY <1>4, <1>6
<1>8. PICK f : Runs(L, m, G, f) /\ \A k \in 0 .. L : f[k] \in I[k]
  <2> HIDE DEF L, I, G
  <2> QED  BY <1>1, <1>5, <1>7, Loop
<1>9. \A k \in 1 .. L : G[k][f[k - 1]] = SweepRound(m, live, f[k - 1], L - k + 1)
  BY <1>6, <1>7, <1>8
<1>10. f = Rhs(f)
  <2>1. f = [k \in 0 .. L |-> IF k = 0 THEN m ELSE G[k][f[k - 1]]]
    BY <1>8 DEF Runs
  <2> HIDE DEF G, L
  <2>2. \A k \in 0 .. L : (IF k = 0 THEN m ELSE G[k][f[k - 1]])
                           = IF k = 0 THEN m ELSE SweepRound(m, live, f[k - 1], L - k + 1)
    BY <1>1, <1>9
  <2> QED  BY <2>1, <2>2
<1>11. F = Rhs(F)
  BY <1>10
<1>12. F[0] = m /\ \A k \in 1 .. L : F[k] = SweepRound(m, live, F[k - 1], L - k + 1)
  <2> HIDE DEF F, L
  <2> QED  BY <1>1, <1>11
<1>13. \A k \in 1 .. L : F[k - 1] \in I[k - 1] => F[k] \in I[k]
  <2> HIDE DEF F
  <2> QED  BY <1>4, <1>6, <1>12
<1>14. F[L] \in I[L]
  <2> HIDE DEF F, I, L
  <2>1. \A k \in 0 .. L : F[k] \in I[k]
    BY <1>1, <1>5, <1>12, <1>13, Induction
  <2> QED  BY <1>1, <2>1
<1>15. F[L] \in Sweeping(m, live, L)
  BY <1>1, <1>14
<1>16. L - L = 0 /\ L - L + 1 = 1
  BY <1>1
<1> QED
  <2> HIDE DEF F
  <2> QED  BY <1>1, <1>2, <1>15, <1>16 DEF Sweeping

\* A label, or none.
Paths == Labels \cup {NoLabel}

\* struct SessionManager_Session_pvt.
Entries == [receiveHandle : Nat, version : Nat, send : Paths, recv : Paths, in : Nat, out : Nat,
            search : Nat, ca : 0 .. 5, caAge : Nat]

\* A session that has not timed out.
Live(e) == e \in Entries /\ e.in <= SessionTimeout

\* Every entry of the table has a session with its handle, and every session an entry.
Filed(m, s) ==
    /\ \A i \in 1 .. Len(m.keys) : /\ m.keys[i] \in DOMAIN s
                                   /\ s[m.keys[i]].receiveHandle = m.handles[i] + FirstHandle
    /\ \A a \in DOMAIN s : \E i \in 1 .. Len(m.keys) : m.keys[i] = a

\* The table, the sessions and what the pathfinder was told are about the same addresses.
TableOK == /\ Sorted(map) /\ Filed(map, session) /\ told = Open
           /\ Open \subseteq Addresses /\ \A a \in Open : Live(session[a])

\* bufMap is never too large, and nothing in it is too old.
Buffers(b) == /\ DOMAIN b \subseteq Addresses /\ Cardinality(DOMAIN b) <= MaxBuffered
              /\ \A a \in DOMAIN b : /\ b[a] \in [label : Paths, age : Nat]
                                     /\ b[a].age <= BufferTimeout + 1

\* The inductive invariant.
Inductive == TableOK /\ Buffers(buffer) /\ astray = {}

\* The handle that getSession leaves in the entry of a.
HandleOf(a) == IF a \in Open THEN session[a].receiveHandle
               ELSE Last(MapPut(map, a).handles) + FirstHandle

\* The constants, one by one.
LEMMA ConstantTypes ==
    /\ FirstHandle \in Nat /\ MaxBuffered \in Nat /\ BufferTimeout \in Nat /\ SetupReset \in Nat
    /\ ResetAfter \in Nat /\ IdleAfter \in Nat /\ SearchAfter \in Nat /\ SessionTimeout \in Nat
    /\ MaxHandles \in Nat /\ NoLabel \notin Labels /\ IsFiniteSet(Addresses)
  BY TimesAssumption

\* A handle is a number, also one that is yet to be given.
LEMMA HandleIsNat ==
    ASSUME TableOK, NEW a \in Addresses
    PROVE  HandleOf(a) \in Nat
<1>1. CASE a \in Open
  BY <1>1 DEF HandleOf, TableOK, Live, Entries
<1>2. CASE a \notin Open
  <2>1. \A i \in 1 .. Len(map.keys) : map.keys[i] # a
    BY <1>2 DEF TableOK, Filed, Open
  <2>2. Last(MapPut(map, a).handles) = map.nextHandle /\ map.nextHandle \in Nat
    BY <2>1, PutFacts DEF TableOK, Sorted, Maps
  <2> QED  BY <1>2, <2>2, ConstantTypes DEF HandleOf
<1> QED  BY <1>1, <1>2

\* getSession's put, whatever becomes of the entry before the handler returns.
LEMMA PutStep ==
    ASSUME TableOK, NEW a \in Addresses, NEW e, Live(e), e.receiveHandle = HandleOf(a),
           PutAndAnnounce(a), session' = With(session, a, e)
    PROVE  TableOK'
<1>1. Open' = Open \cup {a} /\ \A x \in Open' : session'[x] = IF x = a THEN e ELSE session[x]
  BY DEF With, Open
<1>2. told' = Open'
  BY <1>1 DEF PutAndAnnounce, TableOK
<1>3. Open' \subseteq Addresses /\ \A x \in Open' : Live(session'[x])
  BY <1>1 DEF TableOK
<1>4. Sorted(map')
  BY PutFacts DEF TableOK, PutAndAnnounce
<1>5. CASE a \in Open
  <2>1. PICK i \in 1 .. Len(map.keys) : map.keys[i] = a
    BY <1>5 DEF TableOK, Filed, Open
  <2>2. map' = map
    BY <2>1, PutFacts DEF TableOK, PutAndAnnounce
  <2>3. Open' = Open /\ \A x \in Open : session'[x].receiveHandle = session[x].receiveHandle
    BY <1>1, <1>5 DEF HandleOf
  <2>4. Filed(map', session')
    BY <2>2, <2>3 DEF TableOK, Filed, Open
  <2> QED  BY <1>2, <1>3, <1>4, <2>4 DEF TableOK
<1>6. CASE a \notin Open
  <2> DEFINE L == Len(map.keys)
  <2>1. \A i \in 1 .. L : map.keys[i] \in Open /\ map.keys[i] # a
    BY <1>6 DEF TableOK, Filed, Open
  <2>2. /\ map' = [keys |-> Append(map.keys, a), handles |-> Append(map.handles, map.nextHandle),
                   nextHandle |-> map.nextHandle + 1]
        /\ Last(MapPut(map, a).handles) = map.nextHandle
    BY <2>1, PutFacts DEF TableOK, PutAndAnnounce
  <2>3. e.receiveHandle = map.nextHandle + FirstHandle
    BY <1>6, <2>2 DEF HandleOf
  <2>4. /\ L \in Nat /\ Len(map'.keys) = L + 1
        /\ map'.keys[L + 1] = a /\ map'.handles[L + 1] = map.nextHandle
        /\ \A i \in 1 .. L : map'.keys[i] = map.keys[i] /\ map'.handles[i] = map.handles[i]
    <3> DEFINE ks == map.keys
               hs == map.handles
    <3>1. ks \in Seq(Addresses) /\ hs \in Seq(Nat) /\ Len(hs) = Len(ks)
          /\ map.nextHandle \in Nat
      BY DEF TableOK, Sorted, Maps
    <3>2. map'.keys = Append(ks, a) /\ map'.handles = Append(hs, map.nextHandle)
      BY <2>2
    <3> HIDE DEF ks, hs
    <3>3. \A i \in 1 .. Len(ks) : map'.keys[i] = ks[i]
      BY <3>1, <3>2
    <3>4. \A i \in 1 .. Len(ks) : map'.handles[i] = hs[i]
      BY <3>1, <3>2
    <3>5. map'.keys[Len(ks) + 1] = a /\ map'.handles[Len(ks) + 1] = map.nextHandle
          /\ Len(map'.keys) = Len(ks) + 1 /\ Len(ks) \in Nat
      BY <3>1, <3>2
    <3> QED  BY <3>3, <3>4, <3>5 DEF ks, hs
  <2>5. ASSUME NEW i \in 1 .. Len(map'.keys)
        PROVE  /\ map'.keys[i] \in Open'
               /\ session'[map'.keys[i]].receiveHandle = map'.handles[i] + FirstHandle
    <3>1. CASE i \in 1 .. L
      <4>1. /\ map'.keys[i] = map.keys[i] /\ map'.handles[i] = map.handles[i]
            /\ map.keys[i] \in Open /\ map.keys[i] # a
        BY <2>1, <2>4, <3>1
      <4>2. session[map.keys[i]].receiveHandle = map.handles[i] + FirstHandle
        BY <3>1 DEF TableOK, Filed
      <4> QED  BY <1>1, <4>1, <4>2
    <3>2. CASE i = L + 1
      BY <1>1, <2>3, <2>4, <3>2
    <3> QED  BY <2>4, <3>1, <3>2
  <2>6. ASSUME NEW x \in Open'
        PROVE  \E i \in 1 .. Len(map'.keys) : map'.keys[i] = x
    <3>1. CASE x = a
      <4>1. L + 1 \in 1 .. Len(map'.keys)
        BY <2>4
      <4> QED  BY <2>4, <3>1, <4>1
    <3>2. CASE x \in Open
      <4>1. PICK i \in 1 .. L : map.keys[i] = x
        BY <3>2 DEF TableOK, Filed, Open
      <4>2. i \in 1 .. Len(map'.keys)
        BY <2>4
      <4> QED  BY <2>4, <4>1, <4>2
    <3> QED  BY <1>1, <3>1, <3>2
  <2>7. Filed(map', session')
    BY <2>5, <2>6 DEF Filed, Open
  <2> QED  BY <1>2, <1>3, <1>4, <2>7 DEF TableOK
<1> QED  BY <1>5, <1>6

\* A step that keeps the table and the handles of the sessions keeps what the table is about.
LEMMA SameTable ==
    ASSUME TableOK, UNCHANGED <<map, told>>, Open' = Open, \A a \in Open : Live(session'[a]),
           \A a \in Open : session'[a].receiveHandle = session[a].receiveHandle
    PROVE  TableOK'
<1>1. Filed(map', session')
  BY DEF TableOK, Filed, Open
<1> QED  BY <1>1 DEF TableOK

\* resetIfTimeout, encrypt and decrypt keep the session live and what it knows of its peer.
LEMMA EntryKept ==
    ASSUME NEW e, Live(e)
    PROVE  /\ Live(ResetIfTimeout(e)) /\ Live(Sending(e))
           /\ \A f \in {ResetIfTimeout(e), Sending(e)} :
                 f.receiveHandle = e.receiveHandle /\ f.version = e.version /\ f.send = e.send
           /\ \A ca \in 0 .. 5, path \in Paths :
                 Live(Received(e, ca, path)) /\ Received(e, ca, path).receiveHandle = e.receiveHandle
<1>0. e \in Entries /\ e.in <= SessionTimeout
  BY DEF Live
<1>1. ASSUME NEW f, Live(f)
      PROVE  /\ Live(ResetIfTimeout(f))
             /\ ResetIfTimeout(f).receiveHandle = f.receiveHandle
             /\ ResetIfTimeout(f).version = f.version /\ ResetIfTimeout(f).send = f.send
  <2> DEFINE g == [f EXCEPT !.ca = INIT, !.caAge = 0]
  <2>1. Live(g) /\ g.receiveHandle = f.receiveHandle /\ g.version = f.version /\ g.send = f.send
    <3>1. f \in Entries /\ f.in <= SessionTimeout /\ INIT \in 0 .. 5
      BY <1>1 DEF Live, INIT
    <3>2. g \in Entries
      BY <3>1 DEF Entries
    <3>3. /\ g.receiveHandle = f.receiveHandle /\ g.version = f.version /\ g.send = f.send
          /\ g.in = f.in
      BY <3>1 DEF Entries
    <3> QED  BY <3>1, <3>2, <3>3 DEF Live
  <2>2. ResetIfTimeout(f) \in {f, g}
    BY DEF ResetIfTimeout
  <2> HIDE DEF g
  <2> QED  BY <1>1, <2>1, <2>2
<1>2. ASSUME NEW f, Live(f)
      PROVE  /\ Live(Encrypted(f)) /\ Encrypted(f).receiveHandle = f.receiveHandle
             /\ Encrypted(f).version = f.version /\ Encrypted(f).send = f.send
  BY <1>2 DEF Live, Encrypted, Entries, INIT, SENT_HELLO, RECEIVED_HELLO, SENT_KEY
<1>3. /\ Live(Sending(e)) /\ Sending(e).receiveHandle = e.receiveHandle
      /\ Sending(e).version = e.version /\ Sending(e).send = e.send
  <2> DEFINE f == Encrypted(ResetIfTimeout(e))
  <2>1. Live(f) /\ f.receiveHandle = e.receiveHandle /\ f.version = e.version /\ f.send = e.send
    BY <1>1, <1>2
  <2> HIDE DEF f
  <2>2. LET g == [f EXCEPT !.out = 0]
        IN  Live(g) /\ g.receiveHandle = f.receiveHandle /\ g.version = f.version /\ g.send = f.send
    BY <2>1 DEF Live, Entries
  <2> QED  BY <2>1, <2>2 DEF Sending, f
<1>4. ASSUME NEW ca \in 0 .. 5, NEW path \in Paths
      PROVE  Live(Received(e, ca, path)) /\ Received(e, ca, path).receiveHandle = e.receiveHandle
  <2> DEFINE send == IF e.send = NoLabel THEN path ELSE e.send
  <2>1. send \in Paths
    BY <1>0 DEF Entries
  <2>2. Received(e, ca, path) = [e EXCEPT !.ca = ca, !.in = 0, !.recv = path, !.send = send]
    BY DEF Received
  <2> HIDE DEF send
  <2>3. Received(e, ca, path) \in Entries
    <3> DEFINE f == [e EXCEPT !.ca = ca, !.in = 0]
    <3>1. f \in Entries
      BY <1>0 DEF Entries
    <3>2. Received(e, ca, path) = [f EXCEPT !.recv = path, !.send = send]
      BY <2>2
    <3> HIDE DEF f
    <3> QED  BY <2>1, <3>1, <3>2 DEF Entries
  <2>4. Received(e, ca, path).in = 0 /\ Received(e, ca, path).receiveHandle = e.receiveHandle
    BY <1>0, <2>2 DEF Entries
  <2> QED  BY <2>3, <2>4, ConstantTypes DEF Live
<1> QED  BY <1>1, <1>3, <1>4

\* getSession's entry.
LEMMA EntryFacts ==
    ASSUME TableOK, NEW a \in Addresses, NEW version \in Nat, NEW label \in Paths
    PROVE  LET e == Entry(a, version, label)
           IN  /\ Live(e) /\ e.receiveHandle = HandleOf(a)
               /\ version # 0 => e.version # 0
               /\ label # NoLabel => e.send # NoLabel
<1>1. CASE a \in Open
  <2>1. Live(session[a])
    BY <1>1 DEF TableOK
  <2> QED  BY <1>1, <2>1 DEF Entry, Live, Entries, HandleOf
<1>2. CASE a \notin Open
  <2>1. HandleOf(a) \in Nat /\ HandleOf(a) = Last(MapPut(map, a).handles) + FirstHandle
    BY <1>2, HandleIsNat DEF HandleOf
  <2>2. Entry(a, version, label) = [receiveHandle |-> HandleOf(a), version |-> version,
           send |-> label, recv |-> NoLabel, in |-> 0, out |-> 0, search |-> SearchAfter,
           ca |-> INIT, caAge |-> 0]
    BY <1>2, <2>1 DEF Entry, NewEntry
  <2> QED  BY <2>1, <2>2, ConstantTypes DEF Live, Entries, Paths, INIT
<1> QED  BY <1>1, <1>2

\* A part of the buffer is finite and not too large.
LEMMA FewerBuffered ==
    ASSUME NEW b, Buffers(b), NEW S \in SUBSET DOMAIN b
    PROVE  IsFiniteSet(S) /\ Cardinality(S) \in Nat /\ Cardinality(S) <= MaxBuffered
<1>1. IsFiniteSet(DOMAIN b)
  BY ConstantTypes, FS_Subset DEF Buffers
<1>2. IsFiniteSet(S) /\ Cardinality(S) <= Cardinality(DOMAIN b)
  BY <1>1, FS_Subset
<1>3. Cardinality(S) \in Nat /\ Cardinality(DOMAIN b) \in Nat
  BY <1>1, <1>2, FS_CardinalityType
<1> QED  BY <1>2, <1>3, ConstantTypes DEF Buffers

\* needsLookup never makes the buffer too large.
LEMMA LookupBuffers ==
    ASSUME NEW a \in Addresses, NEW label \in Paths, Buffers(buffer)
    PROVE  Buffers(NeedsLookup(a, label))
<1> DEFINE others == Without(buffer, a)
           room == IF Cardinality(DOMAIN others) < MaxBuffered THEN others ELSE Fresh(others)
           new == [label |-> label, age |-> 0]
           full == With(room, a, new)
<1>1. Buffers(others) /\ a \notin DOMAIN others
  <2>1. DOMAIN others \in SUBSET DOMAIN buffer /\ a \notin DOMAIN others
        /\ \A x \in DOMAIN others : others[x] = buffer[x]
    BY DEF Without
  <2> HIDE DEF others
  <2> QED  BY <2>1, FewerBuffered DEF Buffers
<1>2. DOMAIN room \in SUBSET DOMAIN others /\ \A x \in DOMAIN room : room[x] = others[x]
  <2> HIDE DEF others
  <2> QED  BY DEF Fresh
<1> HIDE DEF others, room
<1>3. Buffers(room) /\ a \notin DOMAIN room
  BY <1>1, <1>2, FewerBuffered DEF Buffers
<1>4. ASSUME Cardinality(DOMAIN room) < MaxBuffered
      PROVE  Buffers(full)
  <2>1. DOMAIN full = DOMAIN room \cup {a}
        /\ \A x \in DOMAIN full : full[x] = IF x = a THEN new ELSE room[x]
    BY DEF With
  <2>2. new \in [label : Paths, age : Nat] /\ new.age <= BufferTimeout + 1
    BY ConstantTypes
  <2> HIDE DEF full, new
  <2>3. IsFiniteSet(DOMAIN room) /\ Cardinality(DOMAIN room) \in Nat
    BY <1>3, FewerBuffered
  <2>4. Cardinality(DOMAIN full) <= MaxBuffered
    <3>1. Cardinality(DOMAIN room \cup {a}) = Cardinality(DOMAIN room) + 1
      BY <1>3, <2>3, FS_AddElement
    <3> QED  BY <1>4, <2>1, <2>3, <3>1, ConstantTypes
  <2> QED  BY <1>3, <2>1, <2>2, <2>4 DEF Buffers
<1>5. NeedsLookup(a, label) = IF Cardinality(DOMAIN room) < MaxBuffered THEN full ELSE room
  BY DEF NeedsLookup, others, room
<1> QED  BY <1>3, <1>4, <1>5

\* incomingFromInsideIf: what it sends has a path and a version, the rest is buffered.
LEMMA InsideStep ==
    ASSUME Inductive, NEW a \in Addresses, NEW kind, NEW version \in Nat, NEW label \in Paths,
           IncomingFromInside(a, kind, version, label)
    PROVE  Inductive'
<1> DEFINE known == a \in Open \/ version # 0
           e == IF a \in Open THEN session[a] ELSE NewEntry(a, version, label)
           v == IF version # 0 THEN version ELSE e.version
           s == [e EXCEPT !.version = v]
           path == IF label # NoLabel THEN label ELSE s.send
           r == ResetIfTimeout(s)
           addressed == known /\ s.version # 0 /\ path # NoLabel
           ready == addressed /\ (kind = "dht" \/ r.ca >= RECEIVED_KEY)
           final == IF ready THEN Sending(r) ELSE IF addressed THEN r ELSE s
           waits == IF addressed THEN path ELSE label
<1>1. Live(e) /\ e.receiveHandle = HandleOf(a)
  <2>1. CASE a \in Open
    BY <2>1 DEF Inductive, TableOK, HandleOf
  <2>2. CASE a \notin Open
    BY <2>2, EntryFacts DEF Entry, Inductive
  <2> QED  BY <2>1, <2>2
<1>2. /\ IF known THEN PutAndAnnounce(a) ELSE UNCHANGED <<map, told>>
      /\ session' = IF ~known THEN session ELSE With(session, a, final)
      /\ buffer' = IF ready THEN buffer ELSE NeedsLookup(a, waits)
      /\ IF ready THEN Sends(PacketTo(a, r, kind, path)) ELSE UNCHANGED astray
  BY DEF IncomingFromInside
<1> HIDE DEF e
<1>3. Live(s) /\ s.receiveHandle = HandleOf(a)
  <2>1. e \in Entries /\ v \in Nat
    BY <1>1 DEF Live, Entries
  <2> HIDE DEF v
  <2> QED  BY <1>1, <2>1 DEF Live, Entries
<1> HIDE DEF s
<1>4. Live(r) /\ r.receiveHandle = HandleOf(a) /\ r.version = s.version
  BY <1>3, EntryKept
<1> HIDE DEF r
<1>5. Live(final) /\ final.receiveHandle = HandleOf(a)
  <2>1. Live(Sending(r)) /\ Sending(r).receiveHandle = HandleOf(a)
    BY <1>4, EntryKept
  <2>2. final \in {Sending(r), r, s}
    OBVIOUS
  <2> HIDE DEF final
  <2> QED  BY <1>3, <1>4, <2>1, <2>2
<1>6. path \in Paths /\ waits \in Paths
  BY <1>3 DEF Live, Entries
<1>7. ready => known /\ s.version # 0 /\ path # NoLabel
  OBVIOUS
<1> HIDE DEF known, final, waits, addressed, ready, path
<1>8. TableOK'
  <2>1. CASE known
    BY <1>2, <1>5, <2>1, PutStep DEF Inductive
  <2>2. CASE ~known
    BY <1>2, <2>2 DEF Inductive, TableOK, Filed, Open
  <2> QED  BY <2>1, <2>2
<1>9. Buffers(buffer')
  BY <1>2, <1>6, LookupBuffers DEF Inductive
<1>10. astray' = {}
  <2>1. CASE ready
    BY <1>2, <1>4, <1>7, <2>1 DEF Sends, PacketTo, Inductive
  <2>2. CASE ~ready
    BY <1>2, <2>2 DEF Inductive
  <2> QED  BY <2>1, <2>2
<1> QED  BY <1>8, <1>9, <1>10 DEF Inductive, Buffers

\* incomingFromSwitchIf, a handshake packet.
LEMMA HandshakeStep ==
    ASSUME Inductive, NEW a \in Addresses, NEW path \in Labels, IncomingHandshake(a, path)
    PROVE  Inductive'
<1> DEFINE s == ResetIfTimeout(Entry(a, 0, path))
<1>1. Live(s) /\ s.receiveHandle = HandleOf(a) /\ path \in Paths
  BY EntryFacts, EntryKept DEF Inductive, Paths
<1>2. /\ PutAndAnnounce(a)
      /\ \/ session' = With(session, a, s)
         \/ \E ca \in HelloLeaves(s) \cup KeyLeaves(s) :
                session' = With(session, a, Received(s, ca, path))
      /\ UNCHANGED <<buffer, astray>>
  BY DEF IncomingHandshake
<1> HIDE DEF s
<1>3. HelloLeaves(s) \cup KeyLeaves(s) \subseteq 0 .. 5
  BY DEF HelloLeaves, KeyLeaves, SENT_HELLO, RECEIVED_HELLO, SENT_KEY, RECEIVED_KEY
<1>4. PICK e : Live(e) /\ e.receiveHandle = HandleOf(a) /\ session' = With(session, a, e)
  <2>1. CASE session' = With(session, a, s)
    BY <1>1, <2>1
  <2>2. CASE \E ca \in HelloLeaves(s) \cup KeyLeaves(s) :
                 session' = With(session, a, Received(s, ca, path))
    <3>1. PICK ca \in 0 .. 5 : session' = With(session, a, Received(s, ca, path))
      BY <1>3, <2>2
    <3>2. Live(Received(s, ca, path)) /\ Received(s, ca, path).receiveHandle = HandleOf(a)
      BY <1>1, EntryKept
    <3> QED  BY <3>1, <3>2
  <2> QED  BY <1>2, <2>1, <2>2
<1>5. TableOK'
  BY <1>2, <1>4, PutStep DEF Inductive
<1> QED  BY <1>2, <1>5 DEF Inductive, Buffers

\* incomingFromSwitchIf, traffic: the handle leads to an open session.
LEMMA TrafficStep ==
    ASSUME Inductive, NEW handle \in Nat, NEW path \in Labels, IncomingTraffic(handle, path)
    PROVE  Inductive'
<1> DEFINE index == IndexForHandle(map, handle - FirstHandle)
           a == map.keys[index]
<1>1. index \in 1 .. Len(map.keys)
  <2>1. handle - FirstHandle \in Int /\ index # 0
    BY ConstantTypes DEF IncomingTraffic
  <2> HIDE DEF index
  <2>2. index \in 0 .. Len(map.keys)
    BY <2>1, SearchFacts DEF Inductive, TableOK, index
  <2> QED  BY <2>1, <2>2
<1>2. PICK ca \in TrafficLeaves(session[a]) :
         session' = [session EXCEPT ![a] = [Received(@, ca, path) EXCEPT !.caAge = 0]]
  BY DEF IncomingTraffic
<1>3. UNCHANGED <<map, buffer, astray, told>>
  BY DEF IncomingTraffic
<1> HIDE DEF index
<1>4. a \in Open /\ Live(session[a])
  BY <1>1 DEF Inductive, TableOK, Filed, Open
<1> HIDE DEF a
<1>5. ca \in 0 .. 5 /\ path \in Paths
  BY <1>2 DEF TrafficLeaves, SENT_KEY, ESTABLISHED, Paths
<1> DEFINE t == Received(session[a], ca, path)
           e == [t EXCEPT !.caAge = 0]
<1>6. Live(t) /\ t.receiveHandle = session[a].receiveHandle
  BY <1>4, <1>5, EntryKept
<1> HIDE DEF t
<1>7. Live(e) /\ e.receiveHandle = session[a].receiveHandle
  BY <1>6 DEF Live, Entries
<1>8. Open' = Open /\ \A x \in Open : session'[x] = IF x = a THEN e ELSE session[x]
  BY <1>2, <1>4 DEF Open, t
<1> HIDE DEF e
<1>9. TableOK'
  <2>1. \A x \in Open : Live(session'[x]) /\ session'[x].receiveHandle = session[x].receiveHandle
    BY <1>7, <1>8 DEF Inductive, TableOK
  <2> QED  BY <1>3, <1>8, <2>1, SameTable DEF Inductive
<1> QED  BY <1>3, <1>9 DEF Inductive, Buffers

\* incomingFromEventIf, NODE of an address that a message waits for.
LEMMA NodeForBufferedStep ==
    ASSUME Inductive, NEW a \in Addresses, NEW path \in Labels, NodeForBuffered(a, 1, path)
    PROVE  Inductive'
<1> DEFINE s == Entry(a, 1, path)
<1>1. /\ Live(s) /\ s.receiveHandle = HandleOf(a) /\ s.version # 0 /\ s.send # NoLabel
      /\ Live(Sending(s)) /\ Sending(s).receiveHandle = HandleOf(a)
  <2>1. path \in Paths /\ path # NoLabel
    BY ConstantTypes DEF Paths
  <2>2. Live(s) /\ s.receiveHandle = HandleOf(a) /\ s.version # 0 /\ s.send # NoLabel
    BY <2>1, EntryFacts DEF Inductive
  <2> HIDE DEF s
  <2> QED  BY <2>2, EntryKept
<1>2. /\ a \in DOMAIN buffer /\ PutAndAnnounce(a)
      /\ \/ /\ session' = With(session, a, Sending(s))
            /\ Sends(PacketTo(a, s, "data", buffer[a].label))
            /\ buffer' = Without(buffer, a)
         \/ session' = With(session, a, s) /\ UNCHANGED <<buffer, astray>>
  BY DEF NodeForBuffered
<1> HIDE DEF s
<1>3. TableOK'
  BY <1>1, <1>2, PutStep DEF Inductive
<1>4. astray' = {}
  BY <1>1, <1>2 DEF Sends, PacketTo, Inductive
<1>5. Buffers(buffer')
  <2>1. CASE buffer' = Without(buffer, a)
    <3>1. DOMAIN buffer' \in SUBSET DOMAIN buffer /\ \A x \in DOMAIN buffer' : buffer'[x] = buffer[x]
      BY <2>1 DEF Without
    <3> QED  BY <3>1, FewerBuffered DEF Buffers, Inductive
  <2> QED  BY <1>2, <2>1 DEF Inductive
<1> QED  BY <1>3, <1>4, <1>5 DEF Inductive, Buffers

\* The two handlers of NODE that change a session's path, and nothing else of the table.
LEMMA NodeStep ==
    ASSUME Inductive, NEW a \in Addresses, NEW path \in Labels,
           NodePath(a, 1, path) \/ NodeBroken(a, path)
    PROVE  Inductive'
<1>1. a \in Open /\ UNCHANGED <<map, buffer, astray, told>>
  BY DEF NodePath, NodeBroken
<1>2. Live(session[a])
  BY <1>1 DEF Inductive, TableOK
<1>3. PICK e : /\ Live(e) /\ e.receiveHandle = session[a].receiveHandle
              /\ session' = [session EXCEPT ![a] = e]
  <2>1. CASE NodePath(a, 1, path)
    <3> DEFINE e == [session[a] EXCEPT !.send = path, !.version = 1]
    <3>1. Live(e) /\ e.receiveHandle = session[a].receiveHandle
      <4>1. path \in Paths
        BY DEF Paths
      <4> QED  BY <1>2, <4>1 DEF Live, Entries
    <3>2. session' = [session EXCEPT ![a] = e]
      BY <1>1, <2>1 DEF NodePath, Open
    <3> QED  BY <3>1, <3>2
  <2>2. CASE NodeBroken(a, path)
    <3> DEFINE send == IF session[a].send = session[a].recv THEN NoLabel ELSE session[a].recv
               e == [session[a] EXCEPT !.send = send]
    <3>1. session' = [session EXCEPT ![a] = e]
      BY <2>2 DEF NodeBroken
    <3>2. send \in Paths
      BY <1>2 DEF Live, Entries, Paths
    <3> HIDE DEF send
    <3>3. Live(e) /\ e.receiveHandle = session[a].receiveHandle
      BY <1>2, <3>2 DEF Live, Entries
    <3> QED  BY <3>1, <3>3
  <2> QED  BY <2>1, <2>2
<1>4. Open' = Open /\ \A x \in Open : session'[x] = IF x = a THEN e ELSE session[x]
  BY <1>1, <1>3 DEF Open
<1>5. TableOK'
  <2>1. \A x \in Open : Live(session'[x]) /\ session'[x].receiveHandle = session[x].receiveHandle
    BY <1>3, <1>4 DEF Inductive, TableOK
  <2> QED  BY <1>1, <1>4, <2>1, SameTable DEF Inductive
<1> QED  BY <1>1, <1>5 DEF Inductive, Buffers

\* The addresses in the table are those with a session.
LEMMA KeysAreOpen ==
    ASSUME TableOK
    PROVE  Range(map.keys) = Open
<1>1. DOMAIN map.keys = 1 .. Len(map.keys)
  BY DEF TableOK, Sorted, Maps
<1> QED  BY <1>1 DEF TableOK, Filed, Open, Range

\* The time of a message is over between two runs of the timer.
LEMMA ExpiresStep ==
    ASSUME Inductive, NEW a \in Addresses, MessageExpires(a)
    PROVE  Inductive'
<1>1. /\ a \in DOMAIN buffer /\ UNCHANGED <<map, session, astray, told>>
      /\ buffer[a].age = BufferTimeout
      /\ buffer' = [buffer EXCEPT ![a].age = Waited(@)]
  BY DEF MessageExpires
<1>2. buffer[a] \in [label : Paths, age : Nat]
  BY <1>1 DEF Inductive, Buffers
<1> DEFINE b == [buffer[a] EXCEPT !.age = Waited(@)]
<1>3. Waited(buffer[a].age) = BufferTimeout + 1
  BY <1>1, ConstantTypes DEF Waited, Min2
<1>4. b \in [label : Paths, age : Nat] /\ b.age <= BufferTimeout + 1
  BY <1>2, <1>3, ConstantTypes
<1>5. DOMAIN buffer' = DOMAIN buffer
      /\ \A x \in DOMAIN buffer : buffer'[x] = IF x = a THEN b ELSE buffer[x]
  BY <1>1
<1> HIDE DEF b
<1>6. Buffers(buffer')
  BY <1>4, <1>5 DEF Inductive, Buffers
<1> QED  BY <1>1, <1>6 DEF Inductive, TableOK, Filed, Open, Buffers

\* The timer: checkTimedOutSessions and checkTimedOutBuffers.
LEMMA PeriodicallyStep ==
    ASSUME Inductive, Periodically
    PROVE  Inductive'
<1> DEFINE old == [a \in Open |-> Aged(session[a])]
           live == {a \in Open : ~TimedOut(old[a])}
           wanting == {i \in DOMAIN map.keys : WantsSearch(old[map.keys[i]])}
           searched == IF wanting = {} THEN {} ELSE {map.keys[Max(wanting)]}
           new == [a \in live |-> IF a \in searched THEN [old[a] EXCEPT !.search = 0] ELSE old[a]]
           waited == [a \in DOMAIN buffer |-> [buffer[a] EXCEPT !.age = Waited(@)]]
<1>1. /\ map' = Swept(map, live) /\ session' = new /\ buffer' = Fresh(waited)
      /\ EndAnnounced(Open \ live) /\ UNCHANGED astray
  BY DEF Periodically
<1>2. ASSUME NEW a \in Open
      PROVE  old[a] \in Entries /\ old[a].receiveHandle = session[a].receiveHandle
  <2> DEFINE s == session[a]
             i == Min2(s.in + 1, SessionTimeout + 1)
             o == Min2(s.out + 1, IdleAfter)
             q == Min2(s.search + 1, SearchAfter)
             c == Min2(s.caAge + 1, ResetAfter)
  <2>1. s \in Entries
    BY DEF Inductive, TableOK, Live
  <2>2. i \in Nat /\ o \in Nat /\ q \in Nat /\ c \in Nat
    BY <2>1, ConstantTypes DEF Entries, Min2
  <2>3. old[a] = [s EXCEPT !.in = i, !.out = o, !.search = q, !.caAge = c]
    BY DEF Aged
  <2> HIDE DEF s, i, o, q, c, old
  <2> DEFINE f == [s EXCEPT !.in = i, !.out = o]
  <2>4. f \in Entries /\ f.receiveHandle = s.receiveHandle
    BY <2>1, <2>2 DEF Entries
  <2>5. old[a] = [f EXCEPT !.search = q, !.caAge = c]
    BY <2>3
  <2> HIDE DEF f
  <2>6. old[a] \in Entries /\ old[a].receiveHandle = f.receiveHandle
    BY <2>2, <2>4, <2>5 DEF Entries
  <2> QED  BY <2>4, <2>6 DEF s
<1>3. live \subseteq Open /\ \A a \in live : ~(old[a].in > SessionTimeout)
  BY DEF TimedOut
<1> HIDE DEF old, live, searched
<1>4. DOMAIN new = live /\ \A a \in live : new[a] \in {old[a], [old[a] EXCEPT !.search = 0]}
  OBVIOUS
<1> HIDE DEF new
<1>5. ASSUME NEW a \in live
      PROVE  Live(new[a]) /\ new[a].receiveHandle = session[a].receiveHandle
  <2>1. old[a] \in Entries /\ old[a].receiveHandle = session[a].receiveHandle
    BY <1>2, <1>3
  <2>2. old[a].in <= SessionTimeout
    BY <1>3, <2>1, ConstantTypes DEF Entries
  <2> DEFINE f == [old[a] EXCEPT !.search = 0]
  <2>3. f \in Entries /\ f.receiveHandle = old[a].receiveHandle /\ f.in = old[a].in
    BY <2>1 DEF Entries
  <2> HIDE DEF f
  <2>4. new[a] = old[a] \/ new[a] = f
    BY <1>4 DEF f
  <2> QED  BY <2>1, <2>2, <2>3, <2>4 DEF Live
<1>6. Sorted(map')
  BY <1>1, SweptFacts DEF Inductive, TableOK
<1>7. Open' = live /\ \A a \in live : session'[a] = new[a]
  BY <1>1, <1>4 DEF Open
<1>8. Filed(map', session')
  <2>1. ASSUME NEW i \in 1 .. Len(map'.keys)
        PROVE  /\ map'.keys[i] \in live
               /\ session'[map'.keys[i]].receiveHandle = map'.handles[i] + FirstHandle
    <3>1. PICK j \in 1 .. Len(map.keys) : map.keys[j] \in live /\ SameEntry(map', i, map, j)
      BY <1>1, SweptFacts DEF Inductive, TableOK
    <3>2. session[map.keys[j]].receiveHandle = map.handles[j] + FirstHandle
      BY DEF Inductive, TableOK, Filed
    <3> QED  BY <1>5, <1>7, <3>1, <3>2 DEF SameEntry
  <2>2. ASSUME NEW a \in live
        PROVE  \E i \in 1 .. Len(map'.keys) : map'.keys[i] = a
    <3>1. PICK j \in 1 .. Len(map.keys) : map.keys[j] = a
      BY <1>3 DEF Inductive, TableOK, Filed, Open
    <3>2. PICK i \in 1 .. Len(map'.keys) : SameEntry(map', i, map, j)
      BY <1>1, <3>1, SweptFacts DEF Inductive, TableOK
    <3> QED  BY <3>1, <3>2 DEF SameEntry
  <2> QED  BY <1>7, <2>1, <2>2 DEF Filed, Open
<1>9. told' = Open'
  BY <1>1, <1>3, <1>7 DEF EndAnnounced, Inductive, TableOK
<1>10. TableOK'
  BY <1>3, <1>5, <1>6, <1>7, <1>8, <1>9 DEF Inductive, TableOK
<1>11. Buffers(buffer')
  <2>1. DOMAIN waited = DOMAIN buffer
        /\ \A a \in DOMAIN buffer : waited[a] = [buffer[a] EXCEPT !.age = Waited(@)]
    OBVIOUS
  <2> HIDE DEF waited
  <2>2. DOMAIN buffer' \in SUBSET DOMAIN buffer
        /\ \A a \in DOMAIN buffer' : buffer'[a] = waited[a] /\ waited[a].age <= BufferTimeout
    BY <1>1, <2>1 DEF Fresh
  <2>3. ASSUME NEW a \in DOMAIN buffer'
        PROVE  buffer'[a] \in [label : Paths, age : Nat] /\ buffer'[a].age <= BufferTimeout + 1
    <3>1. buffer[a] \in [label : Paths, age : Nat]
      BY <2>2 DEF Inductive, Buffers
    <3>2. Waited(buffer[a].age) \in Nat
      BY <3>1, ConstantTypes DEF Waited, Min2
    <3>3. waited[a] \in [label : Paths, age : Nat]
      BY <2>1, <2>2, <3>1, <3>2
    <3> QED  BY <2>2, <3>3, ConstantTypes
  <2>4. Cardinality(DOMAIN buffer') <= MaxBuffered
    BY <2>2, FewerBuffered DEF Inductive
  <2> QED  BY <2>2, <2>3, <2>4 DEF Inductive, Buffers
<1> QED  BY <1>1, <1>10, <1>11 DEF Inductive, Buffers

-----------------------------------------------------------------------------
\* In every reachable state the table of sessions is sorted, agrees with the sessions and with
\* the pathfinder, and the buffer keeps its bounds, for all addresses, labels and time limits.
THEOREM TableIsSound == Spec => []Inductive
<1>1. Init => Inductive
  <2> SUFFICES ASSUME Init PROVE Inductive
    OBVIOUS
  <2>1. Cardinality({}) = 0
    BY FS_EmptySet
  <2>2. Sorted(map) /\ Len(map.keys) = 0
    BY DEF Init, EmptyMap, Sorted, Maps
  <2>3. Open = {} /\ DOMAIN buffer = {}
    BY DEF Init, Open
  <2>4. Filed(map, session)
    BY <2>2, <2>3 DEF Filed, Open
  <2> QED  BY <2>1, <2>2, <2>3, <2>4, ConstantTypes DEF Init, Inductive, TableOK, Buffers
<1>2. Inductive /\ [Next]_vars => Inductive'
  <2> SUFFICES ASSUME Inductive, [Next]_vars PROVE Inductive'
    OBVIOUS
  <2>0. NoLabel \in Paths /\ Labels \subseteq Paths
    BY DEF Paths
  <2>1. CASE \E a \in Addresses : IncomingFromInside(a, "data", 0, NoLabel)
    BY <2>0, <2>1, InsideStep
  <2>2. CASE \E a \in Addresses, l \in Labels, kind \in {"data", "dht"} :
                 IncomingFromInside(a, kind, 1, l)
    BY <2>0, <2>2, InsideStep
  <2>3. CASE \E a \in Addresses, l \in Labels : IncomingHandshake(a, l)
    BY <2>3, HandshakeStep
  <2>4. CASE \E a \in Addresses, l \in Labels : NodeForBuffered(a, 1, l)
    BY <2>4, NodeForBufferedStep
  <2>5. CASE \E a \in Addresses, l \in Labels : NodePath(a, 1, l) \/ NodeBroken(a, l)
    BY <2>5, NodeStep
  <2>6. CASE \E a \in Addresses : MessageExpires(a)
    BY <2>6, ExpiresStep
  <2>7. CASE \E h \in FirstHandle .. FirstHandle + MaxHandles, l \in Labels : IncomingTraffic(h, l)
    <3>1. PICK h \in FirstHandle .. FirstHandle + MaxHandles, l \in Labels : IncomingTraffic(h, l)
      BY <2>7
    <3>2. h \in Nat
      BY ConstantTypes
    <3> QED  BY <3>1, <3>2, TrafficStep
  <2>8. CASE Sessions
    <3>1. told' = Open /\ UNCHANGED <<map, session, buffer, astray>>
      BY <2>8, KeysAreOpen DEF Sessions, Inductive
    <3> QED  BY <3>1 DEF Inductive, TableOK, Filed, Open, Buffers
  <2>9. CASE Periodically
    BY <2>9, PeriodicallyStep
  <2>10. CASE UNCHANGED vars
    BY <2>10 DEF vars, Inductive, TableOK, Filed, Open, Buffers
  <2> QED  BY <2>1, <2>2, <2>3, <2>4, <2>5, <2>6, <2>7, <2>8, <2>9, <2>10 DEF Next
<1> QED  BY <1>1, <1>2, PTL DEF Spec

\* indexForHandle leads every handle to the session that was given it, or to none
\* (incomingFromSwitchIf, traffic), for a table of any length.
THEOREM HandleLeadsToSession == Spec => []HandleFindsSession
<1>1. Inductive => HandleFindsSession
  <2> SUFFICES ASSUME Inductive PROVE HandleFindsSession
    OBVIOUS
  <2> DEFINE L == Len(map.keys)
  <2>0. L \in Nat /\ map.keys \in Seq(Addresses) /\ \A i \in 1 .. L : map.handles[i] \in Nat
    BY DEF Inductive, TableOK, Sorted, Maps
  <2>1. Range(map.keys) = Open
    BY KeysAreOpen DEF Inductive
  <2>2. L = Cardinality(Open)
    <3>1. map.keys \in [1 .. L -> Open]
      <4>1. DOMAIN map.keys = 1 .. L /\ map.keys = [i \in 1 .. L |-> map.keys[i]]
        BY <2>0
      <4>2. \A i \in 1 .. L : map.keys[i] \in Open
        BY DEF Inductive, TableOK, Filed, Open
      <4> QED  BY <4>1, <4>2
    <3>2. \A i, j \in 1 .. L : map.keys[i] = map.keys[j] => i = j
      BY <2>0 DEF Inductive, TableOK, Sorted
    <3>3. \A a \in Open : \E i \in 1 .. L : map.keys[i] = a
      BY DEF Inductive, TableOK, Filed, Open
    <3> HIDE DEF L
    <3>4. map.keys \in Bijection(1 .. L, Open)
      BY <3>1, <3>2, <3>3 DEF Bijection, Injection, Surjection, IsInjective
    <3> QED  BY <2>0, <3>4, FS_CountingElements DEF ExistsBijection
  <2>3. ASSUME NEW h \in FirstHandle .. FirstHandle + MaxHandles
        PROVE  LET index == IndexForHandle(map, h - FirstHandle)
               IN  {a \in Open : session[a].receiveHandle = h}
                   = IF index = 0 THEN {} ELSE {map.keys[index]}
    <3> DEFINE index == IndexForHandle(map, h - FirstHandle)
    <3>1. h \in Nat /\ h - FirstHandle \in Int /\ FirstHandle \in Nat
      BY ConstantTypes
    <3>2. /\ index \in 0 .. L
          /\ index # 0 => map.handles[index] = h - FirstHandle
          /\ index = 0 => \A j \in 1 .. L : map.handles[j] # h - FirstHandle
      BY <3>1, SearchFacts DEF Inductive, TableOK
    <3> HIDE DEF index, L
    <3>3. \A i \in 1 .. L : /\ map.keys[i] \in Open
                             /\ session[map.keys[i]].receiveHandle = map.handles[i] + FirstHandle
      BY DEF Inductive, TableOK, Filed, Open, L
    <3>4. \A i \in 1 .. L : session[map.keys[i]].receiveHandle = h <=> map.handles[i] = h - FirstHandle
      <4> SUFFICES ASSUME NEW i \in 1 .. L
                   PROVE  session[map.keys[i]].receiveHandle = h <=> map.handles[i] = h - FirstHandle
        OBVIOUS
      <4>1. session[map.keys[i]].receiveHandle = map.handles[i] + FirstHandle
        BY <3>3
      <4>2. PICK x \in Nat : x = map.handles[i]
        BY <2>0 DEF L
      <4>3. x + FirstHandle = h <=> x = h - FirstHandle
        BY <3>1
      <4> QED  BY <4>1, <4>2, <4>3
    <3>5. \A i, j \in 1 .. L : map.handles[i] = map.handles[j] => i = j
      BY <2>0 DEF Inductive, TableOK, Sorted, L
    <3>6. \A a \in Open : \E i \in 1 .. L : map.keys[i] = a
      BY DEF Inductive, TableOK, Filed, Open, L
    <3>7. CASE index = 0
      BY <3>2, <3>4, <3>6, <3>7 DEF index
    <3>8. CASE index # 0
      <4>1. index \in 1 .. L
        BY <2>0, <3>2, <3>8
      <4>2. {a \in Open : session[a].receiveHandle = h} = {map.keys[index]}
        BY <3>2, <3>3, <3>4, <3>5, <3>6, <3>8, <4>1
      <4> QED  BY <3>8, <4>2 DEF index
    <3> QED  BY <3>7, <3>8
  <2> QED  BY <2>1, <2>2, <2>3 DEF HandleFindsSession
<1> QED  BY <1>1, TableIsSound, PTL

\* Announcements in getSession, in checkTimedOutSessions and in answer to SESSIONS add up: the
\* pathfinder always knows of exactly the sessions that there are.
THEOREM PathfinderIsTold == Spec => []PathfinderToldOfSessions
<1>1. Inductive => PathfinderToldOfSessions
  BY DEF Inductive, TableOK, PathfinderToldOfSessions
<1> QED  BY <1>1, TableIsSound, PTL

\* readyToSend never sends without a path or to a node of unknown version.
THEOREM AlwaysSentWithPath == Spec => []SentWithPath
<1>1. Inductive => SentWithPath
  BY DEF Inductive, SentWithPath
<1> QED  BY <1>1, TableIsSound, PTL

\* No session and no buffered message outlives its time, and maxBufferedMessages is kept.
THEOREM EverythingTimesOut == Spec => []NothingLingers
<1>1. Inductive => NothingLingers
  BY DEF Inductive, TableOK, Live, Buffers, NothingLingers
<1> QED  BY <1>1, TableIsSound, PTL
=============================================================================
