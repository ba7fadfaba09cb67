--------------------------- MODULE PeerTableProofs ---------------------------
(***************************************************************************)
(* The switch, the interface controller and the pathfinder agree about the *)
(* peers, for any number of peers, keys, addresses and slots and any       *)
(* timing of the pings.                                                    *)
(*                                                                         *)
(* The invariant, Good, is one on tables, and so are the lemmas: an        *)
(* operator of PeerTable takes a good table to a good one, whether it      *)
(* fails or not.  A handler is a composition of operators, so its proof is *)
(* a composition of lemmas.  Good has five parts.                          *)
(*   Wired   the path of a peer and the owner of a slot are inverse to     *)
(*           each other, and a slot is up unless its peer is UNRESPONSIVE; *)
(*   Mapped  the map holds living peers only, so that no handler works on  *)
(*           a peer that has gone;                                         *)
(*   Spare   the slot past the end is vacant as long as nothing failed:    *)
(*           addInterface always finds a slot;                             *)
(*   Informed  the pathfinder has exactly the announced peers, at their    *)
(*           paths, but for the paths that an announced peer was moved     *)
(*           away from; an announced peer lives, is not UNRESPONSIVE and   *)
(*           is ESTABLISHED unless beacons are accepted, which is why only *)
(*           these lead to a move;                                         *)
(*   Tables  the types.                                                    *)
(***************************************************************************)
EXTENDS PeerTable, WellFoundedInduction, TLAPS

Peerings == [addr : Addrs, key : Keys, incoming : BOOLEAN, version : Versions \cup {Unknown},
             path : Slots, state : {"INIT", "HANDSHAKE", "ESTABLISHED", "UNRESPONSIVE"},
             age : Nat, rest : Nat, pingCount : Nat, ping : BOOLEAN]

Ports == [owner : Peers \cup {Router, "none"}, up : BOOLEAN]

PeerFcns == [Peers -> Peerings \cup {NoPeer}]

Ifaces == [Slots -> Ports]

Tables == [peer : PeerFcns, map : Seq(Peers), iface : Ifaces, known : [Slots -> Keys \cup {NoKey}],
           failed : {"no", "sendPeer", "addInterface", "closeInterface", "freeAlloc"},
           stale : BOOLEAN, told : SUBSET Peers, stray : SUBSET Slots]

\* The path of a living peer and the owner of a slot.
Wired(P, F) ==
    /\ \A p \in Peers : P[p] # NoPeer => \A i \in Slots : F[i].owner = p <=> i = P[p].path
    /\ \A i \in Slots : F[i].owner \in Peers => P[F[i].owner] # NoPeer
    /\ \A p \in Peers : P[p] # NoPeer => (F[P[p].path].up <=> P[p].state # "UNRESPONSIVE")

Mapped(P, M) == \A n \in DOMAIN M : P[M[n]] # NoPeer

Spare(T) == T.failed = "no" => T.iface[NInterfaces].owner = "none"

\* Current, but for UNRESPONSIVE peers: for the peers P, what the pathfinder knows K and the announced peers D.
CurrentAt(P, K, D, i) == /\ \A p \in D : P[p].path = i => K[i] = P[p].key
                         /\ K[i] # NoKey => \E p \in D : P[p].path = i

\* The states in which a peer may be announced.
Presentable(st) == st = "ESTABLISHED" \/ (AcceptBeacons /\ st # "UNRESPONSIVE")

\* The announced peers, and what the pathfinder knows except at the paths G.
Informed(P, K, D, G) ==
    /\ \A p \in D : P[p] # NoPeer /\ Presentable(P[p].state)
    /\ \A i \in Slots \ G : CurrentAt(P, K, D, i)
    /\ G = {} \/ AcceptBeacons

UpToDate(T) == T.failed = "no" => Informed(T.peer, T.known, T.told, T.stray)

Good(T) == /\ T \in Tables /\ Wired(T.peer, T.iface) /\ Mapped(T.peer, T.map) /\ Spare(T)
           /\ UpToDate(T)

\* The locals of iciPing.
Scanning == scan = NoScan \/ scan \in [on : BOOLEAN, i : Nat, count : Nat, startAt : Nat]

Sound == Good(Table) /\ Informed(peer, myPeers, told, stray)

Inductive == Sound /\ Scanning

\* A set of natural numbers has a least element.
LEMMA LeastNat ==
    ASSUME NEW S \in SUBSET Nat, S # {}
    PROVE  \E n \in S : \A m \in S : n <= m
<1> DEFINE R == {ss \in Nat \X Nat : ss[1] < ss[2]}
<1>1. IsWellFoundedOn(R, Nat)
  BY NatLessThanWellFounded DEF OpToRel
<1>2. \A x, y \in Nat : <<y, x>> \in R <=> y < x
  OBVIOUS
<1> HIDE DEF R
<1>3. PICK x \in S : \A y \in S : <<y, x>> \notin R
  BY <1>1, WFMin
<1>4. ASSUME NEW y \in S PROVE x <= y
  <2>1. x \in Nat /\ y \in Nat
    OBVIOUS
  <2>2. ~(y < x)
    BY <1>2, <1>3, <2>1, Zenon
  <2> QED  BY <2>1, <2>2
<1> QED  BY <1>4

\* What holds at first and is kept by every step of a finite run holds to its end.
LEMMA Induction ==
    ASSUME NEW n \in Nat, NEW f, NEW I, f[0] \in I[0],
           \A k \in 1 .. n : f[k - 1] \in I[k - 1] => f[k] \in I[k]
    PROVE  \A k \in 0 .. n : f[k] \in I[k]
<1> DEFINE Bad == {k \in 0 .. n : f[k] \notin I[k]}
<1>1. SUFFICES ASSUME Bad # {} PROVE FALSE
  OBVIOUS
<1>2. PICK m \in Bad : \A k \in Bad : m <= k
  <2>1. Bad \in SUBSET Nat
    OBVIOUS
  <2> HIDE DEF Bad
  <2> QED  BY <1>1, <2>1, LeastNat
<1>3. m # 0
  BY <1>2
<1>4. m - 1 \in 0 .. n /\ m - 1 \notin Bad /\ m \in 1 .. n
  BY <1>2, <1>3
<1>5. f[m - 1] \in I[m - 1]
  BY <1>4
<1> QED  BY <1>2, <1>4, <1>5

\* f is a run of n rounds from x, and G[k] the k-th round.
Runs(n, x, G, f) ==
    f = [k \in 0 .. n |-> IF k = 0 THEN x ELSE G[k][f[k - 1]]]

\* A run of n rounds exists, whatever the rounds are.
LEMMA LoopExists ==
    ASSUME NEW n \in Nat, NEW x, NEW G
    PROVE  \E f : Runs(n, x, G, f)
<1> DEFINE Bad == {m \in Nat : ~ \E f : Runs(m, x, G, f)}
<1>1. SUFFICES ASSUME Bad # {} PROVE FALSE
  OBVIOUS
<1>2. PICK m \in Bad : \A k \in Bad : m <= k
  <2>1. Bad \in SUBSET Nat  OBVIOUS
  <2> HIDE DEF Bad
  <2> QED BY <1>1, <2>1, LeastNat
<1>3. CASE m = 0
  <2> DEFINE f == [k \in 0 .. 0 |-> x]
  <2>1. Runs(0, x, G, f)
    BY DEF Runs
  <2> QED BY <1>3, <2>1
<1>4. CASE m # 0
  <2>1. m - 1 \in Nat /\ m - 1 \notin Bad
    BY <1>2, <1>4
  <2>2. PICK f : Runs(m - 1, x, G, f)
    BY <2>1
  <2> DEFINE g == [k \in 0 .. m |-> IF k = m THEN G[m][f[m-1]] ELSE f[k]]
  <2>3. Runs(m, x, G, g)
    <3>1. \A k \in 1 .. m - 1 : f[k] = G[k][f[k - 1]]
      BY <2>1, <2>2 DEF Runs
    <3>2. f[0] = x
      BY <2>1, <2>2 DEF Runs
    <3>3. \A k \in 1 .. m : g[k - 1] = f[k - 1]
      BY <1>2, <1>4
    <3>4. \A k \in 0 .. m : g[k] = IF k = 0 THEN x ELSE G[k][g[k - 1]]
      BY <1>2, <1>4, <3>1, <3>2, <3>3
    <3> QED  BY <3>4 DEF Runs
  <2> QED BY <2>3
<1> QED BY <1>3, <1>4


\* A loop whose rounds lead from I[k - 1] to I[k] has a run that is always in I.
LEMMA Loop ==
    ASSUME NEW n \in Nat, NEW x, NEW G, NEW I, x \in I[0],
           \A k \in 1 .. n : \A s \in I[k - 1] : G[k][s] \in I[k]
    PROVE  \E f : Runs(n, x, G, f) /\ \A k \in 0 .. n : f[k] \in I[k]
<1>1. PICK f : Runs(n, x, G, f)
  BY LoopExists
<1>2. f[0] = x /\ \A k \in 1 .. n : f[k] = G[k][f[k - 1]]
  BY <1>1 DEF Runs
<1>3. f[0] \in I[0] /\ \A k \in 1 .. n : f[k - 1] \in I[k - 1] => f[k] \in I[k]
  BY <1>2
<1>4. \A k \in 0 .. n : f[k] \in I[k]
  BY <1>3, Induction
<1> QED  BY <1>1, <1>4

-----------------------------------------------------------------------------
\* Min of natural numbers is one of them.
LEMMA MinIsOne ==
    ASSUME NEW S \in SUBSET Nat, S # {}
    PROVE  Min(S) \in S /\ \A y \in S : Min(S) <= y
<1>1. PICK x \in S : \A y \in S : x <= y
  BY LeastNat
<1> QED  BY <1>1 DEF Min

\* What Map_remove leaves was there before and is not of S.
LEMMA WithoutKeeps ==
    ASSUME NEW M \in Seq(Peers), NEW S
    PROVE  Without(M, S) \in Seq({p \in Peers : p \notin S /\ \E m \in DOMAIN M : M[m] = p})
<1> DEFINE n == Len(M)
           Q == {p \in Peers : p \notin S /\ \E m \in DOMAIN M : M[m] = p}
           Put(k, s) == IF M[k] \in S THEN s ELSE Append(s, M[k])
           I == [k \in 0 .. n |-> Seq(Q)]
           G == [k \in 1 .. n |-> [s \in Seq(Q) |-> Put(k, s)]]
           Rhs(f) == [k \in 0 .. n |-> IF k = 0 THEN <<>>
                                       ELSE IF M[k] \in S THEN f[k - 1] ELSE Append(f[k - 1], M[k])]
           F == CHOOSE f : f = Rhs(f)
<1>1. Without(M, S) = F[n]
  BY DEF Without
<1>2. n \in Nat /\ DOMAIN M = 1 .. n
  OBVIOUS
<1>3. ASSUME NEW k \in 1 .. n, NEW s \in Seq(Q) PROVE Put(k, s) \in Seq(Q)
  <2>1. CASE M[k] \in S
    BY <2>1
  <2>2. CASE M[k] \notin S
    <3>1. M[k] \in Q
      BY <1>2, <2>2
    <3> HIDE DEF Q
    <3> QED  BY <2>2, <3>1
  <2> QED  BY <2>1, <2>2
<1>4. <<>> \in Seq(Q)
  OBVIOUS
<1> HIDE DEF n, Q
<1>5. \A k \in 1 .. n : k \in 0 .. n /\ k - 1 \in 0 .. n
  BY <1>2
<1>6. \A k \in 1 .. n : \A s \in I[k - 1] : G[k][s] = Put(k, s) /\ G[k][s] \in I[k]
  <2> HIDE DEF Put
  <2> QED  BY <1>3, <1>5
<1>7. <<>> \in I[0]
  BY <1>2, <1>4
<1>8. PICK f : Runs(n, <<>>, G, f) /\ \A k \in 0 .. n : f[k] \in I[k]
  <2> HIDE DEF I, G, Put
  <2> QED  BY <1>2, <1>6, <1>7, Loop
<1>9. \A k \in 1 .. n : G[k][f[k - 1]] = Put(k, f[k - 1])
  <2> HIDE DEF Put, G
  <2> QED  BY <1>5, <1>6, <1>8
<1>10. f = Rhs(f)
  <2>1. f = [k \in 0 .. n |-> IF k = 0 THEN <<>> ELSE G[k][f[k - 1]]]
    BY <1>8 DEF Runs
  <2> HIDE DEF G
  <2>2. \A k \in 0 .. n : (IF k = 0 THEN <<>> ELSE G[k][f[k - 1]])
                           = IF k = 0 THEN <<>>
                             ELSE IF M[k] \in S THEN f[k - 1] ELSE Append(f[k - 1], M[k])
    BY <1>2, <1>9
  <2> QED  BY <2>1, <2>2
<1>11. F = Rhs(F)
  BY <1>10
<1>12. F[0] = <<>> /\ \A k \in 1 .. n : F[k] = Put(k, F[k - 1])
  <2> HIDE DEF F
  <2>1. \A k \in 0 .. n : F[k] = IF k = 0 THEN <<>> ELSE Put(k, F[k - 1])
    <3>1. F = [k \in 0 .. n |-> IF k = 0 THEN <<>> ELSE Put(k, F[k - 1])]
      BY <1>11
    <3> HIDE DEF Put
    <3> QED  BY <3>1
  <2> HIDE DEF Put
  <2>2. 0 \in 0 .. n /\ \A k \in 1 .. n : k \in 0 .. n /\ k # 0
    BY <1>2
  <2>3. F[0] = <<>>
    BY <2>1, <2>2
  <2>4. ASSUME NEW k \in 1 .. n PROVE F[k] = Put(k, F[k - 1])
    BY <2>1, <2>2
  <2> QED  BY <2>3, <2>4
<1> HIDE DEF F, Put
<1>13. F[0] \in I[0] /\ \A k \in 1 .. n : F[k - 1] \in I[k - 1] => F[k] \in I[k]
  BY <1>2, <1>3, <1>5, <1>7, <1>12
<1>14. F[n] \in I[n]
  <2> HIDE DEF I
  <2>1. \A k \in 0 .. n : F[k] \in I[k]
    BY <1>2, <1>13, Induction
  <2> QED  BY <1>2, <2>1
<1> QED  BY <1>1, <1>2, <1>14 DEF Q

\* A struct Peer is not NoPeer, and the owner of a slot is a peer, the router or nobody.
LEMMA PeersAreProper ==
    /\ \A r \in Peerings : r # NoPeer
    /\ \A P \in PeerFcns : \A p \in Peers : P[p] # NoPeer => P[p] \in Peerings
    /\ Router \notin Peers /\ "none" \notin Peers
<1>1. \A r \in Peerings : r.addr # "none"
  BY PeerTableAssumption DEF Peerings
<1>2. NoPeer.addr = "none"
  BY DEF NoPeer
<1> QED  BY <1>1, <1>2, PeerTableAssumption DEF PeerFcns, Router

\* The slot of a peer is its path.
LEMMA SlotOfIsPath ==
    ASSUME NEW P \in PeerFcns, NEW T, Wired(P, T.iface), NEW p \in Peers, P[p] # NoPeer
    PROVE  SlotOf(T, p) = P[p].path /\ P[p].path \in Slots
<1>1. P[p].path \in Slots
  BY PeersAreProper DEF Peerings
<1>2. \A i \in Slots : T.iface[i].owner = p <=> i = P[p].path
  BY DEF Wired
<1> QED  BY <1>1, <1>2 DEF SlotOf

\* A living peer changes, and its slot goes up or down with it.
LEMMA WiredState ==
    ASSUME NEW P \in PeerFcns, NEW F \in Ifaces, Wired(P, F), NEW p \in Peers, P[p] # NoPeer,
           NEW r \in Peerings, r.path = P[p].path,
           NEW u \in BOOLEAN, u <=> r.state # "UNRESPONSIVE"
    PROVE  /\ [P EXCEPT ![p] = r] \in PeerFcns /\ [F EXCEPT ![r.path].up = u] \in Ifaces
           /\ Wired([P EXCEPT ![p] = r], [F EXCEPT ![r.path].up = u])
<1> DEFINE P2 == [P EXCEPT ![p] = r]
           F2 == [F EXCEPT ![r.path].up = u]
<1>1. P2 \in PeerFcns /\ P2[p] = r /\ \A q \in Peers : q # p => P2[q] = P[q]
  BY DEF PeerFcns
<1>2. r.path \in Slots /\ r # NoPeer
  BY PeersAreProper DEF Peerings
<1>3. F2 \in Ifaces
  BY <1>2 DEF Ifaces, Ports
<1>4. /\ \A i \in Slots : F2[i].owner = F[i].owner
      /\ F2[r.path].up = u /\ \A i \in Slots : i # r.path => F2[i].up = F[i].up
  BY <1>2 DEF Ifaces, Ports
<1> HIDE DEF P2, F2
<1>5. \A q \in Peers : P2[q] # NoPeer => P[q] # NoPeer /\ P2[q].path = P[q].path
  BY <1>1
<1>6. \A q \in Peers : P2[q] # NoPeer => \A i \in Slots : F2[i].owner = q <=> i = P2[q].path
  BY <1>4, <1>5 DEF Wired
<1>7. \A i \in Slots : F2[i].owner \in Peers => P2[F2[i].owner] # NoPeer
  BY <1>1, <1>2, <1>4 DEF Wired
<1>8. ASSUME NEW q \in Peers, P2[q] # NoPeer
      PROVE  F2[P2[q].path].up <=> P2[q].state # "UNRESPONSIVE"
  <2>1. CASE q = p
    BY <2>1, <1>1, <1>4
  <2>2. CASE q # p
    <3>1. P[q].path \in Slots /\ P[q].path # r.path
      BY <1>2, <1>5, <1>8, <2>2, PeersAreProper DEF Wired, Peerings
    <3> QED  BY <1>1, <1>4, <1>8, <2>2, <3>1 DEF Wired
  <2> QED  BY <2>1, <2>2
<1>9. Wired(P2, F2)
  BY <1>6, <1>7, <1>8 DEF Wired
<1> QED  BY <1>1, <1>3, <1>9 DEF P2, F2

\* A living peer changes, but not its path or its responsiveness.
LEMMA WiredQuietly ==
    ASSUME NEW P \in PeerFcns, NEW F, Wired(P, F), NEW p \in Peers, P[p] # NoPeer,
           NEW r \in Peerings, r.path = P[p].path,
           r.state # "UNRESPONSIVE" <=> P[p].state # "UNRESPONSIVE"
    PROVE  [P EXCEPT ![p] = r] \in PeerFcns /\ Wired([P EXCEPT ![p] = r], F)
<1> DEFINE P2 == [P EXCEPT ![p] = r]
<1>1. P2 \in PeerFcns /\ P2[p] = r /\ \A q \in Peers : q # p => P2[q] = P[q]
  BY DEF PeerFcns
<1>2. r # NoPeer
  BY PeersAreProper
<1> HIDE DEF P2
<1>3. \A q \in Peers : P2[q] # NoPeer =>
          /\ P[q] # NoPeer /\ P2[q].path = P[q].path
          /\ P2[q].state # "UNRESPONSIVE" <=> P[q].state # "UNRESPONSIVE"
  BY <1>1
<1>4. \A q \in Peers : P2[q] # NoPeer => \A i \in Slots : F[i].owner = q <=> i = P2[q].path
  BY <1>3 DEF Wired
<1>5. \A i \in Slots : F[i].owner \in Peers => P2[F[i].owner] # NoPeer
  BY <1>1, <1>2 DEF Wired
<1>6. \A q \in Peers : P2[q] # NoPeer => (F[P2[q].path].up <=> P2[q].state # "UNRESPONSIVE")
  BY <1>3 DEF Wired
<1>7. Wired(P2, F)
  BY <1>4, <1>5, <1>6 DEF Wired
<1> QED  BY <1>1, <1>7 DEF P2

\* A peer is added at a vacant slot.
LEMMA WiredAdded ==
    ASSUME NEW P \in PeerFcns, NEW F \in Ifaces, Wired(P, F), NEW p \in Peers, P[p] = NoPeer,
           NEW r \in Peerings, r.state # "UNRESPONSIVE", NEW a \in Slots, r.path = a,
           F[a].owner = "none"
    PROVE  /\ [P EXCEPT ![p] = r] \in PeerFcns
           /\ [F EXCEPT ![a] = [owner |-> p, up |-> TRUE]] \in Ifaces
           /\ Wired([P EXCEPT ![p] = r], [F EXCEPT ![a] = [owner |-> p, up |-> TRUE]])
<1> DEFINE P2 == [P EXCEPT ![p] = r]
           F2 == [F EXCEPT ![a] = [owner |-> p, up |-> TRUE]]
<1>1. P2 \in PeerFcns /\ P2[p] = r /\ \A q \in Peers : q # p => P2[q] = P[q]
  BY DEF PeerFcns
<1>2. r # NoPeer
  BY PeersAreProper
<1>3. F2 \in Ifaces
  BY DEF Ifaces, Ports
<1>4. F2[a].owner = p /\ F2[a].up = TRUE /\ \A i \in Slots : i # a => F2[i] = F[i]
  BY DEF Ifaces
<1> HIDE DEF P2, F2
<1>5. \A i \in Slots : F[i].owner # p
  BY DEF Wired
<1>6. \A q \in Peers : q # p /\ P[q] # NoPeer => P[q].path # a /\ P[q].path \in Slots
  BY PeersAreProper DEF Wired, Peerings
<1>7. ASSUME NEW q \in Peers, P2[q] # NoPeer
      PROVE  \A i \in Slots : F2[i].owner = q <=> i = P2[q].path
  <2>1. CASE q = p
    BY <1>1, <1>4, <1>5, <2>1
  <2>2. CASE q # p
    BY <1>1, <1>4, <1>6, <1>7, <2>2 DEF Wired
  <2> QED  BY <2>1, <2>2
<1>8. \A i \in Slots : F2[i].owner \in Peers => P2[F2[i].owner] # NoPeer
  BY <1>1, <1>2, <1>4, <1>5 DEF Wired
<1>9. ASSUME NEW q \in Peers, P2[q] # NoPeer
      PROVE  F2[P2[q].path].up <=> P2[q].state # "UNRESPONSIVE"
  <2>1. CASE q = p
    BY <1>1, <1>4, <2>1
  <2>2. CASE q # p
    BY <1>1, <1>4, <1>6, <1>9, <2>2 DEF Wired
  <2> QED  BY <2>1, <2>2
<1>10. Wired(P2, F2)
  BY <1>7, <1>8, <1>9 DEF Wired
<1> QED  BY <1>1, <1>3, <1>10 DEF P2, F2

\* The peers P and the slots F when the peers S have gone.
PeersLeft(P, S) == [p \in Peers |-> IF p \in S THEN NoPeer ELSE P[p]]
SlotsLeft(F, S) == [i \in Slots |-> IF F[i].owner \in S
                                    THEN [owner |-> "none", up |-> TRUE] ELSE F[i]]

\* The peers S go, and their slots are vacant.
LEMMA WiredFreed ==
    ASSUME NEW P \in PeerFcns, NEW F \in Ifaces, Wired(P, F), NEW S \in SUBSET Peers
    PROVE  /\ PeersLeft(P, S) \in PeerFcns /\ SlotsLeft(F, S) \in Ifaces
           /\ Wired(PeersLeft(P, S), SlotsLeft(F, S))
<1> DEFINE P2 == PeersLeft(P, S)
           F2 == SlotsLeft(F, S)
<1>1. P2 \in PeerFcns
  BY DEF PeerFcns, PeersLeft
<1>2. F2 \in Ifaces
  <2>1. [owner |-> "none", up |-> TRUE] \in Ports
    BY DEF Ports
  <2> QED  BY <2>1 DEF Ifaces, SlotsLeft
<1>3. \A q \in Peers : P2[q] # NoPeer => q \notin S /\ P2[q] = P[q]
  BY DEF PeersLeft
<1>4. \A i \in Slots : /\ F[i].owner \in S => F2[i].owner = "none"
                       /\ F[i].owner \notin S => F2[i] = F[i]
  BY DEF SlotsLeft
<1> HIDE DEF F2
<1>5. \A q \in Peers : P2[q] # NoPeer => \A i \in Slots : F2[i].owner = q <=> i = P2[q].path
  BY <1>3, <1>4, PeersAreProper DEF Wired
<1>6. \A i \in Slots : F2[i].owner \in Peers => P2[F2[i].owner] # NoPeer
  BY <1>4, PeersAreProper DEF Wired, PeersLeft
<1> HIDE DEF P2
<1>7. ASSUME NEW q \in Peers, P2[q] # NoPeer
      PROVE  F2[P2[q].path].up <=> P2[q].state # "UNRESPONSIVE"
  <2>1. P[q].path \in Slots /\ F[P[q].path].owner = q
    BY <1>3, <1>7, PeersAreProper DEF Wired, Peerings
  <2> QED  BY <1>3, <1>4, <1>7, <2>1 DEF Wired
<1>8. Wired(P2, F2)
  BY <1>5, <1>6, <1>7 DEF Wired
<1> QED  BY <1>1, <1>2, <1>8 DEF P2, F2

\* Two peers change their slots, and each takes over the path of the other.
LEMMA WiredSwapped ==
    ASSUME NEW P \in PeerFcns, NEW F \in Ifaces, Wired(P, F),
           NEW p \in Peers, NEW q \in Peers, p # q, P[p] # NoPeer, P[q] # NoPeer,
           NEW r \in Peerings, r.path = P[q].path, r.state = P[p].state,
           NEW s \in Peerings, s.path = P[p].path, s.state = P[q].state,
           NEW P2, P2[p] = r, P2[q] = s, \A x \in Peers : x \notin {p, q} => P2[x] = P[x],
           NEW F2, F2[P[p].path] = F[P[q].path], F2[P[q].path] = F[P[p].path],
           \A i \in Slots : i \notin {P[p].path, P[q].path} => F2[i] = F[i]
    PROVE  Wired(P2, F2)
<1>1. P2[p] = r /\ P2[q] = s /\ \A x \in Peers : x \notin {p, q} => P2[x] = P[x]
  OBVIOUS
<1>2. PICK a \in Slots, b \in Slots : a = P[p].path /\ b = P[q].path
  BY PeersAreProper DEF Peerings
<1>3. \A i \in Slots : /\ F[i].owner = p <=> i = a
                       /\ F[i].owner = q <=> i = b
  BY <1>2 DEF Wired
<1>4. a # b
  BY <1>3
<1>5. F2[a] = F[b] /\ F2[b] = F[a] /\ \A i \in Slots : i \notin {a, b} => F2[i] = F[i]
  BY <1>2
<1>6. r # NoPeer /\ s # NoPeer
  BY PeersAreProper
<1>7. \A x \in Peers : x \notin {p, q} /\ P[x] # NoPeer => P[x].path \in Slots \ {a, b}
  BY <1>3, PeersAreProper DEF Wired, Peerings
<1>8. ASSUME NEW x \in Peers, P2[x] # NoPeer
      PROVE  \A i \in Slots : F2[i].owner = x <=> i = P2[x].path
  <2>1. CASE x = p
    BY <1>1, <1>2, <1>3, <1>4, <1>5, <2>1
  <2>2. CASE x = q
    BY <1>1, <1>2, <1>3, <1>4, <1>5, <2>2
  <2>3. CASE x \notin {p, q}
    BY <1>1, <1>3, <1>5, <1>7, <1>8, <2>3 DEF Wired
  <2> QED  BY <2>1, <2>2, <2>3
<1>9. \A i \in Slots : F2[i].owner \in Peers => P2[F2[i].owner] # NoPeer
  BY <1>1, <1>3, <1>5, <1>6 DEF Wired
<1>10. ASSUME NEW x \in Peers, P2[x] # NoPeer
      PROVE  F2[P2[x].path].up <=> P2[x].state # "UNRESPONSIVE"
  <2>1. CASE x = p
    BY <1>1, <1>2, <1>5, <2>1 DEF Wired
  <2>2. CASE x = q
    BY <1>1, <1>2, <1>5, <2>2 DEF Wired
  <2>3. CASE x \notin {p, q}
    BY <1>1, <1>5, <1>7, <1>10, <2>3 DEF Wired
  <2> QED  BY <2>1, <2>2, <2>3
<1> QED  BY <1>8, <1>9, <1>10 DEF Wired
-----------------------------------------------------------------------------
\* Two living peers have different paths.
LEMMA PathsDiffer ==
    ASSUME NEW P \in PeerFcns, NEW F, Wired(P, F), NEW p \in Peers, NEW q \in Peers,
           P[p] # NoPeer, P[q] # NoPeer, P[p].path = P[q].path
    PROVE  p = q
<1>1. P[p].path \in Slots
  BY PeersAreProper DEF Peerings
<1> QED  BY <1>1 DEF Wired

\* Announced peers keep their path and key, and their state or one in which they are presentable.
LEMMA InformedStill ==
    ASSUME NEW P, NEW K, NEW D, NEW G, Informed(P, K, D, G), NEW P2,
           \A p \in D : /\ P2[p] # NoPeer /\ P2[p].path = P[p].path /\ P2[p].key = P[p].key
                        /\ P2[p].state = P[p].state \/ Presentable(P2[p].state)
    PROVE  Informed(P2, K, D, G)
<1>1. \A p \in D : P2[p] # NoPeer /\ Presentable(P2[p].state)
  BY DEF Informed
<1>2. \A i \in Slots \ G : CurrentAt(P2, K, D, i)
  BY DEF Informed, CurrentAt
<1> QED  BY <1>1, <1>2 DEF Informed

\* A peer is announced.
LEMMA InformedMore ==
    ASSUME NEW P \in PeerFcns, NEW F, Wired(P, F), NEW D \in SUBSET Peers, NEW K, NEW G,
           Informed(P, K, D, G), NEW p \in Peers, P[p] # NoPeer,
           Presentable(P[p].state),
           NEW K2, K2[P[p].path] = IF K[P[p].path] = NoKey THEN P[p].key ELSE K[P[p].path],
           \A i \in Slots : i # P[p].path => K2[i] = K[i]
    PROVE  Informed(P, K2, D \cup {p}, G)
<1>1. ASSUME NEW i \in Slots \ G PROVE CurrentAt(P, K2, D \cup {p}, i)
  <2>1. CurrentAt(P, K, D, i)
    BY DEF Informed
  <2>2. CASE i # P[p].path
    BY <2>1, <2>2 DEF CurrentAt
  <2>3. CASE i = P[p].path
    <3>1. \A q \in D : P[q].path = i => q = p
      BY <2>3, PathsDiffer DEF Informed
    <3>2. K[i] = NoKey => K2[i] = P[p].key
      BY <2>3
    <3>3. K[i] # NoKey => K2[i] = K[i] /\ p \in D /\ K[i] = P[p].key
      BY <2>1, <2>3, <3>1 DEF CurrentAt
    <3> QED  BY <2>3, <3>1, <3>2, <3>3 DEF CurrentAt
  <2> QED  BY <2>2, <2>3
<1>2. \A q \in D \cup {p} : P[q] # NoPeer /\ Presentable(P[q].state)
  BY DEF Informed
<1> QED  BY <1>1, <1>2 DEF Informed

\* The peers S are taken back, and their paths are forgotten.
LEMMA InformedLess ==
    ASSUME NEW P \in PeerFcns, NEW F, Wired(P, F), NEW D \in SUBSET Peers, NEW K, NEW G,
           Informed(P, K, D, G), NEW S \in SUBSET Peers, \A p \in S : P[p] # NoPeer,
           NEW K2, \A i \in Slots : K2[i] = IF \E p \in S : P[p].path = i THEN NoKey ELSE K[i],
           NEW G2, G2 = {i \in G : \A p \in S : P[p].path # i}
    PROVE  Informed(P, K2, D \ S, G2)
<1>1. ASSUME NEW i \in Slots \ G2 PROVE CurrentAt(P, K2, D \ S, i)
  <2>1. CASE \E p \in S : P[p].path = i
    <3>1. \A q \in D \ S : P[q].path # i
      BY <2>1, PathsDiffer DEF Informed
    <3> QED  BY <2>1, <3>1 DEF CurrentAt
  <2>2. CASE ~ \E p \in S : P[p].path = i
    <3>1. K2[i] = K[i] /\ CurrentAt(P, K, D, i)
      BY <2>2 DEF Informed
    <3> QED  BY <2>2, <3>1 DEF CurrentAt
  <2> QED  BY <2>1, <2>2
<1>2. \A q \in D \ S : P[q] # NoPeer /\ Presentable(P[q].state)
  BY DEF Informed
<1>3. G2 = {} \/ AcceptBeacons
  BY DEF Informed
<1> QED  BY <1>1, <1>2, <1>3 DEF Informed

-----------------------------------------------------------------------------
\* The parts of a table.
LEMMA Parts ==
    ASSUME NEW T \in Tables
    PROVE  /\ T.peer \in PeerFcns /\ T.map \in Seq(Peers) /\ T.iface \in Ifaces
           /\ T.known \in [Slots -> Keys \cup {NoKey}] /\ T.stale \in BOOLEAN
           /\ T.failed \in {"no", "sendPeer", "addInterface", "closeInterface", "freeAlloc"}
           /\ T.told \in SUBSET Peers /\ T.stray \in SUBSET Slots
BY DEF Tables

\* A table with other peers...
LEMMA ChangePeers ==
    ASSUME NEW T \in Tables, NEW P \in PeerFcns, NEW R, R = [T EXCEPT !.peer = P]
    PROVE  /\ R \in Tables
           /\ R.peer = P /\ R.map = T.map /\ R.iface = T.iface /\ R.known = T.known
           /\ R.failed = T.failed /\ R.stale = T.stale /\ R.told = T.told /\ R.stray = T.stray
BY DEF Tables

\* ...or other slots.
LEMMA ChangeSlots ==
    ASSUME NEW T \in Tables, NEW F \in Ifaces, NEW R, R = [T EXCEPT !.iface = F]
    PROVE  /\ R \in Tables
           /\ R.peer = T.peer /\ R.map = T.map /\ R.iface = F /\ R.known = T.known
           /\ R.failed = T.failed /\ R.stale = T.stale /\ R.told = T.told /\ R.stray = T.stray
BY DEF Tables

\* After a failure nothing is asked of what was announced.
LEMMA FailureKeeps ==
    ASSUME NEW T, Good(T), NEW R \in Tables, R.peer = T.peer, R.map = T.map, R.iface = T.iface,
           R.failed # "no"
    PROVE  Good(R)
BY DEF Good, Spare, UpToDate

\* The table T with r for peer p.
WithPeer(T, p, r) == [T EXCEPT !.peer = [T.peer EXCEPT ![p] = r]]

\* A living peer changes, but not its key, its path and its state.
LEMMA QuietChange ==
    ASSUME NEW T, Good(T), NEW p \in Peers, T.peer[p] # NoPeer,
           NEW r \in Peerings, r.path = T.peer[p].path, r.key = T.peer[p].key,
           r.state = T.peer[p].state
    PROVE  /\ Good(WithPeer(T, p, r))
           /\ WithPeer(T, p, r).peer[p] = r /\ r # NoPeer
           /\ WithPeer(T, p, r).failed = T.failed /\ WithPeer(T, p, r).told = T.told
<1>1. T \in Tables /\ T.peer \in PeerFcns /\ T.told \in SUBSET Peers /\ Wired(T.peer, T.iface)
  BY Parts DEF Good
<1>2. PICK P : P = [T.peer EXCEPT ![p] = r]
  OBVIOUS
<1>3. P \in PeerFcns /\ Wired(P, T.iface)
  BY <1>1, <1>2, WiredQuietly
<1>4. r # NoPeer
  BY PeersAreProper
<1>5. P[p] = r /\ \A q \in Peers : q # p => P[q] = T.peer[q]
  BY <1>1, <1>2 DEF PeerFcns
<1>6. PICK R : R = WithPeer(T, p, r)
  OBVIOUS
<1>7. /\ R \in Tables
      /\ R.peer = P /\ R.map = T.map /\ R.iface = T.iface /\ R.known = T.known
      /\ R.failed = T.failed /\ R.told = T.told /\ R.stray = T.stray
  <2>1. R = [T EXCEPT !.peer = P]
    BY <1>2, <1>6 DEF WithPeer
  <2> QED  BY <1>1, <1>3, <2>1, ChangePeers
<1>8. Mapped(R.peer, R.map)
  BY <1>4, <1>5, <1>7 DEF Good, Mapped, Tables
<1>9. UpToDate(R)
  <2>1. SUFFICES ASSUME T.failed = "no" PROVE Informed(P, T.known, T.told, T.stray)
    BY <1>7 DEF UpToDate
  <2>2. Informed(T.peer, T.known, T.told, T.stray)
    BY <2>1 DEF Good, UpToDate
  <2>3. ASSUME NEW q \in T.told
        PROVE  /\ P[q] # NoPeer /\ P[q].path = T.peer[q].path /\ P[q].key = T.peer[q].key
               /\ P[q].state = T.peer[q].state
    <3>1. q \in Peers /\ T.peer[q] # NoPeer
      BY <1>1, <2>2 DEF Informed
    <3> QED  BY <1>4, <1>5, <3>1
  <2> QED  BY <2>2, <2>3, InformedStill
<1>10. Good(R)
  BY <1>3, <1>7, <1>8, <1>9 DEF Good, Spare
<1> QED  BY <1>4, <1>5, <1>6, <1>7, <1>10

\* sendPing keeps everything in order.
LEMMA SendPingKeeps ==
    ASSUME NEW T, Good(T), NEW p \in Peers, T.peer[p] # NoPeer
    PROVE  /\ Good(SendPing(T, p))
           /\ SendPing(T, p).peer[p] # NoPeer
           /\ SendPing(T, p).peer[p].path = T.peer[p].path
           /\ SendPing(T, p).peer[p].state = T.peer[p].state
<1> DEFINE c == (T.peer[p].pingCount + 1) % PingSkip
<1>1. T \in Tables /\ T.peer \in PeerFcns /\ T.peer[p] \in Peerings
  BY Parts, PeersAreProper DEF Good
<1>2. c \in Nat
  BY <1>1, PeerTableAssumption DEF Peerings
<1>3. PICK r : r = [T.peer[p] EXCEPT !.pingCount = c, !.ping = TRUE]
  OBVIOUS
<1>4. SendPing(T, p) = WithPeer(T, p, r)
  BY <1>1, <1>3 DEF SendPing, WithPeer, Tables, PeerFcns, Peerings
<1> HIDE DEF c
<1>5. r \in Peerings /\ r.path = T.peer[p].path /\ r.key = T.peer[p].key /\ r.state = T.peer[p].state
  BY <1>1, <1>2, <1>3 DEF Peerings
<1>6. Good(WithPeer(T, p, r)) /\ WithPeer(T, p, r).peer[p] = r /\ r # NoPeer
  BY <1>5, QuietChange
<1> QED  BY <1>4, <1>5, <1>6

\* sendPeer of PEER: the pathfinder has the peer at its path, and had no other there.
LEMMA AnnounceKeeps ==
    ASSUME NEW T, Good(T), NEW p \in Peers, T.peer[p] # NoPeer,
           Presentable(T.peer[p].state),
           NEW R, R = Announce(T, p)
    PROVE  Good(R) /\ R.peer = T.peer
<1>1. /\ T \in Tables /\ T.peer \in PeerFcns /\ T.peer[p] \in Peerings
      /\ T.known \in [Slots -> Keys \cup {NoKey}]
      /\ T.told \in SUBSET Peers /\ T.stray \in SUBSET Slots /\ Wired(T.peer, T.iface)
  BY Parts, PeersAreProper DEF Good
<1>2. PICK D \in SUBSET Peers : D = T.told \cup {p}
  BY <1>1
<1>3. CASE T.peer[p].version = Unknown
  <2>1. R = [T EXCEPT !.failed = "sendPeer", !.told = D]
    BY <1>1, <1>2, <1>3 DEF Announce, SendPeer, Tables
  <2>2. /\ R \in Tables /\ R.peer = T.peer /\ R.map = T.map /\ R.iface = T.iface
        /\ R.failed = "sendPeer"
    BY <1>1, <1>2, <2>1 DEF Tables
  <2>3. R.failed # "no"
    BY <2>2
  <2> QED  BY <2>2, <2>3, FailureKeeps
<1>4. CASE T.peer[p].version # Unknown
  <2>1. PICK a \in Slots, key \in Keys : a = T.peer[p].path /\ key = T.peer[p].key
    BY <1>1 DEF Peerings
  <2>2. PICK K : K = [T.known EXCEPT ![a] = IF T.known[a] = NoKey THEN key ELSE T.known[a]]
    OBVIOUS
  <2>3. /\ K \in [Slots -> Keys \cup {NoKey}]
        /\ K[a] = IF T.known[a] = NoKey THEN key ELSE T.known[a]
        /\ \A i \in Slots : i # a => K[i] = T.known[i]
    BY <1>1, <2>1, <2>2
  <2>4. R = [T EXCEPT !.known = K, !.told = D, !.stray = T.stray]
    BY <1>1, <1>2, <1>4, <2>1, <2>2 DEF Announce, SendPeer, PathfinderPeer, Tables
  <2>5. /\ R \in Tables
        /\ R.peer = T.peer /\ R.map = T.map /\ R.iface = T.iface /\ R.known = K
        /\ R.failed = T.failed /\ R.told = D /\ R.stray = T.stray
    BY <1>1, <2>3, <2>4 DEF Tables
  <2>6. UpToDate(R)
    <3>1. SUFFICES ASSUME T.failed = "no" PROVE Informed(T.peer, K, D, T.stray)
      BY <2>5 DEF UpToDate
    <3>2. Informed(T.peer, T.known, T.told, T.stray)
      BY <3>1 DEF Good, UpToDate
    <3>3. PICK P \in PeerFcns, B \in SUBSET Peers : P = T.peer /\ B = T.told
      BY <1>1
    <3>4. /\ Wired(P, T.iface) /\ Informed(P, T.known, B, T.stray) /\ P[p] # NoPeer
          /\ Presentable(P[p].state)
          /\ K[P[p].path] = IF T.known[P[p].path] = NoKey THEN P[p].key ELSE T.known[P[p].path]
          /\ \A i \in Slots : i # P[p].path => K[i] = T.known[i]
      BY <1>1, <2>1, <2>3, <3>2, <3>3
    <3>5. Informed(P, K, B \cup {p}, T.stray)
      BY <3>4, InformedMore
    <3> QED  BY <1>2, <3>3, <3>5
  <2>7. Good(R)
    BY <2>5, <2>6 DEF Good, Spare
  <2> QED  BY <2>5, <2>7
<1> QED  BY <1>3, <1>4

\* sendPeer of PEER_GONE: the pathfinder has nothing at the path any more.
LEMMA WithdrawKeeps ==
    ASSUME NEW T, Good(T), NEW p \in Peers, T.peer[p] # NoPeer,
           NEW R, R = Withdraw(T, p)
    PROVE  Good(R) /\ R.peer = T.peer /\ p \notin R.told
<1>1. /\ T \in Tables /\ T.peer \in PeerFcns /\ T.known \in [Slots -> Keys \cup {NoKey}]
      /\ T.told \in SUBSET Peers /\ T.stray \in SUBSET Slots /\ Wired(T.peer, T.iface)
  BY Parts DEF Good
<1>2. PICK a : a = T.peer[p].path
  OBVIOUS
<1>3. PICK K : K = [T.known EXCEPT ![a] = NoKey]
  OBVIOUS
<1>4. /\ K \in [Slots -> Keys \cup {NoKey}]
      /\ \A i \in Slots : K[i] = IF i = a THEN NoKey ELSE T.known[i]
  BY <1>1, <1>3
<1>5. PICK D \in SUBSET Peers, G \in SUBSET Slots : D = T.told \ {p} /\ G = T.stray \ {a}
  BY <1>1
<1>6. R = [T EXCEPT !.known = K, !.told = D, !.stray = G]
  BY <1>1, <1>2, <1>3, <1>5 DEF Withdraw, SendPeerGone, PathfinderPeerGone, Tables
<1>7. /\ R \in Tables
      /\ R.peer = T.peer /\ R.map = T.map /\ R.iface = T.iface /\ R.known = K
      /\ R.failed = T.failed /\ R.told = D /\ R.stray = G
  BY <1>1, <1>4, <1>6 DEF Tables
<1>8. UpToDate(R)
  <2>1. SUFFICES ASSUME T.failed = "no" PROVE Informed(T.peer, K, D, G)
    BY <1>7 DEF UpToDate
  <2>2. Informed(T.peer, T.known, T.told, T.stray)
    BY <2>1 DEF Good, UpToDate
  <2>3. PICK P \in PeerFcns, B \in SUBSET Peers, S \in SUBSET Peers :
            P = T.peer /\ B = T.told /\ S = {p}
    BY <1>1
  <2>4. /\ Wired(P, T.iface) /\ Informed(P, T.known, B, T.stray) /\ \A q \in S : P[q] # NoPeer
        /\ \A i \in Slots : K[i] = IF \E q \in S : P[q].path = i THEN NoKey ELSE T.known[i]
        /\ G = {i \in T.stray : \A q \in S : P[q].path # i}
    BY <1>1, <1>2, <1>4, <1>5, <2>2, <2>3
  <2>5. Informed(P, K, B \ S, G)
    BY <2>4, InformedLess
  <2> QED  BY <1>5, <2>3, <2>5
<1>9. Good(R)
  BY <1>7, <1>8 DEF Good, Spare
<1> QED  BY <1>5, <1>7, <1>9

\* The table T with another state of peer p and of its slot.
WithState(T, p, st) ==
    SetInterfaceState([T EXCEPT !.peer[p].state = st], p, st # "UNRESPONSIVE")

\* The state of a peer changes, and with it the state of its slot; an announced peer
\* stays presentable.
LEMMA StateKeeps ==
    ASSUME NEW T, Good(T), NEW p \in Peers, T.peer[p] # NoPeer,
           NEW st \in {"INIT", "HANDSHAKE", "ESTABLISHED", "UNRESPONSIVE"},
           T.failed = "no" /\ p \in T.told => Presentable(st),
           NEW R, R = WithState(T, p, st)
    PROVE  /\ Good(R)
           /\ R.peer[p] # NoPeer /\ R.peer[p].path = T.peer[p].path
           /\ R.failed = T.failed /\ R.told = T.told
<1>1. /\ T \in Tables /\ T.peer \in PeerFcns /\ T.peer[p] \in Peerings /\ T.iface \in Ifaces
      /\ Wired(T.peer, T.iface) /\ T.told \in SUBSET Peers
  BY Parts, PeersAreProper DEF Good
<1>2. PICK u \in BOOLEAN : u = (st # "UNRESPONSIVE")
  OBVIOUS
<1>3. PICK r : r = [T.peer[p] EXCEPT !.state = st]
  OBVIOUS
<1>4. r \in Peerings /\ r.path = T.peer[p].path /\ r.key = T.peer[p].key /\ r.state = st
  BY <1>1, <1>3 DEF Peerings
<1>5. PICK P : P = [T.peer EXCEPT ![p] = r]
  OBVIOUS
<1>6. PICK F : F = [T.iface EXCEPT ![r.path].up = u]
  OBVIOUS
<1>7. P \in PeerFcns /\ F \in Ifaces /\ Wired(P, F)
  BY <1>2, <1>1, <1>4, <1>5, <1>6, WiredState
<1>8. PICK A : A = [T EXCEPT !.peer = P]
  OBVIOUS
<1>9. /\ A \in Tables /\ A.peer = P /\ A.map = T.map /\ A.iface = T.iface /\ A.known = T.known
      /\ A.failed = T.failed /\ A.told = T.told /\ A.stray = T.stray
  BY <1>1, <1>7, <1>8, ChangePeers
<1>10. A = [T EXCEPT !.peer[p].state = st]
  BY <1>1, <1>3, <1>5, <1>8 DEF Tables, PeerFcns, Peerings
<1>11. SlotOf(A, p) = r.path
  BY <1>1, <1>4, <1>9, SlotOfIsPath
<1>12. R = [A EXCEPT !.iface = F]
  BY <1>2, <1>6, <1>9, <1>10, <1>11 DEF WithState, SetInterfaceState, Tables
<1>13. /\ R \in Tables /\ R.peer = P /\ R.map = T.map /\ R.iface = F /\ R.known = T.known
       /\ R.failed = T.failed /\ R.told = T.told /\ R.stray = T.stray
  BY <1>7, <1>9, <1>12, ChangeSlots
<1>14. r # NoPeer
  BY <1>4, PeersAreProper
<1>15. P[p] = r /\ \A q \in Peers : q # p => P[q] = T.peer[q]
  BY <1>1, <1>5 DEF PeerFcns
<1>16. Mapped(R.peer, R.map)
  BY <1>13, <1>14, <1>15 DEF Good, Mapped, Tables
<1>17. NInterfaces \in Slots /\ r.path \in Slots
  BY <1>4, PeerTableAssumption DEF Slots, Peerings
<1>18. F[NInterfaces].owner = T.iface[NInterfaces].owner
  BY <1>1, <1>6, <1>17 DEF Ifaces, Ports
<1>19. UpToDate(R)
  <2>1. SUFFICES ASSUME T.failed = "no" PROVE Informed(P, T.known, T.told, T.stray)
    BY <1>13 DEF UpToDate
  <2>2. Informed(T.peer, T.known, T.told, T.stray)
    BY <2>1 DEF Good, UpToDate
  <2>3. ASSUME NEW q \in T.told
        PROVE  /\ P[q] # NoPeer /\ P[q].path = T.peer[q].path /\ P[q].key = T.peer[q].key
               /\ P[q].state = T.peer[q].state \/ Presentable(P[q].state)
    <3>1. q \in Peers /\ T.peer[q] # NoPeer
      BY <1>1, <2>2 DEF Informed
    <3> QED  BY <1>4, <1>14, <1>15, <2>1, <3>1
  <2> QED  BY <2>2, <2>3, InformedStill
<1>20. Good(R)
  BY <1>7, <1>13, <1>16, <1>18, <1>19 DEF Good, Spare
<1> QED  BY <1>4, <1>13, <1>14, <1>15, <1>20

\* Map_put adds p or puts it in the place of another.
LEMMA MapPutKeeps ==
    ASSUME NEW T, T.map \in Seq(Peers), NEW p \in Peers, NEW addr
    PROVE  /\ MapPut(T, p, addr) \in Seq(Peers)
           /\ \A n \in DOMAIN MapPut(T, p, addr) :
                  \/ MapPut(T, p, addr)[n] = p
                  \/ n \in DOMAIN T.map /\ MapPut(T, p, addr)[n] = T.map[n]
<1> DEFINE at == {n \in DOMAIN T.map : T.peer[T.map[n]].addr = addr}
<1>1. PICK M \in Seq(Peers) : M = T.map
  OBVIOUS
<1>2. CASE at = {}
  <2>1. MapPut(T, p, addr) = Append(M, p)
    BY <1>1, <1>2 DEF MapPut
  <2> QED  BY <1>1, <2>1
<1>3. CASE at # {}
  <2>1. MapPut(T, p, addr) = [n \in DOMAIN M |-> IF n \in at THEN p ELSE M[n]]
    BY <1>1, <1>3 DEF MapPut
  <2> HIDE DEF at
  <2>2. PICK R : R = MapPut(T, p, addr)
    OBVIOUS
  <2>3. DOMAIN M = 1 .. Len(M) /\ Len(M) \in Nat
    OBVIOUS
  <2>4. R = [n \in 1 .. Len(M) |-> IF n \in at THEN p ELSE M[n]]
    BY <2>1, <2>2, <2>3
  <2>5. R \in Seq(Peers)
    BY <2>3, <2>4
  <2>6. \A n \in DOMAIN R : R[n] = p \/ (n \in DOMAIN M /\ R[n] = M[n])
    BY <2>3, <2>4
  <2> QED  BY <1>1, <2>2, <2>5, <2>6
<1> QED  BY <1>2, <1>3

\* addInterface finds a slot.
LEMMA VacantSlotIsVacant ==
    ASSUME NEW T, Spare(T), T.failed = "no"
    PROVE  VacantSlot(T) \in Slots /\ T.iface[VacantSlot(T)].owner = "none"
<1> DEFINE S == {i \in Slots : T.iface[i].owner = "none"}
<1>1. S \in SUBSET Nat
  BY PeerTableAssumption DEF Slots
<1>2. NInterfaces \in S
  BY PeerTableAssumption DEF Slots, Spare
<1>3. Min(S) \in S
  <2> HIDE DEF S
  <2> QED  BY <1>1, <1>2, MinIsOne
<1>4. VacantSlot(T) \in S
  BY <1>3 DEF VacantSlot
<1> QED  BY <1>4

\* A new peer gets a vacant slot, which is its path.
LEMMA AddPeerKeeps ==
    ASSUME NEW T, Good(T), T.failed = "no", NEW p \in Peers, T.peer[p] = NoPeer,
           NEW addr \in Addrs, NEW key \in Keys, NEW incoming \in BOOLEAN,
           NEW version \in Versions \cup {Unknown},
           NEW R, R = AddPeer(T, p, addr, key, incoming, version)
    PROVE  Good(R) /\ R.peer[p] # NoPeer /\ R.peer[p].state = "INIT"
<1>1. /\ T \in Tables /\ T.peer \in PeerFcns /\ T.iface \in Ifaces /\ T.map \in Seq(Peers)
      /\ Wired(T.peer, T.iface) /\ T.told \in SUBSET Peers
  BY Parts DEF Good
<1>2. PICK a : a = VacantSlot(T)
  OBVIOUS
<1>3. a \in Slots /\ T.iface[a].owner = "none"
  BY <1>2, VacantSlotIsVacant DEF Good
<1>4. PICK r : r = NewPeer(addr, key, incoming, version, a)
  OBVIOUS
<1>5. r \in Peerings /\ r.path = a /\ r.state = "INIT"
  <2>1. PingAfter \in Nat
    BY PeerTableAssumption
  <2> QED  BY <1>3, <1>4, <2>1 DEF NewPeer, Peerings
<1>6. r # NoPeer /\ r.state # "UNRESPONSIVE"
  BY <1>5, PeersAreProper
<1>7. PICK P : P = [T.peer EXCEPT ![p] = r]
  OBVIOUS
<1>8. PICK F : F = [T.iface EXCEPT ![a] = [owner |-> p, up |-> TRUE]]
  OBVIOUS
<1>9. P \in PeerFcns /\ F \in Ifaces /\ Wired(P, F)
  BY <1>1, <1>3, <1>5, <1>6, <1>7, <1>8, WiredAdded
<1>10. P[p] = r /\ \A q \in Peers : q # p => P[q] = T.peer[q]
  BY <1>1, <1>7 DEF PeerFcns
<1>11. PICK M : M = MapPut(T, p, addr)
  OBVIOUS
<1>12. M \in Seq(Peers) /\ \A n \in DOMAIN M : M[n] = p \/ (n \in DOMAIN T.map /\ M[n] = T.map[n])
  BY <1>1, <1>11, MapPutKeeps
<1>13. PICK f : f = IF a = NInterfaces THEN "addInterface" ELSE T.failed
  OBVIOUS
<1>14. R = [T EXCEPT !.iface = F, !.failed = f, !.peer = P, !.map = M]
  BY <1>1, <1>2, <1>4, <1>7, <1>8, <1>11, <1>13 DEF AddPeer, AddInterface, Tables
<1>15. /\ R \in Tables
       /\ R.peer = P /\ R.map = M /\ R.iface = F /\ R.known = T.known /\ R.failed = f
       /\ R.told = T.told /\ R.stray = T.stray
  BY <1>1, <1>9, <1>12, <1>13, <1>14 DEF Tables
<1>16. Mapped(P, M)
  BY <1>6, <1>10, <1>12, <1>1 DEF Good, Mapped
<1>17. NInterfaces \in Slots
  BY PeerTableAssumption DEF Slots
<1>18. f = "no" => F[NInterfaces].owner = "none"
  BY <1>1, <1>8, <1>13, <1>17 DEF Good, Spare, Ifaces
<1>19. Informed(T.peer, T.known, T.told, T.stray)
  BY DEF Good, UpToDate
<1>20. \A q \in T.told : q \in Peers /\ q # p /\ P[q] = T.peer[q] /\ P[q] # NoPeer
  BY <1>1, <1>10, <1>19 DEF Informed
<1>21. Informed(P, T.known, T.told, T.stray)
  BY <1>19, <1>20, InformedStill
<1>22. Good(R)
  BY <1>9, <1>15, <1>16, <1>18, <1>21 DEF Good, Spare, UpToDate
<1> QED  BY <1>5, <1>6, <1>10, <1>15, <1>22

\* What is left when the peers S have gone.
LEMMA FreePeersParts ==
    ASSUME NEW T \in Tables, NEW S \in SUBSET Peers, NEW R, R = FreePeers(T, S)
    PROVE  /\ R.peer = PeersLeft(T.peer, S)
           /\ R.iface = SlotsLeft(T.iface, S)
           /\ R.map \in Seq(Peers)
           /\ \A n \in DOMAIN R.map : R.map[n] \notin S /\ \E m \in DOMAIN T.map : T.map[m] = R.map[n]
           /\ R.known \in [Slots -> Keys \cup {NoKey}]
           /\ \A i \in Slots : R.known[i] = IF \E p \in S : T.peer[p].path = i
                                           THEN NoKey ELSE T.known[i]
           /\ R.told = T.told \ S
           /\ R.stray = {i \in T.stray : \A p \in S : T.peer[p].path # i}
           /\ R.failed = T.failed \/ R.failed = "closeInterface"
           /\ R.peer \in PeerFcns /\ R.iface \in Ifaces => R \in Tables
<1>1. T.map \in Seq(Peers) /\ T.known \in [Slots -> Keys \cup {NoKey}] /\ T.stale \in BOOLEAN
      /\ T.failed \in {"no", "sendPeer", "addInterface", "closeInterface", "freeAlloc"}
  BY Parts
<1>2. R.peer = PeersLeft(T.peer, S)
  BY DEF FreePeers, PeersLeft
<1>3. R.iface = SlotsLeft(T.iface, S)
  BY DEF FreePeers, RemoveInterface, SlotsLeft, Tables
<1>4. R.map = Without(T.map, S)
  BY DEF FreePeers
<1>5. PICK Q : Q = {p \in Peers : p \notin S /\ \E m \in DOMAIN T.map : T.map[m] = p}
  OBVIOUS
<1>6. R.map \in Seq(Q)
  BY <1>1, <1>4, <1>5, WithoutKeeps
<1>7. /\ R.map \in Seq(Peers)
      /\ \A n \in DOMAIN R.map : R.map[n] \in Q
  <2>1. Q \subseteq Peers
    BY <1>5
  <2>2. PICK M \in Seq(Q) : M = R.map
    BY <1>6
  <2>3. M \in Seq(Peers)
    BY <2>1, <2>2
  <2>4. \A n \in DOMAIN M : M[n] \in Q
    BY <2>2
  <2> QED  BY <2>2, <2>3, <2>4
<1>8. \A n \in DOMAIN R.map : R.map[n] \notin S /\ \E m \in DOMAIN T.map : T.map[m] = R.map[n]
  BY <1>5, <1>7
<1>9. R.known = [i \in Slots |-> IF \E p \in S : T.peer[p].path = i THEN NoKey ELSE T.known[i]]
  BY DEF FreePeers
<1>10. /\ R.known \in [Slots -> Keys \cup {NoKey}]
       /\ \A i \in Slots : R.known[i] = IF \E p \in S : T.peer[p].path = i
                                       THEN NoKey ELSE T.known[i]
  BY <1>1, <1>9
<1>11. R.failed = T.failed \/ R.failed = "closeInterface"
  BY DEF FreePeers
<1>12. /\ R.stale \in BOOLEAN /\ R.told = T.told \ S
       /\ R.stray = {i \in T.stray : \A p \in S : T.peer[p].path # i}
  BY DEF FreePeers
<1>13. R.peer \in PeerFcns /\ R.iface \in Ifaces => R \in Tables
  <2>1. R = [peer |-> R.peer, map |-> R.map, iface |-> R.iface, known |-> R.known,
             failed |-> R.failed, stale |-> R.stale, told |-> R.told, stray |-> R.stray]
    BY DEF FreePeers
  <2>2. R.told \in SUBSET Peers /\ R.stray \in SUBSET Slots
    BY <1>12, Parts
  <2> QED  BY <1>1, <1>7, <1>10, <1>11, <1>12, <2>1, <2>2 DEF Tables
<1> QED  BY <1>2, <1>3, <1>7, <1>8, <1>10, <1>11, <1>12, <1>13

\* The peers S go, and the pathfinder knows it.
LEMMA FreePeersKeeps ==
    ASSUME NEW T, Good(T), NEW S \in SUBSET Peers, \A p \in S : T.peer[p] # NoPeer
    PROVE  Good(FreePeers(T, S))
<1>1. /\ T \in Tables /\ T.peer \in PeerFcns /\ T.iface \in Ifaces /\ T.map \in Seq(Peers)
      /\ Wired(T.peer, T.iface) /\ T.told \in SUBSET Peers
  BY Parts DEF Good
<1>2. PICK R : R = FreePeers(T, S)
  OBVIOUS
<1>3. /\ R.peer = PeersLeft(T.peer, S)
      /\ R.iface = SlotsLeft(T.iface, S)
  BY <1>1, <1>2, FreePeersParts
<1>4. R.map \in Seq(Peers)
      /\ \A n \in DOMAIN R.map : R.map[n] \notin S /\ \E m \in DOMAIN T.map : T.map[m] = R.map[n]
  BY <1>1, <1>2, FreePeersParts
<1>5. /\ \A i \in Slots : R.known[i] = IF \E p \in S : T.peer[p].path = i
                                      THEN NoKey ELSE T.known[i]
      /\ R.told = T.told \ S
      /\ R.stray = {i \in T.stray : \A p \in S : T.peer[p].path # i}
  BY <1>1, <1>2, FreePeersParts
<1>6. R.failed = T.failed \/ R.failed = "closeInterface"
  BY <1>1, <1>2, FreePeersParts
<1>7. R.peer \in PeerFcns /\ R.iface \in Ifaces /\ Wired(R.peer, R.iface)
  BY <1>1, <1>3, WiredFreed
<1>8. R \in Tables
  BY <1>1, <1>2, <1>7, FreePeersParts
<1>9. \A p \in Peers : p \notin S => R.peer[p] = T.peer[p]
  BY <1>3 DEF PeersLeft
<1>10. Mapped(R.peer, R.map)
  BY <1>1, <1>4, <1>9 DEF Good, Mapped
<1>11. Spare(R)
  <2>1. NInterfaces \in Slots
    BY PeerTableAssumption DEF Slots
  <2>2. T.iface[NInterfaces].owner = "none" => R.iface[NInterfaces].owner = "none"
    BY <1>3, <2>1 DEF SlotsLeft
  <2> QED  BY <1>6, <2>2 DEF Good, Spare
<1>12. UpToDate(R)
  <2>1. SUFFICES ASSUME R.failed = "no" PROVE Informed(R.peer, R.known, R.told, R.stray)
    BY DEF UpToDate
  <2>2. Informed(T.peer, T.known, T.told, T.stray)
    BY <1>6, <2>1 DEF Good, UpToDate
  <2>3. PICK P \in PeerFcns, D \in SUBSET Peers : P = T.peer /\ D = T.told
    BY <1>1
  <2>4. /\ Wired(P, T.iface) /\ Informed(P, T.known, D, T.stray) /\ \A p \in S : P[p] # NoPeer
        /\ \A i \in Slots : R.known[i] = IF \E p \in S : P[p].path = i THEN NoKey ELSE T.known[i]
        /\ R.stray = {i \in T.stray : \A p \in S : P[p].path # i}
    BY <1>1, <1>5, <2>2, <2>3
  <2>5. Informed(P, R.known, D \ S, R.stray)
    BY <2>4, InformedLess
  <2>6. \A p \in D \ S : R.peer[p] = P[p] /\ P[p] # NoPeer
    BY <1>9, <2>3, <2>4 DEF Informed
  <2>7. Informed(R.peer, R.known, D \ S, R.stray)
    BY <2>5, <2>6, InformedStill
  <2> QED  BY <1>5, <2>3, <2>7
<1>13. Good(R)
  BY <1>7, <1>8, <1>10, <1>11, <1>12 DEF Good
<1> QED  BY <1>2, <1>13

\* moveEndpointIfNeeded: all is in order, and a path that it takes from an announced peer
\* is noted; with no beacons accepted, a peer that comes here is not announced yet.
LEMMA MoveKeeps ==
    ASSUME NEW T, Good(T), NEW p \in Peers, T.peer[p] # NoPeer,
           T.failed = "no" /\ p \in T.told => AcceptBeacons,
           NEW R, R = MoveEndpointIfNeeded(T, p)
    PROVE  /\ Good(R) /\ R.peer[p] # NoPeer
           /\ R.peer[p].path = T.peer[p].path => R = T
<1> DEFINE same == {n \in DOMAIN T.map : T.map[n] # p /\ T.peer[T.map[n]].key = T.peer[p].key}
<1>1. /\ T \in Tables /\ T.peer \in PeerFcns /\ T.iface \in Ifaces /\ T.map \in Seq(Peers)
      /\ Wired(T.peer, T.iface) /\ T.told \in SUBSET Peers /\ T.stray \in SUBSET Slots
  BY Parts DEF Good
<1>2. CASE same = {}
  <2>1. R = T
    BY <1>2 DEF MoveEndpointIfNeeded
  <2> QED  BY <2>1
<1>3. CASE same # {}
  <2>1. PICK n : n = Min(same)
    OBVIOUS
  <2>2. n \in same
    <3>1. same \in SUBSET Nat
      BY <1>1
    <3> HIDE DEF same
    <3> QED  BY <1>3, <2>1, <3>1, MinIsOne
  <2>3. PICK q \in Peers : q = T.map[n]
    BY <1>1, <2>2
  <2>4. q # p /\ T.peer[q] # NoPeer
    BY <2>2, <2>3 DEF Good, Mapped
  <2>5. T.peer[p] \in Peerings /\ T.peer[q] \in Peerings
    BY <1>1, <2>4, PeersAreProper
  <2>6. PICK a \in Slots, b \in Slots : a = T.peer[p].path /\ b = T.peer[q].path
    BY <2>5 DEF Peerings
  <2>7. a # b
    BY <1>1, <2>4, <2>6 DEF Wired
  <2>8. PICK r : r = [T.peer[p] EXCEPT !.path = b, !.ping = FALSE]
    OBVIOUS
  <2>9. r \in Peerings /\ r.path = b /\ r.state = T.peer[p].state
    BY <2>5, <2>8 DEF Peerings
  <2>10. PICK s : s = [T.peer[q] EXCEPT !.path = a]
    OBVIOUS
  <2>11. s \in Peerings /\ s.path = a /\ s.state = T.peer[q].state
    BY <2>5, <2>10 DEF Peerings
  <2>12. PICK P1 \in PeerFcns : P1 = [T.peer EXCEPT ![p] = r]
    BY <1>1, <2>9 DEF PeerFcns
  <2>13. PICK P2 \in PeerFcns : P2 = [P1 EXCEPT ![q] = s]
    BY <1>1, <2>11 DEF PeerFcns
  <2>14. P1[p] = r /\ \A x \in Peers : x # p => P1[x] = T.peer[x]
    BY <1>1, <2>12 DEF PeerFcns
  <2>15. P2[q] = s /\ \A x \in Peers : x # q => P2[x] = P1[x]
    BY <2>13 DEF PeerFcns
  <2>16. PICK F \in Ifaces : F = [T.iface EXCEPT ![b] = T.iface[a], ![a] = T.iface[b]]
    BY <1>1 DEF Ifaces
  <2>17. F[a] = T.iface[b] /\ F[b] = T.iface[a] /\ \A i \in Slots : i \notin {a, b} => F[i] = T.iface[i]
    BY <1>1, <2>7, <2>16 DEF Ifaces
  <2>18. Wired(P2, F)
    <3>1. P2[p] = r /\ P2[q] = s /\ \A x \in Peers : x \notin {p, q} => P2[x] = T.peer[x]
      BY <2>4, <2>14, <2>15
    <3>2. /\ F[T.peer[p].path] = T.iface[T.peer[q].path]
          /\ F[T.peer[q].path] = T.iface[T.peer[p].path]
          /\ \A i \in Slots : i \notin {T.peer[p].path, T.peer[q].path} => F[i] = T.iface[i]
      BY <2>6, <2>17
    <3>3. r.path = T.peer[q].path /\ s.path = T.peer[p].path
      BY <2>6, <2>9, <2>11
    <3>4. PICK P \in PeerFcns, I \in Ifaces : P = T.peer /\ I = T.iface
      BY <1>1
    <3>5. Wired(P, I) /\ P[p] # NoPeer /\ P[q] # NoPeer /\ p # q
      BY <1>1, <2>4, <3>4
    <3>6. /\ r.path = P[q].path /\ s.path = P[p].path
          /\ r.state = P[p].state /\ s.state = P[q].state
      BY <2>9, <2>11, <3>3, <3>4
    <3>7. P2[p] = r /\ P2[q] = s /\ \A x \in Peers : x \notin {p, q} => P2[x] = P[x]
      BY <3>1, <3>4
    <3>8. /\ F[P[p].path] = I[P[q].path] /\ F[P[q].path] = I[P[p].path]
          /\ \A i \in Slots : i \notin {P[p].path, P[q].path} => F[i] = I[i]
      BY <3>2, <3>4
    <3>9. r \in Peerings /\ s \in Peerings
      BY <2>9, <2>11
    <3> QED  BY <3>5, <3>6, <3>7, <3>8, <3>9, WiredSwapped
  <2>19. PICK D \in SUBSET Peers, G \in SUBSET Slots :
             D = T.told \ {p} /\ G = IF p \in T.told THEN T.stray \cup {a} ELSE T.stray
    BY <1>1
  <2>20. PICK A : A = [T EXCEPT !.peer = P1, !.told = D, !.stray = G]
    OBVIOUS
  <2>21. /\ A \in Tables
         /\ A.peer = P1 /\ A.map = T.map /\ A.iface = T.iface /\ A.known = T.known
         /\ A.failed = T.failed /\ A.told = D /\ A.stray = G
    BY <1>1, <2>20 DEF Tables
  <2>22. A = [T EXCEPT !.peer[p].path = T.peer[q].path, !.peer[p].ping = FALSE,
                       !.told = @ \ {p},
                       !.stray = IF p \in T.told THEN @ \cup {T.peer[p].path} ELSE @]
    BY <1>1, <2>5, <2>6, <2>8, <2>12, <2>19, <2>20 DEF Tables, PeerFcns, Peerings
  <2>23. SlotOf(A, p) = a /\ SlotOf(A, q) = b
    BY <1>1, <2>4, <2>6, <2>21, SlotOfIsPath
  <2>24. PICK B : B = SwapInterfaces(A, q, p)
    OBVIOUS
  <2>25. B = [A EXCEPT !.iface = F]
    BY <2>16, <2>21, <2>23, <2>24 DEF SwapInterfaces, Tables
  <2>26. /\ B \in Tables
         /\ B.peer = P1 /\ B.map = T.map /\ B.iface = F /\ B.known = T.known
         /\ B.failed = T.failed /\ B.told = D /\ B.stray = G
    BY <2>21, <2>25, ChangeSlots
  <2>27. PICK S \in SUBSET Peers : S = {q}
    OBVIOUS
  <2>28. R = FreePeers(B, S)
    BY <1>3, <2>1, <2>3, <2>22, <2>24, <2>27 DEF MoveEndpointIfNeeded
  <2>29. R.peer = PeersLeft(P1, S) /\ R.iface = SlotsLeft(F, S)
    BY <2>26, <2>28, FreePeersParts
  <2>30. PeersLeft(P1, S) = PeersLeft(P2, S)
    BY <2>15, <2>27 DEF PeersLeft
  <2>31. R.peer \in PeerFcns /\ R.iface \in Ifaces /\ Wired(R.peer, R.iface)
    BY <2>18, <2>29, <2>30, WiredFreed
  <2>32. R \in Tables
    BY <2>26, <2>28, <2>31, FreePeersParts
  <2>33. \A n2 \in DOMAIN R.map : R.map[n2] \notin S /\ \E m \in DOMAIN T.map : T.map[m] = R.map[n2]
    BY <2>26, <2>28, FreePeersParts
  <2>34. /\ \A i \in Slots : R.known[i] = IF i = b THEN NoKey ELSE T.known[i]
         /\ R.told = D \ {q} /\ R.stray = G \ {b}
    <3>1. /\ \A i \in Slots : R.known[i] = IF \E x \in S : B.peer[x].path = i
                                          THEN NoKey ELSE B.known[i]
          /\ R.told = B.told \ S
          /\ R.stray = {i \in B.stray : \A x \in S : B.peer[x].path # i}
      BY <2>26, <2>28, FreePeersParts
    <3>2. B.peer[q].path = b
      BY <2>4, <2>6, <2>14, <2>26
    <3> QED  BY <2>26, <2>27, <3>1, <3>2
  <2>35. R.failed = T.failed \/ R.failed = "closeInterface"
    BY <2>26, <2>28, FreePeersParts
  <2>36. R.peer[p] = r /\ r # NoPeer /\ \A x \in Peers : x \notin {p, q} => R.peer[x] = T.peer[x]
    BY <2>4, <2>9, <2>14, <2>27, <2>29, PeersAreProper DEF PeersLeft
  <2>37. Mapped(R.peer, R.map)
    BY <1>1, <2>27, <2>33, <2>36 DEF Good, Mapped
  <2>38. Spare(R)
    <3>1. SUFFICES ASSUME R.failed = "no" PROVE R.iface[NInterfaces].owner = "none"
      BY DEF Spare
    <3>2. NInterfaces \in Slots /\ T.iface[NInterfaces].owner = "none"
      BY <2>35, <3>1, PeerTableAssumption DEF Good, Spare, Slots
    <3>3. NInterfaces \notin {a, b}
      BY <1>1, <2>4, <2>6, <3>2, PeersAreProper DEF Wired
    <3>4. F[NInterfaces].owner = "none"
      BY <2>17, <3>2, <3>3
    <3> QED  BY <2>29, <3>2, <3>4 DEF SlotsLeft
  <2>39. UpToDate(R)
    <3>1. SUFFICES ASSUME R.failed = "no" PROVE Informed(R.peer, R.known, R.told, R.stray)
      BY DEF UpToDate
    <3>2. T.failed = "no" /\ Informed(T.peer, T.known, T.told, T.stray)
      BY <2>35, <3>1 DEF Good, UpToDate
    <3>3. \A x \in R.told : /\ x \in T.told /\ R.peer[x] = T.peer[x] /\ T.peer[x] # NoPeer
                            /\ T.peer[x].path \notin {a, b}
      <4>1. ASSUME NEW x \in R.told PROVE x \in T.told /\ x \in Peers /\ x # p /\ x # q
        BY <1>1, <2>19, <2>34
      <4>2. ASSUME NEW x \in R.told PROVE T.peer[x] # NoPeer /\ T.peer[x].path \notin {a, b}
        BY <1>1, <2>4, <2>6, <3>2, <4>1, PathsDiffer DEF Informed
      <4> QED  BY <2>36, <4>1, <4>2
    <3>4. \A x \in R.told : R.peer[x] # NoPeer /\ Presentable(R.peer[x].state)
      BY <3>2, <3>3 DEF Informed
    <3>5. R.stray = {} \/ AcceptBeacons
      BY <2>19, <2>34, <3>2 DEF Informed
    <3>6. ASSUME NEW i \in Slots \ R.stray PROVE CurrentAt(R.peer, R.known, R.told, i)
      <4>1. CASE i = b
        BY <2>34, <3>3, <4>1 DEF CurrentAt
      <4>2. CASE i = a
        <5>1. p \notin T.told /\ i \notin T.stray
          BY <2>7, <2>19, <2>34, <4>2
        <5>2. CurrentAt(T.peer, T.known, T.told, i)
          BY <3>2, <5>1 DEF Informed
        <5>3. \A x \in T.told : T.peer[x].path # i
          BY <1>1, <2>6, <3>2, <4>2, <5>1, PathsDiffer DEF Informed
        <5>4. R.known[i] = NoKey
          BY <2>34, <5>2, <5>3 DEF CurrentAt
        <5> QED  BY <3>3, <4>2, <5>4 DEF CurrentAt
      <4>3. CASE i \notin {a, b}
        <5>1. i \notin T.stray /\ R.known[i] = T.known[i]
          BY <2>19, <2>34, <4>3
        <5>2. CurrentAt(T.peer, T.known, T.told, i)
          BY <3>2, <5>1 DEF Informed
        <5>3. \A x \in T.told : T.peer[x].path = i => x \in R.told
          BY <2>6, <2>19, <2>34, <4>3
        <5> QED  BY <3>3, <5>1, <5>2, <5>3 DEF CurrentAt
      <4> QED  BY <4>1, <4>2, <4>3
    <3> QED  BY <3>4, <3>5, <3>6 DEF Informed
  <2>40. Good(R)
    BY <2>31, <2>32, <2>37, <2>38, <2>39 DEF Good
  <2>41. R.peer[p].path # T.peer[p].path
    BY <2>6, <2>7, <2>9, <2>36
  <2> QED  BY <2>36, <2>40, <2>41
<1> QED  BY <1>2, <1>3

\* onPingResponse: what a pong tells goes on to the pathfinder.
LEMMA OnPingKeeps ==
    ASSUME NEW T, Good(T), NEW p \in Peers, T.peer[p] # NoPeer, NEW version \in Versions
    PROVE  Good(OnPingResponse(T, p, version))
<1>1. T \in Tables /\ T.peer \in PeerFcns /\ T.peer[p] \in Peerings
  BY Parts, PeersAreProper DEF Good
<1>2. PICK r : r = [T.peer[p] EXCEPT !.version = version]
  OBVIOUS
<1>3. r \in Peerings /\ r.path = T.peer[p].path /\ r.key = T.peer[p].key /\ r.state = T.peer[p].state
  BY <1>1, <1>2 DEF Peerings
<1>4. PICK A : A = WithPeer(T, p, r)
  OBVIOUS
<1>5. Good(A) /\ A.peer[p] = r /\ r # NoPeer
  BY <1>3, <1>4, QuietChange
<1>6. A = [T EXCEPT !.peer[p].version = version]
  BY <1>1, <1>2, <1>4 DEF WithPeer, Tables, PeerFcns, Peerings
<1>7. PICK B : B = IF T.peer[p].state = "ESTABLISHED" THEN Announce(A, p) ELSE A
  OBVIOUS
<1>8. Good(B) /\ B.peer = A.peer
  <2>1. CASE T.peer[p].state = "ESTABLISHED"
    <3>1. A.peer[p].state = "ESTABLISHED" /\ B = Announce(A, p)
      BY <1>3, <1>5, <1>7, <2>1
    <3> QED  BY <1>5, <3>1, AnnounceKeeps DEF Presentable
  <2>2. CASE T.peer[p].state # "ESTABLISHED"
    BY <1>5, <1>7, <2>2
  <2> QED  BY <2>1, <2>2
<1>9. B \in Tables /\ B.peer \in PeerFcns
  BY <1>8, Parts DEF Good
<1>10. CASE ~Compatible(version)
  <2>1. OnPingResponse(T, p, version) = A
    BY <1>6, <1>10 DEF OnPingResponse
  <2> QED  BY <1>5, <2>1
<1>11. CASE Compatible(version)
  <2>1. PICK C : C = OnPingResponse(T, p, version)
    OBVIOUS
  <2>2. C = [B EXCEPT !.peer[p].rest = 0]
    BY <1>6, <1>7, <1>11, <2>1 DEF OnPingResponse
  <2>3. PICK s : s = [r EXCEPT !.rest = 0]
    OBVIOUS
  <2>4. s \in Peerings /\ s.path = r.path /\ s.key = r.key /\ s.state = r.state
    BY <1>3, <2>3 DEF Peerings
  <2>5. B.peer[p] = r
    BY <1>5, <1>8
  <2>6. C = WithPeer(B, p, s)
    BY <1>9, <2>2, <2>3, <2>5 DEF WithPeer, Tables, PeerFcns
  <2>7. Good(WithPeer(B, p, s))
    BY <1>5, <1>8, <2>4, <2>5, QuietChange
  <2> QED  BY <2>1, <2>6, <2>7
<1> QED  BY <1>10, <1>11

\* The time that passes changes no path, key or state.
LEMMA AgedKeeps ==
    ASSUME NEW T, Good(T)
    PROVE  Good(Aged(T))
<1>1. T \in Tables /\ T.peer \in PeerFcns /\ T.told \in SUBSET Peers /\ Wired(T.peer, T.iface)
  BY Parts DEF Good
<1> DEFINE Older(r) == [r EXCEPT !.age = Later(@), !.rest = Min({@ + 1, PingAfter})]
<1>2. PICK P : P = [p \in Peers |-> IF T.peer[p] = NoPeer THEN NoPeer ELSE Older(T.peer[p])]
  OBVIOUS
<1>3. PICK R : R = Aged(T)
  OBVIOUS
<1>4. R = [T EXCEPT !.peer = P]
  BY <1>2, <1>3 DEF Aged
<1>5. ASSUME NEW r \in Peerings
      PROVE  /\ Older(r) \in Peerings
             /\ Older(r).path = r.path /\ Older(r).key = r.key /\ Older(r).state = r.state
  <2>1. r.age \in Nat /\ r.rest \in Nat /\ PingAfter \in Nat /\ ForgetAfter \in Nat
    BY PeerTableAssumption DEF Peerings
  <2>2. PICK c \in Nat : c = Later(r.age)
    BY <2>1 DEF Later
  <2>3. PICK d \in Nat : d = Min({r.rest + 1, PingAfter})
    <3> DEFINE S == {r.rest + 1, PingAfter}
    <3>1. S \in SUBSET Nat /\ S # {}
      BY <2>1
    <3> HIDE DEF S
    <3>2. Min(S) \in S
      BY <3>1, MinIsOne
    <3> QED  BY <3>1, <3>2 DEF S
  <2>4. Older(r) = [r EXCEPT !.age = c, !.rest = d]
    BY <2>2, <2>3
  <2> HIDE DEF Older
  <2> QED  BY <2>1, <2>4 DEF Peerings
<1> HIDE DEF Older
<1>6. \A p \in Peers : /\ T.peer[p] = NoPeer => P[p] = NoPeer
                       /\ T.peer[p] # NoPeer => P[p] = Older(T.peer[p]) /\ T.peer[p] \in Peerings
  BY <1>1, <1>2, PeersAreProper
<1>7. ASSUME NEW p \in Peers, T.peer[p] # NoPeer
      PROVE  /\ P[p] \in Peerings /\ P[p] # NoPeer
             /\ P[p].path = T.peer[p].path /\ P[p].key = T.peer[p].key
             /\ P[p].state = T.peer[p].state
  <2>1. P[p] \in Peerings
    BY <1>5, <1>6, <1>7
  <2> QED  BY <1>5, <1>6, <1>7, <2>1, PeersAreProper
<1>8. P \in PeerFcns
  <2>1. \A p \in Peers : P[p] \in Peerings \cup {NoPeer}
    BY <1>6, <1>7
  <2>2. P = [p \in Peers |-> P[p]]
    BY <1>2
  <2> QED  BY <2>1, <2>2 DEF PeerFcns
<1>9. /\ R \in Tables
      /\ R.peer = P /\ R.map = T.map /\ R.iface = T.iface /\ R.known = T.known
      /\ R.failed = T.failed /\ R.told = T.told /\ R.stray = T.stray
  BY <1>1, <1>4, <1>8, ChangePeers
<1>10. Wired(P, T.iface)
  <2>1. \A p \in Peers : P[p] # NoPeer => T.peer[p] # NoPeer
    BY <1>6
  <2>2. \A p \in Peers : P[p] # NoPeer => \A i \in Slots : T.iface[i].owner = p <=> i = P[p].path
    BY <1>1, <1>7, <2>1 DEF Wired
  <2>3. \A i \in Slots : T.iface[i].owner \in Peers => P[T.iface[i].owner] # NoPeer
    BY <1>1, <1>7 DEF Wired
  <2>4. \A p \in Peers : P[p] # NoPeer => (T.iface[P[p].path].up <=> P[p].state # "UNRESPONSIVE")
    BY <1>1, <1>7, <2>1 DEF Wired
  <2> QED  BY <2>2, <2>3, <2>4 DEF Wired
<1>11. Mapped(R.peer, R.map)
  BY <1>7, <1>9 DEF Good, Mapped, Tables
<1>12. UpToDate(R)
  <2>1. SUFFICES ASSUME T.failed = "no" PROVE Informed(P, T.known, T.told, T.stray)
    BY <1>9 DEF UpToDate
  <2>2. Informed(T.peer, T.known, T.told, T.stray)
    BY <2>1 DEF Good, UpToDate
  <2>3. \A p \in T.told : p \in Peers /\ T.peer[p] # NoPeer
    BY <1>1, <2>2 DEF Informed
  <2>4. \A p \in T.told : /\ P[p] # NoPeer /\ P[p].path = T.peer[p].path /\ P[p].key = T.peer[p].key
                          /\ P[p].state = T.peer[p].state
    BY <1>7, <2>3
  <2> QED  BY <2>2, <2>4, InformedStill
<1>13. Good(R)
  BY <1>9, <1>10, <1>11, <1>12 DEF Good, Spare
<1> QED  BY <1>3, <1>13

\* receivedPostCryptoAuth: an early peer that is announced already came with a beacon.
LEMMA ReceivedKeeps ==
    ASSUME NEW T, Good(T), NEW p \in Peers, T.peer[p] # NoPeer,
           NEW ca \in {"HANDSHAKE", "ESTABLISHED"}, NEW body, NEW ping \in BOOLEAN,
           NEW R, R = ReceivedPostCryptoAuth(T, p, ca, body, ping)
    PROVE  Good(R)
<1> DEFINE tracked == SetInterfaceState([T EXCEPT !.peer[p].state = ca], p, TRUE)
           early == T.peer[p].state # "ESTABLISHED"
           done == CASE ~early -> [T EXCEPT !.peer[p].age = 0]
                     [] early /\ ca = "ESTABLISHED" -> MoveEndpointIfNeeded(tracked, p)
                     [] OTHER -> IF ping THEN SendPing(tracked, p) ELSE tracked
           match == done.peer[p].path = T.peer[p].path
<1>1. T \in Tables /\ T.peer \in PeerFcns /\ T.peer[p] \in Peerings
  BY Parts, PeersAreProper DEF Good
<1>2. R = IF body \in Versions /\ match THEN OnPingResponse(done, p, body) ELSE done
  BY DEF ReceivedPostCryptoAuth
<1> HIDE DEF match
<1>3. PICK A : A = tracked
  OBVIOUS
<1>4. ASSUME early
      PROVE  /\ T.failed = "no" /\ p \in T.told => AcceptBeacons
             /\ Good(A) /\ A.peer[p] # NoPeer /\ A.failed = T.failed /\ A.told = T.told
  <2>1. T.failed = "no" /\ p \in T.told => AcceptBeacons
    BY <1>4 DEF Good, UpToDate, Informed, Presentable
  <2>2. A = WithState(T, p, ca)
    <3>1. TRUE = (ca # "UNRESPONSIVE")
      OBVIOUS
    <3> QED  BY <1>3, <3>1 DEF WithState
  <2>3. ca \in {"INIT", "HANDSHAKE", "ESTABLISHED", "UNRESPONSIVE"}
    OBVIOUS
  <2>4. T.failed = "no" /\ p \in T.told => Presentable(ca)
    BY <2>1 DEF Presentable
  <2> QED  BY <2>1, <2>2, <2>3, <2>4, StateKeeps
<1> HIDE DEF tracked
<1>5. PICK D : D = done
  OBVIOUS
<1>6. Good(D) /\ D.peer[p] # NoPeer
  <2>1. CASE ~early
    <3>1. D = [T EXCEPT !.peer[p].age = 0]
      BY <1>5, <2>1
    <3>2. PICK r : r = [T.peer[p] EXCEPT !.age = 0]
      OBVIOUS
    <3>3. r \in Peerings /\ r.path = T.peer[p].path /\ r.key = T.peer[p].key /\ r.state = T.peer[p].state
      BY <1>1, <3>2 DEF Peerings
    <3>4. D = WithPeer(T, p, r)
      BY <1>1, <3>1, <3>2 DEF WithPeer, Tables, PeerFcns
    <3> QED  BY <3>3, <3>4, QuietChange
  <2>2. CASE early /\ ca = "ESTABLISHED"
    <3>1. D = MoveEndpointIfNeeded(A, p)
      BY <1>3, <1>5, <2>2
    <3> QED  BY <1>4, <2>2, <3>1, MoveKeeps
  <2>3. CASE early /\ ca # "ESTABLISHED"
    <3>1. D = IF ping THEN SendPing(A, p) ELSE A
      BY <1>3, <1>5, <2>3
    <3> QED  BY <1>4, <2>3, <3>1, SendPingKeeps
  <2> QED  BY <2>1, <2>2, <2>3
<1>7. CASE body \in Versions /\ match
  <2>1. R = OnPingResponse(D, p, body)
    BY <1>2, <1>5, <1>7
  <2> QED  BY <1>6, <1>7, <2>1, OnPingKeeps
<1>8. CASE ~(body \in Versions /\ match)
  <2>1. R = D
    BY <1>2, <1>5, <1>8
  <2> QED  BY <1>6, <2>1
<1> QED  BY <1>7, <1>8

-----------------------------------------------------------------------------
\* A table with nothing in it is good.
LEMMA EmptyIsGood ==
    /\ Good(EmptyTable)
    /\ Informed(EmptyTable.peer, EmptyTable.known, EmptyTable.told, EmptyTable.stray)
<1>1. NInterfaces \in Slots /\ NInterfaces # 1
  BY PeerTableAssumption DEF Slots
<1>2. EmptyTable.peer \in PeerFcns /\ \A p \in Peers : EmptyTable.peer[p] = NoPeer
  BY DEF EmptyTable, PeerFcns
<1>3. EmptyTable.map \in Seq(Peers) /\ DOMAIN EmptyTable.map = {}
  BY DEF EmptyTable
<1>4. /\ EmptyTable.iface \in Ifaces
      /\ \A i \in Slots : EmptyTable.iface[i].owner \in {Router, "none"}
      /\ EmptyTable.iface[NInterfaces].owner = "none"
  <2>1. EmptyTable.iface = [i \in Slots |-> [owner |-> IF i = 1 THEN Router ELSE "none", up |-> TRUE]]
    BY DEF EmptyTable
  <2>2. \A i \in Slots : [owner |-> IF i = 1 THEN Router ELSE "none", up |-> TRUE] \in Ports
    BY DEF Ports
  <2> QED  BY <1>1, <2>1, <2>2 DEF Ifaces
<1>5. /\ EmptyTable.known \in [Slots -> Keys \cup {NoKey}]
      /\ \A i \in Slots : EmptyTable.known[i] = NoKey
  BY DEF EmptyTable
<1>6. /\ EmptyTable.failed = "no" /\ EmptyTable.stale = FALSE
      /\ EmptyTable.told = {} /\ EmptyTable.stray = {}
  BY DEF EmptyTable
<1>7. EmptyTable \in Tables
  <2>1. EmptyTable = [peer |-> EmptyTable.peer, map |-> EmptyTable.map, iface |-> EmptyTable.iface,
                      known |-> EmptyTable.known, failed |-> EmptyTable.failed,
                      stale |-> EmptyTable.stale, told |-> EmptyTable.told,
                      stray |-> EmptyTable.stray]
    BY DEF EmptyTable
  <2> QED  BY <1>2, <1>3, <1>4, <1>5, <1>6, <2>1 DEF Tables
<1>8. Wired(EmptyTable.peer, EmptyTable.iface)
  BY <1>2, <1>4, PeersAreProper DEF Wired
<1>9. Mapped(EmptyTable.peer, EmptyTable.map)
  BY <1>3 DEF Mapped
<1>10. Informed(EmptyTable.peer, EmptyTable.known, EmptyTable.told, EmptyTable.stray)
  BY <1>5, <1>6 DEF Informed, CurrentAt
<1> QED  BY <1>4, <1>7, <1>8, <1>9, <1>10 DEF Good, Spare, UpToDate

\* The next table, when its parts are those of R.
LEMMA NextTableIs ==
    ASSUME NEW R \in Tables, peer' = R.peer, peerMap' = R.map, iface' = R.iface,
           myPeers' = R.known, failed' = R.failed, staleJob' = R.stale,
           told' = R.told, stray' = R.stray
    PROVE  Table' = R
<1>1. R = [peer |-> R.peer, map |-> R.map, iface |-> R.iface, known |-> R.known,
           failed |-> R.failed, stale |-> R.stale, told |-> R.told, stray |-> R.stray]
  BY DEF Tables
<1> QED  BY <1>1 DEF Table

\* The end of a handler: its table, or, after a failure, nothing.
LEMMA CommitKeeps ==
    ASSUME NEW R, Good(R), Commit(R)
    PROVE  Sound'
<1>1. R \in Tables
  BY DEF Good
<1>2. CASE R.failed = "no"
  <2>1. Table' = R
    BY <1>1, <1>2, NextTableIs DEF Commit
  <2>2. Informed(R.peer, R.known, R.told, R.stray)
    BY <1>2 DEF Good, UpToDate
  <2>3. peer' = R.peer /\ myPeers' = R.known /\ told' = R.told /\ stray' = R.stray
    BY <1>2 DEF Commit
  <2> QED  BY <2>1, <2>2, <2>3 DEF Sound
<1>3. CASE R.failed # "no"
  <2>1. PICK E : E = [EmptyTable EXCEPT !.failed = R.failed]
    OBVIOUS
  <2>2. EmptyTable \in Tables
    BY EmptyIsGood DEF Good
  <2>3. /\ E \in Tables
        /\ E.peer = EmptyTable.peer /\ E.map = EmptyTable.map /\ E.iface = EmptyTable.iface
        /\ E.known = EmptyTable.known /\ E.failed = R.failed
        /\ E.told = EmptyTable.told /\ E.stray = EmptyTable.stray
    BY <1>1, <2>1, <2>2 DEF Tables
  <2>4. Good(E)
    BY <1>3, <2>3, EmptyIsGood, FailureKeeps
  <2>5. Table' = E
    BY <1>3, <2>1, <2>3, NextTableIs DEF Commit
  <2>6. /\ peer' = EmptyTable.peer /\ myPeers' = EmptyTable.known /\ told' = EmptyTable.told
        /\ stray' = EmptyTable.stray
    BY <1>3, <2>1, <2>3 DEF Commit
  <2> QED  BY <2>4, <2>5, <2>6, EmptyIsGood DEF Sound
<1> QED  BY <1>2, <1>3

\* The parts of the state, as parts of the table.
LEMMA TableParts ==
    /\ Table.peer = peer /\ Table.map = peerMap /\ Table.iface = iface
    /\ Table.known = myPeers /\ Table.failed = failed /\ Table.stale = staleJob
    /\ Table.told = told /\ Table.stray = stray
BY DEF Table

\* A peer in the map is alive.
LEMMA InMapIsLive ==
    ASSUME Good(Table), NEW n \in DOMAIN peerMap
    PROVE  peerMap[n] \in Peers /\ Table.peer[peerMap[n]] # NoPeer
<1>1. Table.map \in Seq(Peers)
  BY Parts DEF Good
<1> QED  BY <1>1, TableParts DEF Good, Mapped

\* A stranger's first message.
LEMMA HandleUnexpectedIncomingStep ==
    ASSUME Good(Table), NEW p \in Peers, NEW addr \in Addrs, NEW key \in Keys,
           HandleUnexpectedIncoming(p, addr, key)
    PROVE  Sound'
<1>1. PICK incoming \in BOOLEAN : incoming = TRUE
  OBVIOUS
<1>2. PICK A : A = AddPeer(Table, p, addr, key, incoming, Unknown)
  OBVIOUS
<1>3. PICK ping \in BOOLEAN : Commit(ReceivedPostCryptoAuth(A, p, "HANDSHAKE", "data", ping))
  BY <1>1, <1>2 DEF HandleUnexpectedIncoming
<1>4. PICK R : R = ReceivedPostCryptoAuth(A, p, "HANDSHAKE", "data", ping)
  OBVIOUS
<1>5. Good(A) /\ A.peer[p] # NoPeer
  <2>1. Table.failed = "no" /\ Table.peer[p] = NoPeer
    BY TableParts DEF HandleUnexpectedIncoming, Running
  <2>2. Unknown \in Versions \cup {Unknown}
    OBVIOUS
  <2>3. A = AddPeer(Table, p, addr, key, incoming, Unknown)
    BY <1>2
  <2> QED  BY <2>1, <2>2, <2>3, AddPeerKeeps
<1>6. Good(R)
  <2>1. "HANDSHAKE" \in {"HANDSHAKE", "ESTABLISHED"}
    OBVIOUS
  <2> QED  BY <1>4, <1>5, <2>1, ReceivedKeeps
<1> QED  BY <1>3, <1>4, <1>6, CommitKeeps

\* A message of a peer, which may merge two endpoints.
LEMMA HandleIncomingFromWireStep ==
    ASSUME Good(Table), NEW p \in Peers, NEW ca \in {"HANDSHAKE", "ESTABLISHED"}, NEW body,
           HandleIncomingFromWire(p, ca, body)
    PROVE  Sound'
<1>1. PICK ping \in BOOLEAN, left \in BOOLEAN :
          \E T, R :
              /\ T = IF body \in Versions THEN [Table EXCEPT !.peer[p].ping = left] ELSE Table
              /\ R = ReceivedPostCryptoAuth(T, p, ca, body, ping)
              /\ Commit(R)
  BY DEF HandleIncomingFromWire
<1>2. PICK T, R :
          /\ T = IF body \in Versions THEN [Table EXCEPT !.peer[p].ping = left] ELSE Table
          /\ R = ReceivedPostCryptoAuth(T, p, ca, body, ping)
          /\ Commit(R)
  BY <1>1
<1>3. Table.peer[p] # NoPeer
  BY InMapIsLive, TableParts DEF HandleIncomingFromWire, InMap
<1>4. Good(T) /\ T.peer[p] # NoPeer
  <2>1. CASE body \notin Versions
    <3>1. T = Table
      BY <1>2, <2>1
    <3> QED  BY <1>3, <3>1
  <2>2. CASE body \in Versions
    <3>1. Table \in Tables /\ Table.peer \in PeerFcns /\ Table.peer[p] \in Peerings
      BY <1>3, Parts, PeersAreProper DEF Good
    <3>2. PICK r : r = [Table.peer[p] EXCEPT !.ping = left]
      OBVIOUS
    <3>3. /\ r \in Peerings /\ r.path = Table.peer[p].path /\ r.key = Table.peer[p].key
          /\ r.state = Table.peer[p].state
      BY <3>1, <3>2 DEF Peerings
    <3>4. PICK U : U = Table
      OBVIOUS
    <3>5. T = [U EXCEPT !.peer[p].ping = left]
      BY <1>2, <2>2, <3>4
    <3>6. T = WithPeer(U, p, r)
      BY <3>1, <3>2, <3>4, <3>5 DEF WithPeer, Tables, PeerFcns
    <3> QED  BY <1>3, <3>3, <3>4, <3>6, QuietChange
  <2> QED  BY <2>1, <2>2
<1>5. Good(R)
  BY <1>2, <1>4, ReceivedKeeps
<1> QED  BY <1>2, <1>5, CommitKeeps

\* A beacon.
LEMMA HandleBeaconStep ==
    ASSUME Good(Table), NEW p \in Peers, NEW addr \in Addrs, NEW key \in Keys,
           NEW version \in Versions, HandleBeacon(p, addr, key, version)
    PROVE  Sound'
<1>1. PICK incoming \in BOOLEAN : incoming = TRUE
  OBVIOUS
<1>2. PICK A : A = AddPeer(Table, p, addr, key, incoming, version)
  OBVIOUS
<1>3. PICK R : R = Announce(A, p)
  OBVIOUS
<1>4. Commit(R)
  BY <1>1, <1>2, <1>3 DEF HandleBeacon
<1>5. Good(A) /\ A.peer[p] # NoPeer /\ A.peer[p].state = "INIT"
  <2>1. Table.failed = "no" /\ Table.peer[p] = NoPeer
    BY TableParts DEF HandleBeacon, Running
  <2>2. A = AddPeer(Table, p, addr, key, incoming, version)
    BY <1>2
  <2> QED  BY <2>1, <2>2, AddPeerKeeps
<1>6. Good(R)
  BY <1>3, <1>5, AnnounceKeeps DEF HandleBeacon, Presentable
<1> QED  BY <1>4, <1>6, CommitKeeps

\* A peer that the administrator asks for.
LEMMA BootstrapPeerStep ==
    ASSUME Good(Table), NEW p \in Peers, NEW addr \in Addrs, NEW key \in Keys,
           BootstrapPeer(p, addr, key)
    PROVE  Sound'
<1>1. PICK incoming \in BOOLEAN : incoming = FALSE
  OBVIOUS
<1>2. PICK A : A = AddPeer(Table, p, addr, key, incoming, Unknown)
  OBVIOUS
<1>3. PICK R : R = SendPing(A, p)
  OBVIOUS
<1>4. Commit(R)
  BY <1>1, <1>2, <1>3 DEF BootstrapPeer
<1>5. Good(A) /\ A.peer[p] # NoPeer
  <2>1. Table.failed = "no" /\ Table.peer[p] = NoPeer
    BY TableParts DEF BootstrapPeer, Running
  <2>2. Unknown \in Versions \cup {Unknown}
    OBVIOUS
  <2>3. A = AddPeer(Table, p, addr, key, incoming, Unknown)
    BY <1>2
  <2> QED  BY <2>1, <2>2, <2>3, AddPeerKeeps
<1>6. Good(R)
  BY <1>3, <1>5, SendPingKeeps
<1> QED  BY <1>4, <1>6, CommitKeeps

\* A peer that the administrator sends away.
LEMMA DisconnectPeerStep ==
    ASSUME Good(Table), NEW key \in Keys, DisconnectPeer(key)
    PROVE  Sound'
<1> DEFINE at == {n \in DOMAIN peerMap : peer[peerMap[n]].key = key}
<1>1. PICK n : n = Min(at)
  OBVIOUS
<1>2. n \in DOMAIN peerMap
  <2>1. Table.map \in Seq(Peers)
    BY Parts DEF Good
  <2>2. at \in SUBSET Nat /\ at # {}
    BY <2>1, TableParts DEF DisconnectPeer
  <2>3. at \subseteq DOMAIN peerMap
    OBVIOUS
  <2> HIDE DEF at
  <2> QED  BY <1>1, <2>2, <2>3, MinIsOne
<1>3. PICK S \in SUBSET Peers : S = {peerMap[n]}
  BY <1>2, InMapIsLive
<1>4. PICK R : R = FreePeers(Table, S)
  OBVIOUS
<1>5. Commit(R)
  BY <1>1, <1>3, <1>4 DEF DisconnectPeer
<1>6. \A p \in S : Table.peer[p] # NoPeer
  BY <1>2, <1>3, InMapIsLive
<1>7. Good(R)
  BY <1>4, <1>6, FreePeersKeeps
<1> QED  BY <1>5, <1>7, CommitKeeps

\* The allocator of the peers that were asked for is freed.
LEMMA FreeBootstrappedStep ==
    ASSUME Good(Table), FreeBootstrapped
    PROVE  Sound'
<1>1. PICK S \in SUBSET Peers : S = {p \in Live(Table) : ~peer[p].incoming}
  BY DEF Live
<1>2. PICK T : T = IF staleJob THEN [Table EXCEPT !.failed = "freeAlloc"] ELSE FreePeers(Table, S)
  OBVIOUS
<1>3. PICK R : R = [T EXCEPT !.stale = FALSE]
  OBVIOUS
<1>4. Commit(R)
  BY <1>1, <1>2, <1>3 DEF FreeBootstrapped
<1>5. Good(T)
  <2>1. CASE staleJob
    <3>1. PICK U \in Tables : U = Table
      BY DEF Good
    <3>2. T = [U EXCEPT !.failed = "freeAlloc"]
      BY <1>2, <2>1, <3>1
    <3>3. /\ T \in Tables /\ T.peer = U.peer /\ T.map = U.map /\ T.iface = U.iface
          /\ T.failed = "freeAlloc"
      BY <3>2 DEF Tables
    <3>4. T.failed # "no"
      BY <3>3
    <3> QED  BY <3>1, <3>3, <3>4, FailureKeeps
  <2>2. CASE ~staleJob
    <3>1. T = FreePeers(Table, S)
      BY <1>2, <2>2
    <3>2. \A p \in S : Table.peer[p] # NoPeer
      BY <1>1 DEF Live
    <3> QED  BY <3>1, <3>2, FreePeersKeeps
  <2> QED  BY <2>1, <2>2
<1>6. Good(R)
  <2>1. /\ R \in Tables
        /\ R.peer = T.peer /\ R.map = T.map /\ R.iface = T.iface /\ R.known = T.known
        /\ R.failed = T.failed /\ R.told = T.told /\ R.stray = T.stray
    BY <1>3, <1>5 DEF Good, Tables
  <2> QED  BY <1>5, <2>1 DEF Good, Spare, UpToDate
<1> QED  BY <1>4, <1>6, CommitKeeps

\* A pathfinder asks for the peers, and gets those that are ESTABLISHED.
LEMMA PeersRequestedStep ==
    ASSUME Good(Table), PeersRequested
    PROVE  Sound'
<1> DEFINE S == {p \in InMap(Table) : peer[p].state = "ESTABLISHED"}
           At(i) == {p \in S : peer[p].path = i}
           known == [i \in Slots |-> IF At(i) = {} THEN NoKey ELSE peer[CHOOSE p \in At(i) : TRUE].key]
<1>1. PICK R : R = IF \E p \in S : peer[p].version = Unknown
                   THEN [Table EXCEPT !.failed = "sendPeer"]
                   ELSE [Table EXCEPT !.known = known, !.told = S, !.stray = {}]
  OBVIOUS
<1>2. Commit(R)
  BY <1>1 DEF PeersRequested
<1>3. PICK U \in Tables : U = Table
  BY DEF Good
<1>4. U.peer = peer /\ peer \in PeerFcns /\ Wired(peer, iface) /\ U.failed = failed
  BY <1>3, Parts, TableParts DEF Good
<1>5. \A p \in S : /\ p \in Peers /\ peer[p] # NoPeer /\ peer[p] \in Peerings
                   /\ peer[p].state = "ESTABLISHED"
  <2>1. \A p \in S : p \in Peers /\ peer[p] # NoPeer
    BY InMapIsLive, TableParts DEF InMap
  <2> QED  BY <1>4, <2>1, PeersAreProper
<1>6. CASE \E p \in S : peer[p].version = Unknown
  <2>1. R = [U EXCEPT !.failed = "sendPeer"]
    BY <1>1, <1>3, <1>6
  <2>2. /\ R \in Tables /\ R.peer = U.peer /\ R.map = U.map /\ R.iface = U.iface
        /\ R.failed = "sendPeer"
    BY <2>1 DEF Tables
  <2>3. R.failed # "no"
    BY <2>2
  <2>4. Good(R)
    BY <1>3, <2>2, <2>3, FailureKeeps
  <2> QED  BY <1>2, <2>4, CommitKeeps
<1>7. CASE ~ \E p \in S : peer[p].version = Unknown
  <2>1. PICK K : K = known
    OBVIOUS
  <2>2. PICK D \in SUBSET Peers : D = S
    BY <1>5
  <2>3. R = [U EXCEPT !.known = K, !.told = D, !.stray = {}]
    BY <1>1, <1>3, <1>7, <2>1, <2>2
  <2>4. ASSUME NEW i \in Slots
        PROVE  /\ K[i] \in Keys \cup {NoKey}
               /\ CurrentAt(peer, K, D, i)
    <3>1. K[i] = IF At(i) = {} THEN NoKey ELSE peer[CHOOSE p \in At(i) : TRUE].key
      BY <2>1
    <3>2. At(i) = {p \in D : peer[p].path = i}
      BY <2>2
    <3> HIDE DEF At
    <3>3. CASE At(i) = {}
      BY <3>1, <3>2, <3>3 DEF CurrentAt
    <3>4. CASE At(i) # {}
      <4>1. PICK p : p = CHOOSE x \in At(i) : TRUE
        OBVIOUS
      <4>2. p \in D /\ peer[p].path = i
        BY <3>2, <3>4, <4>1
      <4>3. K[i] = peer[p].key
        BY <3>1, <3>4, <4>1
      <4>4. \A q \in D : peer[q].path = i => q = p
        <5> HIDE DEF S
        <5> QED  BY <1>4, <1>5, <2>2, <4>2, PathsDiffer
      <4>5. peer[p].key \in Keys
        <5> HIDE DEF S
        <5> QED  BY <1>5, <2>2, <4>2 DEF Peerings
      <4> QED  BY <4>2, <4>3, <4>4, <4>5 DEF CurrentAt
    <3> QED  BY <3>3, <3>4
  <2>5. K \in [Slots -> Keys \cup {NoKey}]
    <3>1. K = [i \in Slots |-> K[i]]
      BY <2>1
    <3> QED  BY <2>4, <3>1
  <2>6. /\ R \in Tables
        /\ R.peer = U.peer /\ R.map = U.map /\ R.iface = U.iface /\ R.known = K
        /\ R.failed = U.failed /\ R.told = D /\ R.stray = {}
    BY <2>3, <2>5 DEF Tables
  <2>7. Informed(R.peer, R.known, R.told, R.stray)
    <3>1. \A p \in D : peer[p] # NoPeer /\ peer[p].state = "ESTABLISHED"
      BY <1>5, <2>2
    <3>2. \A i \in Slots : CurrentAt(peer, K, D, i)
      BY <2>4
    <3> QED  BY <1>4, <2>6, <3>1, <3>2 DEF Informed, Presentable
  <2>8. Good(R)
    BY <1>3, <2>6, <2>7 DEF Good, Spare, UpToDate
  <2> QED  BY <1>2, <2>8, CommitKeeps
<1> QED  BY <1>6, <1>7

\* The next peer of the loop is alive, and the locals stay what they are.
LEMMA NextPeerIsLive ==
    ASSUME Inductive, Turn
    PROVE  /\ NextPeer \in Peers /\ Table.peer[NextPeer] # NoPeer
           /\ Continue => Scanning'
<1>1. scan \in [on : BOOLEAN, i : Nat, count : Nat, startAt : Nat]
  BY DEF Inductive, Scanning, Turn, NoScan
<1>2. peerMap \in Seq(Peers)
  BY Parts, TableParts DEF Inductive, Sound, Good
<1>3. PICK l \in Nat : l = Len(peerMap) /\ DOMAIN peerMap = 1 .. l
  BY <1>2
<1>4. l > 0
  BY <1>1, <1>3 DEF Turn
<1>5. PICK k \in Nat : k = NextIndex /\ k < l
  <2>1. scan.i \in Nat
    BY <1>1
  <2> QED  BY <1>3, <1>4, <2>1 DEF NextIndex
<1>6. k + 1 \in DOMAIN peerMap
  BY <1>3, <1>5
<1>7. NextPeer \in Peers /\ Table.peer[NextPeer] # NoPeer
  BY <1>5, <1>6, InMapIsLive DEF NextPeer, Inductive, Sound
<1>8. ASSUME Continue PROVE Scanning'
  <2> DEFINE Locals == [on : BOOLEAN, i : Nat, count : Nat, startAt : Nat]
  <2>1. PICK s \in Locals, c \in Nat : s = scan /\ c = scan.count + 1
    BY <1>1
  <2>2. scan' = [s EXCEPT !.i = k, !.count = c]
    BY <1>5, <1>8, <2>1 DEF Continue
  <2>3. [s EXCEPT !.i = k, !.count = c] \in Locals
    OBVIOUS
  <2> QED  BY <2>2, <2>3 DEF Scanning
<1> QED  BY <1>7, <1>8

\* Nothing but the locals of iciPing changes.
LEMMA SameTableStep ==
    ASSUME Sound, UNCHANGED <<peer, peerMap, iface, myPeers, failed, staleJob, told, stray>>
    PROVE  Sound'
<1>1. Table' = Table
  BY DEF Table
<1> QED  BY <1>1 DEF Sound

\* A turn of iciPing for a peer that sends traffic.
LEMMA PingBusyStep ==
    ASSUME Inductive, PingBusy
    PROVE  Sound' /\ Scanning'
<1>1. PICK p \in Peers : p = NextPeer /\ Table.peer[p] # NoPeer
  BY NextPeerIsLive DEF PingBusy
<1>2. PICK R : R = IF NextIndex = scan.startAt /\ peer[NextPeer].state = "ESTABLISHED"
                   THEN Announce(Table, p) ELSE Table
  OBVIOUS
<1>3. Commit(R)
  BY <1>1, <1>2 DEF PingBusy
<1>4. Good(Table)
  BY DEF Inductive, Sound
<1>5. Good(R)
  <2>1. CASE NextIndex = scan.startAt /\ peer[NextPeer].state = "ESTABLISHED"
    <3>1. R = Announce(Table, p) /\ Table.peer[p].state = "ESTABLISHED"
      BY <1>1, <1>2, <2>1, TableParts
    <3> QED  BY <1>1, <1>4, <3>1, AnnounceKeeps DEF Presentable
  <2>2. CASE ~(NextIndex = scan.startAt /\ peer[NextPeer].state = "ESTABLISHED")
    BY <1>2, <1>4, <2>2
  <2> QED  BY <2>1, <2>2
<1>6. Sound'
  BY <1>3, <1>5, CommitKeeps
<1> QED  BY <1>6, NextPeerIsLive DEF PingBusy

\* A turn that forgets an incoming peer.
LEMMA PingForgetsStep ==
    ASSUME Inductive, PingForgets
    PROVE  Sound' /\ Scanning'
<1>1. PICK p \in Peers : p = NextPeer /\ Table.peer[p] # NoPeer
  BY NextPeerIsLive DEF PingForgets
<1>2. PICK A : A = Withdraw(Table, p)
  OBVIOUS
<1>3. PICK S \in SUBSET Peers : S = {p}
  OBVIOUS
<1>4. PICK R : R = FreePeers(A, S)
  OBVIOUS
<1>5. Commit(R)
  BY <1>1, <1>2, <1>3, <1>4 DEF PingForgets
<1>6. Good(A) /\ \A q \in S : A.peer[q] # NoPeer
  BY <1>1, <1>2, <1>3, WithdrawKeeps DEF Inductive, Sound
<1>7. Good(R)
  BY <1>4, <1>6, FreePeersKeeps
<1>8. Sound'
  BY <1>5, <1>7, CommitKeeps
<1> QED  BY <1>8, NextPeerIsLive DEF PingForgets

\* A turn that passes over an unresponsive peer.
LEMMA PingSkipsStep ==
    ASSUME Inductive, PingSkips
    PROVE  Sound' /\ Scanning'
<1>1. PICK p \in Peers : p = NextPeer /\ Table.peer[p] # NoPeer
  BY NextPeerIsLive DEF PingSkips
<1>2. Table \in Tables /\ peer \in PeerFcns /\ peer[p] \in Peerings
  BY <1>1, Parts, PeersAreProper, TableParts DEF Inductive, Sound, Good
<1>3. PICK c : c = (peer[p].pingCount + 1) % PingSkip
  OBVIOUS
<1>4. c \in Nat
  BY <1>2, <1>3, PeerTableAssumption DEF Peerings
<1>5. PICK r : r = [peer[p] EXCEPT !.pingCount = c]
  OBVIOUS
<1>6. r \in Peerings /\ r.path = peer[p].path /\ r.key = peer[p].key /\ r.state = peer[p].state
  BY <1>2, <1>4, <1>5 DEF Peerings
<1>7. PICK R : R = WithPeer(Table, p, r)
  OBVIOUS
<1>8. Good(R)
  <2>1. r.path = Table.peer[p].path /\ r.key = Table.peer[p].key /\ r.state = Table.peer[p].state
    BY <1>6, TableParts
  <2> QED  BY <1>1, <1>6, <1>7, <2>1, QuietChange DEF Inductive, Sound
<1>9. Commit(R)
  <2>1. peer' = [peer EXCEPT ![p] = r]
    BY <1>1, <1>2, <1>3, <1>5 DEF PingSkips, PeerFcns
  <2>2. /\ R.peer = [peer EXCEPT ![p] = r] /\ R.map = peerMap /\ R.iface = iface
        /\ R.known = myPeers /\ R.failed = failed /\ R.stale = staleJob
        /\ R.told = told /\ R.stray = stray
    BY <1>7 DEF WithPeer, Table
  <2>3. failed = "no"
    BY DEF PingSkips, Turn
  <2> QED  BY <2>1, <2>2, <2>3 DEF Commit, PingSkips
<1>10. Sound'
  BY <1>8, <1>9, CommitKeeps
<1> QED  BY <1>10, NextPeerIsLive DEF PingSkips

\* A turn that pings, and may find the peer unresponsive.
LEMMA PingsStep ==
    ASSUME Inductive, Pings
    PROVE  Sound' /\ Scanning'
<1>1. PICK p \in Peers : p = NextPeer /\ Table.peer[p] # NoPeer
  BY NextPeerIsLive DEF Pings
<1>2. PICK A : A = Withdraw(Table, p)
  OBVIOUS
<1>3. PICK B : B = WithState(A, p, "UNRESPONSIVE")
  OBVIOUS
<1>4. PICK M : M = IF Unresponsive(peer[NextPeer]) THEN B ELSE Table
  OBVIOUS
<1>5. PICK C : C = SendPing(M, p)
  OBVIOUS
<1>6. PICK R : R = Aged(C)
  OBVIOUS
<1>7. Commit(R)
  <2>1. B = SetInterfaceState([A EXCEPT !.peer[p].state = "UNRESPONSIVE"], p, FALSE)
    <3>1. ("UNRESPONSIVE" # "UNRESPONSIVE") = FALSE
      OBVIOUS
    <3> QED  BY <1>3, <3>1 DEF WithState
  <2> QED  BY <1>1, <1>2, <1>4, <1>5, <1>6, <2>1 DEF Pings
<1>8. Good(Table)
  BY DEF Inductive, Sound
<1>9. Good(A) /\ A.peer = Table.peer /\ p \notin A.told
  BY <1>1, <1>2, <1>8, WithdrawKeeps
<1>10. Good(B) /\ B.peer[p] # NoPeer
  <2>1. PICK st \in {"INIT", "HANDSHAKE", "ESTABLISHED", "UNRESPONSIVE"} : st = "UNRESPONSIVE"
    OBVIOUS
  <2>2. B = WithState(A, p, st)
    BY <1>3, <2>1
  <2> QED  BY <1>1, <1>9, <2>2, StateKeeps
<1>11. Good(M) /\ M.peer[p] # NoPeer
  BY <1>1, <1>4, <1>8, <1>10
<1>12. Good(C)
  BY <1>5, <1>11, SendPingKeeps
<1>13. Good(R)
  BY <1>6, <1>12, AgedKeeps
<1>14. Sound'
  BY <1>7, <1>13, CommitKeeps
<1> QED  BY <1>14 DEF Pings, Scanning, NoScan

\* The end of the loop.
LEMMA PingEndsStep ==
    ASSUME Inductive, PingEnds
    PROVE  Sound' /\ Scanning'
<1>1. PICK R : R = Aged(Table)
  OBVIOUS
<1>2. Commit(R)
  BY <1>1 DEF PingEnds
<1>3. Good(R)
  BY <1>1, AgedKeeps DEF Inductive, Sound
<1>4. Sound'
  BY <1>2, <1>3, CommitKeeps
<1> QED  BY <1>4 DEF PingEnds, Scanning, NoScan

\* The start of the loop.
LEMMA PingCallbackStep ==
    ASSUME Inductive, NEW startAt \in 0 .. Cardinality(Peers) - 1, PingCallback(startAt)
    PROVE  Sound' /\ Scanning'
<1>1. Sound'
  BY SameTableStep DEF PingCallback, Inductive
<1>2. startAt \in Nat
  OBVIOUS
<1>3. scan' \in [on : BOOLEAN, i : Nat, count : Nat, startAt : Nat]
  BY <1>2 DEF PingCallback
<1> QED  BY <1>1, <1>3 DEF Scanning

-----------------------------------------------------------------------------
\* The invariant holds at first, when there is no peer...
LEMMA InitInductive == Init => Inductive
<1>1. SUFFICES ASSUME Init PROVE Inductive
  OBVIOUS
<1>2. EmptyTable = [peer |-> EmptyTable.peer, map |-> EmptyTable.map, iface |-> EmptyTable.iface,
                    known |-> EmptyTable.known, failed |-> "no", stale |-> FALSE,
                    told |-> {}, stray |-> {}]
  BY DEF EmptyTable
<1>3. Table = EmptyTable
  BY <1>1, <1>2 DEF Init, Table
<1>4. EmptyTable.told = {} /\ EmptyTable.stray = {}
  BY DEF EmptyTable
<1>5. Informed(peer, myPeers, told, stray)
  BY <1>1, <1>4, EmptyIsGood DEF Init
<1> QED  BY <1>1, <1>3, <1>5, EmptyIsGood DEF Init, Inductive, Sound, Scanning

\* ...and is kept by every handler and every turn of iciPing.
LEMMA NextInductive ==
    ASSUME Inductive, [Next]_vars
    PROVE  Inductive'
<1>1. SUFFICES Sound' /\ Scanning'
  BY DEF Inductive
<1>2. Sound /\ Good(Table)
  BY DEF Inductive, Sound
<1>3. ASSUME UNCHANGED scan PROVE Scanning'
  BY <1>3 DEF Inductive, Scanning
<1>4. ASSUME NEW p \in Peers, NEW addr \in Addrs, NEW key \in Keys,
             HandleUnexpectedIncoming(p, addr, key)
      PROVE  Sound' /\ Scanning'
  <2>1. Sound'
    BY <1>2, <1>4, HandleUnexpectedIncomingStep
  <2> QED  BY <1>3, <1>4, <2>1 DEF HandleUnexpectedIncoming
<1>5. ASSUME NEW p \in Peers, NEW addr \in Addrs, NEW key \in Keys, BootstrapPeer(p, addr, key)
      PROVE  Sound' /\ Scanning'
  <2>1. Sound'
    BY <1>2, <1>5, BootstrapPeerStep
  <2> QED  BY <1>3, <1>5, <2>1 DEF BootstrapPeer
<1>6. ASSUME NEW p \in Peers, NEW addr \in Addrs, NEW key \in Keys, NEW version \in Versions,
             HandleBeacon(p, addr, key, version)
      PROVE  Sound' /\ Scanning'
  <2>1. Sound'
    BY <1>2, <1>6, HandleBeaconStep
  <2> QED  BY <1>3, <1>6, <2>1 DEF HandleBeacon
<1>7. ASSUME NEW p \in Peers, NEW ca \in {"HANDSHAKE", "ESTABLISHED"}, NEW body \in Bodies,
             HandleIncomingFromWire(p, ca, body)
      PROVE  Sound' /\ Scanning'
  <2>1. Sound'
    BY <1>2, <1>7, HandleIncomingFromWireStep
  <2> QED  BY <1>3, <1>7, <2>1 DEF HandleIncomingFromWire
<1>8. ASSUME NEW key \in Keys, DisconnectPeer(key) PROVE Sound' /\ Scanning'
  <2>1. Sound'
    BY <1>2, <1>8, DisconnectPeerStep
  <2> QED  BY <1>3, <1>8, <2>1 DEF DisconnectPeer
<1>9. CASE FreeBootstrapped
  <2>1. Sound'
    BY <1>2, <1>9, FreeBootstrappedStep
  <2> QED  BY <1>3, <1>9, <2>1 DEF FreeBootstrapped
<1>10. CASE PeersRequested
  <2>1. Sound'
    BY <1>2, <1>10, PeersRequestedStep
  <2> QED  BY <1>3, <1>10, <2>1 DEF PeersRequested
<1>11. ASSUME NEW startAt \in 0 .. Cardinality(Peers) - 1, PingCallback(startAt)
       PROVE  Sound' /\ Scanning'
  BY <1>11, PingCallbackStep
<1>12. CASE PingBusy
  BY <1>12, PingBusyStep
<1>13. CASE PingTooOften
  <2>1. Sound'
    BY <1>2, <1>13, SameTableStep DEF PingTooOften
  <2> QED  BY <1>13, <2>1, NextPeerIsLive DEF PingTooOften
<1>14. CASE PingForgets
  BY <1>14, PingForgetsStep
<1>15. CASE PingSkips
  BY <1>15, PingSkipsStep
<1>16. CASE Pings
  BY <1>16, PingsStep
<1>17. CASE PingEnds
  BY <1>17, PingEndsStep
<1>18. CASE UNCHANGED vars
  <2>1. Sound'
    BY <1>2, <1>18, SameTableStep DEF vars
  <2> QED  BY <1>3, <1>18, <2>1 DEF vars
<1> QED
  BY <1>4, <1>5, <1>6, <1>7, <1>8, <1>9, <1>10, <1>11, <1>12, <1>13, <1>14, <1>15, <1>16,
     <1>17, <1>18 DEF Next, IciPing

\* Table by table, the peers, the map and the slots fit together, whatever the handlers of
\* InterfaceController.c are called with.
THEOREM TableIsSound == Spec => []Inductive
<1>1. Inductive /\ [Next]_vars => Inductive'
  BY NextInductive
<1> QED  BY InitInductive, <1>1, PTL DEF Spec

\* The path of every peer leads to it, and no slot of the switch is lost, however
\* moveEndpointIfNeeded merges endpoints and whoever is forgotten or disconnected.
THEOREM PathsLeadToPeers == Spec => []PathLeadsToPeer
<1>1. Inductive => PathLeadsToPeer
  <2>1. SUFFICES ASSUME Inductive PROVE PathLeadsToPeer
    OBVIOUS
  <2>2. iface \in Ifaces /\ Wired(peer, iface)
    BY <2>1, Parts, TableParts DEF Inductive, Sound, Good
  <2>3. Live(Table) = {p \in Peers : peer[p] # NoPeer}
    BY DEF Live, Table
  <2>4. \A i \in Slots : iface[i].owner \in Peers \cup {Router, "none"}
    BY <2>2 DEF Ifaces, Ports
  <2> QED  BY <2>2, <2>3, <2>4 DEF PathLeadsToPeer, Wired
<1> QED  BY TableIsSound, <1>1, PTL

\* The switch drops what is for a peer exactly while the interface controller holds it
\* for UNRESPONSIVE: a peer that comes back or takes over a slot is reachable.
THEOREM DownOnlyUnresponsive == Spec => []DownIsUnresponsive
<1>1. Inductive => DownIsUnresponsive
  BY TableParts DEF Inductive, Sound, Good, Wired, DownIsUnresponsive, Live
<1> QED  BY TableIsSound, <1>1, PTL

\* In every state the pathfinder has every announced peer at its path and nothing else, and none
\* that is UNRESPONSIVE, but for the paths that an announced peer was moved away from: every PEER
\* takes effect, and whoever goes, times out or gives its slot away is taken back.
THEOREM PathfinderStaysCurrent == Spec => []PathfinderIsCurrent
<1>1. Inductive => PathfinderIsCurrent
  <2>1. SUFFICES ASSUME Inductive, NEW i \in Slots \ stray PROVE Current(i)
    BY DEF PathfinderIsCurrent
  <2>2. CurrentAt(peer, myPeers, told, i) /\ \A p \in told : peer[p].state # "UNRESPONSIVE"
    BY <2>1 DEF Inductive, Sound, Informed, Presentable
  <2> QED  BY <2>2 DEF CurrentAt, Current
<1> QED  BY TableIsSound, <1>1, PTL

\* Without beacons, what handleBeacon is sure of is true: no announced peer is relocated.
THEOREM AnnouncedStaysPut == Spec /\ ~AcceptBeacons => []AnnouncedStays
<1>1. Inductive /\ ~AcceptBeacons => AnnouncedStays
  BY DEF Inductive, Sound, Informed, AnnouncedStays
<1>2. CASE ~AcceptBeacons
  <2>1. Inductive => AnnouncedStays
    BY <1>1, <1>2
  <2> QED  BY TableIsSound, <2>1, PTL
<1>3. CASE AcceptBeacons
  BY <1>3, PTL
<1>4. AcceptBeacons \/ ~AcceptBeacons
  BY PeerTableAssumption
<1> QED  BY <1>2, <1>3, <1>4
=============================================================================
