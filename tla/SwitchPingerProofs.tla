-------------------------- MODULE SwitchPingerProofs --------------------------
(***************************************************************************)
(* Proofs about pings and their timeouts, for any number of pings at a     *)
(* time, any limit, any labels and any versions.                           *)
(*                                                                         *)
(* The argument follows one ping: it is called back only while it exists   *)
(* and is not answered, and the call answers it; it keeps its label as     *)
(* long as it exists; and it is taken off the count where it ends, which   *)
(* is a step that finds it and leaves none.                                *)
(***************************************************************************)
EXTENDS SwitchPinger, FiniteSetTheorems, TLAPS

Versions0 == {0} \cup {VersionOf[l] : l \in Labels}

\* struct Ping of the two files, with the state of its allocator.
PingStates == [label : Labels \cup {"none"}, sent : BOOLEAN, timer : BOOLEAN,
               answered : BOOLEAN, cancelled : BOOLEAN, adopted : BOOLEAN,
               parent : {"none", "user", "request"}]

Logs == [calls : Nat, late : BOOLEAN, timeout : BOOLEAN, version : Versions0,
         label : Labels \cup {"none"}]

TypeInv == /\ ping \in [Pings -> PingStates]
           /\ outstanding \in Int
           /\ incoming \in Versions0
           /\ log \in [Pings -> Logs]

\* A ping that exists hangs below some allocator and has a label; the log is of the
\* same label, and has no call as long as the ping is not answered.
PingInv(p, g) ==
    /\ p # NoPing => /\ p.parent # "none"
                     /\ p.label \in Labels /\ g.label = p.label
                     /\ ~p.answered => g.calls = 0
    /\ g.calls <= 1
    /\ g.timeout \/ g.version \in {0} \cup {VersionOf[l] : l \in {g.label} \cap Labels}

Existing == {i \in Pings : ping[i] # NoPing}

IndInv == /\ TypeInv
          /\ \A i \in Pings : PingInv(ping[i], log[i])
          /\ outstanding = Cardinality(Existing)

-----------------------------------------------------------------------------
\* The record that stands for no ping is told from the others by its parent.
LEMMA NoPingType == NoPing \in PingStates /\ NoPing.parent = "none" /\ ~NoPing.timer
                    /\ ~NoPing.adopted
  BY DEF NoPing, PingStates

\* The pings that exist are finitely many.
LEMMA ExistingFinite == IsFiniteSet(Existing) /\ Cardinality(Existing) \in Nat
<1>1. Existing \subseteq Pings
  BY DEF Existing
<1> QED  BY <1>1, SwitchPingerAssumption, FS_Subset, FS_CardinalityType

\* A step that touches the state and the log of ping i only, and keeps the count in
\* line with whether i exists, preserves the invariant.
LEMMA OnePing ==
    ASSUME IndInv, NEW i \in Pings, NEW p \in PingStates, NEW g \in Logs,
           ping' = [ping EXCEPT ![i] = p], log' = [log EXCEPT ![i] = g],
           incoming' \in Versions0, PingInv(p, g),
           outstanding' = outstanding + (IF p # NoPing THEN 1 ELSE 0)
                                      - (IF ping[i] # NoPing THEN 1 ELSE 0)
    PROVE  IndInv'
<1>1. /\ outstanding \in Int /\ outstanding = Cardinality(Existing)
      /\ ping \in [Pings -> PingStates] /\ log \in [Pings -> Logs]
  BY DEF IndInv, TypeInv
<1>2. TypeInv'
  BY <1>1 DEF TypeInv
<1>3. ASSUME NEW j \in Pings PROVE PingInv(ping'[j], log'[j])
  <2>1. CASE j = i
    BY <1>1, <2>1
  <2>2. CASE j # i
    BY <1>1, <2>2 DEF IndInv
  <2> QED  BY <2>1, <2>2
<1>4. outstanding' = Cardinality(Existing')
  <2>0. IsFiniteSet(Existing) /\ Cardinality(Existing) \in Nat
    BY ExistingFinite
  <2>1. Existing' = IF p # NoPing THEN Existing \cup {i} ELSE Existing \ {i}
    BY <1>1 DEF Existing
  <2>2. i \in Existing <=> ping[i] # NoPing
    BY DEF Existing
  <2>3. Cardinality(Existing \cup {i}) = IF i \in Existing THEN Cardinality(Existing)
                                         ELSE Cardinality(Existing) + 1
    BY <2>0, FS_AddElement
  <2>4. Cardinality(Existing \ {i}) = IF i \in Existing THEN Cardinality(Existing) - 1
                                      ELSE Cardinality(Existing)
    BY <2>0, FS_RemoveElement
  <2> QED  BY <1>1, <2>0, <2>1, <2>2, <2>3, <2>4
<1> QED  BY <1>2, <1>3, <1>4 DEF IndInv

\* Freeing a ping, which ends it or moves it to its adopter.
LEMMA FreeInv ==
    ASSUME IndInv, NEW i \in Pings, ping[i] # NoPing, NEW p \in PingStates, NEW g \in Logs,
           p.parent # "none", p.label = ping[i].label, g.label = log[i].label,
           ~p.answered => g.calls = 0, PingInv(NoPing, g),
           FreePing(i, p), log' = [log EXCEPT ![i] = g], incoming' \in Versions0
    PROVE  IndInv'
<1>1. p.label \in Labels /\ g.label = p.label /\ outstanding \in Int
  BY DEF IndInv, PingInv, TypeInv
<1>2. CASE p.adopted
  <2> DEFINE q == [p EXCEPT !.adopted = FALSE, !.parent = "request"]
  <2>1. q \in PingStates /\ q.parent = "request" /\ q.label = p.label /\ q.answered = p.answered
    BY DEF PingStates
  <2>2. ping' = [ping EXCEPT ![i] = q] /\ outstanding' = outstanding
    BY <1>2 DEF FreePing
  <2> HIDE DEF q
  <2>3. q # NoPing
    BY <2>1, NoPingType
  <2>4. PingInv(q, g)
    BY <1>1, <2>1 DEF PingInv
  <2>5. outstanding' = outstanding + (IF q # NoPing THEN 1 ELSE 0)
                                   - (IF ping[i] # NoPing THEN 1 ELSE 0)
    BY <1>1, <2>2, <2>3
  <2> QED  BY <2>1, <2>2, <2>4, <2>5, OnePing
<1>3. CASE ~p.adopted
  <2>1. ping' = [ping EXCEPT ![i] = NoPing] /\ outstanding' = outstanding - 1
    BY <1>3 DEF FreePing, OnPingFree
  <2>2. outstanding' = outstanding + (IF NoPing # NoPing THEN 1 ELSE 0)
                                   - (IF ping[i] # NoPing THEN 1 ELSE 0)
    BY <1>1, <2>1
  <2> QED  BY <2>1, <2>2, OnePing, NoPingType
<1> QED  BY <1>2, <1>3 DEF PingStates

-----------------------------------------------------------------------------
\* SwitchPinger_newPing.
LEMMA NewPingInv ==
    ASSUME IndInv, NEW i \in Pings, NEW label \in Labels, NewPing(i, label)
    PROVE  IndInv'
<1> DEFINE p == PingerNewPing(label)
           g == [NoLog EXCEPT !.label = label]
<1>1. p \in PingStates /\ p.parent = "user" /\ p.label = label /\ ~p.answered
  BY DEF PingerNewPing, NoPing, PingStates
<1>2. g \in Logs /\ g.calls = 0 /\ g.label = label /\ g.version = 0
  BY DEF NoLog, Logs, Versions0
<1>3. /\ ping' = [ping EXCEPT ![i] = p] /\ log' = [log EXCEPT ![i] = g]
      /\ outstanding' = outstanding + 1 /\ ping[i] = NoPing /\ incoming' = incoming
  BY DEF NewPing
<1> HIDE DEF p, g
<1>4. p # NoPing /\ PingInv(p, g) /\ outstanding \in Int /\ incoming \in Versions0
  BY <1>1, <1>2, NoPingType DEF PingInv, IndInv, TypeInv
<1>5. outstanding' = outstanding + (IF p # NoPing THEN 1 ELSE 0)
                                 - (IF ping[i] # NoPing THEN 1 ELSE 0)
  BY <1>3, <1>4
<1> QED  BY <1>1, <1>2, <1>3, <1>4, <1>5, OnePing

\* A step that leaves a ping where it is, answered as it was, with its log.
LEMMA KeptInv ==
    ASSUME IndInv, NEW i \in Pings, NEW p \in PingStates, ping[i] # NoPing,
           p.parent = ping[i].parent, p.label = ping[i].label, p.answered = ping[i].answered,
           ping' = [ping EXCEPT ![i] = p], UNCHANGED <<outstanding, incoming, log>>
    PROVE  IndInv'
<1>1. /\ PingInv(ping[i], log[i]) /\ log[i] \in Logs /\ outstanding \in Int
      /\ incoming \in Versions0 /\ log \in [Pings -> Logs]
  BY DEF IndInv, TypeInv
<1>2. p # NoPing /\ PingInv(p, log[i])
  BY <1>1, NoPingType DEF PingInv
<1>3. log' = [log EXCEPT ![i] = log[i]]
  BY <1>1
<1>4. outstanding' = outstanding + (IF p # NoPing THEN 1 ELSE 0)
                                 - (IF ping[i] # NoPing THEN 1 ELSE 0)
  BY <1>1, <1>2
<1> QED  BY <1>1, <1>2, <1>3, <1>4, OnePing

\* A callback to the user, with the response's version or for a timeout.
LEMMA CalledInv ==
    ASSUME IndInv, NEW i \in Pings, ping[i] # NoPing, ~ping[i].answered,
           NEW p \in PingStates, NEW g \in Logs,
           p.answered, p.parent = ping[i].parent, p.label = ping[i].label,
           g.calls = log[i].calls + 1, g.label = log[i].label,
           g.timeout \/ g.version \in {0, VersionOf[ping[i].label]},
           FreePing(i, p), log' = [log EXCEPT ![i] = g], incoming' \in Versions0
    PROVE  IndInv'
<1>1. /\ PingInv(ping[i], log[i]) /\ log[i].calls = 0 /\ p.parent # "none"
      /\ log[i].label \in Labels /\ log[i].label = ping[i].label
  BY DEF IndInv, PingInv
<1>2. PingInv(NoPing, g)
  BY <1>1 DEF PingInv
<1> QED  BY <1>1, <1>2, FreeInv

\* messageFromControlHandler.
LEMMA PongReceivedInv ==
    ASSUME IndInv, NEW i \in Pings, NEW version \in {0, VersionOf[ping[i].label]},
           PongReceived(i, version)
    PROVE  IndInv'
<1>0. /\ ping[i] # NoPing /\ ping[i] \in PingStates /\ log[i] \in Logs
      /\ ping[i].label \in Labels /\ version \in Versions0 /\ incoming' = version
      /\ ping \in [Pings -> PingStates] /\ log \in [Pings -> Logs]
  BY DEF PongReceived, IndInv, TypeInv, PingInv, Versions0
<1>1. CASE ping[i].answered
  <2>1. UNCHANGED <<ping, outstanding, log>>
    BY <1>1 DEF PongReceived, PingerPongReceived
  <2> QED  BY <1>0, <2>1 DEF IndInv, TypeInv, Existing
<1>2. CASE ~ping[i].answered
  <2> DEFINE p == [ping[i] EXCEPT !.answered = TRUE]
             late == log[i].late \/ ping[i].cancelled
             calls == log[i].calls + 1
             g == [log[i] EXCEPT !.calls = calls, !.late = late, !.version = version]
  <2>1. FreePing(i, p) /\ log' = [log EXCEPT ![i] = g]
    BY <1>0, <1>2 DEF PongReceived, PingerPongReceived, Callback, OnPingResponse
  <2>2. p \in PingStates /\ p.answered /\ p.parent = ping[i].parent /\ p.label = ping[i].label
    BY <1>0 DEF PingStates
  <2>4. late \in BOOLEAN /\ calls \in Nat
    BY <1>0 DEF Logs
  <2> HIDE DEF late, calls
  <2>3. /\ g \in Logs /\ g.calls = calls /\ g.label = log[i].label
        /\ g.version = version
    BY <1>0, <2>4 DEF Logs
  <2> HIDE DEF p, g
  <2> QED  BY <1>0, <1>2, <2>1, <2>2, <2>3, CalledInv DEF calls
<1> QED  BY <1>1, <1>2

\* timeoutCallback.
LEMMA TimeoutInv ==
    ASSUME IndInv, NEW i \in Pings, Timeout(i)
    PROVE  IndInv'
<1>0. /\ ping[i] # NoPing /\ ping[i] \in PingStates /\ log[i] \in Logs
      /\ incoming \in Versions0 /\ incoming' = incoming
      /\ ping \in [Pings -> PingStates] /\ log \in [Pings -> Logs]
  BY NoPingType DEF Timeout, IndInv, TypeInv
<1>1. CASE ping[i].answered
  <2> DEFINE p == [ping[i] EXCEPT !.timer = FALSE]
  <2>1. ping' = [ping EXCEPT ![i] = p] /\ UNCHANGED <<outstanding, incoming, log>>
    BY <1>0, <1>1 DEF Timeout
  <2>2. /\ p \in PingStates /\ p.parent = ping[i].parent /\ p.label = ping[i].label
        /\ p.answered = ping[i].answered
    BY <1>0 DEF PingStates
  <2> HIDE DEF p
  <2> QED  BY <1>0, <2>1, <2>2, KeptInv
<1>2. CASE ~ping[i].answered
  <2> DEFINE p == [ping[i] EXCEPT !.answered = TRUE, !.timer = FALSE]
             late == log[i].late \/ ping[i].cancelled
             calls == log[i].calls + 1
             g == [log[i] EXCEPT !.calls = calls, !.late = late,
                                 !.version = incoming, !.timeout = TRUE]
  <2>1. FreePing(i, p) /\ log' = [log EXCEPT ![i] = g]
    BY <1>0, <1>2 DEF Timeout, OnPingTimeout
  <2>2. p \in PingStates /\ p.answered /\ p.parent = ping[i].parent /\ p.label = ping[i].label
    BY <1>0 DEF PingStates
  <2>4. late \in BOOLEAN /\ calls \in Nat
    BY <1>0 DEF Logs
  <2> HIDE DEF late, calls
  <2>3. g \in Logs /\ g.calls = calls /\ g.label = log[i].label /\ g.timeout
    BY <1>0, <2>4 DEF Logs
  <2> HIDE DEF p, g
  <2> QED  BY <1>0, <1>2, <2>1, <2>2, <2>3, CalledInv DEF calls
<1> QED  BY <1>1, <1>2

\* The end of the allocator that was given to newPing.
LEMMA CancelInv ==
    ASSUME IndInv, NEW i \in Pings, Cancel(i)
    PROVE  IndInv'
<1> DEFINE p == [ping[i] EXCEPT !.cancelled = TRUE]
<1>0. /\ ping[i].parent = "user" /\ ping[i] # NoPing /\ ping[i] \in PingStates
      /\ log[i] \in Logs /\ log \in [Pings -> Logs] /\ PingInv(ping[i], log[i])
      /\ incoming \in Versions0 /\ incoming' = incoming
  BY NoPingType DEF Cancel, IndInv, TypeInv
<1>1. FreePing(i, p) /\ log' = [log EXCEPT ![i] = log[i]]
  BY <1>0 DEF Cancel
<1>2. /\ p \in PingStates /\ p.parent = "user" /\ p.label = ping[i].label
      /\ p.answered = ping[i].answered
  BY <1>0 DEF PingStates
<1> HIDE DEF p
<1>3. PingInv(NoPing, log[i]) /\ (~p.answered => log[i].calls = 0)
  BY <1>0, <1>2 DEF PingInv
<1> QED  BY <1>0, <1>1, <1>2, <1>3, FreeInv

\* sendPing.
LEMMA SendPingInv ==
    ASSUME IndInv, NEW i \in Pings, SendPing(i)
    PROVE  IndInv'
<1>0. /\ ping[i] # NoPing /\ ping[i] \in PingStates /\ ping \in [Pings -> PingStates]
  BY DEF SendPing, IndInv, TypeInv
<1>1. PICK queue \in BOOLEAN : ping' = [ping EXCEPT ![i].sent = TRUE, ![i].adopted = queue]
  BY DEF SendPing
<1> DEFINE p == [ping[i] EXCEPT !.sent = TRUE, !.adopted = queue]
<1>2. ping' = [ping EXCEPT ![i] = p] /\ UNCHANGED <<outstanding, incoming, log>>
  BY <1>0, <1>1 DEF SendPing
<1>3. /\ p \in PingStates /\ p.parent = ping[i].parent /\ p.label = ping[i].label
      /\ p.answered = ping[i].answered
  BY <1>0 DEF PingStates
<1> HIDE DEF p
<1> QED  BY <1>0, <1>2, <1>3, KeptInv

\* sendComplete.
LEMMA SendCompleteInv ==
    ASSUME IndInv, NEW i \in Pings, SendComplete(i)
    PROVE  IndInv'
<1>0. /\ ping[i] \in PingStates /\ ping \in [Pings -> PingStates] /\ PingInv(ping[i], log[i])
      /\ log[i] \in Logs /\ log \in [Pings -> Logs] /\ incoming \in Versions0
      /\ UNCHANGED <<incoming, log>>
  BY DEF SendComplete, IndInv, TypeInv
<1>1. CASE ping[i].parent = "request"
  <2>1. /\ FreePing(i, ping[i]) /\ ping[i] # NoPing /\ log' = [log EXCEPT ![i] = log[i]]
        /\ ping[i].parent # "none" /\ (~ping[i].answered => log[i].calls = 0)
        /\ PingInv(NoPing, log[i])
    BY <1>0, <1>1, NoPingType DEF SendComplete, PingInv
  <2> QED  BY <1>0, <2>1, FreeInv
<1>2. CASE ping[i].parent # "request"
  <2> DEFINE p == [ping[i] EXCEPT !.adopted = FALSE]
  <2>1. ping' = [ping EXCEPT ![i] = p] /\ UNCHANGED <<outstanding, incoming, log>>
    BY <1>0, <1>2 DEF SendComplete
  <2>2. /\ p \in PingStates /\ p.parent = ping[i].parent /\ p.label = ping[i].label
        /\ p.answered = ping[i].answered
    BY <1>0 DEF PingStates
  <2>3. CASE ping[i] = NoPing
    <3>1. p = ping[i]
      BY <1>0, <2>3, NoPingType DEF PingStates
    <3>2. ping' = ping
      BY <1>0, <2>1, <3>1
    <3> QED  BY <2>1, <3>2 DEF IndInv, TypeInv, Existing
  <2> HIDE DEF p
  <2>4. CASE ping[i] # NoPing
    BY <1>0, <2>1, <2>2, <2>4, KeptInv
  <2> QED  BY <2>3, <2>4
<1> QED  BY <1>1, <1>2

-----------------------------------------------------------------------------
\* No pings and nothing outstanding.
LEMMA InitInv == Init => IndInv
<1> SUFFICES ASSUME Init PROVE IndInv
  OBVIOUS
<1>1. NoLog \in Logs /\ NoLog.calls = 0 /\ NoLog.version = 0
  BY DEF NoLog, Logs, Versions0
<1>2. TypeInv
  BY <1>1, NoPingType DEF Init, TypeInv, Versions0
<1>3. \A i \in Pings : PingInv(ping[i], log[i])
  BY <1>1 DEF Init, PingInv
<1>4. Existing = {}
  BY DEF Init, Existing
<1> QED  BY <1>2, <1>3, <1>4, FS_EmptySet DEF IndInv, Init

\* Every step preserves the invariant.
LEMMA StepInv == IndInv /\ [Next]_vars => IndInv'
<1> SUFFICES ASSUME IndInv, [Next]_vars PROVE IndInv'
  OBVIOUS
<1>1. CASE UNCHANGED vars
  BY <1>1 DEF vars, IndInv, TypeInv, Existing
<1>2. CASE Next
  BY <1>2, NewPingInv, SendPingInv, PongReceivedInv, TimeoutInv, CancelInv, SendCompleteInv
     DEF Next
<1> QED  BY <1>1, <1>2

\* The invariant holds in every state.
THEOREM Inductive == Spec => []IndInv
<1> QED  BY InitInv, StepInv, PTL DEF Spec

\* A ping's user hears of it at most once, whatever pongs, errors and timeouts arrive
\* and whatever keeps the ping alive after its answer.
THEOREM UserHearsOnce == Spec => []AnsweredOnce
<1>1. IndInv => AnsweredOnce
  BY DEF IndInv, PingInv, AnsweredOnce
<1> QED  BY <1>1, Inductive, PTL

\* The count of outstanding pings is the number of pings that exist, so a slot is
\* neither lost nor given away twice.
THEOREM SlotsAreCounted == Spec => []CountMatches
<1>1. IndInv => CountMatches
  BY DEF IndInv, Existing, CountMatches
<1> QED  BY <1>1, Inductive, PTL

\* A response never reports the version of a node other than the one that was pinged.
THEOREM VersionIsOfPinged == Spec => []VersionOfPinged
<1>1. IndInv => VersionOfPinged
  BY DEF IndInv, PingInv, VersionOfPinged
<1> QED  BY <1>1, Inductive, PTL
=============================================================================
