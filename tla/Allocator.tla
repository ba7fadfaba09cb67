------------------------------ MODULE Allocator ------------------------------
(***************************************************************************)
(* The tree of memory allocators (memory/Allocator.c).  An allocator hangs *)
(* on its parent and on the allocators that have adopted it, and is freed  *)
(* when the last of these links is gone.  onFree jobs run when an          *)
(* allocator is freed; asynchronous ones delay the release of the memory.  *)
(*                                                                         *)
(* heap is one state of the tree:                                          *)
(*   parent    the parent; the root is its own                             *)
(*   kids      firstChild and its siblings, newest first                   *)
(*   adopters  adoptions->parents, newest first                            *)
(*   adopted   adoptions->children, newest first                           *)
(*   live      the allocators in use                                       *)
(*   freeing   those with isFreeing set, not yet released                  *)
(* What an allocator holds besides its own struct is left out.             *)
(***************************************************************************)
EXTENDS Integers, Sequences, SequencesExt, FiniteSetsExt

CONSTANTS Allocs, Root, NoAlloc,
          Jobs,           \* bound: onFree jobs registered at a time
          MaxAdoptions    \* bound: adoptions in force, or refused and not disowned, at a time

ASSUME AllocatorAssumption == IsFiniteSet(Allocs) /\ Root \in Allocs /\ NoAlloc \notin Allocs

VARIABLES heap,
          job,       \* job[j]: the allocator it is registered on or waits for, its kind
          refused,   \* history: <<p, c>> where p was refused the adoption of c and has not disowned it
          halted     \* "no", or "hang" in isAncestorOf, or where an assertion or failure() aborts

vars == <<heap, job, refused, halted>>

NoJob == [on |-> NoAlloc, async |-> FALSE, called |-> FALSE]

Init == /\ heap = [parent   |-> [a \in Allocs |-> IF a = Root THEN Root ELSE NoAlloc],
                   kids     |-> [a \in Allocs |-> <<>>],
                   adopters |-> [a \in Allocs |-> <<>>],
                   adopted  |-> [a \in Allocs |-> <<>>],
                   live     |-> {Root},
                   freeing  |-> {}]
        /\ job = [j \in Jobs |-> NoJob]
        /\ refused = {}
        /\ halted = "no"

-----------------------------------------------------------------------------
\* disconnect()
Disconnect(h, a) == [h EXCEPT !.kids[h.parent[a]] = RemoveFirst(@, a),
                              !.parent[a] = NoAlloc]

\* connect()
Connect(h, p, a) == [h EXCEPT !.kids[p] = <<a>> \o @, !.parent[a] = p]

\* disconnectAdopted()
DisconnectAdopted(h, p, c) == [h EXCEPT !.adopted[p] = RemoveFirst(@, c),
                                        !.adopters[c] = RemoveFirst(@, p)]

\* MUTANT: an allocator that cannot be saved keeps what it has adopted.
DropKeeping(h, a, top) ==
    LET d == IF a = top /\ h.parent[a] # a THEN Disconnect(h, a) ELSE h
    IN  [d EXCEPT !.live = @ \ {a}, !.freeing = @ \cup {a}]

\* What a has adopted, it gives up.
GiveUp(h, a) ==
    LET own == h.adopted[a]
        left[k \in 0 .. Len(own)] ==
            IF k = 0 THEN h ELSE DisconnectAdopted(left[k - 1], a, own[k])
    IN  left[Len(own)]

\* pivotChildrenToAdoptedParents0 on an allocator that nobody has adopted: it gives
\* up its own adoptions and is marked; only the top one leaves its parent.
Drop(h, a, top) ==
    LET e == GiveUp(h, a)
        d == IF a = top /\ h.parent[a] # a THEN Disconnect(e, a) ELSE e
    IN  [d EXCEPT !.live = @ \ {a}, !.freeing = @ \cup {a}]

\* MUTANT: what hangs below the freed allocator is taken from its adopters.
VisitTakingBack(h, a, top) ==
    LET g == IF a = top THEN h
             ELSE FoldLeft(LAMBDA e, p : DisconnectAdopted(e, p, a), h, h.adopters[a])
    IN  IF g.adopters[a] # <<>>
        THEN LET p == Head(g.adopters[a])
             IN  DisconnectAdopted(Connect(Disconnect(g, a), p, a), p, a)
        ELSE Drop(g, a, top)

\* pivotChildrenToAdoptedParents0 at its depth: the allocator moves to the adopter
\* that adopted it last, or is dropped.
Visit(h, a, top) ==
    IF h.adopters[a] # <<>>
    THEN LET p == Head(h.adopters[a])
         IN  DisconnectAdopted(Connect(Disconnect(h, a), p, a), p, a)
    ELSE Drop(h, a, top)

Depth == Cardinality(Allocs)

\* The children of the allocators of s, in the order of the search.
Children(h, s) ==
    LET all[n \in 0 .. Len(s)] == IF n = 0 THEN <<>> ELSE all[n - 1] \o h.kids[s[n]]
    IN  all[Len(s)]

\* The allocators at depth d below top.
Level(h, top, d) ==
    LET level[i \in 0 .. Depth] == IF i = 0 THEN <<top>> ELSE Children(h, level[i - 1])
    IN  level[d]

VisitAll(h, s, top) ==
    LET visited[n \in 0 .. Len(s)] == IF n = 0 THEN h ELSE Visit(visited[n - 1], s[n], top)
    IN  visited[Len(s)]

\* pivotChildrenToAdoptedParents: one pass for each depth, shallow ones first.
Pivoted(h, top) ==
    LET first == Visit(h, top, top)
        pass[d \in 0 .. Depth] ==
            IF d = 0 THEN first
            ELSE LET above == pass[d - 1] IN VisitAll(above, Level(above, top, d), top)
    IN  IF top \in first.live THEN first ELSE pass[Depth]

Subtree(h, a) == UNION {ToSet(Level(h, a, d)) : d \in 0 .. Depth}

\* freeAllocator(): everything below top goes back to the provider.
Released(h, top) ==
    LET gone == Subtree(h, top)
    IN  [h EXCEPT !.freeing = @ \ gone,
                  !.parent = [a \in Allocs |-> IF a \in gone THEN NoAlloc ELSE @[a]],
                  !.kids = [a \in Allocs |-> IF a \in gone THEN <<>> ELSE @[a]]]

\* MUTANT: adoptions are not followed.
AncestorOfByBirth(h, p, c) ==
    LET walk[a \in Allocs \cup {NoAlloc}] ==
            IF a = p THEN "yes"
            ELSE IF a = NoAlloc THEN "no"
            ELSE IF h.parent[a] = a THEN "no"
            ELSE walk[h.parent[a]]
    IN  walk[c]

\* isAncestorOf(): "yes", "no", or "loops" because its while (al) never moves on from
\* the first adopter.
IsAncestorOf(h, p, c) ==
    LET walk[a \in Allocs \cup {NoAlloc}] ==
            IF a = p THEN "yes"
            ELSE IF a = NoAlloc THEN "no"
            ELSE IF h.parent[a] = a THEN "no"
            ELSE LET byBirth == walk[h.parent[a]]
                 IN  IF byBirth # "no" \/ h.adopters[a] = <<>> THEN byBirth
                     ELSE IF walk[Head(h.adopters[a])] = "yes" THEN "yes" ELSE "loops"
    IN  walk[c]

-----------------------------------------------------------------------------
\* Allocator_child, of an allocator that is not being freed.
Child(p, a) ==
    /\ p \in heap.live
    /\ a \notin heap.live \cup heap.freeing \cup {Root}
    /\ heap' = Connect([heap EXCEPT !.live = @ \cup {a}], p, a)
    /\ UNCHANGED <<job, refused, halted>>

\* marshalOnFreeJobs and doOnFreeJobs: every job below top is called, and the
\* asynchronous ones stay, on top.
CallJobs(dying, top) ==
    [j \in Jobs |-> IF job[j].on \notin dying THEN job[j]
                    ELSE IF job[j].async THEN [on |-> top, async |-> TRUE, called |-> TRUE]
                    ELSE NoJob]

\* Allocator_free of top.
FreeTop(top) ==
    LET h == Pivoted(heap, top)
        dying == heap.live \ h.live
        jobs == CallJobs(dying, top)
    IN  /\ job' = jobs
        /\ heap' = IF top \in dying /\ \A j \in Jobs : jobs[j].on # top
                   THEN Released(h, top) ELSE h
        /\ refused' = {x \in refused : x[1] \notin dying /\ x[2] \notin dying}

\* Freeing the root adds up the memory below it: what has left the tree and is not
\* released yet is missing.
Free(a) ==
    /\ a \in heap.live
    /\ \/ /\ a = Root /\ heap.freeing # {}
          /\ halted' = "free"
          /\ UNCHANGED <<heap, job, refused>>
       \/ /\ ~(a = Root /\ heap.freeing # {})
          /\ FreeTop(a)
          /\ UNCHANGED halted

Adoptions == UNION {{a} \X DOMAIN heap.adopted[a] : a \in Allocs} \cup refused

\* Allocator_adopt, by and of what is not released yet.  p may adopt c again, and its own child.
Adopt(p, c) ==
    /\ {p, c} \subseteq heap.live \cup heap.freeing
    /\ Cardinality(Adoptions) < MaxAdoptions
    /\ \/ /\ p \in heap.freeing
          /\ UNCHANGED <<heap, refused, halted>>
       \/ /\ p \in heap.live /\ c \in heap.freeing
          /\ halted' = "adopt"
          /\ UNCHANGED <<heap, refused>>
       \/ /\ {p, c} \subseteq heap.live
          /\ IsAncestorOf(heap, c, p) = "loops"
          /\ halted' = "hang"
          /\ UNCHANGED <<heap, refused>>
       \/ /\ {p, c} \subseteq heap.live
          /\ IsAncestorOf(heap, c, p) = "yes"
          /\ refused' = refused \cup {<<p, c>>}
          /\ UNCHANGED <<heap, halted>>
       \/ /\ {p, c} \subseteq heap.live
          /\ IsAncestorOf(heap, c, p) = "no"
          /\ heap' = [heap EXCEPT !.adopted[p] = <<c>> \o @, !.adopters[c] = <<p>> \o @]
          /\ UNCHANGED <<refused, halted>>
    /\ UNCHANGED job

\* Allocator_disown of what p has adopted, whatever became of that, or was refused.
Disown(p, c) ==
    /\ {p, c} \subseteq heap.live \cup heap.freeing
    /\ c \in ToSet(heap.adopted[p]) \/ heap.parent[c] = p \/ <<p, c>> \in refused
    /\ \/ /\ {p, c} \cap heap.freeing # {}
          /\ UNCHANGED vars
       \/ /\ {p, c} \subseteq heap.live
          /\ heap.parent[c] = p
          /\ Free(c)
       \/ /\ {p, c} \subseteq heap.live
          /\ heap.parent[c] # p
          /\ IsAncestorOf(heap, c, p) = "loops"
          /\ halted' = "hang"
          /\ UNCHANGED <<heap, job, refused>>
       \/ /\ {p, c} \subseteq heap.live
          /\ heap.parent[c] # p
          /\ IsAncestorOf(heap, c, p) = "yes"
          /\ refused' = refused \ {<<p, c>>}
          /\ UNCHANGED <<heap, job, halted>>
       \/ /\ {p, c} \subseteq heap.live
          /\ heap.parent[c] # p
          /\ IsAncestorOf(heap, c, p) = "no" /\ c \in ToSet(heap.adopted[p])
          /\ heap' = DisconnectAdopted(heap, p, c)
          /\ UNCHANGED <<job, refused, halted>>
       \/ /\ {p, c} \subseteq heap.live
          /\ heap.parent[c] # p
          /\ IsAncestorOf(heap, c, p) = "no" /\ c \notin ToSet(heap.adopted[p])
          /\ halted' = "disown"
          /\ UNCHANGED <<heap, job, refused>>

\* Allocator_onFree.
OnFree(a, j) ==
    /\ a \in heap.live
    /\ job[j] = NoJob
    /\ \E async \in BOOLEAN : job' = [job EXCEPT ![j] = [on |-> a, async |-> async, called |-> FALSE]]
    /\ UNCHANGED <<heap, refused, halted>>

\* Allocator_cancelOnFree, before the job is called.
CancelOnFree(j) ==
    /\ job[j] # NoJob /\ ~job[j].called
    /\ job' = [job EXCEPT ![j] = NoJob]
    /\ UNCHANGED <<heap, refused, halted>>

\* MUTANT: the first job to complete releases the memory.
OnFreeCompleteAny(j) ==
    /\ job[j].called
    /\ job' = [job EXCEPT ![j] = NoJob]
    /\ heap' = Released(heap, job[j].on)
    /\ UNCHANGED <<refused, halted>>

\* Allocator_onFreeComplete.
OnFreeComplete(j) ==
    /\ job[j].called
    /\ job' = [job EXCEPT ![j] = NoJob]
    /\ heap' = IF \A i \in Jobs \ {j} : job[i].on # job[j].on
               THEN Released(heap, job[j].on) ELSE heap
    /\ UNCHANGED <<refused, halted>>

Next == /\ halted = "no"
        /\ \/ \E a, p \in Allocs : Child(p, a) \/ Adopt(p, a) \/ Disown(p, a)
           \/ \E a \in Allocs : Free(a)
           \/ \E a \in Allocs, j \in Jobs : OnFree(a, j)
           \/ \E j \in Jobs : CancelOnFree(j) \/ OnFreeComplete(j)

Spec == Init /\ [][Next]_vars

-----------------------------------------------------------------------------
Count(s, e) == Cardinality({i \in DOMAIN s : s[i] = e})

\* The assertions of disconnect, connect and disconnectAdopted: an allocator is once
\* in the list of its parent and of no other, both ends of an adoption know of it,
\* and neither end is being freed.
WellLinked ==
    \A p, c \in Allocs :
        /\ Count(heap.kids[p], c) = IF heap.parent[c] = p /\ c # Root THEN 1 ELSE 0
        /\ Count(heap.adopted[p], c) = Count(heap.adopters[c], p)
        /\ Count(heap.adopted[p], c) > 0 => {p, c} \subseteq heap.live

Parents(h, c) == {h.parent[c]} \cup ToSet(h.adopters[c])

Reachable(h) ==
    LET within[n \in 0 .. Depth] ==
            IF n = 0 THEN {Root}
            ELSE LET known == within[n - 1]
                 IN  known \cup {c \in Allocs : Parents(h, c) \cap known # {}}
    IN  within[Depth]

\* Allocator.h: "Any allocator which has no surviving parent allocator will be
\* implicitly freed."  As long as the root lives, exactly the allocators that hang
\* on it by some chain of parents and adopters are in use.
NoLeak == Root \in heap.live => heap.live = Reachable(heap)

\* Nothing is freed that still hangs on something: of the allocators that one call
\* frees none has a surviving adopter, and only the one that was named has a
\* surviving parent.
FreesOnlyOrphans ==
    [][LET dying == heap.live \ heap'.live
       IN  /\ \A c \in dying : ToSet(heap.adopters[c]) \cap heap'.live = {}
           /\ Cardinality({c \in dying : heap.parent[c] \in heap'.live}) <= 1]_vars

\* Memory is kept while an asynchronous job below the freed allocator is outstanding,
\* and only then: freeing ends, and never before its jobs have.
FreeingWaitsForJobs ==
    /\ \A j \in Jobs : job[j].called => job[j].on \in heap.freeing
    /\ \A j \in Jobs : job[j] # NoJob /\ ~job[j].called => job[j].on \in heap.live
    /\ \A a \in heap.freeing : \E j \in Jobs : job[j].called /\ a \in Subtree(heap, job[j].on)
=============================================================================
