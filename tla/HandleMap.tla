------------------------------ MODULE HandleMap ------------------------------
(***************************************************************************)
(* util/Map.h with keys and handles, as operators on a record: keys and    *)
(* handles are the parallel arrays, their common length is count.  The     *)
(* handles are kept sorted so that an entry can be found by binary search. *)
(***************************************************************************)
EXTENDS Integers, Sequences, SequencesExt

EmptyMap == [keys |-> <<>>, handles |-> <<>>, nextHandle |-> 0]

\* indexForKey, counting from 1, and 0 for "not found".
IndexForKey(map, key) ==
    IF \E i \in DOMAIN map.keys : map.keys[i] = key
    THEN CHOOSE i \in DOMAIN map.keys : map.keys[i] = key ELSE 0

\* A round of indexForHandle's loop over base and bufferLen; found is the index it returns,
\* counting from 1.  The identity once the loop has ended.
SearchRound(map, handle, s) ==
    LET middle == s.base + s.len \div 2 + 1
    IN  IF s.len = 0 \/ s.found # 0 THEN s
        ELSE IF handle = map.handles[middle] THEN [s EXCEPT !.found = middle]
        ELSE IF handle > map.handles[middle]
        THEN [s EXCEPT !.base = middle, !.len = (s.len - 1) \div 2]
        ELSE [s EXCEPT !.len = s.len \div 2]

\* indexForHandle: what is left to search is halved, so a round for every entry is enough.
IndexForHandle(map, handle) ==
    LET after[n \in 0 .. Len(map.keys)] ==
            IF n = 0 THEN [base |-> 0, len |-> Len(map.keys), found |-> 0]
            ELSE SearchRound(map, handle, after[n - 1])
    IN  after[Len(map.keys)].found

\* MUTANT: a handle is the place of its entry.
MapPutByCount(map, key) ==
    IF IndexForKey(map, key) # 0 THEN map
    ELSE [keys |-> Append(map.keys, key), handles |-> Append(map.handles, Len(map.keys)),
          nextHandle |-> map.nextHandle + 1]

\* put: the entry of a key that is there keeps its place and its handle.
MapPut(map, key) ==
    IF IndexForKey(map, key) # 0 THEN map
    ELSE [keys |-> Append(map.keys, key), handles |-> Append(map.handles, map.nextHandle),
          nextHandle |-> map.nextHandle + 1]

\* remove: the entries above move down.
MapRemove(map, index) ==
    [map EXCEPT !.keys = RemoveAt(@, index), !.handles = RemoveAt(@, index)]
=============================================================================
