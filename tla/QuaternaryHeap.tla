--------------------------- MODULE QuaternaryHeap ---------------------------
(***************************************************************************)
(* The scheduler's heap, core/heap.go: an array in heap order, four        *)
(* children to a node, and an index from IDs to places, so that an entry   *)
(* can be removed or replaced without a search.  It implements DueQueue.   *)
(*                                                                         *)
(* Every method holds the heap's lock for as long as it runs: one method   *)
(* is one action.  Places count from 0, as in the code.                    *)
(***************************************************************************)
EXTENDS Integers, Sequences

CONSTANTS
    Id,        \* job identifiers
    Time,      \* trigger times
    Wanted,    \* the sets of IDs a call may allow, see dispatchable
    Nothing,   \* the nil or false a call returns, and the place of an absent ID
    Yes,       \* the true a call returns
    MaxLen     \* longest heap: a bound

ASSUME HeapAssumption ==
    /\ Time \subseteq Int /\ MaxLen \in Nat
    /\ Nothing \notin Nat

branchFactor == 4

Entry == [id : Id, at : Time]

VARIABLES
    items,     \* the array
    indexMap,  \* [Id -> place or Nothing]
    answer     \* what the last call returned

vars == <<items, indexMap, answer>>
-----------------------------------------------------------------------------
(* A heap h is a record of items and indexMap.                             *)

Item(h, i) == h.items[i + 1]

Size(h) == Len(h.items)

Less(h, i, j) == Item(h, i).at < Item(h, j).at

parentIndex(i) == (i - 1) \div branchFactor

Children(h, i) ==
    (branchFactor * i + 1)..(branchFactor * i + branchFactor) \cap 0..Size(h) - 1

Swap(h, i, j) ==
    [items |-> [h.items EXCEPT ![i + 1] = Item(h, j), ![j + 1] = Item(h, i)],
     indexMap |-> [h.indexMap EXCEPT ![Item(h, j).id] = i, ![Item(h, i).id] = j]]

\* A sift is a heap and the place it has come to; one turn of the loop of siftUp:
Risen(s) ==
    LET parent == parentIndex(s.at) IN
    IF s.at > 0 /\ Less(s.heap, s.at, parent)
    THEN [heap |-> Swap(s.heap, s.at, parent), at |-> parent]
    ELSE s

\* siftUp: the place moves with every turn but the last, so Size(h) turns suffice.
SiftUp(h, i) ==
    LET turn[n \in Nat] ==
            IF n = 0 THEN [heap |-> h, at |-> i] ELSE Risen(turn[n - 1])
    IN  turn[Size(h)].heap

\* The first of the places i and its children that has the earliest time.
SmallestChild(h, i) ==
    CHOOSE c \in {i} \cup Children(h, i) :
        \A d \in {i} \cup Children(h, i) :
            /\ ~Less(h, d, c)
            /\ d < c => Less(h, c, d)

\* One turn of the loop of siftDown, and siftDown.
Sunk(s) ==
    LET least == SmallestChild(s.heap, s.at) IN
    IF least # s.at THEN [heap |-> Swap(s.heap, s.at, least), at |-> least] ELSE s

SiftDown(h, i) ==
    LET turn[n \in Nat] ==
            IF n = 0 THEN [heap |-> h, at |-> i] ELSE Sunk(turn[n - 1])
    IN  turn[Size(h)].heap

\* Mutant of SiftRange: what takes a removed entry's place only sinks.
SiftRangeDown(h, i) == SiftDown(h, i)

SiftRange(h, i) ==
    IF i > 0 /\ Less(h, i, parentIndex(i)) THEN SiftUp(h, i) ELSE SiftDown(h, i)

\* The last entry taken off the array.
DropLast(h) ==
    [items |-> SubSeq(h.items, 1, Size(h) - 1),
     indexMap |-> [h.indexMap EXCEPT ![Item(h, Size(h) - 1).id] = Nothing]]

RemoveAt(h, i) ==
    LET last == Size(h) - 1 IN
    IF i = last THEN DropLast(h) ELSE SiftRange(DropLast(Swap(h, i, last)), i)

\* eachDue: the places of due entries, found from the root downwards; below an
\* entry that is not due nothing is looked at.
EachDue(h, now) ==
    LET visited[i \in 0..Size(h) - 1] ==
            Item(h, i).at <= now /\ (i = 0 \/ visited[parentIndex(i)])
    IN  {i \in 0..Size(h) - 1 : visited[i]}
-----------------------------------------------------------------------------
(* The methods.                                                            *)

Init ==
    /\ items = <<>> /\ indexMap = [i \in Id |-> Nothing]
    /\ answer = Nothing

heap == [items |-> items, indexMap |-> indexMap]

Becomes(h, a) == items' = h.items /\ indexMap' = h.indexMap /\ answer' = a

\* IDs are unique: the caller's contract (Scheduler's SingleOwner).
PushItem(e) ==
    /\ Len(items) < MaxLen /\ \A i \in 1..Len(items) : items[i].id # e.id
    /\ Becomes(SiftUp([items |-> Append(items, e),
                       indexMap |-> [indexMap EXCEPT ![e.id] = Len(items)]],
                      Len(items)),
               Nothing)

\* Mutant of Best: the first due entry that is wanted will do.
FirstWanted(now, allowed) ==
    LET wanted == {i \in EachDue(heap, now) : Item(heap, i).id \in allowed} IN
    {i \in wanted : \A k \in wanted : i <= k}

\* The places of the earliest entries that are due and wanted.
Best(now, allowed) ==
    LET wanted == {i \in EachDue(heap, now) : Item(heap, i).id \in allowed} IN
    {i \in wanted : \A k \in wanted : ~Less(heap, k, i)}

RootDue(now) == items # <<>> /\ items[1].at <= now

\* PopIfDueWhere, which looks at the root first; PopIfDue wants everything.
PopIfDueWhere(now, allowed) ==
    \/ /\ RootDue(now) /\ items[1].id \in allowed
       /\ Becomes(RemoveAt(heap, 0), items[1])
    \/ /\ RootDue(now) /\ items[1].id \notin allowed
       /\ \E i \in Best(now, allowed) : Becomes(RemoveAt(heap, i), Item(heap, i))
    \/ /\ ~RootDue(now) \/ Best(now, allowed) = {}
       /\ Becomes(heap, Nothing)

HasDue(now) == Becomes(heap, IF EachDue(heap, now) # {} THEN Yes ELSE Nothing)

Peek == Becomes(heap, IF items = <<>> THEN Nothing ELSE items[1])

Get(i) ==
    Becomes(heap, IF indexMap[i] = Nothing THEN Nothing ELSE Item(heap, indexMap[i]))

Remove(i) ==
    IF indexMap[i] = Nothing THEN Becomes(heap, Nothing)
    ELSE Becomes(RemoveAt(heap, indexMap[i]), Item(heap, indexMap[i]))

Update(e) ==
    IF indexMap[e.id] = Nothing THEN Becomes(heap, Nothing)
    ELSE Becomes(SiftRange([heap EXCEPT !.items[indexMap[e.id] + 1] = e], indexMap[e.id]),
                 Yes)

Next ==
    \/ \E e \in Entry : PushItem(e) \/ Update(e)
    \/ \E now \in Time : HasDue(now) \/ \E allowed \in Wanted : PopIfDueWhere(now, allowed)
    \/ Peek
    \/ \E i \in Id : Get(i) \/ Remove(i)

Spec == Init /\ [][Next]_vars
-----------------------------------------------------------------------------
\* siftUp, siftDown, siftRange, Swap, removeAt: after any sequence of pushes,
\* removals from the middle and replacements, no entry comes before its parent,
\* and the index says where every entry is and knows no other.
WellFormed ==
    /\ \A i \in 1..Len(items) - 1 : ~Less(heap, i, parentIndex(i))
    /\ \A i \in Id :
        LET places == {p \in 0..Len(items) - 1 : Item(heap, p).id = i} IN
        IF indexMap[i] = Nothing THEN places = {} ELSE places = {indexMap[i]}

Queue == INSTANCE DueQueue WITH
             entries <- {items[i] : i \in 1..Len(items)}

\* The heap is a queue of due jobs: whatever the shape of the array, each call
\* does and returns what DueQueue says of the same call, and a refused job at
\* the root, or any number of them, does not hide the earliest wanted one
\* (PopIfDueWhere, eachDue).
ImplementsDueQueue ==
    /\ Queue!Init
    /\ [][/\ \A e \in Entry : /\ PushItem(e) => Queue!PushItem(e)
                              /\ Update(e) => Queue!Update(e)
          /\ \A now \in Time :
                /\ HasDue(now) => Queue!HasDue(now)
                /\ \A allowed \in Wanted :
                      PopIfDueWhere(now, allowed) => Queue!PopIfDueWhere(now, allowed)
          /\ Peek => Queue!Peek
          /\ \A i \in Id : /\ Get(i) => Queue!Get(i)
                           /\ Remove(i) => Queue!Remove(i)]_vars
=============================================================================
