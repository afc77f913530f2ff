------------------------------ MODULE DueQueue ------------------------------
(***************************************************************************)
(* What core/heap.go promises the scheduler: a set of entries with unique  *)
(* IDs that gives out the earliest entry that is due and wanted.  Entries  *)
(* of the same time may be given out in any order.                         *)
(***************************************************************************)
EXTENDS Naturals

CONSTANTS
    Id,        \* job identifiers
    Time,      \* trigger times
    Wanted,    \* the sets of IDs a call may allow, see dispatchable
    Nothing,   \* the nil or false a call returns
    Yes        \* the true a call returns

VARIABLES
    entries,   \* what the queue holds
    answer     \* what the last call returned

vars == <<entries, answer>>

Entry == [id : Id, at : Time]

Ids == {e.id : e \in entries}

Due(now) == {e \in entries : e.at <= now}

\* Entries of `some' that no other of them precedes.
Earliest(some) == {e \in some : \A f \in some : e.at <= f.at}

Init == entries = {} /\ answer = Nothing

Answers(a) == answer' = a /\ UNCHANGED entries

PushItem(e) ==
    /\ e.id \notin Ids
    /\ entries' = entries \cup {e} /\ answer' = Nothing

TakeOut(e) == entries' = entries \ {e} /\ answer' = e

PopIfDueWhere(now, allowed) ==
    LET ready == {e \in Due(now) : e.id \in allowed} IN
    \/ ready = {} /\ Answers(Nothing)
    \/ \E e \in Earliest(ready) : TakeOut(e)

HasDue(now) == Answers(IF Due(now) # {} THEN Yes ELSE Nothing)

Peek ==
    \/ entries = {} /\ Answers(Nothing)
    \/ \E e \in Earliest(entries) : Answers(e)

Get(i) ==
    \/ i \notin Ids /\ Answers(Nothing)
    \/ \E e \in entries : e.id = i /\ Answers(e)

Remove(i) ==
    \/ i \notin Ids /\ Answers(Nothing)
    \/ \E e \in entries : e.id = i /\ TakeOut(e)

Update(e) ==
    \/ e.id \notin Ids /\ Answers(Nothing)
    \/ \E f \in entries : /\ f.id = e.id
                          /\ entries' = (entries \ {f}) \cup {e}
                          /\ answer' = Yes

Next ==
    \/ \E e \in Entry : PushItem(e) \/ Update(e)
    \/ \E now \in Time : HasDue(now) \/ \E allowed \in Wanted : PopIfDueWhere(now, allowed)
    \/ Peek
    \/ \E i \in Id : Get(i) \/ Remove(i)

Spec == Init /\ [][Next]_vars
=============================================================================
