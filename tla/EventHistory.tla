----------------------------- MODULE EventHistory -----------------------------
(***************************************************************************)
(* The API's memory of recent events, api/history.go: one window for all   *)
(* jobs, one per job, as many jobs as there is room for, of which the one  *)
(* that was written to least recently goes first.  Every operation holds   *)
(* the lock throughout.  An event is its number.                           *)
(***************************************************************************)
EXTENDS Naturals, Sequences, FiniteSets

CONSTANTS
    EventJob,       \* jobs that have events
    NoJob,          \* the job of an event that has none
    PerJobLimit, MaxJobs, GlobalLimit,
    MaxRecorded     \* events: a bound

ASSUME HistoryAssumption ==
    /\ NoJob \notin EventJob /\ MaxRecorded \in Nat
    /\ PerJobLimit \in Nat \ {0} /\ MaxJobs \in Nat \ {0} /\ GlobalLimit \in Nat \ {0}

VARIABLES
    global,         \* the last events of any job
    lru,            \* [job, items], the one written to last in front
    total,          \* what Stats and Clear report
    seen            \* history: the job of every event recorded since Clear,
                    \* and NoJob for those before it

historyVars == <<global, lru, total, seen>>

HistoryInit == global = <<>> /\ lru = <<>> /\ total = 0 /\ seen = <<>>

LastOf(s, n) == IF Len(s) <= n THEN s ELSE SubSeq(s, Len(s) - n + 1, Len(s))

\* Mutant of MovedToFront: the window keeps its place.
LeftInPlace(k, w) == [lru EXCEPT ![k] = w]

\* The list with its window k, now w, in front.
MovedToFront(k, w) ==
    [i \in 1..Len(lru) |-> IF i = 1 THEN w ELSE IF i <= k THEN lru[i - 1] ELSE lru[i]]

NoRoom == Len(lru) >= MaxJobs

\* The list with a new window in front: evictOldestLocked has made room.
PushedFront(w) ==
    [i \in 1..(IF NoRoom THEN Len(lru) ELSE Len(lru) + 1) |-> IF i = 1 THEN w ELSE lru[i - 1]]

\* The job's window, found or new, gets the event.  Its overflow and the events
\* of the evicted window are taken off the count.
ToWindow(j, e) ==
    \/ \E k \in 1..Len(lru) :
          /\ lru[k].job = j
          /\ lru' = MovedToFront(k,
                        [lru[k] EXCEPT !.items = LastOf(Append(@, e), PerJobLimit)])
          /\ total' = total + 1 - (IF Len(lru[k].items) = PerJobLimit THEN 1 ELSE 0)
    \/ /\ \A k \in 1..Len(lru) : lru[k].job # j
       /\ lru' = PushedFront([job |-> j, items |-> <<e>>])
       /\ total' = total + 1 - (IF NoRoom THEN Len(lru[Len(lru)].items) ELSE 0)

RecordEvent(j) ==
    LET e == Len(seen) + 1 IN
    /\ e <= MaxRecorded
    /\ seen' = Append(seen, j)
    /\ IF j = NoJob THEN UNCHANGED <<global, lru, total>>
       ELSE ToWindow(j, e) /\ global' = LastOf(Append(global, e), GlobalLimit)

\* By DELETE /admin/events.
Clear ==
    /\ global' = <<>> /\ lru' = <<>> /\ total' = 0
    /\ seen' = [i \in 1..Len(seen) |-> NoJob]

HistoryNext == Clear \/ \E j \in EventJob \cup {NoJob} : RecordEvent(j)

HistorySpec == HistoryInit /\ [][HistoryNext]_historyVars
-----------------------------------------------------------------------------
EventsOf(jobs) == {e \in 1..Len(seen) : seen[e] \in jobs}

Known == {j \in EventJob : EventsOf({j}) # {}}

Remembered == {lru[i].job : i \in 1..Len(lru)}

InWindow(s) == {s[k] : k \in 1..Len(s)}

\* The last of some events, in their order and at most n.
IsTail(s, own, n) ==
    /\ Len(s) <= n /\ InWindow(s) \subseteq own
    /\ \A k, l \in 1..Len(s) : k < l => s[k] < s[l]
    /\ \A e \in own \ InWindow(s), f \in InWindow(s) : e < f

\* ... and all of them if there are no more.
IsWholeTail(s, own, n) == IsTail(s, own, n) /\ (Len(s) < n => InWindow(s) = own)

\* historyMaxJobs: "超出按 LRU 淘汰整个任务" - the jobs kept are those with the latest
\* events, as many as there is room for, each with an unbroken run of its own
\* events up to the last ("保留的必须是尾部"), the common window likewise, and the
\* count that Stats shows and Clear answers is what is really there, through
\* overflows, evictions, readmissions and Clear.
HistoryIsTail ==
    /\ Remembered \subseteq Known /\ Cardinality(Remembered) = Len(lru)
    /\ Len(lru) = IF Cardinality(Known) < MaxJobs THEN Cardinality(Known) ELSE MaxJobs
    /\ \A j \in Remembered, k \in Known \ Remembered :
          \E e \in EventsOf({j}) : \A f \in EventsOf({k}) : f < e
    /\ \A i \in 1..Len(lru) :
          LET own == EventsOf({lru[i].job}) IN
          /\ lru[i].items # <<>> /\ IsTail(lru[i].items, own, PerJobLimit)
          /\ Cardinality(Known) <= MaxJobs => IsWholeTail(lru[i].items, own, PerJobLimit)
    /\ IsWholeTail(global, EventsOf(EventJob), GlobalLimit)
    /\ total = Cardinality(UNION {InWindow(lru[i].items) : i \in 1..Len(lru)})
=============================================================================
