------------------------------- MODULE Batcher -------------------------------
(***************************************************************************)
(* The batch writer of the observability tables, store/sqlite/batch.go: a  *)
(* bounded queue that drops what does not fit, written to its table in one *)
(* transaction per round by a loop and by callers of Flush, with one more  *)
(* try for a batch that failed, and a Close that writes what is left.  The *)
(* transaction also prunes its table (writeBatch and prune of events.go    *)
(* and audit.go, which are line for line alike).  EventLog.tla has what    *)
(* feeds it and what closes it.                                            *)
(***************************************************************************)
EXTENDS Naturals, Sequences, FiniteSets, Functions

CONSTANTS
    Capacity,   \* capacity of the queue
    MaxItems,   \* records ever offered: a bound
    Keeps,      \* the retention counts configured
    Caller,     \* goroutines that call Flush
    Loop,       \* the flush loop, run
    None        \* nobody holds writeMu

ASSUME BatcherAssumption ==
    /\ Capacity \in Nat \ {0} /\ MaxItems \in Nat
    /\ Keeps \subseteq Nat \ {0}
    /\ Loop \notin Caller /\ None \notin Caller \cup {Loop}

VARIABLES
    queue,      \* records with their retried marks, oldest first
    table,      \* records committed, in the order of their rows
    pruned,     \* records that were rows and are not kept any longer
    keep,       \* retentionCount
    appended,   \* the records that append was called with
    rejected,   \* those append turned away
    lost,       \* those accepted and given up, or left when Close sealed
    dropped,    \* the counter that Dropped returns
    writer,     \* who holds writeMu
    step, batch,\* how far the holder is; the records of its round
    loop,       \* "ticking"; "last": it has seen stop; "done"
    closing, closed

queueVars == <<queue, appended, rejected, lost, dropped>>
roundVars == <<writer, step, batch>>
closeVars == <<loop, closing, closed>>
tableVars == <<table, pruned, keep>>
batchVars == <<queueVars, tableVars, roundVars, closeVars>>

Record == 1..MaxItems

Slot == [item : Record, retried : BOOLEAN]

Items(slots) == {slots[i].item : i \in 1..Len(slots)}

BatcherTypeOK ==
    /\ queue \in Seq(Slot) /\ Len(queue) <= Capacity
    /\ table \in Seq(Record)
    /\ pruned \subseteq Record /\ keep \in Keeps
    /\ appended \subseteq Record
    /\ rejected \subseteq Record /\ lost \subseteq Record
    /\ dropped \in Nat
    /\ writer \in Caller \cup {Loop, None}
    /\ step \in {"free", "sql", "written", "failed"}
    /\ step = "free" <=> writer = None
    /\ batch \in Seq(Record)
    /\ loop \in {"ticking", "last", "done"}
    /\ closing \in BOOLEAN /\ closed \in BOOLEAN
-----------------------------------------------------------------------------
BatcherInit ==
    /\ queue = <<>> /\ table = <<>> /\ pruned = {} /\ keep \in Keeps
    /\ appended = {} /\ rejected = {} /\ lost = {} /\ dropped = 0
    /\ writer = None /\ step = "free" /\ batch = <<>>
    /\ loop = "ticking" /\ closing = FALSE /\ closed = FALSE

Full == Len(queue) >= Capacity

\* append never waits: what does not fit, or comes after Close, is dropped.
AppendRecord(r) ==
    /\ appended' = appended \cup {r}
    /\ \/ /\ closed \/ closing \/ Full
          /\ rejected' = rejected \cup {r} /\ dropped' = dropped + 1
          /\ UNCHANGED queue
       \/ /\ ~closed /\ ~closing /\ ~Full
          /\ queue' = Append(queue, [item |-> r, retried |-> FALSE])
          /\ UNCHANGED <<rejected, dropped>>
    /\ UNCHANGED <<lost, tableVars, roundVars, closeVars>>

\* SetRetention, by a reload: the next round prunes by the new count.
SetRetention ==
    /\ keep' \in Keeps \ {keep}
    /\ UNCHANGED <<queueVars, table, pruned, roundVars, closeVars>>

\* Mutant of MayFlush: the loop has no round after it has seen stop.
MayFlushWhileOpen(f) == f = Loop => loop = "ticking"

\* Who may start a round: the loop until it is done, a caller whenever it likes.
MayFlush(f) == f = Loop => loop # "done"

\* The loop's last round is its end, whatever comes of it.
LoopAfter(f) == IF f = Loop /\ loop = "last" THEN "done" ELSE loop

\* writeMu can be had.
WriterFree(f) == writer = None /\ f # None

\* Flush with writeMu: nothing to write, or closed ...
FlushNothing(f) ==
    /\ MayFlush(f) /\ WriterFree(f)
    /\ closed \/ queue = <<>>
    /\ loop' = LoopAfter(f)
    /\ UNCHANGED <<queueVars, tableVars, roundVars, closing, closed>>

\* ... or the queue is copied, and the lock of the queue given back.
FlushTake(f) ==
    /\ MayFlush(f) /\ WriterFree(f)
    /\ ~closed /\ queue # <<>>
    /\ writer' = f /\ step' = "sql"
    /\ batch' = [i \in 1..Len(queue) |-> queue[i].item]
    /\ UNCHANGED <<queueVars, tableVars, closeVars>>

\* writeBatch and prune: what is kept of the table with the batch behind it.
Kept == LET all == table \o batch IN
        IF Len(all) <= keep THEN all ELSE SubSeq(all, Len(all) - keep + 1, Len(all))

\* Rows and pruning are committed together, or rolled back as a whole.
Transaction ==
    /\ step = "sql"
    /\ \/ /\ step' = "written" /\ table' = Kept
          /\ pruned' = pruned \cup (Range(table \o batch) \ Range(Kept))
       \/ step' = "failed" /\ UNCHANGED <<table, pruned>>
    /\ UNCHANGED <<queueVars, keep, writer, batch, closeVars>>

EndRound ==
    /\ writer' = None /\ step' = "free" /\ batch' = <<>>
    /\ loop' = LoopAfter(writer)

\* takeCommitted: what was appended meanwhile stays; Close may have left less.
TakeCommitted ==
    /\ step = "written" /\ EndRound
    /\ queue' = IF Len(batch) <= Len(queue)
                THEN SubSeq(queue, Len(batch) + 1, Len(queue)) ELSE <<>>
    /\ UNCHANGED <<tableVars, appended, rejected, lost, dropped, closing, closed>>

\* The members of P in ascending order.
InOrder(P) ==
    CHOOSE f \in [1..Cardinality(P) -> P] :
        Range(f) = P /\ \A i, k \in DOMAIN f : i < k => f[i] < f[k]

\* What has failed is marked and queued again, or has failed before and is given
\* up; the positions of both in the queue.
Attempted == 1..(IF Len(batch) <= Len(queue) THEN Len(batch) ELSE Len(queue))
Gone == {i \in Attempted : queue[i].retried}
Marked ==
    LET again == Attempted \ Gone IN
    [i \in 1..Cardinality(again) |-> [queue[InOrder(again)[i]] EXCEPT !.retried = TRUE]]
Untried == SubSeq(queue, Cardinality(Attempted) + 1, Len(queue))

\* Mutant of RecordFailure: what failed goes to the end of the queue.
RequeueFailed ==
    /\ step = "failed" /\ EndRound
    /\ queue' = Untried \o Marked
    /\ lost' = lost \cup {queue[i].item : i \in Gone}
    /\ dropped' = dropped + Cardinality(Gone)
    /\ UNCHANGED <<tableVars, appended, rejected, closing, closed>>

\* recordFailure: of the batch, what failed before is given up, the rest is
\* marked and keeps its place at the front.
RecordFailure ==
    /\ step = "failed" /\ EndRound
    /\ queue' = Marked \o Untried
    /\ lost' = lost \cup {queue[i].item : i \in Gone}
    /\ dropped' = dropped + Cardinality(Gone)
    /\ UNCHANGED <<tableVars, appended, rejected, closing, closed>>
-----------------------------------------------------------------------------
\* Close: appends are turned away, and stop is closed.
CloseBegin ==
    /\ ~closing /\ closing' = TRUE
    /\ UNCHANGED <<queueVars, tableVars, roundVars, loop, closed>>

\* The loop sees stop, between two of its rounds.
LoopStops ==
    /\ loop = "ticking" /\ closing /\ writer # Loop
    /\ loop' = "last"
    /\ UNCHANGED <<queueVars, tableVars, roundVars, closing, closed>>

\* Close after the loop's end: what is still in the queue counts as dropped.
CloseSeal ==
    /\ loop = "done" /\ ~closed
    /\ closed' = TRUE /\ queue' = <<>>
    /\ lost' = lost \cup Items(queue) /\ dropped' = dropped + Len(queue)
    /\ UNCHANGED <<appended, rejected, tableVars, roundVars, loop, closing>>

Round == (\E f \in Caller \cup {Loop} : FlushNothing(f) \/ FlushTake(f))
         \/ Transaction \/ TakeCommitted \/ RecordFailure
=============================================================================
