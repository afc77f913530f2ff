------------------------------ MODULE EventLog ------------------------------
(***************************************************************************)
(* What feeds the batch writer and what ends it.  Two feeds, chosen in     *)
(* Init: EventLog (store/sqlite/events.go), a subscriber of the event bus  *)
(* (core/event.go) whose goroutine moves events from its channel to the    *)
(* batcher, and AuditLog (store/sqlite/audit.go), appended to by requests. *)
(* Both are closed while the process still publishes and still serves.     *)
(***************************************************************************)
EXTENDS Batcher

CONSTANTS
    Buffer,     \* capacity of the subscriber's channel
    Jobless     \* events that belong to no job (heap.updated)

ASSUME EventLogAssumption == Buffer \in Nat \ {0} /\ Jobless \subseteq Nat

VARIABLES
    feed,       \* "bus": EventLog, "direct": AuditLog
    open,       \* the subscription stands; AuditLog: not closed
    channel,    \* the subscriber's channel
    hand,       \* what the goroutine has taken off it and not yet given on
    published,  \* the events published, or entries offered, are 1..published
    missed      \* those that never got into the channel, or were refused

logVars == <<feed, open, channel, hand, published, missed>>
vars == <<batchVars, logVars>>

TypeOK ==
    /\ BatcherTypeOK
    /\ feed \in {"bus", "direct"} /\ open \in BOOLEAN
    /\ channel \in Seq(Record) /\ Len(channel) <= Buffer
    /\ hand \subseteq Record /\ Cardinality(hand) <= 1
    /\ published \in 0..MaxItems /\ missed \subseteq Record

Init ==
    /\ BatcherInit
    /\ feed \in {"bus", "direct"} /\ open = TRUE
    /\ channel = <<>> /\ hand = {} /\ published = 0 /\ missed = {}
-----------------------------------------------------------------------------
\* Publish never waits: who has no room, or has unsubscribed, does not get it.
Publish ==
    LET e == published + 1 IN
    /\ feed = "bus" /\ e <= MaxItems /\ published' = e
    /\ IF open /\ Len(channel) < Buffer
       THEN channel' = Append(channel, e) /\ UNCHANGED missed
       ELSE missed' = missed \cup {e} /\ UNCHANGED channel
    /\ UNCHANGED <<feed, open, hand, batchVars>>

\* The goroutine of NewEventLog takes an event; mapEvent skips the jobless.
Take ==
    /\ channel # <<>> /\ hand = {}
    /\ hand' = {Head(channel)} \ Jobless /\ channel' = Tail(channel)
    /\ UNCHANGED <<feed, open, published, missed, batchVars>>

HandOver ==
    /\ \E e \in hand : AppendRecord(e)
    /\ hand' = {}
    /\ UNCHANGED <<feed, open, channel, published, missed>>

\* AuditLog.Append, under closeMu: refused once Close has begun.
AuditAppend ==
    LET e == published + 1 IN
    /\ feed = "direct" /\ e <= MaxItems /\ published' = e
    /\ IF open THEN AppendRecord(e) /\ UNCHANGED missed
               ELSE missed' = missed \cup {e} /\ UNCHANGED batchVars
    /\ UNCHANGED <<feed, open, channel, hand>>

\* Close: Unsubscribe closes the channel, which keeps what is in it; AuditLog
\* sets closed.
LeaveBus ==
    /\ open /\ open' = FALSE
    /\ UNCHANGED <<feed, channel, hand, published, missed, batchVars>>

\* drainDone: the closed channel is empty and the goroutine has left its range.
LogDrained == ~open /\ channel = <<>> /\ hand = {}

\* ... and then the batcher is closed.
CloseBatcher == LogDrained /\ CloseBegin /\ UNCHANGED logVars

Writer == Round \/ SetRetention \/ LoopStops \/ CloseSeal

Next ==
    \/ Publish \/ Take \/ HandOver \/ AuditAppend \/ LeaveBus \/ CloseBatcher
    \/ Writer /\ UNCHANGED logVars

\* A mutex is handed to whoever waits for it (Go's starvation mode), every
\* transaction ends, the goroutines run while there is something for them.
LogFairness ==
    /\ SF_vars(FlushNothing(Loop) /\ UNCHANGED logVars)
    /\ SF_vars(FlushTake(Loop) /\ UNCHANGED logVars)
    /\ WF_vars((Transaction \/ TakeCommitted \/ RecordFailure) /\ UNCHANGED logVars)
    /\ WF_vars(LoopStops /\ UNCHANGED logVars)
    /\ WF_vars(CloseSeal /\ UNCHANGED logVars)
    /\ WF_vars(Take) /\ WF_vars(HandOver) /\ WF_vars(CloseBatcher)

Spec == Init /\ [][Next]_vars /\ LogFairness
-----------------------------------------------------------------------------
\* What the batcher should have been given, when all is taken from the channel.
Delivered ==
    (1..published) \ (missed \cup IF feed = "bus" THEN Jobless ELSE {})

\* recordFailure: "保住事件的时间顺序", and Dropped: "这个数必须可查，否则一张看起来完整的表实
\* 际缺页" - the rows are in the order of the appends and none is there twice,
\* although a round can fail, be repeated and be overtaken by a Flush of somebody
\* else (writeMu); what was pruned is older than all that is kept, however the
\* retention was changed; and every other record appended waits in the queue or
\* is one the counter has counted.  (A Flush by somebody else while Close seals
\* may commit what Close has just counted.)  And Close of EventLog: "反过来就会有一次
\* append 落在已经关掉的 batcher 上" - once the batcher is being closed, everything that
\* got into the channel has been appended to it, although the bus publishes and the
\* goroutine takes meanwhile; nothing is appended to it afterwards (also not by a
\* request that audits late).
TableIsExact ==
    /\ \A i, k \in 1..Len(table) : i < k => table[i] < table[k]
    /\ \A r \in pruned, i \in 1..Len(table) : r < table[i]
    /\ appended = rejected \cup lost \cup Items(queue) \cup Range(table) \cup pruned
    /\ dropped = Cardinality(rejected) + Cardinality(lost)
    /\ closing => channel = <<>> /\ hand = {} /\ appended = Delivered

\* Close: what waits when it begins is written or counted, and Close returns,
\* even if every transaction fails and the bus never falls silent.
CloseReturns == ~open ~> closed
=============================================================================
