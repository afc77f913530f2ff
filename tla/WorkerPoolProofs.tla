-------------------------- MODULE WorkerPoolProofs --------------------------
(* What WorkerPool proves for any number of jobs, workers and queue places, *)
(* and for any sequence of resizings.                                      *)
EXTENDS WorkerPool, FiniteSetTheorems, TLAPS

WorkerStep == {"none", "top", "select", "busy"}

\* The default pool: its goroutines, what is owed, and that Stop leaves none.
PoolInv ==
    /\ phase \in {"down", "up", "stopping"}
    /\ wpc \in [Worker -> WorkerStep]
    /\ xpc \in [ExecWorker -> {"none", "select", "taken", "busy"}]
    /\ target \in Nat /\ credits \in Nat /\ concurrency \in Nat
    /\ CreditsBalance
    /\ StoppedMeansGone

LEMMA AliveFinite == IsFiniteSet(Alive)
BY PoolAssumption, FS_Subset DEF Alive

\* Spawn(n) adds n goroutines to those there are.
LEMMA SpawnCounts ==
    ASSUME NEW n \in Nat, wpc \in [Worker -> WorkerStep], Spawn(n)
    PROVE  /\ wpc' \in [Worker -> WorkerStep]
           /\ Cardinality(Alive') = Cardinality(Alive) + n
<1>1. PICK new \in SUBSET (Worker \ Alive) :
         /\ Cardinality(new) = n
         /\ wpc' = [w \in Worker |-> IF w \in new THEN "top" ELSE wpc[w]]
      BY DEF Spawn
<1>2. wpc' \in [Worker -> WorkerStep]
      BY <1>1 DEF WorkerStep
<1>3. Alive' = Alive \cup new
      BY <1>1 DEF Alive
<1>4. IsFiniteSet(new)
      BY <1>1, PoolAssumption, FS_Subset
<1>5. Alive \cap new = {}
      BY <1>1
<1>6. Cardinality(Alive \cup new)
        = Cardinality(Alive) + Cardinality(new) - Cardinality(Alive \cap new)
      BY <1>4, AliveFinite, FS_Union
<1>7. Cardinality(Alive \cap new) = 0
      BY <1>5, FS_EmptySet
<1>8. Cardinality(Alive) \in Nat
      BY AliveFinite, FS_CardinalityType
<1>9. QED
      BY <1>1, <1>2, <1>3, <1>6, <1>7, <1>8

\* A goroutine that moves on without leaving changes nothing in the balance.
LEMMA MovingKeepsAlive ==
    ASSUME wpc \in [Worker -> WorkerStep], NEW w \in Worker, wpc[w] # "none",
           NEW step \in WorkerStep \ {"none"}, wpc' = [wpc EXCEPT ![w] = step]
    PROVE  /\ wpc' \in [Worker -> WorkerStep]
           /\ Alive' = Alive
BY DEF Alive, WorkerStep

LEMMA LeavingShrinksAlive ==
    ASSUME wpc \in [Worker -> WorkerStep], NEW w \in Worker, wpc[w] # "none",
           wpc' = [wpc EXCEPT ![w] = "none"]
    PROVE  /\ wpc' \in [Worker -> WorkerStep]
           /\ Cardinality(Alive') = Cardinality(Alive) - 1
<1>1. Alive' = Alive \ {w} /\ w \in Alive
      BY DEF Alive
<1>2. wpc' \in [Worker -> WorkerStep]
      BY DEF WorkerStep
<1>3. QED
      BY <1>1, <1>2, AliveFinite, FS_RemoveElement

\* Steps that leave the goroutines, the sizes and the phase alone.
PoolQuiet == /\ UNCHANGED <<phase, wpc, xpc, sizeVars>>
             /\ loop = "exit" => loop' = "exit"

LEMMA PoolQuietKeeps == PoolInv /\ PoolQuiet => PoolInv'
BY DEF PoolInv, PoolQuiet, CreditsBalance, StoppedMeansGone, Alive, sizeVars

LEMMA WaysOfTheLoop ==
    Loop => PoolQuiet
BY DEF Loop, LoopTop, LoopPop, LoopHasDue, LoopPeek, LoopWake, LoopTimeout,
       Dispatch, loopFrame, PoolQuiet, workerVars, execVars, sizeVars, Waits, Go

LEMMA ResizeKeeps ==
    ASSUME PoolInv, NEW n \in Nat, Resize(n)
    PROVE  PoolInv'
<1> USE DEF PoolInv, CreditsBalance, StoppedMeansGone
<1>1. UNCHANGED <<phase, loop, xpc>>
      BY DEF Resize, resizeFrame, loopVars, execVars
<1>2. CASE phase # "up"
      BY <1>1, <1>2 DEF Resize, Alive
<1>3. CASE phase = "up" /\ Grow(n)
  <2>1. n - target \in Nat /\ target' = n /\ UNCHANGED <<credits, concurrency>>
        BY <1>3 DEF Grow
  <2>2. /\ wpc' \in [Worker -> WorkerStep]
        /\ Cardinality(Alive') = Cardinality(Alive) + (n - target)
        BY <1>3, <2>1, SpawnCounts DEF Grow
  <2>3. QED
        BY <1>1, <1>3, <2>1, <2>2
<1>4. CASE phase = "up" /\ Shrink(n)
  <2>1. /\ n < target /\ target' = n /\ credits' = credits + (target - n)
        /\ wpc' = wpc /\ concurrency' = concurrency
        BY <1>4 DEF Shrink
  <2>2. Alive' = Alive
        BY <2>1 DEF Alive
  <2>3. QED
        BY <1>1, <1>4, <2>1, <2>2
<1>5. QED
      BY <1>2, <1>3, <1>4 DEF Resize

LEMMA StartKeeps == PoolInv /\ Start => PoolInv'
<1> SUFFICES ASSUME PoolInv, Start PROVE PoolInv'
    OBVIOUS
<1> USE DEF PoolInv, CreditsBalance, StoppedMeansGone
<1>1. /\ wpc' \in [Worker -> WorkerStep]
      /\ Cardinality(Alive') = Cardinality(Alive) + concurrency
      BY SpawnCounts DEF Start
<1>2. Cardinality(Alive) = 0
      BY FS_EmptySet DEF Start
<1>3. QED
      BY <1>1, <1>2 DEF Start

LEMMA WorkerKeeps ==
    ASSUME PoolInv, NEW w \in Worker,
           WorkerTop(w) \/ WorkerSelect(w) \/ WorkerReturns(w)
    PROVE  PoolInv'
<1> USE DEF PoolInv, CreditsBalance, StoppedMeansGone
<1>1. wpc[w] # "none" /\ Alive # {}
      BY DEF WorkerTop, WorkerSelect, WorkerReturns, Alive
<1>2. UNCHANGED <<phase, loop, xpc, target, concurrency>> /\ phase # "down"
      BY <1>1 DEF WorkerTop, WorkerSelect, WorkerReturns, workerFrame, loopVars, execVars
<1>3. CASE /\ credits > 0 /\ credits' = credits - 1
           /\ wpc' = [wpc EXCEPT ![w] = "none"]
  <2>1. /\ wpc' \in [Worker -> WorkerStep]
        /\ Cardinality(Alive') = Cardinality(Alive) - 1
        BY <1>1, <1>3, LeavingShrinksAlive
  <2>2. credits' \in Nat /\ credits' = credits - 1
        BY <1>3
  <2>3. phase = "up" => Cardinality(Alive') = target' + credits'
        BY <1>2, <2>1, <2>2
  <2>4. QED
        BY <1>2, <2>1, <2>2, <2>3
<1>4. CASE phase # "up" /\ credits' = credits /\ wpc' = [wpc EXCEPT ![w] = "none"]
      BY <1>1, <1>2, <1>4, LeavingShrinksAlive
<1>5. ASSUME credits' = credits, NEW step \in {"top", "select", "busy"},
             wpc' = [wpc EXCEPT ![w] = step]
      PROVE  PoolInv'
      BY <1>1, <1>2, <1>5, MovingKeepsAlive DEF WorkerStep
<1>6. CASE WorkerTop(w)
      BY <1>3, <1>5, <1>6 DEF WorkerTop
<1>7. CASE WorkerSelect(w)
      BY <1>4, <1>5, <1>7 DEF WorkerSelect
<1>8. CASE WorkerReturns(w)
      BY <1>5, <1>8 DEF WorkerReturns
<1>9. QED
      BY <1>6, <1>7, <1>8

LEMMA PoolStep == PoolInv /\ [Next]_vars => PoolInv'
<1> SUFFICES ASSUME PoolInv, [Next]_vars PROVE PoolInv'
    OBVIOUS
<1>1. CASE Start
      BY <1>1, StartKeeps
<1>2. CASE Stop \/ Stopped
      BY <1>2 DEF Stop, Stopped, PoolInv, CreditsBalance, StoppedMeansGone, Alive,
         heapVars, loopVars, workerVars, execVars, sizeVars
<1>3. CASE Suspend \/ (\E u \in Switcher : Unsuspend(u)) \/ Tick
      BY <1>3, PoolQuietKeeps DEF Suspend, Unsuspend, switchFrame, Tick, PoolQuiet, loopVars,
         workerVars, execVars, sizeVars
<1>4. ASSUME NEW n \in Sizes, Resize(n) PROVE PoolInv'
      BY <1>4, ResizeKeeps, PoolAssumption
<1>5. ASSUME NEW j \in Job, NotifyNewJob(j) \/ \E t \in DueTimes[j] : Push(j, t)
      PROVE  PoolInv'
      BY <1>5, PoolQuietKeeps DEF NotifyNewJob, Push, PoolQuiet, loopVars,
         workerVars, execVars, sizeVars
<1>6. CASE Loop
      BY <1>6, WaysOfTheLoop, PoolQuietKeeps
<1>7. ASSUME NEW w \in Worker, WorkerTop(w) \/ WorkerSelect(w) \/ WorkerReturns(w)
      PROVE  PoolInv'
      BY <1>7, WorkerKeeps
<1>8. ASSUME NEW w \in ExecWorker, ExecSelect(w) \/ ExecNotify(w) \/ ExecReturns(w)
      PROVE  PoolInv'
  <2>1. phase # "down" /\ UNCHANGED <<phase, loop, wpc, target, credits, concurrency>>
        BY <1>8 DEF PoolInv, StoppedMeansGone, ExecSelect, ExecNotify, ExecReturns,
           execFrame, loopVars, workerVars, sizeVars
  <2>2. xpc' \in [ExecWorker -> {"none", "select", "taken", "busy"}]
        BY <1>8 DEF PoolInv, ExecSelect, ExecNotify, ExecReturns
  <2>3. QED
        BY <2>1, <2>2 DEF PoolInv, CreditsBalance, StoppedMeansGone, Alive
<1>9. CASE UNCHANGED vars
      BY <1>9, PoolQuietKeeps DEF vars, PoolQuiet, loopVars, workerVars, execVars,
         sizeVars
<1>10. QED
      BY <1>1, <1>2, <1>3, <1>4, <1>5, <1>6, <1>7, <1>8, <1>9 DEF Next

LEMMA PoolInitially == Init => PoolInv
<1> SUFFICES ASSUME Init PROVE PoolInv
    OBVIOUS
<1>1. Concurrency \in Nat
      BY PoolAssumption, FS_CardinalityType
<1>2. QED
      BY <1>1 DEF Init, PoolInv, CreditsBalance, StoppedMeansGone, Alive, WorkerStep

LEMMA PoolAlways == Spec => []PoolInv
BY PoolInitially, PoolStep, PTL DEF Spec

\* ResizeWorkers, shouldRetire: however many times the pool grows and shrinks
\* while retirements are owed, it settles at what was asked for last.
THEOREM BalanceIsKept == Spec => []CreditsBalance
<1>1. PoolInv => CreditsBalance
      BY DEF PoolInv
<1>2. QED
      BY <1>1, PoolAlways, PTL

\* Stop waits for every goroutine a resizing has started.
THEOREM StopLeavesNone == Spec => []StoppedMeansGone
<1>1. PoolInv => StoppedMeansGone
      BY DEF PoolInv
<1>2. QED
      BY <1>1, PoolAlways, PTL
-----------------------------------------------------------------------------
(* The executor queue.                                                     *)

RoomInv ==
    /\ execCh \in Seq(Job)
    /\ heap \subseteq Job /\ pushed \subseteq Job
    /\ slot \in Job \cup {None}
    /\ loop = "dispatch" => slot \in Job
    /\ ExecQueueHasRoom

\* Steps that neither pop, nor dispatch, nor touch the executor queue.
RoomQuiet == UNCHANGED <<execCh, heap, pushed, slot, loop>>

LEMMA RoomQuietKeeps == RoomInv /\ RoomQuiet => RoomInv'
BY DEF RoomInv, RoomQuiet, ExecQueueHasRoom, InExecPool

LEMMA LoopKeepsRoom == RoomInv /\ Loop => RoomInv'
<1> SUFFICES ASSUME RoomInv, Loop PROVE RoomInv'
    OBVIOUS
<1> USE DEF RoomInv, ExecQueueHasRoom, InExecPool
<1>1. CASE LoopTop \/ LoopHasDue \/ LoopPeek \/ LoopWake \/ LoopTimeout
      BY <1>1 DEF LoopTop, LoopHasDue, LoopPeek, LoopWake, LoopTimeout, loopFrame, Go
<1>2. CASE LoopPop
  <2>1. CASE Go("hasDue", time) /\ UNCHANGED heap
        BY <1>2, <2>1 DEF LoopPop, loopFrame, Go
  <2>2. ASSUME NEW j \in heap, Dispatchable(j), heap' = heap \ {j},
               loop' = "dispatch", slot' = j
        PROVE  RoomInv'
        BY <1>2, <2>2 DEF LoopPop, loopFrame, Dispatchable
  <2>3. QED
        BY <1>2, <2>1, <2>2 DEF LoopPop, Due
<1>3. CASE Dispatch
  <2>1. /\ execCh' \in Seq(Job) /\ heap' \subseteq Job
        BY <1>3 DEF Dispatch
  <2>2. loop' # "dispatch" /\ slot' = None /\ pushed' = pushed
        BY <1>3 DEF Dispatch, Go, loopFrame
  <2>3. QED
        BY <2>1, <2>2
<1>4. QED
      BY <1>1, <1>2, <1>3 DEF Loop

LEMMA RoomStep == RoomInv /\ [Next]_vars => RoomInv'
<1> SUFFICES ASSUME RoomInv, [Next]_vars PROVE RoomInv'
    OBVIOUS
<1>1. CASE Start
      BY <1>1 DEF Start, RoomInv, ExecQueueHasRoom
<1>2. CASE Stop \/ Stopped \/ Suspend \/ (\E u \in Switcher : Unsuspend(u)) \/ Tick
      BY <1>2, RoomQuietKeeps DEF Stop, Stopped, Suspend, Unsuspend, switchFrame, Tick,
         RoomQuiet, heapVars, loopVars
<1>3. ASSUME NEW n \in Sizes, Resize(n) PROVE RoomInv'
      BY <1>3, RoomQuietKeeps DEF Resize, resizeFrame, RoomQuiet, heapVars, loopVars
<1>4. ASSUME NEW j \in Job, NotifyNewJob(j) PROVE RoomInv'
      BY <1>4, RoomQuietKeeps DEF NotifyNewJob, RoomQuiet, loopVars
<1>5. ASSUME NEW j \in Job, NEW t \in DueTimes[j], Push(j, t) PROVE RoomInv'
      BY <1>5 DEF Push, RoomInv, ExecQueueHasRoom, InExecPool, loopVars
<1>6. CASE Loop
      BY <1>6, LoopKeepsRoom
<1>7. ASSUME NEW w \in Worker, WorkerTop(w) \/ WorkerSelect(w) \/ WorkerReturns(w)
      PROVE  RoomInv'
      BY <1>7, RoomQuietKeeps DEF WorkerTop, WorkerSelect, WorkerReturns, workerFrame,
         RoomQuiet, loopVars
<1>8. ASSUME NEW w \in ExecWorker, ExecSelect(w) \/ ExecNotify(w) \/ ExecReturns(w)
      PROVE  RoomInv'
  <2>1. UNCHANGED <<heap, pushed, slot, loop>>
        BY <1>8 DEF ExecSelect, ExecNotify, ExecReturns, execFrame, loopVars
  <2>2. CASE execCh' = execCh
        BY <2>1, <2>2, RoomQuietKeeps DEF RoomQuiet
  <2>3. CASE execCh # <<>> /\ execCh' = Tail(execCh)
    <3>1. execCh' \in Seq(Job) /\ Len(execCh') < Len(execCh)
          BY <2>3 DEF RoomInv
    <3>2. QED
          BY <2>1, <3>1, PoolAssumption DEF RoomInv, ExecQueueHasRoom, InExecPool
  <2>4. QED
        BY <1>8, <2>2, <2>3 DEF ExecSelect, ExecNotify, ExecReturns
<1>9. CASE UNCHANGED vars
      BY <1>9, RoomQuietKeeps DEF vars, RoomQuiet, heapVars, loopVars
<1>10. QED
      BY <1>1, <1>2, <1>3, <1>4, <1>5, <1>6, <1>7, <1>8, <1>9 DEF Next

\* dispatchable, dispatchExec: between the look at the executor queue and the
\* send nobody else can fill it, so the job put back into the heap is a case
\* that does not happen.
THEOREM RoomWhenDispatched == Spec => []ExecQueueHasRoom
<1>1. Init => RoomInv
      BY DEF Init, RoomInv, ExecQueueHasRoom
<1>2. RoomInv => ExecQueueHasRoom
      BY DEF RoomInv
<1>3. QED
      BY <1>1, <1>2, RoomStep, PTL DEF Spec
-----------------------------------------------------------------------------
(* The signals of the loop.                                                *)

Told == newJob \/ unsignalled # {}

ToldOfRoom == Told \/ slotFreed \/ \E w \in ExecWorker : xpc[w] = "taken"

\* The loop has found no job it may pop and is about to look whether any is due: if
\* the executor queue has room by now, the loop will hear of it.
LookIsHeard ==
    loop = "hasDue" /\ Due(time) # {} /\ Len(execCh) < ExecQueueCap => ToldOfRoom

SignalsInv ==
    /\ heap \subseteq Job /\ trigger \in [Job -> Time]
    /\ xpc \in [ExecWorker -> {"none", "select", "taken", "busy"}]
    /\ execCh \in Seq(Job)
    /\ LookIsHeard
    /\ SignalsHeard

\* Steps that leave the loop, what it waits for and its signals alone.
SignalsQuiet ==
    UNCHANGED <<heap, trigger, xpc, execCh, unsignalled, newJob, slotFreed, loop, time>>

LEMMA SignalsQuietKeep == SignalsInv /\ SignalsQuiet => SignalsInv'
BY DEF SignalsInv, SignalsQuiet, SignalsHeard, LookIsHeard, Due, ToldOfRoom, Told

\* A loop that is nowhere near a wait owes nothing.
LEMMA AwakeOwesNothing ==
    ASSUME loop' \notin {"hasDue", "empty", "timer", "blocked"}
    PROVE  LookIsHeard' /\ SignalsHeard'
BY DEF LookIsHeard, SignalsHeard

LEMMA LoopIsTold == SignalsInv /\ RoomInv /\ Loop => SignalsInv'
<1> SUFFICES ASSUME SignalsInv, RoomInv, Loop PROVE SignalsInv'
    OBVIOUS
<1>1. /\ UNCHANGED <<trigger, xpc, unsignalled>>
      /\ heap' \subseteq Job /\ execCh' \in Seq(Job)
      BY LoopKeepsRoom DEF RoomInv, Loop, LoopTop, LoopPop, LoopHasDue, LoopPeek, LoopWake,
         LoopTimeout, Dispatch, loopFrame, execVars
<1>2. LookIsHeard' /\ SignalsHeard' => SignalsInv'
      BY <1>1 DEF SignalsInv
<1>3. CASE LoopTop \/ LoopWake \/ LoopTimeout \/ Dispatch
  <2>1. loop' \notin {"hasDue", "empty", "timer", "blocked"}
        BY <1>3 DEF LoopTop, LoopWake, LoopTimeout, Dispatch, Go
  <2>2. QED
        BY <2>1, <1>2, AwakeOwesNothing
<1>4. CASE LoopPop
  <2>1. CASE loop' = "dispatch"
        BY <2>1, <1>2, AwakeOwesNothing
  <2>2. CASE /\ {j \in Due(time) : Dispatchable(j)} = {}
             /\ Go("hasDue", time) /\ heap' = heap
    <3>1. loop' = "hasDue" /\ time' = time /\ execCh' = execCh /\ UNCHANGED signalVars
          BY <1>4, <2>2 DEF LoopPop, Go
    <3>2. Due(time)' = Due(time)
          BY <1>1, <2>2, <3>1 DEF Due
    <3>3. Due(time) # {} => ~(Len(execCh) < ExecQueueCap)
          BY <2>2 DEF Dispatchable
    <3>4. LookIsHeard'
          BY <3>1, <3>2, <3>3 DEF LookIsHeard
    <3>5. SignalsHeard'
          BY <3>1 DEF SignalsHeard
    <3>6. QED
          BY <3>4, <3>5, <1>2
  <2>3. QED
        BY <1>4, <2>1, <2>2 DEF LoopPop
<1>5. CASE LoopHasDue
  <2>1. CASE Due(time) # {}
    <3>1. /\ loop = "hasDue" /\ loop' = "blocked"
          /\ UNCHANGED <<xpc, execCh, unsignalled, newJob, slotFreed>>
          BY <1>1, <1>5, <2>1 DEF LoopHasDue, Go, signalVars
    <3>2. Len(execCh) < ExecQueueCap => ToldOfRoom
          BY <2>1, <3>1 DEF SignalsInv, LookIsHeard
    <3>3. SignalsHeard' /\ LookIsHeard'
          BY <3>1, <3>2 DEF SignalsHeard, LookIsHeard, ToldOfRoom, Told
    <3>4. QED
          BY <3>3, <1>2
  <2>2. CASE Due(time) = {}
    <3>1. loop' = "peek"
          BY <1>5, <2>2 DEF LoopHasDue, Go
    <3>2. QED
          BY <3>1, <1>2, AwakeOwesNothing
  <2>3. QED
        BY <2>1, <2>2
<1>6. CASE LoopPeek
  <2>1. CASE heap = {} /\ Go("empty", 0)
    <3>1. loop' = "empty" /\ heap' = {}
          BY <1>6, <2>1 DEF LoopPeek, Go
    <3>2. LookIsHeard' /\ SignalsHeard'
          BY <3>1 DEF LookIsHeard, SignalsHeard
    <3>3. QED
          BY <3>2, <1>2
  <2>2. ASSUME NEW j \in heap, \A k \in heap : trigger[j] <= trigger[k],
               Go("timer", trigger[j])
        PROVE  SignalsInv'
    <3>1. loop' = "timer" /\ time' = trigger[j] /\ heap' = heap
          BY <1>6, <2>2 DEF LoopPeek, Go
    <3>2. \A k \in heap : trigger[k] \in Nat /\ trigger[j] \in Nat
          BY PoolAssumption DEF SignalsInv, Time
    <3>3. ~\E k \in heap' : trigger'[k] < time'
          BY <1>1, <2>2, <3>1, <3>2
    <3>4. LookIsHeard' /\ SignalsHeard'
          BY <3>1, <3>3 DEF LookIsHeard, SignalsHeard
    <3>5. QED
          BY <3>4, <1>2
  <2>3. QED
        BY <1>6, <2>1, <2>2 DEF LoopPeek
<1>7. QED
      BY <1>3, <1>4, <1>5, <1>6 DEF Loop

LEMMA SignalsStep == SignalsInv /\ RoomInv /\ [Next]_vars => SignalsInv'
<1> SUFFICES ASSUME SignalsInv, RoomInv, [Next]_vars PROVE SignalsInv'
    OBVIOUS
<1>1. CASE Start
  <2>1. loop' = "top" /\ heap' \subseteq Job /\ trigger' = trigger
        BY <1>1 DEF Start, RoomInv
  <2>2. /\ xpc' \in [ExecWorker -> {"none", "select", "taken", "busy"}]
        /\ execCh' \in Seq(Job)
        BY <1>1 DEF Start
  <2>3. QED
        BY <2>1, <2>2, AwakeOwesNothing DEF SignalsInv
<1>2. CASE Stop \/ Stopped \/ Suspend \/ Tick
      BY <1>2, SignalsQuietKeep DEF Stop, Stopped, Suspend, Tick, SignalsQuiet,
         heapVars, loopVars, signalVars, execVars
<1>3. CASE \E u \in Switcher : Unsuspend(u)
      BY <1>3 DEF Unsuspend, switchFrame, heapVars, loopVars, execVars, SignalsInv, SignalsHeard,
         LookIsHeard, Due, ToldOfRoom, Told
<1>4. ASSUME NEW n \in Sizes, Resize(n) PROVE SignalsInv'
      BY <1>4, SignalsQuietKeep DEF Resize, resizeFrame, SignalsQuiet, heapVars, loopVars,
         signalVars, execVars
<1>5. ASSUME NEW j \in Job, NotifyNewJob(j) PROVE SignalsInv'
      BY <1>5 DEF NotifyNewJob, loopVars, execVars, SignalsInv, SignalsHeard,
         LookIsHeard, Due, ToldOfRoom, Told
<1>6. ASSUME NEW j \in Job, NEW t \in DueTimes[j], Push(j, t) PROVE SignalsInv'
  <2>1. t \in Time
        BY PoolAssumption
  <2>2. /\ trigger' = [trigger EXCEPT ![j] = t] /\ heap' = heap \cup {j}
        /\ unsignalled' # {} /\ UNCHANGED <<xpc, execCh>>
        BY <1>6 DEF Push, execVars
  <2>3. Told'
        BY <2>2 DEF Told
  <2>4. LookIsHeard' /\ SignalsHeard'
        BY <2>3 DEF LookIsHeard, SignalsHeard, ToldOfRoom, Told
  <2>5. QED
        BY <2>1, <2>2, <2>4 DEF SignalsInv
<1>7. CASE Loop
      BY <1>7, LoopIsTold
<1>8. ASSUME NEW w \in Worker, WorkerTop(w) \/ WorkerSelect(w) \/ WorkerReturns(w)
      PROVE  SignalsInv'
      BY <1>8, SignalsQuietKeep DEF WorkerTop, WorkerSelect, WorkerReturns, workerFrame,
         SignalsQuiet, loopVars, signalVars, execVars
<1>9. ASSUME NEW w \in ExecWorker, ExecSelect(w) \/ ExecNotify(w) \/ ExecReturns(w)
      PROVE  SignalsInv'
  <2>1. UNCHANGED <<heap, trigger, unsignalled, newJob, loop, time>>
        BY <1>9 DEF ExecSelect, ExecNotify, ExecReturns, execFrame, loopVars
  <2>2. xpc' \in [ExecWorker -> {"none", "select", "taken", "busy"}]
        BY <1>9 DEF SignalsInv, ExecSelect, ExecNotify, ExecReturns
  <2>3. execCh' \in Seq(Job)
        BY <1>9 DEF SignalsInv, ExecSelect, ExecNotify, ExecReturns
  \* Room appears only under a worker that has taken a job, and such a worker only
  \* leaves that place with a signal.
  <2>4. \/ ToldOfRoom'
        \/ execCh' = execCh /\ (ToldOfRoom => ToldOfRoom')
        BY <1>9, <2>1 DEF SignalsInv, ExecSelect, ExecNotify, ExecReturns, ToldOfRoom, Told
  <2>5. LookIsHeard'
        BY <2>1, <2>4 DEF SignalsInv, LookIsHeard, Due
  <2>6. SignalsHeard'
        BY <2>1, <2>4 DEF SignalsInv, SignalsHeard, ToldOfRoom, Told
  <2>7. QED
        BY <2>1, <2>2, <2>3, <2>5, <2>6 DEF SignalsInv
<1>10. CASE UNCHANGED vars
      BY <1>10, SignalsQuietKeep DEF vars, SignalsQuiet, heapVars, loopVars, signalVars,
         execVars
<1>11. QED
      BY <1>1, <1>2, <1>3, <1>4, <1>5, <1>6, <1>7, <1>8, <1>9, <1>10 DEF Next

\* notifyNewJob, notifyExecSlot: no signal is lost, for any number of jobs, workers and
\* queue places; it needs that the loop looks at the queue before it looks whether
\* something is due, and waits only then.
THEOREM NoSignalIsLost == Spec => []SignalsHeard
<1>1. Init => RoomInv /\ SignalsInv
  <2> SUFFICES ASSUME Init PROVE RoomInv /\ SignalsInv
      OBVIOUS
  <2>1. RoomInv
        BY DEF Init, RoomInv, ExecQueueHasRoom
  <2>2. LookIsHeard /\ SignalsHeard
        BY DEF Init, LookIsHeard, SignalsHeard
  <2>3. trigger \in [Job -> Time]
        BY PoolAssumption DEF Init, Time
  <2>4. QED
        BY <2>1, <2>2, <2>3 DEF Init, SignalsInv
<1>2. SignalsInv => SignalsHeard
      BY DEF SignalsInv
<1>3. RoomInv /\ SignalsInv /\ [Next]_vars => (RoomInv /\ SignalsInv)'
      BY RoomStep, SignalsStep
<1>4. QED
      BY <1>1, <1>2, <1>3, PTL DEF Spec

SwitchInv == spc \in [Switcher -> {"idle", "resume", "newJob"}] /\ SwitchHeard

\* Steps that leave the switch, its callers and its channel alone.
SwitchQuiet == UNCHANGED <<suspended, spc, resume>> /\ (loop' = loop \/ loop' # "suspended")

LEMMA SwitchQuietKeeps == SwitchInv /\ SwitchQuiet => SwitchInv'
BY DEF SwitchInv, SwitchQuiet, SwitchHeard

\* Each of the three steps of Unsuspend leaves a loop that waits told of it.
LEMMA UnsuspendTells ==
    ASSUME SwitchInv, NEW u \in Switcher, Unsuspend(u)
    PROVE  SwitchInv'
<1>1. spc' \in [Switcher -> {"idle", "resume", "newJob"}] /\ loop' = loop
      BY DEF SwitchInv, Unsuspend, SwitchGoes, switchFrame, loopVars
<1>2. CASE spc[u] = "idle"
  <2>1. spc'[u] = "resume"
        BY <1>2 DEF SwitchInv, Unsuspend, SwitchGoes
  <2>2. QED
        BY <1>1, <2>1 DEF SwitchInv, SwitchHeard
<1>3. CASE spc[u] = "resume"
  <2>1. resume'
        BY <1>3 DEF Unsuspend, SwitchGoes
  <2>2. QED
        BY <1>1, <2>1 DEF SwitchInv, SwitchHeard
<1>4. CASE spc[u] = "newJob"
  <2>1. UNCHANGED <<suspended, resume>> /\ spc' = [spc EXCEPT ![u] = "idle"]
        BY <1>4 DEF Unsuspend, SwitchGoes
  <2>2. (\E v \in Switcher : spc[v] = "resume") => \E v \in Switcher : spc'[v] = "resume"
        BY <1>4, <2>1 DEF SwitchInv
  <2>3. QED
        BY <1>1, <2>1, <2>2 DEF SwitchInv, SwitchHeard
<1>5. QED
      BY <1>2, <1>3, <1>4 DEF SwitchInv

\* The loop goes to wait for the switch only when it is off, and leaves that place with
\* the signal it takes.
LEMMA LoopHearsSwitch == SwitchInv /\ Loop => SwitchInv'
<1> SUFFICES ASSUME SwitchInv, Loop PROVE SwitchInv'
    OBVIOUS
<1>1. UNCHANGED <<suspended, spc>>
      BY DEF Loop, LoopTop, LoopPop, LoopHasDue, LoopPeek, LoopWake, LoopTimeout, Dispatch,
         loopFrame
<1>2. loop' = "suspended" => suspended
      BY DEF Loop, LoopTop, LoopPop, LoopHasDue, LoopPeek, LoopWake, LoopTimeout, Dispatch, Go
<1>3. QED
      BY <1>1, <1>2 DEF SwitchInv, SwitchHeard

LEMMA SwitchStep == SwitchInv /\ [Next]_vars => SwitchInv'
<1> SUFFICES ASSUME SwitchInv, [Next]_vars PROVE SwitchInv'
    OBVIOUS
<1>1. CASE Start \/ Suspend
      BY <1>1 DEF Start, Suspend, SwitchInv, SwitchHeard, signalVars, loopVars
<1>2. ASSUME NEW u \in Switcher, Unsuspend(u) PROVE SwitchInv'
      BY <1>2, UnsuspendTells
<1>3. CASE Loop
      BY <1>3, LoopHearsSwitch
<1>4. CASE Stop \/ Stopped \/ Tick \/ UNCHANGED vars
      BY <1>4, SwitchQuietKeeps DEF Stop, Stopped, Tick, vars, SwitchQuiet, signalVars, loopVars
<1>5. ASSUME NEW n \in Sizes, Resize(n) PROVE SwitchInv'
      BY <1>5, SwitchQuietKeeps DEF Resize, resizeFrame, SwitchQuiet, signalVars, loopVars
<1>6. ASSUME NEW j \in Job, NotifyNewJob(j) \/ \E t \in DueTimes[j] : Push(j, t)
      PROVE  SwitchInv'
      BY <1>6, SwitchQuietKeeps DEF NotifyNewJob, Push, SwitchQuiet, signalVars, loopVars
<1>7. ASSUME NEW w \in Worker, WorkerTop(w) \/ WorkerSelect(w) \/ WorkerReturns(w)
      PROVE  SwitchInv'
      BY <1>7, SwitchQuietKeeps DEF WorkerTop, WorkerSelect, WorkerReturns, workerFrame,
         SwitchQuiet, signalVars, loopVars
<1>8. ASSUME NEW w \in ExecWorker, ExecSelect(w) \/ ExecNotify(w) \/ ExecReturns(w)
      PROVE  SwitchInv'
      BY <1>8, SwitchQuietKeeps DEF ExecSelect, ExecNotify, ExecReturns, execFrame, SwitchQuiet,
         loopVars
<1>9. QED
      BY <1>1, <1>2, <1>3, <1>4, <1>5, <1>6, <1>7, <1>8 DEF Next

\* Suspend and Unsuspend, at any pace and by any number of callers whose steps
\* interleave: a loop that waits for the switch has the signal that it is on again, or
\* will be sent it.
THEOREM NoSwitchIsMissed == Spec => []SwitchHeard
<1>1. Init => SwitchInv
      BY DEF Init, SwitchInv, SwitchHeard
<1>2. SwitchInv => SwitchHeard
      BY DEF SwitchInv
<1>3. QED
      BY <1>1, <1>2, SwitchStep, PTL DEF Spec
=============================================================================
