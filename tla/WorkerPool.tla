----------------------------- MODULE WorkerPool -----------------------------
(***************************************************************************)
(* The schedule loop, the two worker pools and their queues: when a due    *)
(* job is handed to a worker (core/scheduler.go scheduleLoop, dispatch,    *)
(* worker, ResizeWorkers).                                                 *)
(*                                                                         *)
(* What Scheduler leaves out is here: trigger times and the clock, the     *)
(* executor pool beside the default pool, the wake-up signals of the loop, *)
(* and growing and shrinking the default pool.  What a job does, and what  *)
(* requests do to it, is in Scheduler: here a job is pushed once, executed *)
(* once, and a restart brings back what was not executed.                  *)
(***************************************************************************)
EXTENDS Naturals, Integers, Sequences, FiniteSets

CONSTANTS
    DefaultJob,    \* jobs of JobClassDefault
    ExecJob,       \* jobs of JobClassExec
    Worker,        \* goroutine slots of the default pool: bounds its growth
    ExecWorker,    \* goroutines of the executor pool
    Switcher,      \* API goroutines that throw the switch
    Concurrency,   \* worker count of Start
    Sizes,         \* worker counts a reload may ask for
    QueueCap,      \* capacity of workCh
    ExecQueueCap,  \* capacity of execCh
    MaxTime,       \* the clock's last tick: bounds the clock
    DueTimes,      \* the trigger times a job may be given: [Job -> SUBSET Time]
    Operations,    \* the requests of a run: any of "suspend", "resize", "stop"
    None           \* no job

Job == DefaultJob \cup ExecJob

Time == 0..MaxTime

ASSUME PoolAssumption ==
    /\ DefaultJob \cap ExecJob = {}
    /\ None \notin Job
    /\ IsFiniteSet(Worker)
    /\ Concurrency \in 1..Cardinality(Worker)
    /\ Sizes \subseteq Nat \ {0}
    /\ QueueCap \in Nat \ {0} /\ ExecQueueCap \in Nat \ {0}
    /\ MaxTime \in Nat
    /\ DueTimes \in [Job -> SUBSET Time]
    /\ Operations \subseteq {"suspend", "resize", "stop"}

VARIABLES
    phase,            \* "down", "up", "stopping" (stopCh is closed)
    suspended,        \* the scheduling switch
    spc,              \* where each caller of Unsuspend is
    clock,            \* the wall clock
    trigger,          \* TriggerAt of each job, 0 before it is pushed
    heap, done,       \* jobs in the heap; jobs whose handler has returned
    pushed,           \* jobs pushed so far
    unsignalled,      \* pushes whose notifyNewJob is still to come
    newJob,           \* newJobCh holds a signal
    resume,           \* resumeCh holds a signal
    slotFreed,        \* execSlotFreed holds a signal
    loop, slot,       \* the schedule loop: where it is, the job it has popped
    time,             \* the time it has read, then the time it waits for; or 0
    workCh, execCh,   \* the queues of the two pools
    wpc, work,        \* default workers: where each is, the job it executes
    xpc, xwork,       \* executor workers, likewise
    target, credits,  \* targetWorkers, retireRequests
    concurrency       \* the worker count the next Start takes

heapVars == <<trigger, heap, done, pushed, unsignalled>>
signalVars == <<newJob, resume, slotFreed>>
loopVars == <<loop, slot, time>>
workerVars == <<wpc, work>>
execVars == <<xpc, xwork>>
sizeVars == <<target, credits, concurrency>>
vars == <<phase, suspended, spc, clock, heapVars, signalVars, loopVars, workCh,
          execCh, workerVars, execVars, sizeVars>>

\* Where the loop waits for something to happen.
Waits == {"suspended", "blocked", "empty", "timer"}

TypeOK ==
    /\ phase \in {"down", "up", "stopping"}
    /\ suspended \in BOOLEAN
    /\ spc \in [Switcher -> {"idle", "resume", "newJob"}]
    /\ clock \in Time
    /\ trigger \in [Job -> Time]
    /\ heap \subseteq pushed /\ done \subseteq pushed /\ pushed \subseteq Job
    /\ unsignalled \subseteq pushed
    /\ newJob \in BOOLEAN /\ resume \in BOOLEAN /\ slotFreed \in BOOLEAN
    /\ loop \in {"exit", "top", "pop", "hasDue", "peek", "dispatch"} \cup Waits
    /\ slot \in Job \cup {None}
    /\ loop = "dispatch" <=> slot # None
    /\ time \in Time
    /\ workCh \in Seq(Job) /\ Len(workCh) <= QueueCap
    /\ execCh \in Seq(ExecJob) /\ Len(execCh) <= ExecQueueCap
    /\ wpc \in [Worker -> {"none", "top", "select", "busy"}]
    /\ work \in [Worker -> Job \cup {None}]
    /\ \A w \in Worker : work[w] # None <=> wpc[w] = "busy"
    /\ xpc \in [ExecWorker -> {"none", "select", "taken", "busy"}]
    /\ xwork \in [ExecWorker -> Job \cup {None}]
    /\ \A w \in ExecWorker : xwork[w] # None <=> xpc[w] \in {"taken", "busy"}
    /\ target \in Nat /\ credits \in Nat /\ concurrency \in Nat
-----------------------------------------------------------------------------
Init ==
    /\ phase = "down"
    /\ suspended = FALSE /\ spc = [u \in Switcher |-> "idle"]
    /\ clock = 0 /\ trigger = [j \in Job |-> 0]
    /\ heap = {} /\ done = {} /\ pushed = {} /\ unsignalled = {}
    /\ newJob = FALSE /\ resume = FALSE /\ slotFreed = FALSE
    /\ loop = "exit" /\ slot = None /\ time = 0
    /\ workCh = <<>> /\ execCh = <<>>
    /\ wpc = [w \in Worker |-> "none"] /\ work = [w \in Worker |-> None]
    /\ xpc = [w \in ExecWorker |-> "none"] /\ xwork = [w \in ExecWorker |-> None]
    /\ target = Concurrency /\ credits = 0 /\ concurrency = Concurrency

Alive == {w \in Worker : wpc[w] # "none"}

\* `go s.worker(...)' for n new goroutines.
Spawn(n) ==
    \E new \in SUBSET (Worker \ Alive) :
        /\ Cardinality(new) = n
        /\ wpc' = [w \in Worker |-> IF w \in new THEN "top" ELSE wpc[w]]

\* Start: fresh channels, no retirement left over, the switch on; Restore puts
\* what has not been executed back into the heap.
Start ==
    /\ phase = "down" /\ phase' = "up" /\ suspended' = FALSE
    /\ credits' = 0 /\ target' = concurrency
    /\ workCh' = <<>> /\ execCh' = <<>>
    /\ heap' = pushed \ done
    /\ loop' = "top"
    /\ Spawn(concurrency)
    /\ xpc' = [w \in ExecWorker |-> "select"]
    /\ UNCHANGED <<spc, clock, trigger, done, pushed, unsignalled, signalVars, slot,
                   time, work, xwork, concurrency>>

Stop ==
    /\ "stop" \in Operations
    /\ phase = "up" /\ phase' = "stopping"
    /\ UNCHANGED <<suspended, spc, clock, heapVars, signalVars, loopVars, workCh, execCh,
                   workerVars, execVars, sizeVars>>

\* wg.Wait returns in Stop.
Stopped ==
    /\ phase = "stopping" /\ loop = "exit" /\ Alive = {}
    /\ \A w \in ExecWorker : xpc[w] = "none"
    /\ phase' = "down"
    /\ UNCHANGED <<suspended, spc, clock, heapVars, signalVars, loopVars, workCh, execCh,
                   workerVars, execVars, sizeVars>>

\* The switch has no regard for the phase: Start will turn it off.
Suspend ==
    /\ "suspend" \in Operations
    /\ ~suspended /\ suspended' = TRUE
    /\ UNCHANGED <<phase, spc, clock, heapVars, signalVars, loopVars, workCh, execCh,
                   workerVars, execVars, sizeVars>>

switchFrame == <<phase, clock, heapVars, slotFreed, loopVars, workCh, execCh,
                 workerVars, execVars, sizeVars>>

SwitchGoes(u, from, to) == spc[u] = from /\ spc' = [spc EXCEPT ![u] = to]

\* Mutant of Unsuspend: the loop is told before the flag says so.
UnsuspendTellsFirst(u) ==
    /\ \/ /\ "suspend" \in Operations
          /\ SwitchGoes(u, "idle", "resume")
          /\ resume' = TRUE /\ UNCHANGED <<suspended, newJob>>
       \/ /\ SwitchGoes(u, "resume", "newJob")
          /\ suspended' = FALSE /\ UNCHANGED <<newJob, resume>>
       \/ /\ SwitchGoes(u, "newJob", "idle")
          /\ newJob' = TRUE /\ UNCHANGED <<suspended, resume>>
    /\ UNCHANGED switchFrame

\* Unsuspend: the flag, then a signal for a loop that waits for the switch
\* (resumeCh), then one for a loop that waits for anything else (newJobCh).  Both
\* are sent by a caller who finds the switch on, too.
Unsuspend(u) ==
    /\ \/ /\ "suspend" \in Operations
          /\ SwitchGoes(u, "idle", "resume")
          /\ suspended' = FALSE /\ UNCHANGED <<newJob, resume>>
       \/ /\ SwitchGoes(u, "resume", "newJob")
          /\ resume' = TRUE /\ UNCHANGED <<suspended, newJob>>
       \/ /\ SwitchGoes(u, "newJob", "idle")
          /\ newJob' = TRUE /\ UNCHANGED <<suspended, resume>>
    /\ UNCHANGED switchFrame

resizeFrame == <<phase, suspended, spc, clock, heapVars, signalVars, loopVars, workCh,
                 execCh, work, execVars>>

\* Mutant of Grow: the retirements still owed are forgotten.
GrowForgetsCredits(n) ==
    /\ n > target /\ Spawn(n - target)
    /\ target' = n /\ credits' = 0 /\ UNCHANGED concurrency

\* The missing goroutines are started; retirements still owed stay owed.
Grow(n) ==
    /\ n > target /\ Spawn(n - target)
    /\ target' = n /\ UNCHANGED <<credits, concurrency>>

\* How many goroutines are to retire is only written down.
Shrink(n) ==
    /\ n < target
    /\ target' = n /\ credits' = credits + (target - n)
    /\ UNCHANGED <<wpc, concurrency>>

\* Mutant of Resize: goroutines are started whether or not the scheduler runs.
ResizeAnyTime(n) ==
    /\ "resize" \in Operations
    /\ Grow(n) \/ Shrink(n)
    /\ UNCHANGED resizeFrame

\* ResizeWorkers, which before Start and after Stop only notes the number.
Resize(n) ==
    /\ "resize" \in Operations
    /\ \/ phase = "up" /\ (Grow(n) \/ Shrink(n))
       \/ /\ phase # "up"
          /\ concurrency' = n /\ target' = n /\ UNCHANGED <<wpc, credits>>
    /\ UNCHANGED resizeFrame

Tick ==
    /\ clock < MaxTime /\ clock' = clock + 1
    /\ UNCHANGED <<phase, suspended, spc, heapVars, signalVars, loopVars, workCh, execCh,
                   workerVars, execVars, sizeVars>>

\* Mutant of Push: the loop is not told.
PushSilently(j, t) ==
    /\ phase = "up" /\ j \notin pushed /\ unsignalled = {}
    /\ trigger' = [trigger EXCEPT ![j] = t]
    /\ heap' = heap \cup {j} /\ pushed' = pushed \cup {j}
    /\ UNCHANGED <<phase, suspended, spc, clock, done, unsignalled, signalVars, loopVars,
                   workCh, execCh, workerVars, execVars, sizeVars>>

\* Schedule: the job enters the heap, and then the loop is told.  A trigger time
\* that has passed is as good as any other.  One caller at a time: a bound.
Push(j, t) ==
    /\ phase = "up" /\ j \notin pushed /\ unsignalled = {}
    /\ trigger' = [trigger EXCEPT ![j] = t]
    /\ heap' = heap \cup {j} /\ pushed' = pushed \cup {j}
    /\ unsignalled' = unsignalled \cup {j}
    /\ UNCHANGED <<phase, suspended, spc, clock, done, signalVars, loopVars, workCh,
                   execCh, workerVars, execVars, sizeVars>>

NotifyNewJob(j) ==
    /\ j \in unsignalled /\ unsignalled' = unsignalled \ {j}
    /\ newJob' = TRUE
    /\ UNCHANGED <<phase, suspended, spc, clock, trigger, heap, done, pushed, resume,
                   slotFreed, loopVars, workCh, execCh, workerVars, execVars, sizeVars>>
-----------------------------------------------------------------------------
(* scheduleLoop.                                                           *)

loopFrame == <<phase, suspended, spc, clock, trigger, done, pushed, unsignalled,
               workerVars, execVars, sizeVars>>

Go(step, t) == loop' = step /\ slot' = None /\ time' = t

LoopTop ==
    /\ loop = "top"
    /\ \/ phase # "up" /\ Go("exit", 0)
       \/ phase = "up" /\ suspended /\ Go("suspended", 0)
       \/ phase = "up" /\ ~suspended /\ Go("pop", clock)
    /\ UNCHANGED <<loopFrame, heap, signalVars, workCh, execCh>>

Due(t) == {j \in heap : trigger[j] <= t}

\* Executor jobs have a queue of their own, unless that pool was not built.
InExecPool(j) == j \in ExecJob /\ ExecWorker # {}

\* Mutant of Dispatchable: the executor queue is not looked at.
DispatchableAlways(j) == j \in Job

\* dispatchable: room in the pool of j, as far as the loop has to look.
Dispatchable(j) == InExecPool(j) => Len(execCh) < ExecQueueCap

\* PopIfDueWhere: the earliest due job there is room for.
LoopPop ==
    LET ready == {j \in Due(time) : Dispatchable(j)} IN
    /\ loop = "pop"
    /\ \/ \E j \in ready :
             /\ \A k \in ready : trigger[j] <= trigger[k]
             /\ heap' = heap \ {j}
             /\ loop' = "dispatch" /\ slot' = j /\ time' = 0
       \/ ready = {} /\ Go("hasDue", time) /\ UNCHANGED heap
    /\ UNCHANGED <<loopFrame, signalVars, workCh, execCh>>

\* HasDue: something is due and has no room, or there is nothing to do yet.
LoopHasDue ==
    /\ loop = "hasDue"
    /\ Go(IF Due(time) # {} THEN "blocked" ELSE "peek", 0)
    /\ UNCHANGED <<loopFrame, heap, signalVars, workCh, execCh>>

LoopPeek ==
    /\ loop = "peek"
    /\ \/ heap = {} /\ Go("empty", 0)
       \/ \E j \in heap : /\ \A k \in heap : trigger[j] <= trigger[k]
                          /\ Go("timer", trigger[j])
    /\ UNCHANGED <<loopFrame, heap, signalVars, workCh, execCh>>

\* The end of a wait: each of the four selects has its own channels.
LoopWake ==
    /\ loop \in Waits
    /\ \/ phase # "up" /\ Go("exit", 0) /\ UNCHANGED signalVars
       \/ /\ loop = "suspended" /\ resume
          /\ resume' = FALSE /\ Go("top", 0) /\ UNCHANGED <<newJob, slotFreed>>
       \/ /\ loop # "suspended" /\ newJob
          /\ newJob' = FALSE /\ Go("top", 0) /\ UNCHANGED <<resume, slotFreed>>
       \/ /\ loop = "blocked" /\ slotFreed
          /\ slotFreed' = FALSE /\ Go("top", 0) /\ UNCHANGED <<newJob, resume>>
       \/ loop = "timer" /\ clock >= time /\ Go("top", 0) /\ UNCHANGED signalVars
    /\ UNCHANGED <<loopFrame, heap, workCh, execCh>>

\* Mutant of LoopTimeout: only the empty heap is looked at again.
LoopTimeoutEmptyOnly ==
    /\ loop = "empty" /\ Go("top", 0)
    /\ UNCHANGED <<loopFrame, heap, signalVars, workCh, execCh>>

\* The wait has lasted a minute (heap empty), or 500 ms (execBlockedRetry).
LoopTimeout ==
    /\ loop \in {"empty", "blocked"} /\ Go("top", 0)
    /\ UNCHANGED <<loopFrame, heap, signalVars, workCh, execCh>>

\* dispatch: a default job waits for room in workCh; dispatchExec does not
\* wait, and a job that finds no room goes back into the heap.
Dispatch ==
    /\ loop = "dispatch"
    /\ \/ phase # "up" /\ Go("exit", 0) /\ UNCHANGED <<heap, workCh, execCh, slotFreed>>
       \/ /\ ~InExecPool(slot) /\ Len(workCh) < QueueCap
          /\ workCh' = Append(workCh, slot)
          /\ Go("top", 0) /\ UNCHANGED <<heap, execCh, slotFreed>>
       \/ /\ InExecPool(slot) /\ Go("top", 0) /\ UNCHANGED workCh
          /\ IF Len(execCh) < ExecQueueCap
             THEN execCh' = Append(execCh, slot) /\ UNCHANGED <<heap, slotFreed>>
             ELSE heap' = heap \cup {slot} /\ slotFreed' = TRUE /\ UNCHANGED execCh
    /\ UNCHANGED <<loopFrame, newJob, resume>>

Loop == LoopTop \/ LoopPop \/ LoopHasDue \/ LoopPeek \/ LoopWake \/ LoopTimeout
        \/ Dispatch
-----------------------------------------------------------------------------
(* The workers.                                                            *)

\* The handler of j has returned; one that Stop has interrupted has not done j.
Returned(j) ==
    \/ done' = done \cup {j}
    \/ phase # "up" /\ done' = done

workerFrame == <<phase, suspended, spc, clock, trigger, heap, pushed, unsignalled,
                 signalVars, loopVars, execCh, execVars, target,
                 concurrency>>

\* The top of a default worker's loop: shouldRetire takes a credit, if any.
WorkerTop(w) ==
    /\ wpc[w] = "top"
    /\ IF credits > 0
       THEN credits' = credits - 1 /\ wpc' = [wpc EXCEPT ![w] = "none"]
       ELSE wpc' = [wpc EXCEPT ![w] = "select"] /\ UNCHANGED credits
    /\ UNCHANGED <<workerFrame, done, workCh, work>>

\* The select: both branches may be ready.
WorkerSelect(w) ==
    /\ wpc[w] = "select"
    /\ \/ /\ phase # "up"
          /\ wpc' = [wpc EXCEPT ![w] = "none"]
          /\ UNCHANGED <<workCh, work>>
       \/ /\ workCh # <<>>
          /\ wpc' = [wpc EXCEPT ![w] = "busy"]
          /\ work' = [work EXCEPT ![w] = Head(workCh)] /\ workCh' = Tail(workCh)
    /\ UNCHANGED <<workerFrame, done, credits>>

WorkerReturns(w) ==
    /\ wpc[w] = "busy"
    /\ wpc' = [wpc EXCEPT ![w] = "top"]
    /\ work' = [work EXCEPT ![w] = None] /\ Returned(work[w])
    /\ UNCHANGED <<workerFrame, workCh, credits>>

execFrame == <<phase, suspended, spc, clock, trigger, heap, pushed, unsignalled, newJob,
               resume, loopVars, workCh, workerVars, sizeVars>>

ExecSelect(w) ==
    /\ xpc[w] = "select"
    /\ \/ /\ phase # "up"
          /\ xpc' = [xpc EXCEPT ![w] = "none"]
          /\ UNCHANGED <<execCh, xwork>>
       \/ /\ execCh # <<>>
          /\ xpc' = [xpc EXCEPT ![w] = "taken"]
          /\ xwork' = [xwork EXCEPT ![w] = Head(execCh)] /\ execCh' = Tail(execCh)
    /\ UNCHANGED <<execFrame, done, slotFreed>>

\* notifyExecSlot, after the job has been taken and before it is executed.
ExecNotify(w) ==
    /\ xpc[w] = "taken"
    /\ xpc' = [xpc EXCEPT ![w] = "busy"]
    /\ slotFreed' = TRUE
    /\ UNCHANGED <<execFrame, done, execCh, xwork>>

ExecReturns(w) ==
    /\ xpc[w] = "busy"
    /\ xpc' = [xpc EXCEPT ![w] = "select"]
    /\ xwork' = [xwork EXCEPT ![w] = None] /\ Returned(xwork[w])
    /\ UNCHANGED <<execFrame, slotFreed, execCh>>
-----------------------------------------------------------------------------
Next ==
    \/ Start \/ Stop \/ Stopped \/ Suspend \/ Tick
    \/ \E u \in Switcher : Unsuspend(u)
    \/ \E n \in Sizes : Resize(n)
    \/ \E j \in Job : NotifyNewJob(j) \/ \E t \in DueTimes[j] : Push(j, t)
    \/ Loop
    \/ \E w \in Worker : WorkerTop(w) \/ WorkerSelect(w) \/ WorkerReturns(w)
    \/ \E w \in ExecWorker : ExecSelect(w) \/ ExecNotify(w) \/ ExecReturns(w)

Spec == Init /\ [][Next]_vars

\* Goroutines and the clock go on, and the handlers of default jobs return.
\* Those of executor jobs may run for ever, until Stop cancels them.
Fairness ==
    /\ WF_vars(Loop) /\ WF_vars(Tick)
    /\ \A j \in Job : WF_vars(NotifyNewJob(j))
    /\ \A w \in Worker :
          WF_vars(WorkerTop(w) \/ WorkerSelect(w) \/ WorkerReturns(w))
    /\ \A w \in ExecWorker :
          /\ WF_vars(ExecSelect(w) \/ ExecNotify(w))
          /\ WF_vars(phase # "up" /\ ExecReturns(w))

FairSpec == Spec /\ Fairness
-----------------------------------------------------------------------------
Executing(j) == (\E w \in Worker : work[w] = j) \/ (\E w \in ExecWorker : xwork[w] = j)

\* ResizeWorkers: "余额始终等于活着但超出目标的人数" - however often the pool is
\* resized while earlier retirements are still owed, the goroutines that will
\* be left are as many as the last caller asked for.
CreditsBalance == phase = "up" => Cardinality(Alive) = target + credits

\* dispatchExec: the executor queue has room whenever the loop has popped a job
\* for it, so no job is ever put back ("按构造不该发生").
ExecQueueHasRoom ==
    loop = "dispatch" /\ InExecPool(slot) => Len(execCh) < ExecQueueCap

\* Suspend, Unsuspend: the loop never waits for a switch that is on again unless the
\* signal is there or somebody is still to send it, however fast and by how many the
\* switch is thrown: a signal sent for an earlier Unsuspend may have been taken, a
\* Suspend may have come between flag and signal, but no flag stays unannounced.
SwitchHeard ==
    loop = "suspended" /\ ~suspended => resume \/ \E u \in Switcher : spc[u] = "resume"

\* notifyNewJob, notifyExecSlot: signals are merged and never lost.  A loop that
\* waits with an empty heap, for a later job, or for a full queue, while there is
\* work, an earlier job or room, has been or is about to be told.
SignalsHeard ==
    /\ (loop = "empty" /\ heap # {}) => (newJob \/ unsignalled # {})
    /\ (loop = "timer" /\ \E j \in heap : trigger[j] < time)
           => (newJob \/ unsignalled # {})
    /\ (loop = "blocked" /\ Len(execCh) < ExecQueueCap)
           => (newJob \/ unsignalled # {} \/ slotFreed \/ \E w \in ExecWorker : xpc[w] = "taken")

\* When Stop has returned no goroutine is left, whatever resizing ran into it.
StoppedMeansGone ==
    phase = "down" => /\ Alive = {} /\ loop = "exit"
                      /\ \A w \in ExecWorker : xpc[w] = "none"

\* A due default job gets a worker, even if the executor pool never moves again:
\* a full executor queue does not stand in the way of the jobs behind it.
DefaultServed ==
    \A j \in DefaultJob :
        (j \in heap /\ trigger[j] <= clock) ~>
            (Executing(j) \/ j \in done \/ suspended \/ phase # "up")
=============================================================================
