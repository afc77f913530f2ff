------------------------------ MODULE Scheduler ------------------------------
(***************************************************************************)
(* The job lifecycle of core/scheduler.go at the granularity of its locks: *)
(* one action is one critical section (heap lock, scheduler lock, store    *)
(* lock) or one channel operation, so every window between two of them is  *)
(* a state of the model.                                                   *)
(*                                                                         *)
(* Processes: the schedule loop, the workers, API goroutines (Client) and  *)
(* the process itself (start, stop, crash).  Abstracted: trigger times (a  *)
(* heap entry may come due at any moment; QuaternaryHeap orders them),     *)
(* payloads, groups, attempt numbers, events; the executor pool, which     *)
(* WorkerPool models, and the store's file, which JobStore models.         *)
(***************************************************************************)
EXTENDS Naturals, Sequences, FiniteSets

CONSTANTS
    Job,          \* job identifiers; none is handed out twice
    CronJob,      \* the jobs that may be submitted with IsRepeat and a CronExpr
    GuardedJob,   \* executor jobs the RestoreGuard holds after a crash
    Worker,       \* worker goroutines of the pool
    Client,       \* goroutines that call the scheduler (API requests)
    Operations,   \* the operations the environment performs
    MaxRetries,   \* MaxRetries of every job
    QueueCap,     \* capacity of workCh
    KeepHistory,  \* FALSE: history_limit < 0, no terminal snapshot is kept
    None          \* no worker, no task, no snapshot, no request

AllOperations == {"submit", "cancel", "pause", "resume", "retry",
                  "forcePause", "update", "setGroup", "unregister",
                  "suspend", "stop", "restart", "crash", "innerCancel"}

Task == [id : Job, retry : 0..MaxRetries, cron : BOOLEAN]

Status == {"pending", "running", "success", "failed", "paused"}

Terminal == {"success", "failed"}

Snapshot == [status : Status, retry : 0..MaxRetries, cron : BOOLEAN]

\* How a request got hold of its job (Cancel's flag `cancelled', refined).
Found == {"no", "heap", "context", "paused"}

Request == [id : Job, task : Task \cup {None}, snap : Snapshot \cup {None},
            found : Found]

ASSUME ConstantsAssumption ==
    /\ CronJob \subseteq Job
    /\ GuardedJob \subseteq Job
    /\ Operations \subseteq AllOperations
    /\ MaxRetries \in Nat
    /\ QueueCap \in Nat \ {0}
    /\ KeepHistory \in BOOLEAN
    /\ None \notin Worker \cup Task \cup Snapshot \cup Request

VARIABLES
    phase,        \* "off": no process; "up": Start..Stop; "stopping": Stop
                  \* waits for the goroutines; "down": Stop has returned
    suspended,    \* the scheduling switch
    heap,         \* heap[t]: how many entries of the heap are the task t
    loop, slot,   \* the schedule loop: where it is, the task it has popped
    queue,        \* workCh
    wpc, task,    \* each worker: where it is, the task it executes
    outcome,      \* what the handler of each worker returned
    ctxDone,      \* is the context of each worker's execution cancelled?
    cancelMap,    \* cancelMap[j]: the worker whose cancel func is registered
    forcedPause,  \* jobs marked by ForcePause, to be claimed by an execution
    store, disk,  \* the store's memory map and the file it is flushed to
    cpc, req,     \* each client: where it is, the operation it performs
    handle,       \* cancel funcs a client has looked up and not yet called
    stopCancels,  \* cancel funcs Stop has collected and not yet called
    used,         \* jobs that have been submitted
    cancelled     \* how Cancel ended a job: history, read by no action

procVars == <<phase, suspended>>
loopVars == <<loop, slot, queue>>
workerVars == <<wpc, task, outcome, ctxDone>>
storeVars == <<store, disk>>
clientVars == <<cpc, req, handle>>
histVars == <<used, cancelled>>
vars == <<procVars, heap, loopVars, workerVars, cancelMap, forcedPause,
          storeVars, clientVars, stopCancels, histVars>>

ClientStep == {"idle", "resumeCheck", "save", "push", "cancelLookup",
               "cancelSignal", "cancelFind", "cancelDelete", "pauseRemove",
               "pauseWrite", "forceMark", "forceFind", "forceRead",
               "forceWrite", "forceSignal", "heapUpdate", "updateWrite",
               "groupGet", "groupWrite"}

WorkerStep == {"exit", "idle", "claimed", "registered", "handler", "settle",
               "park", "checkStop", "record", "resave", "repush", "leave"}

Outcome == {"none", "success", "interrupted", "failed", "permanent"}

TypeOK ==
    /\ phase \in {"off", "up", "stopping", "down"}
    /\ suspended \in BOOLEAN
    /\ heap \in [Task -> Nat]
    /\ loop \in {"top", "pop", "dispatch", "exit"}
    /\ slot \in Task \cup {None}
    /\ loop = "dispatch" <=> slot # None
    /\ queue \in Seq(Task)
    /\ Len(queue) <= QueueCap
    /\ wpc \in [Worker -> WorkerStep]
    /\ task \in [Worker -> Task \cup {None}]
    /\ \A w \in Worker : task[w] = None <=> wpc[w] \in {"exit", "idle"}
    /\ outcome \in [Worker -> Outcome]
    /\ ctxDone \in [Worker -> BOOLEAN]
    /\ cancelMap \in [Job -> Worker \cup {None}]
    /\ forcedPause \subseteq Job
    /\ store \in [Job -> Snapshot \cup {None}]
    /\ disk \in [Job -> Snapshot \cup {None}]
    /\ cpc \in [Client -> ClientStep]
    /\ req \in [Client -> Request \cup {None}]
    /\ \A c \in Client : req[c] = None <=> cpc[c] = "idle"
    /\ handle \in [Client -> SUBSET Worker]
    /\ stopCancels \subseteq Worker
    /\ used \subseteq Job
    /\ cancelled \in [Job -> Found]
-----------------------------------------------------------------------------
(* Tasks, snapshots and the heap.                                          *)

\* Job.ToSnapshot with the status the caller has just set.
Snap(t, status) == [status |-> status, retry |-> t.retry, cron |-> t.cron]

\* Job.FromSnapshot.
FromSnapshot(j, s) == [id |-> j, retry |-> s.retry, cron |-> s.cron]

\* store.Save and store.Update: both overwrite, and both create a snapshot
\* that is not there; without history a terminal snapshot is trimmed at once.
Put(j, s) ==
    store' = [store EXCEPT ![j] =
                IF s.status \in Terminal /\ ~KeepHistory THEN None ELSE s]

Copies(j) == {t \in Task : t.id = j /\ heap[t] > 0}

InHeap(j) == Copies(j) # {}

Push(t) == heap' = [heap EXCEPT ![t] = @ + 1]

\* removeAt: the entry t leaves the heap.
TakeOut(t) == heap[t] > 0 /\ heap' = [heap EXCEPT ![t] = @ - 1]

HasStatus(j, status) == store[j] # None /\ store[j].status = status

\* The task Schedule pushes when an execution of t asks for another one: the
\* next round of a cron job, or CloneForRetry, which clears the cron fields.
NextTask(t, result) ==
    IF result = "success" THEN [t EXCEPT !.retry = 0]
    ELSE [t EXCEPT !.retry = @ + 1, !.cron = FALSE]
-----------------------------------------------------------------------------
(* The process: Start, Stop, exit and crash.                               *)

Init ==
    /\ phase = "off" /\ suspended = FALSE
    /\ heap = [t \in Task |-> 0]
    /\ loop = "exit" /\ slot = None /\ queue = <<>>
    /\ wpc = [w \in Worker |-> "exit"]
    /\ task = [w \in Worker |-> None]
    /\ outcome = [w \in Worker |-> "none"]
    /\ ctxDone = [w \in Worker |-> FALSE]
    /\ cancelMap = [j \in Job |-> None]
    /\ forcedPause = {}
    /\ store = [j \in Job |-> None] /\ disk = store
    /\ cpc = [c \in Client |-> "idle"]
    /\ req = [c \in Client |-> None]
    /\ handle = [c \in Client |-> {}]
    /\ stopCancels = {}
    /\ used = {}
    /\ cancelled = [j \in Job |-> "no"]

\* Mutants of Restorable: Restore forgets what was running, or takes up
\* finished jobs as well.
RestorablePendingOnly == {j \in Job : HasStatus(j, "pending") /\ ~InHeap(j)}

RestorableUnlessPaused == {j \in Job : /\ store[j] # None
                                       /\ ~HasStatus(j, "paused")
                                       /\ ~InHeap(j)}

\* Snapshots Restore acts on: unfinished, not paused, not already in the heap.
Restorable == {j \in Job : /\ HasStatus(j, "pending") \/ HasStatus(j, "running")
                           /\ ~InHeap(j)}

\* pauseRunningExecOnRestore: an executor job that was running is held.
HeldBack == {j \in Restorable \cap GuardedJob : HasStatus(j, "running")}

\* Start and its Restore.  One action: the process starts the scheduler before
\* the API listens, so no request interleaves with the loop over the snapshots.
Start ==
    /\ phase = "off" \/ (phase = "down" /\ "restart" \in Operations)
    /\ \A c \in Client : cpc[c] = "idle"
    /\ phase' = "up" /\ suspended' = FALSE
    /\ LET pushed == {FromSnapshot(j, store[j]) : j \in Restorable \ HeldBack}
       IN  heap' = [t \in Task |-> IF t \in pushed THEN heap[t] + 1 ELSE heap[t]]
    /\ store' = [j \in Job |-> IF j \in HeldBack
                               THEN [store[j] EXCEPT !.status = "paused"]
                               ELSE store[j]]
    /\ queue' = <<>> /\ loop' = "top"
    /\ wpc' = [w \in Worker |-> "idle"]
    /\ UNCHANGED <<slot, task, outcome, ctxDone, cancelMap, forcedPause, disk,
                   clientVars, stopCancels, histVars>>

\* Stop, under the lock: close stopCh (phase # "up" is the closed channel) and
\* collect the cancel funcs.
StopBegin ==
    /\ phase = "up" /\ "stop" \in Operations
    /\ phase' = "stopping"
    /\ stopCancels' = {cancelMap[j] : j \in Job} \ {None}
    /\ UNCHANGED <<suspended, heap, loopVars, workerVars, cancelMap,
                   forcedPause, storeVars, clientVars, histVars>>

\* Stop calls the cancel funcs it collected, one after another.
StopCancel(w) ==
    /\ phase = "stopping" /\ w \in stopCancels
    /\ stopCancels' = stopCancels \ {w}
    /\ ctxDone' = [ctxDone EXCEPT ![w] = TRUE]
    /\ UNCHANGED <<procVars, heap, loopVars, wpc, task, outcome, cancelMap,
                   forcedPause, storeVars, clientVars, histVars>>

\* wg.Wait returns: the loop and every worker have left.
StopEnd ==
    /\ phase = "stopping" /\ stopCancels = {}
    /\ loop = "exit" /\ \A w \in Worker : wpc[w] = "exit"
    /\ phase' = "down"
    /\ UNCHANGED <<suspended, heap, loopVars, workerVars, cancelMap,
                   forcedPause, storeVars, clientVars, stopCancels, histVars>>

\* What the end of the process takes with it.
LoseVolatile ==
    /\ phase' = "off" /\ suspended' = FALSE
    /\ heap' = [t \in Task |-> 0]
    /\ loop' = "exit" /\ slot' = None /\ queue' = <<>>
    /\ wpc' = [w \in Worker |-> "exit"]
    /\ task' = [w \in Worker |-> None]
    /\ outcome' = [w \in Worker |-> "none"]
    /\ ctxDone' = [w \in Worker |-> FALSE]
    /\ cancelMap' = [j \in Job |-> None]
    /\ forcedPause' = {}
    /\ cpc' = [c \in Client |-> "idle"]
    /\ req' = [c \in Client |-> None]
    /\ handle' = [c \in Client |-> {}]
    /\ stopCancels' = {}

\* The process ends after Stop; the store's Close writes its last state.
Exit ==
    /\ phase = "down"
    /\ LoseVolatile
    /\ disk' = store
    /\ UNCHANGED <<store, histVars>>

\* The process dies: the next one reads what the last flush wrote.
Crash ==
    /\ phase \in {"up", "stopping"} /\ "crash" \in Operations
    /\ LoseVolatile
    /\ store' = disk
    /\ cancelled' = [j \in Job |-> "no"]
    /\ UNCHANGED <<disk, used>>

\* The store's flush loop.
Flush ==
    /\ phase # "off" /\ "crash" \in Operations /\ disk # store
    /\ disk' = store
    /\ UNCHANGED <<procVars, heap, loopVars, workerVars, cancelMap, forcedPause,
                   store, clientVars, stopCancels, histVars>>

Suspend ==
    /\ phase = "up" /\ "suspend" \in Operations
    /\ ~suspended /\ suspended' = TRUE
    /\ UNCHANGED <<phase, heap, loopVars, workerVars, cancelMap, forcedPause,
                   storeVars, clientVars, stopCancels, histVars>>

Unsuspend ==
    /\ phase = "up"
    /\ suspended /\ suspended' = FALSE
    /\ UNCHANGED <<phase, heap, loopVars, workerVars, cancelMap, forcedPause,
                   storeVars, clientVars, stopCancels, histVars>>
-----------------------------------------------------------------------------
(* The schedule loop.                                                      *)

loopFrame == <<procVars, workerVars, cancelMap, forcedPause, storeVars,
               clientVars, stopCancels, histVars>>

\* The top of the loop: stopCh first, then the switch.
LoopTop ==
    /\ loop = "top"
    /\ \/ phase # "up" /\ loop' = "exit"
       \/ phase = "up" /\ ~suspended /\ loop' = "pop"
    /\ UNCHANGED <<heap, slot, queue, loopFrame>>

\* PopIfDueWhere finds a due entry.  A removal and the heap's choice are one
\* critical section; stopCh and the switch are not looked at again.
LoopPop ==
    /\ loop = "pop"
    /\ \E t \in Task : TakeOut(t) /\ slot' = t
    /\ loop' = "dispatch"
    /\ UNCHANGED <<queue, loopFrame>>

\* Nothing is due: a timer, newJobCh or stopCh ends the wait.
LoopWait ==
    /\ loop = "pop" /\ loop' = "top"
    /\ UNCHANGED <<heap, slot, queue, loopFrame>>

\* dispatch: the send blocks while workCh is full.
LoopDispatch ==
    /\ loop = "dispatch" /\ Len(queue) < QueueCap
    /\ queue' = Append(queue, slot)
    /\ loop' = "top" /\ slot' = None
    /\ UNCHANGED <<heap, loopFrame>>

\* dispatch: stopCh is closed; the popped task is dropped here and lives on in
\* the store only.
LoopDrop ==
    /\ loop = "dispatch" /\ phase # "up"
    /\ loop' = "exit" /\ slot' = None
    /\ UNCHANGED <<heap, queue, loopFrame>>

Loop == LoopTop \/ LoopPop \/ LoopWait \/ LoopDispatch \/ LoopDrop
-----------------------------------------------------------------------------
(* The workers: worker and executeJob with its three endings.              *)

workerFrame == <<procVars, loop, slot, clientVars, stopCancels, histVars>>

Goto(w, step) == wpc' = [wpc EXCEPT ![w] = step]

\* select in worker: when both are ready Go picks either branch.
WorkerExit(w) ==
    /\ wpc[w] = "idle" /\ phase # "up"
    /\ Goto(w, "exit")
    /\ UNCHANGED <<workerFrame, heap, queue, task, outcome, ctxDone, cancelMap,
                   forcedPause, storeVars>>

Receive(w) ==
    /\ wpc[w] = "idle" /\ queue # <<>>
    /\ task' = [task EXCEPT ![w] = Head(queue)]
    /\ queue' = Tail(queue)
    /\ Goto(w, "claimed")
    /\ UNCHANGED <<workerFrame, heap, outcome, ctxDone, cancelMap, forcedPause,
                   storeVars>>

\* executeJob finds no handler: the job fails without having been registered.
NoHandler(w) ==
    /\ wpc[w] = "claimed" /\ "unregister" \in Operations
    /\ Put(task[w].id, Snap(task[w], "failed"))
    /\ task' = [task EXCEPT ![w] = None]
    /\ Goto(w, "idle")
    /\ UNCHANGED <<workerFrame, heap, queue, outcome, ctxDone, cancelMap,
                   forcedPause, disk>>

\* Mutants of Register: an entry that is still there is left alone, or Stop's having
\* begun goes unnoticed.
RegisterIfAbsent(w) ==
    /\ wpc[w] = "claimed"
    /\ cancelMap' = [cancelMap EXCEPT ![task[w].id] = IF @ = None THEN w ELSE @]
    /\ ctxDone' = [ctxDone EXCEPT ![w] = phase # "up"]
    /\ Goto(w, "registered")
    /\ UNCHANGED <<workerFrame, heap, queue, task, outcome, forcedPause,
                   storeVars>>

RegisterUnaware(w) ==
    /\ wpc[w] = "claimed"
    /\ cancelMap' = [cancelMap EXCEPT ![task[w].id] = w]
    /\ ctxDone' = [ctxDone EXCEPT ![w] = FALSE]
    /\ Goto(w, "registered")
    /\ UNCHANGED <<workerFrame, heap, queue, task, outcome, forcedPause,
                   storeVars>>

\* The cancel func enters cancelMap; the same lock tells whether Stop has
\* already taken its copy of the map.
Register(w) ==
    /\ wpc[w] = "claimed"
    /\ cancelMap' = [cancelMap EXCEPT ![task[w].id] = w]
    /\ ctxDone' = [ctxDone EXCEPT ![w] = phase # "up"]
    /\ Goto(w, "registered")
    /\ UNCHANGED <<workerFrame, heap, queue, task, outcome, forcedPause,
                   storeVars>>

SaveRunning(w) ==
    /\ wpc[w] = "registered"
    /\ Put(task[w].id, Snap(task[w], "running"))
    /\ Goto(w, "handler")
    /\ UNCHANGED <<workerFrame, heap, queue, task, outcome, ctxDone, cancelMap,
                   forcedPause, disk>>

\* The handler returns nil, an error, or a permanent error.  It may ignore its
\* context; an error under a cancelled context is an interruption, and so is
\* context.Canceled from a context of the handler's own.
HandlerReturns(w, result) ==
    /\ wpc[w] = "handler"
    /\ result = "interrupted" => "innerCancel" \in Operations
    /\ outcome' = [outcome EXCEPT ![w] =
                     IF result # "success" /\ ctxDone[w] THEN "interrupted"
                     ELSE result]
    /\ Goto(w, "settle")
    /\ UNCHANGED <<workerFrame, heap, queue, task, ctxDone, cancelMap,
                   forcedPause, storeVars>>

\* Mutant of Reschedules: one retry too many.
ReschedulesOnceMore(t, result) ==
    \/ result = "success" /\ t.cron
    \/ result = "failed" /\ t.retry <= MaxRetries

\* Does this ending ask for another execution?
Reschedules(t, result) ==
    \/ result = "success" /\ t.cron
    \/ result = "failed" /\ t.retry < MaxRetries

\* takeForcedPause, the first thing each of the three endings does.
TakeForcedPause(w) ==
    LET j == task[w].id IN
    /\ wpc[w] = "settle"
    /\ forcedPause' = forcedPause \ {j}
    /\ Goto(w, IF j \in forcedPause THEN "park"
               ELSE IF outcome[w] = "interrupted" THEN "checkStop"
               ELSE IF Reschedules(task[w], outcome[w]) THEN "resave"
               ELSE "record")
    /\ UNCHANGED <<workerFrame, heap, queue, task, outcome, ctxDone, cancelMap,
                   storeVars>>

\* handleInterrupted: a user's Cancel leaves the snapshot to Cancel.
CheckStop(w) ==
    /\ wpc[w] = "checkStop"
    /\ Goto(w, IF phase = "up" THEN "leave" ELSE "record")
    /\ UNCHANGED <<workerFrame, heap, queue, task, outcome, ctxDone, cancelMap,
                   forcedPause, storeVars>>

\* The last store write of an execution that is not rescheduled.
Record(w) ==
    /\ wpc[w] \in {"park", "record"}
    /\ Put(task[w].id,
           Snap(task[w], IF wpc[w] = "park" THEN "paused"
                         ELSE IF outcome[w] = "interrupted" THEN "pending"
                         ELSE IF outcome[w] = "success" THEN "success"
                         ELSE "failed"))
    /\ Goto(w, "leave")
    /\ UNCHANGED <<workerFrame, heap, queue, task, outcome, ctxDone, cancelMap,
                   forcedPause, disk>>

\* Schedule of the next task of this ID: it is saved, then pushed.
Resave(w) ==
    /\ wpc[w] = "resave"
    /\ LET next == NextTask(task[w], outcome[w]) IN
       /\ Put(next.id, Snap(next, "pending"))
       /\ task' = [task EXCEPT ![w] = next]
    /\ Goto(w, "repush")
    /\ UNCHANGED <<workerFrame, heap, queue, outcome, ctxDone, cancelMap,
                   forcedPause, disk>>

Repush(w) ==
    /\ wpc[w] = "repush"
    /\ Push(task[w])
    /\ Goto(w, "leave")
    /\ UNCHANGED <<workerFrame, queue, task, outcome, ctxDone, cancelMap,
                   forcedPause, storeVars>>

\* The deferred delete(s.cancelMap, job.ID) and cancel: by ID, whoever is
\* registered.  From here on this execution's cancel func does nothing.
Leave(w) ==
    /\ wpc[w] = "leave"
    /\ cancelMap' = [cancelMap EXCEPT ![task[w].id] = None]
    /\ ctxDone' = [ctxDone EXCEPT ![w] = FALSE]
    /\ outcome' = [outcome EXCEPT ![w] = "none"]
    /\ task' = [task EXCEPT ![w] = None]
    /\ handle' = [c \in Client |-> handle[c] \ {w}]
    /\ stopCancels' = stopCancels \ {w}
    /\ Goto(w, "idle")
    /\ UNCHANGED <<procVars, heap, loopVars, forcedPause, storeVars, cpc, req,
                   histVars>>

WorkerStepOf(w) ==
    \/ WorkerExit(w) \/ Receive(w) \/ NoHandler(w) \/ Register(w)
    \/ SaveRunning(w)
    \/ \E result \in {"success", "failed", "permanent", "interrupted"} :
          HandlerReturns(w, result)
    \/ TakeForcedPause(w) \/ CheckStop(w) \/ Record(w) \/ Resave(w)
    \/ Repush(w) \/ Leave(w)
-----------------------------------------------------------------------------
(* The API goroutines.  A request begins while the scheduler is up; once   *)
(* begun, its steps go on whatever happens, until the process ends.        *)

clientFrame == <<procVars, loopVars, wpc, task, outcome, stopCancels, used>>

NewRequest(j) == [id |-> j, task |-> None, snap |-> None, found |-> "no"]

Begins(c, operation) == phase = "up" /\ cpc[c] = "idle" /\ operation \in Operations

At(c, step) == cpc[c] = step

\* Client c goes on with `step', its request now r.
Continue(c, step, r) ==
    /\ cpc' = [cpc EXCEPT ![c] = step]
    /\ req' = [req EXCEPT ![c] = r]

Finish(c) == Continue(c, "idle", None)

\* POST /jobs and the directory loader build a job with a fresh ID.
Submit(c, j) ==
    /\ Begins(c, "submit") /\ j \notin used
    /\ used' = used \cup {j}
    /\ \E repeat \in IF j \in CronJob THEN BOOLEAN ELSE {FALSE} :
          Continue(c, "save", [NewRequest(j) EXCEPT
             !.task = [id |-> j, retry |-> 0, cron |-> repeat]])
    /\ UNCHANGED <<procVars, loopVars, wpc, task, outcome, stopCancels, heap,
                   ctxDone, cancelMap, forcedPause, storeVars, handle, cancelled>>

\* Mutant of ResumeFind: any snapshot will do.
ResumeAny(c, j) ==
    /\ Begins(c, "resume") /\ store[j] # None
    /\ Continue(c, "resumeCheck",
                [NewRequest(j) EXCEPT !.task = FromSnapshot(j, store[j])])
    /\ UNCHANGED <<clientFrame, heap, ctxDone, cancelMap, forcedPause,
                   storeVars, handle, cancelled>>

\* Resume: the snapshot must be paused ...
ResumeFind(c, j) ==
    /\ Begins(c, "resume") /\ HasStatus(j, "paused")
    /\ Continue(c, "resumeCheck",
                [NewRequest(j) EXCEPT !.task = FromSnapshot(j, store[j])])
    /\ UNCHANGED <<clientFrame, heap, ctxDone, cancelMap, forcedPause,
                   storeVars, handle, cancelled>>

\* ... and the job must not be registered as running.
ResumeCheck(c) ==
    /\ At(c, "resumeCheck")
    /\ IF cancelMap[req[c].id] # None THEN Finish(c)
       ELSE Continue(c, "save", req[c])
    /\ UNCHANGED <<clientFrame, heap, ctxDone, cancelMap, forcedPause,
                   storeVars, handle, cancelled>>

\* POST /jobs/:id/retry: a failed snapshot is scheduled again from retry 0.
RetryFind(c, j) ==
    /\ Begins(c, "retry") /\ HasStatus(j, "failed")
    /\ Continue(c, "save", [NewRequest(j) EXCEPT
          !.task = [FromSnapshot(j, store[j]) EXCEPT !.retry = 0]])
    /\ UNCHANGED <<clientFrame, heap, ctxDone, cancelMap, forcedPause,
                   storeVars, handle, cancelled>>

\* Mutant of ScheduleSave: the snapshot is not written.
ScheduleUnsaved(c) ==
    /\ At(c, "save")
    /\ Continue(c, "push", req[c])
    /\ UNCHANGED <<clientFrame, heap, ctxDone, cancelMap, forcedPause, storeVars,
                   handle, cancelled>>

\* Schedule: saved first, then pushed.
ScheduleSave(c) ==
    /\ At(c, "save")
    /\ Put(req[c].id, Snap(req[c].task, "pending"))
    /\ Continue(c, "push", req[c])
    /\ UNCHANGED <<clientFrame, heap, ctxDone, cancelMap, forcedPause, disk,
                   handle, cancelled>>

SchedulePush(c) ==
    /\ At(c, "push")
    /\ Push(req[c].task)
    /\ Finish(c)
    /\ UNCHANGED <<clientFrame, ctxDone, cancelMap, forcedPause, storeVars,
                   handle, cancelled>>

\* heap.Remove: takes an entry of j out, if there is one.
RemoveFromHeap(c, j, found, missing) ==
    \/ \E t \in Copies(j) :
          /\ TakeOut(t)
          /\ Continue(c, found, [NewRequest(j) EXCEPT !.task = t, !.found = "heap"])
    \/ /\ ~InHeap(j) /\ UNCHANGED heap
       /\ IF missing = "idle" THEN Finish(c)
          ELSE Continue(c, missing, NewRequest(j))

CancelRemove(c, j) ==
    /\ Begins(c, "cancel") /\ j \in used
    /\ RemoveFromHeap(c, j, "cancelLookup", "cancelLookup")
    /\ UNCHANGED <<clientFrame, ctxDone, cancelMap, forcedPause, storeVars,
                   handle, cancelled>>

\* CancelRunning looks the cancel func up under the lock ...
CancelLookup(c) ==
    LET w == cancelMap[req[c].id] IN
    /\ At(c, "cancelLookup")
    /\ handle' = [handle EXCEPT ![c] = {w} \ {None}]
    /\ Continue(c, IF w # None THEN "cancelSignal"
                   ELSE IF req[c].found = "heap" THEN "cancelDelete" ELSE "cancelFind",
                req[c])
    /\ UNCHANGED <<clientFrame, heap, ctxDone, cancelMap, forcedPause,
                   storeVars, cancelled>>

\* ... and calls it outside.
Signal(c) ==
    /\ ctxDone' = [w \in Worker |-> ctxDone[w] \/ w \in handle[c]]
    /\ handle' = [handle EXCEPT ![c] = {}]

CancelSignal(c) ==
    /\ At(c, "cancelSignal")
    /\ Signal(c)
    /\ Continue(c, "cancelDelete",
                [req[c] EXCEPT !.found = IF @ = "heap" THEN @ ELSE "context"])
    /\ UNCHANGED <<clientFrame, heap, cancelMap, forcedPause, storeVars,
                   cancelled>>

\* Neither in the heap nor running: only a paused job can be cancelled.
CancelFind(c) ==
    /\ At(c, "cancelFind")
    /\ IF HasStatus(req[c].id, "paused")
       THEN Continue(c, "cancelDelete", [req[c] EXCEPT !.found = "paused"])
       ELSE Finish(c)
    /\ UNCHANGED <<clientFrame, heap, ctxDone, cancelMap, forcedPause,
                   storeVars, handle, cancelled>>

\* Mutant of CancelDelete: a job found in the heap keeps its snapshot.
CancelDeleteUnlessHeap(c) ==
    LET j == req[c].id IN
    /\ At(c, "cancelDelete")
    /\ store' = IF req[c].found = "heap" THEN store ELSE [store EXCEPT ![j] = None]
    /\ cancelled' = [cancelled EXCEPT ![j] = req[c].found]
    /\ Finish(c)
    /\ UNCHANGED <<clientFrame, heap, ctxDone, cancelMap, forcedPause, disk,
                   handle>>

CancelDelete(c) ==
    LET j == req[c].id IN
    /\ At(c, "cancelDelete")
    /\ store' = [store EXCEPT ![j] = None]
    /\ cancelled' = [cancelled EXCEPT ![j] = req[c].found]
    /\ Finish(c)
    /\ UNCHANGED <<clientFrame, heap, ctxDone, cancelMap, forcedPause, disk,
                   handle>>

\* Pause of a job that is not in the heap changes nothing: it reports the
\* paused snapshot, or that the job is running, or not there.
Pause(c, j) ==
    /\ Begins(c, "pause") /\ InHeap(j)
    /\ RemoveFromHeap(c, j, "pauseWrite", "idle")
    /\ UNCHANGED <<clientFrame, ctxDone, cancelMap, forcedPause, storeVars,
                   handle, cancelled>>

PauseWrite(c) ==
    /\ At(c, "pauseWrite")
    /\ Put(req[c].id, Snap(req[c].task, "paused"))
    /\ Finish(c)
    /\ UNCHANGED <<clientFrame, heap, ctxDone, cancelMap, forcedPause, disk,
                   handle, cancelled>>

ForcePause(c, j) ==
    /\ Begins(c, "forcePause") /\ j \in used
    /\ RemoveFromHeap(c, j, "pauseWrite", "forceMark")
    /\ UNCHANGED <<clientFrame, ctxDone, cancelMap, forcedPause, storeVars,
                   handle, cancelled>>

\* Under the lock: look the cancel func up and leave the mark.
ForceMark(c) ==
    LET w == cancelMap[req[c].id] IN
    /\ At(c, "forceMark")
    /\ IF w # None
       THEN /\ forcedPause' = forcedPause \cup {req[c].id}
            /\ handle' = [handle EXCEPT ![c] = {w}]
            /\ Continue(c, "forceRead", req[c])
       ELSE /\ Continue(c, "forceFind", req[c])
            /\ UNCHANGED <<forcedPause, handle>>
    /\ UNCHANGED <<clientFrame, heap, ctxDone, cancelMap, storeVars, cancelled>>

\* Not running: a job the store knows is handed to Pause.
ForceFind(c) ==
    /\ At(c, "forceFind")
    /\ IF store[req[c].id] = None THEN Finish(c)
       ELSE Continue(c, "pauseRemove", req[c])
    /\ UNCHANGED <<clientFrame, heap, ctxDone, cancelMap, forcedPause,
                   storeVars, handle, cancelled>>

ForceFallback(c) ==
    /\ At(c, "pauseRemove")
    /\ RemoveFromHeap(c, req[c].id, "pauseWrite", "idle")
    /\ UNCHANGED <<clientFrame, ctxDone, cancelMap, forcedPause, storeVars,
                   handle, cancelled>>

\* Running: the snapshot is read, written back as paused, and then the context
\* is cancelled; without a snapshot nothing is written.
ForceRead(c) ==
    /\ At(c, "forceRead")
    /\ IF store[req[c].id] = None THEN Continue(c, "forceSignal", req[c])
       ELSE Continue(c, "forceWrite", [req[c] EXCEPT !.snap = store[req[c].id]])
    /\ UNCHANGED <<clientFrame, heap, ctxDone, cancelMap, forcedPause,
                   storeVars, handle, cancelled>>

ForceWrite(c) ==
    /\ At(c, "forceWrite")
    /\ Put(req[c].id, [req[c].snap EXCEPT !.status = "paused"])
    /\ Continue(c, "forceSignal", req[c])
    /\ UNCHANGED <<clientFrame, heap, ctxDone, cancelMap, forcedPause, disk,
                   handle, cancelled>>

ForceSignal(c) ==
    /\ At(c, "forceSignal")
    /\ Signal(c)
    /\ Finish(c)
    /\ UNCHANGED <<clientFrame, heap, cancelMap, forcedPause, storeVars,
                   cancelled>>

\* UpdatePending: copy the heap's entry; an absent entry is an error.
Update(c, j) ==
    /\ Begins(c, "update")
    /\ \E t \in Copies(j) :
          Continue(c, "heapUpdate", [NewRequest(j) EXCEPT !.task = t])
    /\ UNCHANGED <<clientFrame, heap, ctxDone, cancelMap, forcedPause,
                   storeVars, handle, cancelled>>

\* heap.Update puts the copy in place of the entry, if one is still there.
HeapUpdate(c) ==
    /\ At(c, "heapUpdate")
    /\ \/ \E u \in Copies(req[c].id) :
             /\ heap' = [[heap EXCEPT ![u] = @ - 1] EXCEPT ![req[c].task] = @ + 1]
             /\ Continue(c, "updateWrite", req[c])
       \/ ~InHeap(req[c].id) /\ Finish(c) /\ UNCHANGED heap
    /\ UNCHANGED <<clientFrame, ctxDone, cancelMap, forcedPause, storeVars,
                   handle, cancelled>>

\* The snapshot of the copy is written as pending.
UpdateWrite(c) ==
    /\ At(c, "updateWrite")
    /\ Put(req[c].id, Snap(req[c].task, "pending"))
    /\ Finish(c)
    /\ UNCHANGED <<clientFrame, heap, ctxDone, cancelMap, forcedPause, disk,
                   handle, cancelled>>

\* SetGroup, and RetagGroup for each of its snapshots: the snapshot is read ...
SetGroup(c, j) ==
    /\ Begins(c, "setGroup") /\ store[j] # None
    /\ Continue(c, "groupGet", [NewRequest(j) EXCEPT !.snap = store[j]])
    /\ UNCHANGED <<clientFrame, heap, ctxDone, cancelMap, forcedPause,
                   storeVars, handle, cancelled>>

\* ... a heap entry is updated like UpdatePending does, and a job outside the
\* heap gets the snapshot written back, unless it said the job is running.
GroupGet(c) ==
    /\ At(c, "groupGet")
    /\ \/ \E t \in Copies(req[c].id) :
             Continue(c, "heapUpdate", [req[c] EXCEPT !.task = t])
       \/ /\ ~InHeap(req[c].id)
          /\ IF req[c].snap.status = "running" THEN Finish(c)
             ELSE Continue(c, "groupWrite", req[c])
    /\ UNCHANGED <<clientFrame, heap, ctxDone, cancelMap, forcedPause,
                   storeVars, handle, cancelled>>

GroupWrite(c) ==
    /\ At(c, "groupWrite")
    /\ Put(req[c].id, req[c].snap)
    /\ Finish(c)
    /\ UNCHANGED <<clientFrame, heap, ctxDone, cancelMap, forcedPause, disk,
                   handle, cancelled>>

ClientBegins(c, j) ==
    \/ Submit(c, j) \/ ResumeFind(c, j) \/ RetryFind(c, j)
    \/ CancelRemove(c, j) \/ Pause(c, j) \/ ForcePause(c, j)
    \/ Update(c, j) \/ SetGroup(c, j)

ClientGoesOn(c) ==
    \/ ResumeCheck(c) \/ ScheduleSave(c) \/ SchedulePush(c)
    \/ CancelLookup(c) \/ CancelSignal(c) \/ CancelFind(c) \/ CancelDelete(c)
    \/ PauseWrite(c)
    \/ ForceMark(c) \/ ForceFind(c) \/ ForceFallback(c)
    \/ ForceRead(c) \/ ForceWrite(c) \/ ForceSignal(c)
    \/ HeapUpdate(c) \/ UpdateWrite(c) \/ GroupGet(c) \/ GroupWrite(c)
-----------------------------------------------------------------------------
Process ==
    \/ Start \/ StopBegin \/ (\E w \in Worker : StopCancel(w)) \/ StopEnd
    \/ Exit \/ Crash \/ Flush \/ Suspend \/ Unsuspend

Next ==
    \/ Process
    \/ Loop
    \/ \E w \in Worker : WorkerStepOf(w)
    \/ \E c \in Client : ClientGoesOn(c) \/ \E j \in Job : ClientBegins(c, j)

Spec == Init /\ [][Next]_vars

\* Fairness: the Go runtime keeps every goroutine running.  A handler owes a
\* return only once its context is cancelled; Stop's comment says as much.
Fairness ==
    /\ WF_vars(Loop)
    /\ \A w \in Worker :
          /\ WF_vars(WorkerStepOf(w) /\ (wpc[w] = "handler" => ctxDone[w]))
          /\ WF_vars(StopCancel(w))
    /\ WF_vars(StopEnd)

FairSpec == Spec /\ Fairness
-----------------------------------------------------------------------------
(* Who has a job.                                                          *)

\* Worker steps in which an execution still has something to do for its job.
Executing == {"claimed", "registered", "handler", "settle", "park",
              "checkStop", "record", "resave", "repush"}

\* Client steps in which a request has the job in its hands.
Carrying == {"save", "push", "pauseWrite"}

Place == {"heap", "slot", "queue", "worker", "client"}

Has(p, j) ==
    CASE p = "heap" -> InHeap(j)
      [] p = "slot" -> slot # None /\ slot.id = j
      [] p = "queue" -> \E i \in 1..Len(queue) : queue[i].id = j
      [] p = "worker" -> \E w \in Worker : wpc[w] \in Executing /\ task[w].id = j
      [] p = "client" -> \E c \in Client : cpc[c] \in Carrying /\ req[c].id = j

Owned(j) == \E p \in Place : Has(p, j)

\* Schedule, Resume, the reschedules of a worker and Restore hand one job from
\* place to place: it is never in two places, nor twice in one, so it cannot
\* run twice at a time.
SingleOwner ==
    \A j \in Job :
        /\ \A p, q \in Place : Has(p, j) /\ Has(q, j) => p = q
        /\ \A t, u \in Copies(j) : t = u /\ heap[t] = 1
        /\ \A i, k \in 1..Len(queue) : queue[i].id = j /\ queue[k].id = j => i = k
        /\ \A v, w \in Worker :
              /\ wpc[v] \in Executing /\ task[v].id = j
              /\ wpc[w] \in Executing /\ task[w].id = j
              => v = w
        /\ \A c, d \in Client :
              /\ cpc[c] \in Carrying /\ req[c].id = j
              /\ cpc[d] \in Carrying /\ req[d].id = j
              => c = d

\* A paused, finished or failed snapshot means what it says: nobody has the
\* job, except the request that is about to schedule it again.
SettledIsIdle ==
    \A j \in Job :
        store[j] # None /\ store[j].status \in Terminal \cup {"paused"} =>
            \A p \in Place \ {"client"} : ~Has(p, j)

\* While the scheduler is up, every job the store calls pending or running is
\* somewhere: nothing that was accepted is forgotten until the next restart.
NoJobForgotten ==
    phase = "up" =>
        \A j \in Job : HasStatus(j, "pending") \/ HasStatus(j, "running") =>
            Owned(j)

\* Cancel of a job that waited in the heap is final: it has no snapshot, and
\* nobody has it, so no restart brings it back.
CancelledPendingIsGone ==
    \A j \in Job : cancelled[j] \in {"heap", "paused"} =>
        store[j] = None /\ ~Owned(j)

\* Cancel's comment: whether the job waits or runs, the snapshot goes, "避免下次启动
\* 时被 Restore 重新入队" - a new process does not queue a job whose Cancel returned.
CancelledStaysOut ==
    [][phase = "off" /\ phase' = "up" =>
         \A j \in Job : cancelled[j] # "no" => ~InHeap(j)']_vars

\* Worker steps between the registration of a cancel func and the handler's return.
Running == {"registered", "handler"}

\* Register: an execution's entry lives as long as the execution, so that
\* Cancel and Stop reach every handler that runs.
RunningIsCancellable ==
    \A w \in Worker : wpc[w] \in Running => cancelMap[task[w].id] = w \/ ctxDone[w]

\* Register, Leave: what the code keeps of that promise.  A running execution that has
\* no entry in cancelMap lost it to the deferred delete of an earlier execution of its
\* job, which another worker still had to do, and to nothing else; and the entry of
\* somebody else never stands in its place, so Cancel and Stop cancel nobody but it.
LostToPredecessor ==
    [][\A w \in Worker :
         wpc'[w] \in Running /\ cancelMap'[task'[w].id] # w =>
            /\ cancelMap'[task'[w].id] = None
            /\ \/ wpc[w] \in Running /\ cancelMap[task[w].id] = None
               \/ \E v \in Worker \ {w} : Leave(v) /\ task[v].id = task[w].id]_vars

\* forcedPause: a mark is claimed by one of the endings of the execution it was
\* left for; none outlives that execution and lies in wait for a later one.
MarkHasExecution ==
    \A j \in forcedPause : cancelMap[j] # None

\* SetGroup: "暂停中的任务与终态留痕不在堆里，直接改快照；正在执行的任务由 worker 持有" - the
\* direct write of a snapshot changes its group, never where the job has got to.
RegroupKeepsStatus ==
    [][\A c \in Client : GroupWrite(c) =>
         HasStatus(req[c].id, req[c].snap.status)]_vars

\* Stop returns: the loop leaves wherever it is blocked, queued tasks are
\* drained or left, and every running handler is told, however late it began.
StopReturns == (phase = "stopping") ~> (phase = "down")

\* A snapshot that says a job is finished stays as it is until the job is
\* deleted, retried by hand, or a crash brings an older file back.
TerminalIsFinal ==
    [][\A j \in Job :
         store[j] # None /\ store[j].status \in Terminal =>
            \/ store'[j] \in {store[j], None}
            \/ phase' = "off"
            \/ \E c \in Client : cpc[c] = "save" /\ req[c].id = j]_vars
=============================================================================
