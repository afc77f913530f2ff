--------------------------- MODULE SchedulerProofs ---------------------------
(* Theorems about Scheduler, for every value of its constants.              *)
(*                                                                          *)
(* First its types, and that no job is ever in two hands (SingleOwner), for *)
(* any number of jobs, workers and concurrent clients, while nothing        *)
(* schedules a job a second time from its snapshot (Resume, retry).  Then   *)
(* what the snapshots promise, each for the operations under which it holds.*)
EXTENDS Scheduler, TLAPS

\* A worker about to save the next task of its job has a reason to.
WorkerOK ==
    \A w \in Worker :
        wpc[w] = "resave" => Reschedules(task[w], outcome[w])

\* What a request carries at the steps that use it.
StepFits(step, r) ==
    /\ step \in {"resumeCheck", "save", "push", "pauseWrite", "heapUpdate",
                 "updateWrite"} => r.task # None /\ r.task.id = r.id
    /\ step \in {"forceWrite", "groupGet", "groupWrite"} => r.snap # None

RequestOK == \A c \in Client : StepFits(cpc[c], req[c])

\* The part of TypeInv that is about the clients' requests.
ClientTyped ==
    /\ cpc \in [Client -> ClientStep]
    /\ req \in [Client -> Request \cup {None}]
    /\ \A c \in Client : req[c] = None <=> cpc[c] = "idle"
    /\ RequestOK

\* Without a running process, and after Stop, no goroutine is left.
PhaseOK ==
    phase \in {"off", "down"} =>
        loop = "exit" /\ \A w \in Worker : wpc[w] = "exit"

TypeInv == TypeOK /\ WorkerOK /\ RequestOK /\ PhaseOK

USE ConstantsAssumption DEF ConstantsAssumption
------------------------------------------------------------------------------
LEMMA SnapType ==
    ASSUME NEW t \in Task, NEW st \in Status
    PROVE  Snap(t, st) \in Snapshot
BY DEF Snap, Task, Snapshot

LEMMA FromSnapshotType ==
    ASSUME NEW j \in Job, NEW s \in Snapshot
    PROVE  FromSnapshot(j, s) \in Task /\ FromSnapshot(j, s).id = j
BY DEF FromSnapshot, Task, Snapshot

LEMMA PutType ==
    ASSUME NEW j \in Job, NEW s \in Snapshot,
           store \in [Job -> Snapshot \cup {None}], Put(j, s)
    PROVE  store' \in [Job -> Snapshot \cup {None}]
BY DEF Put

LEMMA NextTaskType ==
    ASSUME NEW t \in Task, NEW result \in Outcome, Reschedules(t, result)
    PROVE  NextTask(t, result) \in Task /\ NextTask(t, result).id = t.id
<1>1. CASE result = "success"
  BY <1>1 DEF NextTask, Task
<1>2. CASE result = "failed"
  <2>1. t.retry + 1 \in 0..MaxRetries
    BY <1>2 DEF Reschedules, Task
  <2>2. NextTask(t, result) = [id |-> t.id, retry |-> t.retry + 1, cron |-> FALSE]
    BY <1>2 DEF NextTask, Task
  <2> QED BY <2>1, <2>2 DEF Task
<1> QED BY <1>1, <1>2 DEF Reschedules

LEMMA InitType == Init => TypeInv
<1> SUFFICES ASSUME Init PROVE TypeInv
  OBVIOUS
<1>1. TypeOK
  <2>1. queue \in Seq(Task) /\ Len(queue) <= QueueCap
    BY DEF Init
  <2>2. heap \in [Task -> Nat]
    BY DEF Init
  <2>3. \A w \in Worker : task[w] = None <=> wpc[w] \in {"exit", "idle"}
    BY DEF Init
  <2>4. \A c \in Client : req[c] = None <=> cpc[c] = "idle"
    BY DEF Init
  <2>5. store \in [Job -> Snapshot \cup {None}] /\ disk = store
    BY DEF Init
  <2> QED BY <2>1, <2>2, <2>3, <2>4, <2>5
          DEF Init, TypeOK, WorkerStep, ClientStep, Outcome, Found
<1>2. WorkerOK /\ RequestOK /\ PhaseOK
  BY DEF Init, WorkerOK, RequestOK, StepFits, PhaseOK
<1> QED BY <1>1, <1>2 DEF TypeInv

LEMMA LoopType == TypeInv /\ Loop => TypeInv'
<1> SUFFICES ASSUME TypeInv, Loop PROVE TypeInv'
  OBVIOUS
<1> USE DEF TypeInv, TypeOK, WorkerOK, RequestOK, PhaseOK, loopFrame, procVars,
            workerVars, storeVars, clientVars, histVars
<1>1. CASE LoopTop BY <1>1 DEF LoopTop
<1>2. CASE LoopPop BY <1>2 DEF LoopPop, TakeOut
<1>3. CASE LoopWait BY <1>3 DEF LoopWait
<1>4. CASE LoopDispatch BY <1>4 DEF LoopDispatch
<1>5. CASE LoopDrop BY <1>5 DEF LoopDrop
<1> QED BY <1>1, <1>2, <1>3, <1>4, <1>5 DEF Loop

\* What the end of the process leaves is typed.
LEMMA LoseVolatileType ==
    ASSUME LoseVolatile
    PROVE  /\ phase' = "off" /\ suspended' = FALSE
           /\ heap' \in [Task -> Nat]
           /\ loop' = "exit" /\ slot' = None
           /\ queue' \in Seq(Task) /\ Len(queue') <= QueueCap
           /\ wpc' \in [Worker -> WorkerStep]
           /\ task' \in [Worker -> Task \cup {None}]
           /\ \A w \in Worker : wpc'[w] = "exit" /\ task'[w] = None
           /\ outcome' \in [Worker -> Outcome]
           /\ ctxDone' \in [Worker -> BOOLEAN]
           /\ cancelMap' \in [Job -> Worker \cup {None}]
           /\ forcedPause' = {}
           /\ cpc' \in [Client -> ClientStep]
           /\ req' \in [Client -> Request \cup {None}]
           /\ \A c \in Client : cpc'[c] = "idle" /\ req'[c] = None
           /\ handle' \in [Client -> SUBSET Worker]
           /\ stopCancels' = {}
<1>1. heap' \in [Task -> Nat] BY DEF LoseVolatile
<1>2. queue' \in Seq(Task) /\ Len(queue') <= QueueCap BY DEF LoseVolatile
<1>3. wpc' \in [Worker -> WorkerStep] BY DEF LoseVolatile, WorkerStep
<1>4. outcome' \in [Worker -> Outcome] BY DEF LoseVolatile, Outcome
<1>5. cpc' \in [Client -> ClientStep] BY DEF LoseVolatile, ClientStep
<1>6. handle' \in [Client -> SUBSET Worker] BY DEF LoseVolatile
<1> QED BY <1>1, <1>2, <1>3, <1>4, <1>5, <1>6 DEF LoseVolatile

LEMMA ProcessType == TypeInv /\ Process => TypeInv'
<1> SUFFICES ASSUME TypeInv, Process PROVE TypeInv'
  OBVIOUS
<1> USE DEF TypeInv, TypeOK, WorkerOK, RequestOK, PhaseOK, loopVars, procVars,
            workerVars, storeVars, clientVars, histVars
<1>1. CASE Start
  <2>1. heap' \in [Task -> Nat] BY <1>1 DEF Start
  <2>2. store' \in [Job -> Snapshot \cup {None}]
    <3>1. \A j \in HeldBack : store[j] \in Snapshot
      BY DEF HeldBack, Restorable, HasStatus
    <3>2. \A s \in Snapshot : [s EXCEPT !.status = "paused"] \in Snapshot
      BY DEF Snapshot, Status
    <3>3. store' = [j \in Job |-> IF j \in HeldBack
                                  THEN [store[j] EXCEPT !.status = "paused"]
                                  ELSE store[j]]
      BY <1>1 DEF Start
    <3> QED BY <3>1, <3>2, <3>3
  <2>3. queue' \in Seq(Task) /\ Len(queue') <= QueueCap BY <1>1 DEF Start
  <2>4. loop' = "top" /\ UNCHANGED slot BY <1>1 DEF Start
  <2>5. wpc' \in [Worker -> WorkerStep] /\ \A w \in Worker : wpc'[w] = "idle"
    BY <1>1 DEF Start, WorkerStep
  <2> QED BY <1>1, <2>1, <2>2, <2>3, <2>4, <2>5 DEF Start
<1>2. CASE StopBegin
  <2>1. {cancelMap[j] : j \in Job} \ {None} \subseteq Worker
    OBVIOUS
  <2> QED BY <1>2, <2>1 DEF StopBegin
<1>3. CASE \E w \in Worker : StopCancel(w) BY <1>3 DEF StopCancel
<1>4. CASE StopEnd
  BY <1>4 DEF StopEnd
<1>5. CASE Exit
  <2>1. LoseVolatile /\ disk' = store /\ UNCHANGED <<store, histVars>>
    BY <1>5 DEF Exit
  <2>2. TypeOK'
    BY <2>1, LoseVolatileType
  <2>3. WorkerOK' /\ RequestOK' /\ PhaseOK'
    BY <2>1, LoseVolatileType DEF StepFits
  <2> QED BY <2>2, <2>3
<1>6. CASE Crash
  <2>1. LoseVolatile /\ store' = disk /\ cancelled' \in [Job -> {"no"}]
        /\ UNCHANGED <<disk, used>>
    BY <1>6 DEF Crash
  <2>2. TypeOK'
    BY <2>1, LoseVolatileType DEF Found
  <2>3. WorkerOK' /\ RequestOK' /\ PhaseOK'
    BY <2>1, LoseVolatileType DEF StepFits
  <2> QED BY <2>2, <2>3
<1>7. CASE Flush BY <1>7 DEF Flush
<1>8. CASE Suspend BY <1>8 DEF Suspend
<1>9. CASE Unsuspend BY <1>9 DEF Unsuspend
<1> QED BY <1>1, <1>2, <1>3, <1>4, <1>5, <1>6, <1>7, <1>8, <1>9 DEF Process

LEMMA WorkerType ==
    ASSUME NEW w \in Worker, TypeInv, WorkerStepOf(w)
    PROVE  TypeInv'
<1> USE DEF TypeInv, TypeOK, WorkerOK, RequestOK, PhaseOK, workerFrame, loopVars,
            procVars, workerVars, storeVars, clientVars, histVars, Goto,
            WorkerStep, Outcome
<1>1. CASE WorkerExit(w) BY <1>1 DEF WorkerExit
<1>2. CASE Receive(w) BY <1>2 DEF Receive
<1>3. CASE NoHandler(w) BY <1>3, SnapType, PutType DEF NoHandler, Task, Status
<1>4. CASE Register(w) BY <1>4 DEF Register, Task
<1>5. CASE SaveRunning(w)
  BY <1>5, SnapType, PutType DEF SaveRunning, Task, Status
<1>6. CASE \E result \in {"success", "failed", "permanent", "interrupted"} :
              HandlerReturns(w, result)
  BY <1>6 DEF HandlerReturns
<1>7. CASE TakeForcedPause(w) BY <1>7 DEF TakeForcedPause
<1>8. CASE CheckStop(w) BY <1>8 DEF CheckStop
<1>9. CASE Record(w)
  <2>1. task[w] \in Task /\ task[w].id \in Job BY <1>9 DEF Record, Task
  <2>2. store' \in [Job -> Snapshot \cup {None}]
    BY <1>9, <2>1, SnapType, PutType DEF Record, Status
  <2> QED BY <1>9, <2>1, <2>2 DEF Record
<1>10. CASE Resave(w)
  <2> DEFINE next == NextTask(task[w], outcome[w])
  <2>1. next \in Task /\ next.id \in Job
    BY <1>10, NextTaskType DEF Resave, Task
  <2>2. store' \in [Job -> Snapshot \cup {None}]
    BY <1>10, <2>1, SnapType, PutType DEF Resave, Status
  <2>3. task' = [task EXCEPT ![w] = next] BY <1>10 DEF Resave
  <2> HIDE DEF next
  <2> QED BY <1>10, <2>1, <2>2, <2>3 DEF Resave
<1>11. CASE Repush(w) BY <1>11 DEF Repush, Push
<1>12. CASE Leave(w) BY <1>12 DEF Leave, Task
<1> QED BY <1>1, <1>2, <1>3, <1>4, <1>5, <1>6, <1>7, <1>8, <1>9, <1>10,
           <1>11, <1>12 DEF WorkerStepOf

LEMMA ContinueType ==
    ASSUME NEW c \in Client, NEW step \in ClientStep \ {"idle"},
           NEW r \in Request, ClientTyped, Continue(c, step, r),
           StepFits(step, r)
    PROVE  ClientTyped'
BY DEF ClientTyped, Continue, RequestOK

LEMMA FinishType ==
    ASSUME NEW c \in Client, ClientTyped, Finish(c)
    PROVE  ClientTyped'
BY DEF ClientTyped, Finish, Continue, RequestOK, StepFits, ClientStep

LEMMA NewRequestType ==
    ASSUME NEW j \in Job, NEW t \in Task, NEW s \in Snapshot, NEW f \in Found
    PROVE  /\ NewRequest(j) \in Request
           /\ [NewRequest(j) EXCEPT !.task = t] \in Request
           /\ [NewRequest(j) EXCEPT !.task = t, !.found = f] \in Request
           /\ [NewRequest(j) EXCEPT !.snap = s] \in Request
BY DEF NewRequest, Request, Found

\* What the steps of the clients leave of the other parts of TypeInv.
LEMMA RemoveType ==
    ASSUME NEW c \in Client, NEW j \in Job, NEW found \in ClientStep \ {"idle"},
           NEW missing \in ClientStep, TypeInv,
           RemoveFromHeap(c, j, found, missing),
           found \in {"cancelLookup", "pauseWrite"},
           missing \in {"idle", "cancelLookup", "forceMark"}
    PROVE  heap' \in [Task -> Nat] /\ ClientTyped'
<1> ClientTyped BY DEF TypeInv, TypeOK, ClientTyped
<1>1. CASE \E t \in Copies(j) :
             /\ TakeOut(t)
             /\ Continue(c, found, [NewRequest(j) EXCEPT !.task = t, !.found = "heap"])
  <2> PICK t \in Copies(j) :
             /\ TakeOut(t)
             /\ Continue(c, found, [NewRequest(j) EXCEPT !.task = t, !.found = "heap"])
    BY <1>1
  <2>1. t \in Task /\ t.id = j BY DEF Copies
  <2>2. heap' \in [Task -> Nat] BY <2>1 DEF TakeOut, TypeInv, TypeOK
  <2> DEFINE r == [NewRequest(j) EXCEPT !.task = t, !.found = "heap"]
  <2>3. r \in Request /\ r.task = t /\ r.id = j
    BY <2>1 DEF NewRequest, Request, Found
  <2>4. StepFits(found, r) BY <2>1, <2>3 DEF StepFits
  <2> HIDE DEF r
  <2>5. Continue(c, found, r) BY DEF r
  <2>6. ClientTyped' BY <2>3, <2>4, <2>5, ContinueType
  <2> QED BY <2>2, <2>6
<1>2. CASE /\ ~InHeap(j) /\ UNCHANGED heap
           /\ IF missing = "idle" THEN Finish(c)
              ELSE Continue(c, missing, NewRequest(j))
  <2>1. NewRequest(j) \in Request BY DEF NewRequest, Request, Found
  <2>2. StepFits(missing, NewRequest(j)) BY DEF StepFits
  <2>3. CASE missing = "idle" BY <1>2, <2>3, FinishType DEF TypeInv, TypeOK
  <2>4. CASE missing # "idle"
    BY <1>2, <2>1, <2>2, <2>4, ContinueType DEF TypeInv, TypeOK
  <2> QED BY <2>3, <2>4
<1> QED BY <1>1, <1>2 DEF RemoveFromHeap
LEMMA ClientBeginsType ==
    ASSUME NEW c \in Client, NEW j \in Job, TypeInv, ClientBegins(c, j)
    PROVE  TypeInv'
<1> USE DEF clientFrame, loopVars, procVars, storeVars
<1> ClientTyped BY DEF TypeInv, TypeOK, ClientTyped
<1> DEFINE Rest == /\ heap' \in [Task -> Nat] /\ ClientTyped' /\ used' \subseteq Job
                   /\ UNCHANGED <<phase, suspended, loop, slot, queue, wpc, task,
                                  outcome, ctxDone, cancelMap, forcedPause, store,
                                  disk, handle, stopCancels, cancelled>>
<1>0. Rest => TypeInv'
  BY DEF TypeInv, TypeOK, ClientTyped, WorkerOK, PhaseOK
<1> heap \in [Task -> Nat] /\ used \subseteq Job /\ store \in [Job -> Snapshot \cup {None}]
  BY DEF TypeInv, TypeOK
<1>1. CASE Submit(c, j)
  <2>1. PICK repeat \in IF j \in CronJob THEN BOOLEAN ELSE {FALSE} :
            Continue(c, "save", [NewRequest(j) EXCEPT
               !.task = [id |-> j, retry |-> 0, cron |-> repeat]])
    BY <1>1 DEF Submit
  <2> DEFINE t == [id |-> j, retry |-> 0, cron |-> repeat]
  <2>2. t \in Task /\ t.id = j
    <3>1. repeat \in BOOLEAN OBVIOUS
    <3>2. 0 \in 0..MaxRetries OBVIOUS
    <3> QED BY <3>1, <3>2 DEF Task
  <2> HIDE DEF t
  <2>3. [NewRequest(j) EXCEPT !.task = t] \in Request
        /\ StepFits("save", [NewRequest(j) EXCEPT !.task = t])
    BY <2>2 DEF NewRequest, Request, Found, StepFits
  <2>4. Continue(c, "save", [NewRequest(j) EXCEPT !.task = t])
    BY <2>1 DEF t
  <2>5. ClientTyped' BY <2>3, <2>4, ContinueType DEF ClientStep
  <2> QED BY <1>0, <1>1, <2>5 DEF Submit
<1>2. CASE ResumeFind(c, j)
  <2> DEFINE t == FromSnapshot(j, store[j])
  <2>1. t \in Task /\ t.id = j
    BY <1>2, FromSnapshotType DEF ResumeFind, HasStatus
  <2>2. Continue(c, "resumeCheck", [NewRequest(j) EXCEPT !.task = t])
    BY <1>2 DEF ResumeFind
  <2> HIDE DEF t
  <2>3. [NewRequest(j) EXCEPT !.task = t] \in Request
        /\ StepFits("resumeCheck", [NewRequest(j) EXCEPT !.task = t])
    BY <2>1 DEF NewRequest, Request, Found, StepFits
  <2>4. ClientTyped' BY <2>2, <2>3, ContinueType DEF ClientStep
  <2> QED BY <1>0, <1>2, <2>4 DEF ResumeFind
<1>3. CASE RetryFind(c, j)
  <2> DEFINE t == [FromSnapshot(j, store[j]) EXCEPT !.retry = 0]
  <2>1. FromSnapshot(j, store[j]) \in Task /\ FromSnapshot(j, store[j]).id = j
    BY <1>3, FromSnapshotType DEF RetryFind, HasStatus
  <2>2. t \in Task /\ t.id = j
    <3>1. 0 \in 0..MaxRetries OBVIOUS
    <3> QED BY <2>1, <3>1 DEF Task
  <2>3. Continue(c, "save", [NewRequest(j) EXCEPT !.task = t])
    BY <1>3 DEF RetryFind
  <2> HIDE DEF t
  <2>4. [NewRequest(j) EXCEPT !.task = t] \in Request
        /\ StepFits("save", [NewRequest(j) EXCEPT !.task = t])
    BY <2>2 DEF NewRequest, Request, Found, StepFits
  <2>5. ClientTyped' BY <2>3, <2>4, ContinueType DEF ClientStep
  <2> QED BY <1>0, <1>3, <2>5 DEF RetryFind
<1>4. CASE CancelRemove(c, j)
  BY <1>0, <1>4, RemoveType DEF CancelRemove, ClientStep
<1>5. CASE Pause(c, j)
  BY <1>0, <1>5, RemoveType DEF Pause, ClientStep
<1>6. CASE ForcePause(c, j)
  BY <1>0, <1>6, RemoveType DEF ForcePause, ClientStep
<1>7. CASE Update(c, j)
  <2>1. PICK t \in Copies(j) :
            Continue(c, "heapUpdate", [NewRequest(j) EXCEPT !.task = t])
    BY <1>7 DEF Update
  <2>2. t \in Task /\ t.id = j BY DEF Copies
  <2>3. [NewRequest(j) EXCEPT !.task = t] \in Request
        /\ StepFits("heapUpdate", [NewRequest(j) EXCEPT !.task = t])
    BY <2>2 DEF NewRequest, Request, Found, StepFits
  <2>4. ClientTyped' BY <2>1, <2>3, ContinueType DEF ClientStep
  <2> QED BY <1>0, <1>7, <2>4 DEF Update
<1>8. CASE SetGroup(c, j)
  <2> DEFINE s == store[j]
  <2>1. s \in Snapshot /\ s # None BY <1>8 DEF SetGroup
  <2>2. Continue(c, "groupGet", [NewRequest(j) EXCEPT !.snap = s])
    BY <1>8 DEF SetGroup
  <2> HIDE DEF s
  <2>3. [NewRequest(j) EXCEPT !.snap = s] \in Request
        /\ StepFits("groupGet", [NewRequest(j) EXCEPT !.snap = s])
    BY <2>1 DEF NewRequest, Request, Found, StepFits
  <2>4. ClientTyped' BY <2>2, <2>3, ContinueType DEF ClientStep
  <2> QED BY <1>0, <1>8, <2>4 DEF SetGroup
<1> QED BY <1>1, <1>2, <1>3, <1>4, <1>5, <1>6, <1>7, <1>8 DEF ClientBegins

LEMMA ClientGoesOnType ==
    ASSUME NEW c \in Client, TypeInv, ClientGoesOn(c)
    PROVE  TypeInv'
<1> USE DEF clientFrame, loopVars, procVars, storeVars, At
<1> DEFINE r == req[c]
<1> DEFINE Rest == /\ heap' \in [Task -> Nat] /\ ClientTyped'
                   /\ store' \in [Job -> Snapshot \cup {None}]
                   /\ handle' \in [Client -> SUBSET Worker]
                   /\ ctxDone' \in [Worker -> BOOLEAN]
                   /\ forcedPause' \subseteq Job
                   /\ cancelled' \in [Job -> Found]
                   /\ UNCHANGED <<phase, suspended, loop, slot, queue, wpc, task,
                                  outcome, cancelMap, disk, stopCancels, used>>
<1>0. Rest => TypeInv'
  BY DEF TypeInv, TypeOK, ClientTyped, WorkerOK, PhaseOK
<1>a. /\ ClientTyped /\ heap \in [Task -> Nat]
      /\ store \in [Job -> Snapshot \cup {None}]
      /\ handle \in [Client -> SUBSET Worker] /\ ctxDone \in [Worker -> BOOLEAN]
      /\ forcedPause \subseteq Job /\ cancelled \in [Job -> Found]
      /\ cancelMap \in [Job -> Worker \cup {None}]
  BY DEF TypeInv, TypeOK, ClientTyped
<1>b. StepFits(cpc[c], r) BY <1>a DEF ClientTyped, RequestOK
<1>c. ASSUME cpc[c] # "idle" PROVE r \in Request /\ r.id \in Job
  BY <1>a, <1>c DEF ClientTyped, Request
<1> HIDE DEF r
<1>1. CASE ResumeCheck(c)
  <2>1. StepFits("save", r) BY <1>b, <1>1 DEF ResumeCheck, StepFits
  <2>2. ClientTyped'
    BY <1>1, <1>a, <1>c, <2>1, ContinueType, FinishType DEF ResumeCheck, ClientStep, r
  <2> QED BY <1>0, <1>a, <1>1, <2>2 DEF ResumeCheck
<1>2. CASE ScheduleSave(c)
  <2>1. StepFits("push", r) /\ r.task \in Task
    BY <1>b, <1>c, <1>2 DEF ScheduleSave, StepFits, Request
  <2>2. ClientTyped'
    BY <1>2, <1>a, <1>c, <2>1, ContinueType DEF ScheduleSave, ClientStep, r
  <2>3. store' \in [Job -> Snapshot \cup {None}]
    BY <1>2, <1>a, <1>c, <2>1, SnapType, PutType DEF ScheduleSave, Status, r
  <2> QED BY <1>0, <1>a, <1>2, <2>2, <2>3 DEF ScheduleSave
<1>3. CASE SchedulePush(c)
  <2>1. ClientTyped' BY <1>3, <1>a, FinishType DEF SchedulePush
  <2>2. r.task \in Task BY <1>b, <1>c, <1>3 DEF SchedulePush, StepFits, Request
  <2>3. heap' \in [Task -> Nat] BY <1>3, <1>a, <2>2 DEF SchedulePush, Push, r
  <2> QED BY <1>0, <1>a, <1>3, <2>1, <2>3 DEF SchedulePush
<1>4. CASE CancelLookup(c)
  <2>1. \A step \in {"cancelSignal", "cancelDelete", "cancelFind"} : StepFits(step, r)
    BY DEF StepFits
  <2>2. ClientTyped'
    BY <1>4, <1>a, <1>c, <2>1, ContinueType DEF CancelLookup, ClientStep, r
  <2>3. handle' \in [Client -> SUBSET Worker]
    BY <1>4, <1>a, <1>c DEF CancelLookup, r
  <2> QED BY <1>0, <1>a, <1>4, <2>2, <2>3 DEF CancelLookup
<1>5. CASE CancelSignal(c)
  <2> DEFINE next == [r EXCEPT !.found = IF @ = "heap" THEN @ ELSE "context"]
  <2>1. next \in Request BY <1>5, <1>c DEF CancelSignal, Request, Found
  <2>2. Continue(c, "cancelDelete", next) BY <1>5 DEF CancelSignal, r
  <2> HIDE DEF next
  <2>3. StepFits("cancelDelete", next) BY DEF StepFits
  <2>4. ClientTyped' BY <1>a, <2>1, <2>2, <2>3, ContinueType DEF ClientStep
  <2>5. handle' \in [Client -> SUBSET Worker] /\ ctxDone' \in [Worker -> BOOLEAN]
    BY <1>5, <1>a DEF CancelSignal, Signal
  <2> QED BY <1>0, <1>a, <1>5, <2>4, <2>5 DEF CancelSignal
<1>6. CASE CancelFind(c)
  <2> DEFINE next == [r EXCEPT !.found = "paused"]
  <2>1. next \in Request BY <1>6, <1>c DEF CancelFind, Request, Found
  <2>2. Continue(c, "cancelDelete", next) \/ Finish(c) BY <1>6 DEF CancelFind, r
  <2> HIDE DEF next
  <2>3. StepFits("cancelDelete", next) BY DEF StepFits
  <2>4. ClientTyped'
    BY <1>a, <2>1, <2>2, <2>3, ContinueType, FinishType DEF ClientStep
  <2> QED BY <1>0, <1>a, <1>6, <2>4 DEF CancelFind
<1>7. CASE CancelDelete(c)
  <2>1. ClientTyped' BY <1>7, <1>a, FinishType DEF CancelDelete
  <2>2. r.found \in Found BY <1>7, <1>c DEF CancelDelete, Request
  <2>3. cancelled' \in [Job -> Found] BY <1>7, <1>a, <2>2 DEF CancelDelete, r
  <2>4. store' \in [Job -> Snapshot \cup {None}] BY <1>7, <1>a DEF CancelDelete
  <2> QED BY <1>0, <1>a, <1>7, <2>1, <2>3, <2>4 DEF CancelDelete
<1>8. CASE PauseWrite(c)
  <2>1. r.task \in Task BY <1>b, <1>c, <1>8 DEF PauseWrite, StepFits, Request
  <2>2. ClientTyped' BY <1>8, <1>a, FinishType DEF PauseWrite
  <2>3. store' \in [Job -> Snapshot \cup {None}]
    BY <1>8, <1>a, <1>c, <2>1, SnapType, PutType DEF PauseWrite, Status, r
  <2> QED BY <1>0, <1>a, <1>8, <2>2, <2>3 DEF PauseWrite
<1>9. CASE ForceMark(c)
  <2>1. StepFits("forceRead", r) /\ StepFits("forceFind", r) BY DEF StepFits
  <2>2. ClientTyped'
    BY <1>9, <1>a, <1>c, <2>1, ContinueType DEF ForceMark, ClientStep, r
  <2>3. handle' \in [Client -> SUBSET Worker] /\ forcedPause' \subseteq Job
    BY <1>9, <1>a, <1>c DEF ForceMark, r
  <2> QED BY <1>0, <1>a, <1>9, <2>2, <2>3 DEF ForceMark
<1>10. CASE ForceFind(c)
  <2>1. StepFits("pauseRemove", r) BY DEF StepFits
  <2>2. ClientTyped'
    BY <1>10, <1>a, <1>c, <2>1, ContinueType, FinishType DEF ForceFind, ClientStep, r
  <2> QED BY <1>0, <1>a, <1>10, <2>2 DEF ForceFind
<1>11. CASE ForceFallback(c)
  <2>1. r.id \in Job BY <1>11, <1>c DEF ForceFallback
  <2>2. heap' \in [Task -> Nat] /\ ClientTyped'
    BY <1>11, <2>1, RemoveType DEF ForceFallback, ClientStep, r
  <2> QED BY <1>0, <1>a, <1>11, <2>2 DEF ForceFallback
<1>12. CASE ForceRead(c)
  <2> DEFINE s == store[r.id]
  <2> DEFINE next == [r EXCEPT !.snap = s]
  <2>1. s \in Snapshot \cup {None} BY <1>12, <1>a, <1>c DEF ForceRead
  <2>2. IF s = None THEN Continue(c, "forceSignal", r)
        ELSE Continue(c, "forceWrite", next)
    BY <1>12 DEF ForceRead, r
  <2> HIDE DEF s
  <2>3. next \in Request /\ next.snap = s BY <1>12, <1>c, <2>1 DEF ForceRead, Request
  <2> HIDE DEF next
  <2>4. StepFits("forceSignal", r) /\ (s # None => StepFits("forceWrite", next))
    BY <2>3 DEF StepFits
  <2>5. ClientTyped'
    BY <1>12, <1>a, <1>c, <2>2, <2>3, <2>4, ContinueType DEF ForceRead, ClientStep
  <2> QED BY <1>0, <1>a, <1>12, <2>5 DEF ForceRead
<1>13. CASE ForceWrite(c)
  <2>1. r.snap \in Snapshot BY <1>13, <1>b, <1>c DEF ForceWrite, StepFits, Request
  <2>2. [r.snap EXCEPT !.status = "paused"] \in Snapshot
    BY <2>1 DEF Snapshot, Status
  <2>3. StepFits("forceSignal", r) BY DEF StepFits
  <2>4. ClientTyped'
    BY <1>13, <1>a, <1>c, <2>3, ContinueType DEF ForceWrite, ClientStep, r
  <2>5. store' \in [Job -> Snapshot \cup {None}]
    BY <1>13, <1>a, <1>c, <2>2, PutType DEF ForceWrite, r
  <2> QED BY <1>0, <1>a, <1>13, <2>4, <2>5 DEF ForceWrite
<1>14. CASE ForceSignal(c)
  <2>1. ClientTyped' BY <1>14, <1>a, FinishType DEF ForceSignal
  <2>2. handle' \in [Client -> SUBSET Worker] /\ ctxDone' \in [Worker -> BOOLEAN]
    BY <1>14, <1>a DEF ForceSignal, Signal
  <2> QED BY <1>0, <1>a, <1>14, <2>1, <2>2 DEF ForceSignal
<1>15. CASE HeapUpdate(c)
  <2>1. StepFits("updateWrite", r) /\ r.task \in Task
    BY <1>15, <1>b, <1>c DEF HeapUpdate, StepFits, Request
  <2>2. ClientTyped'
    BY <1>15, <1>a, <1>c, <2>1, ContinueType, FinishType DEF HeapUpdate, ClientStep, r
  <2>3. heap' \in [Task -> Nat]
    BY <1>15, <1>a, <2>1 DEF HeapUpdate, Copies, r
  <2> QED BY <1>0, <1>a, <1>15, <2>2, <2>3 DEF HeapUpdate
<1>16. CASE UpdateWrite(c)
  <2>1. r.task \in Task BY <1>b, <1>c, <1>16 DEF UpdateWrite, StepFits, Request
  <2>2. ClientTyped' BY <1>16, <1>a, FinishType DEF UpdateWrite
  <2>3. store' \in [Job -> Snapshot \cup {None}]
    BY <1>16, <1>a, <1>c, <2>1, SnapType, PutType DEF UpdateWrite, Status, r
  <2> QED BY <1>0, <1>a, <1>16, <2>2, <2>3 DEF UpdateWrite
<1>17. CASE GroupGet(c)
  <2>1. ASSUME NEW t \in Copies(r.id),
               Continue(c, "heapUpdate", [r EXCEPT !.task = t])
        PROVE  ClientTyped'
    <3>1. t \in Task /\ t.id = r.id BY DEF Copies
    <3>2. [r EXCEPT !.task = t] \in Request
          /\ StepFits("heapUpdate", [r EXCEPT !.task = t])
      BY <1>17, <1>c, <3>1 DEF GroupGet, Request, StepFits
    <3> QED BY <1>a, <2>1, <3>2, ContinueType DEF ClientStep
  <2>2. StepFits("groupWrite", r) BY <1>17, <1>b DEF GroupGet, StepFits
  <2>3. ASSUME Finish(c) \/ Continue(c, "groupWrite", r) PROVE ClientTyped'
    BY <1>17, <1>a, <1>c, <2>2, <2>3, ContinueType, FinishType DEF GroupGet, ClientStep
  <2>4. ClientTyped' BY <1>17, <2>1, <2>3 DEF GroupGet, r
  <2> QED BY <1>0, <1>a, <1>17, <2>4 DEF GroupGet
<1>18. CASE GroupWrite(c)
  <2>1. r.snap \in Snapshot BY <1>18, <1>b, <1>c DEF GroupWrite, StepFits, Request
  <2>2. ClientTyped' BY <1>18, <1>a, FinishType DEF GroupWrite
  <2>3. store' \in [Job -> Snapshot \cup {None}]
    BY <1>18, <1>a, <1>c, <2>1, PutType DEF GroupWrite, r
  <2> QED BY <1>0, <1>a, <1>18, <2>2, <2>3 DEF GroupWrite
<1> QED BY <1>1, <1>2, <1>3, <1>4, <1>5, <1>6, <1>7, <1>8, <1>9, <1>10, <1>11,
           <1>12, <1>13, <1>14, <1>15, <1>16, <1>17, <1>18 DEF ClientGoesOn

LEMMA StutterType == TypeInv /\ UNCHANGED vars => TypeInv'
BY DEF TypeInv, TypeOK, WorkerOK, RequestOK, PhaseOK, vars, procVars, loopVars,
       workerVars, storeVars, clientVars, histVars

LEMMA TypeStep == TypeInv /\ [Next]_vars => TypeInv'
BY ProcessType, LoopType, WorkerType, ClientBeginsType, ClientGoesOnType,
   StutterType DEF Next

\* Every variable stays in its type, whatever operations run at once: the queue
\* within its capacity, the loop and the workers with a task exactly when they
\* are at work on one, the retry count within MaxRetries.
THEOREM TypeCorrect == Spec => [](TypeOK /\ TypeInv)
<1>1. TypeInv => TypeOK BY DEF TypeInv
<1> QED BY InitType, TypeStep, <1>1, PTL DEF Spec
-----------------------------------------------------------------------------
(* One owner.                                                               *)

\* The operations that take a job up from its snapshot are not used.
NoReentry == "resume" \notin Operations /\ "retry" \notin Operations

\* A job that is anywhere has been submitted.
Known ==
    /\ \A t \in Task : heap[t] > 0 => t.id \in used
    /\ slot # None => slot.id \in used
    /\ \A i \in 1..Len(queue) : queue[i].id \in used
    /\ \A w \in Worker : task[w] # None => task[w].id \in used
    /\ \A c \in Client : req[c] # None => req[c].id \in used
    /\ \A j \in Job : store[j] # None \/ disk[j] # None => j \in used

\* Client steps in which a request has its job, or is about to take it up.
Reserving == Carrying \cup {"resumeCheck"}

ExecutesJob(w, j) == wpc[w] \in Executing /\ task[w].id = j
CarriesJob(c, j) == cpc[c] \in Reserving /\ req[c].id = j

\* SingleOwner, one conjunct per pair of places.
HeapOnce == \A t, u \in Task :
    t.id = u.id /\ heap[t] > 0 /\ heap[u] > 0 => t = u /\ heap[t] = 1
HeapSlot == slot # None => \A t \in Task : t.id = slot.id => heap[t] = 0
HeapQueue == \A i \in 1..Len(queue) : \A t \in Task :
    t.id = queue[i].id => heap[t] = 0
HeapWorker == \A w \in Worker : \A t \in Task : ExecutesJob(w, t.id) => heap[t] = 0
HeapClient == \A c \in Client : \A t \in Task : CarriesJob(c, t.id) => heap[t] = 0
SlotQueue == slot # None => \A i \in 1..Len(queue) : queue[i].id # slot.id
SlotWorker == slot # None => \A w \in Worker : ~ExecutesJob(w, slot.id)
SlotClient == slot # None => \A c \in Client : ~CarriesJob(c, slot.id)
QueueOnce == \A i, k \in 1..Len(queue) : queue[i].id = queue[k].id => i = k
QueueWorker == \A i \in 1..Len(queue) : \A w \in Worker : ~ExecutesJob(w, queue[i].id)
QueueClient == \A i \in 1..Len(queue) : \A c \in Client : ~CarriesJob(c, queue[i].id)
WorkerOnce == \A j \in Job : \A v, w \in Worker :
    ExecutesJob(v, j) /\ ExecutesJob(w, j) => v = w
WorkerClient == \A j \in Job : \A w \in Worker : \A c \in Client :
    ~(ExecutesJob(w, j) /\ CarriesJob(c, j))
ClientOnce == \A j \in Job : \A c, d \in Client :
    CarriesJob(c, j) /\ CarriesJob(d, j) => c = d

Exclusive ==
    /\ HeapOnce /\ HeapSlot /\ HeapQueue /\ HeapWorker /\ HeapClient
    /\ SlotQueue /\ SlotWorker /\ SlotClient
    /\ QueueOnce /\ QueueWorker /\ QueueClient
    /\ WorkerOnce /\ WorkerClient /\ ClientOnce

OwnInv == TypeInv /\ Known /\ Exclusive

\* Nobody has the job, and no request is about to take it up.
Unowned(j) ==
    /\ \A t \in Task : t.id = j => heap[t] = 0
    /\ slot # None => slot.id # j
    /\ \A i \in 1..Len(queue) : queue[i].id # j
    /\ \A w \in Worker : ~ExecutesJob(w, j)
    /\ \A c \in Client : ~CarriesJob(c, j)

\* What a request takes up again from its snapshot, nobody has.
ReentersUnowned ==
    \A c \in Client, j \in Job : ResumeFind(c, j) \/ RetryFind(c, j) => Unowned(j)
------------------------------------------------------------------------------
LEMMA ExclusiveIsSingleOwner == TypeInv /\ Exclusive => SingleOwner
<1> SUFFICES ASSUME TypeInv, Exclusive, NEW j \in Job
             PROVE  /\ \A p, q \in Place : Has(p, j) /\ Has(q, j) => p = q
                    /\ \A t, u \in Copies(j) : t = u /\ heap[t] = 1
                    /\ \A i, k \in 1..Len(queue) :
                          queue[i].id = j /\ queue[k].id = j => i = k
                    /\ \A v, w \in Worker :
                          /\ wpc[v] \in Executing /\ task[v].id = j
                          /\ wpc[w] \in Executing /\ task[w].id = j
                          => v = w
                    /\ \A c, d \in Client :
                          /\ cpc[c] \in Carrying /\ req[c].id = j
                          /\ cpc[d] \in Carrying /\ req[d].id = j
                          => c = d
  BY DEF SingleOwner
<1>h. Has("heap", j) <=> \E t \in Task : t.id = j /\ heap[t] > 0
  BY DEF Has, InHeap, Copies
<1>s. Has("slot", j) <=> slot # None /\ slot.id = j
  BY DEF Has
<1>q. Has("queue", j) <=> \E i \in 1..Len(queue) : queue[i].id = j
  BY DEF Has
<1>w. Has("worker", j) <=> \E w \in Worker : ExecutesJob(w, j)
  BY DEF Has, ExecutesJob
<1>c. Has("client", j) => \E c \in Client : CarriesJob(c, j)
  BY DEF Has, CarriesJob, Reserving
<1> USE <1>h, <1>s, <1>q, <1>w, <1>c DEF Exclusive
<1>1. /\ ~(Has("heap", j) /\ Has("slot", j))
      /\ ~(Has("heap", j) /\ Has("queue", j))
      /\ ~(Has("heap", j) /\ Has("worker", j))
      /\ ~(Has("heap", j) /\ Has("client", j))
      /\ ~(Has("slot", j) /\ Has("queue", j))
      /\ ~(Has("slot", j) /\ Has("worker", j))
      /\ ~(Has("slot", j) /\ Has("client", j))
      /\ ~(Has("queue", j) /\ Has("worker", j))
      /\ ~(Has("queue", j) /\ Has("client", j))
      /\ ~(Has("worker", j) /\ Has("client", j))
  <2>1. ~(Has("heap", j) /\ Has("slot", j)) BY DEF HeapSlot
  <2>2. ~(Has("heap", j) /\ Has("queue", j)) BY DEF HeapQueue
  <2>3. ~(Has("heap", j) /\ Has("worker", j)) BY DEF HeapWorker
  <2>4. ~(Has("heap", j) /\ Has("client", j)) BY DEF HeapClient
  <2>5. ~(Has("slot", j) /\ Has("queue", j)) BY DEF SlotQueue
  <2>6. ~(Has("slot", j) /\ Has("worker", j)) BY DEF SlotWorker
  <2>7. ~(Has("slot", j) /\ Has("client", j)) BY DEF SlotClient
  <2>8. ~(Has("queue", j) /\ Has("worker", j)) BY DEF QueueWorker
  <2>9. ~(Has("queue", j) /\ Has("client", j)) BY DEF QueueClient
  <2>10. ~(Has("worker", j) /\ Has("client", j)) BY DEF WorkerClient
  <2> QED BY <2>1, <2>2, <2>3, <2>4, <2>5, <2>6, <2>7, <2>8, <2>9, <2>10
<1>2. \A p, q \in Place : Has(p, j) /\ Has(q, j) => p = q
  BY <1>1 DEF Place
<1>3. \A t, u \in Copies(j) : t = u /\ heap[t] = 1
  BY DEF Exclusive, HeapOnce, Copies
<1>4. \A i, k \in 1..Len(queue) : queue[i].id = j /\ queue[k].id = j => i = k
  BY DEF Exclusive, QueueOnce
<1>5. \A v, w \in Worker : ExecutesJob(v, j) /\ ExecutesJob(w, j) => v = w
  BY DEF Exclusive, WorkerOnce
<1>6. \A c, d \in Client : CarriesJob(c, j) /\ CarriesJob(d, j) => c = d
  BY DEF Exclusive, ClientOnce
<1> QED BY <1>2, <1>3, <1>4, <1>5, <1>6 DEF ExecutesJob, CarriesJob, Reserving

LEMMA LoopOwns == OwnInv /\ Loop => Known' /\ Exclusive'
<1> SUFFICES ASSUME OwnInv, Loop PROVE Known' /\ Exclusive'
  OBVIOUS
<1> USE DEF OwnInv, Known, Exclusive, HeapOnce, HeapSlot, HeapQueue, HeapWorker,
            HeapClient, SlotQueue, SlotWorker, SlotClient, QueueOnce,
            QueueWorker, QueueClient, WorkerOnce, WorkerClient, ClientOnce,
            ExecutesJob, CarriesJob, TypeInv, TypeOK, loopFrame, procVars,
            workerVars, storeVars, clientVars, histVars
<1>1. CASE LoopTop BY <1>1 DEF LoopTop
<1>2. CASE LoopPop BY <1>2 DEF LoopPop, TakeOut
<1>3. CASE LoopWait BY <1>3 DEF LoopWait
<1>4. CASE LoopDispatch BY <1>4 DEF LoopDispatch
<1>5. CASE LoopDrop BY <1>5 DEF LoopDrop
<1> QED BY <1>1, <1>2, <1>3, <1>4, <1>5 DEF Loop

\* An execution that moves on, or ends, hands its job to nobody.
LEMMA WorkerKeeps ==
    ASSUME NEW w \in Worker, NEW step, NEW t, OwnInv,
           wpc' = [wpc EXCEPT ![w] = step],
           step \in Executing => wpc[w] \in Executing,
           task' = [task EXCEPT ![w] = t],
           t # None => task[w] # None /\ t.id = task[w].id,
           step \in Executing => t # None,
           \/ store' = store
           \/ task[w] # None /\ \E s : store' = [store EXCEPT ![task[w].id] = s],
           UNCHANGED <<heap, slot, queue, disk, cpc, req, used>>
    PROVE  Known' /\ Exclusive'
<1> /\ wpc \in [Worker -> WorkerStep] /\ task \in [Worker -> Task \cup {None}]
    /\ store \in [Job -> Snapshot \cup {None}]
  BY DEF OwnInv, TypeInv, TypeOK
<1> Known /\ Exclusive BY DEF OwnInv
<1>1. \A v \in Worker : \A j : ExecutesJob(v, j)' => ExecutesJob(v, j)
  BY DEF ExecutesJob
<1>2. \A c \in Client : \A j : CarriesJob(c, j)' <=> CarriesJob(c, j)
  BY DEF CarriesJob
<1>3. Known'
  BY DEF Known
<1>4. HeapOnce' /\ HeapSlot' /\ HeapQueue' /\ HeapClient' /\ SlotQueue'
      /\ SlotClient' /\ QueueOnce' /\ QueueClient' /\ ClientOnce'
  BY <1>2 DEF Exclusive, HeapOnce, HeapSlot, HeapQueue, HeapClient, SlotQueue,
              SlotClient, QueueOnce, QueueClient, ClientOnce
<1>5. HeapWorker' /\ SlotWorker' /\ QueueWorker' /\ WorkerOnce' /\ WorkerClient'
  BY <1>1, <1>2 DEF Exclusive, HeapWorker, SlotWorker, QueueWorker, WorkerOnce,
                    WorkerClient
<1> QED BY <1>3, <1>4, <1>5 DEF Exclusive

LEMMA WorkerOwns ==
    ASSUME NEW w \in Worker, OwnInv, WorkerStepOf(w)
    PROVE  Known' /\ Exclusive'
<1> USE DEF workerFrame, procVars, storeVars, clientVars, histVars, loopVars, Goto
<1> /\ wpc \in [Worker -> WorkerStep] /\ task \in [Worker -> Task \cup {None}]
    /\ outcome \in [Worker -> Outcome]
    /\ task[w] = None <=> wpc[w] \in {"exit", "idle"}
  BY DEF OwnInv, TypeInv, TypeOK
<1>0. task = [task EXCEPT ![w] = task[w]]
  OBVIOUS
<1>1. CASE WorkerExit(w)
  BY <1>0, <1>1, WorkerKeeps DEF WorkerExit, Executing
<1>2. CASE Receive(w)
  BY <1>2 DEF Receive, OwnInv, Known, Exclusive, HeapOnce, HeapSlot, HeapQueue,
        HeapWorker, HeapClient, SlotQueue, SlotWorker, SlotClient, QueueOnce,
        QueueWorker, QueueClient, WorkerOnce, WorkerClient, ClientOnce,
        ExecutesJob, CarriesJob, TypeInv, TypeOK, Executing
<1>3. CASE NoHandler(w)
  BY <1>3, WorkerKeeps DEF NoHandler, Put, Executing
<1>4. CASE Register(w)
  BY <1>0, <1>4, WorkerKeeps DEF Register, Executing
<1>5. CASE SaveRunning(w)
  BY <1>0, <1>5, WorkerKeeps DEF SaveRunning, Put, Executing
<1>6. CASE \E result \in {"success", "failed", "permanent", "interrupted"} :
              HandlerReturns(w, result)
  BY <1>0, <1>6, WorkerKeeps DEF HandlerReturns, Executing
<1>7. CASE TakeForcedPause(w)
  <2> PICK step \in {"park", "checkStop", "resave", "record"} :
           wpc' = [wpc EXCEPT ![w] = step]
    BY <1>7 DEF TakeForcedPause
  <2> QED BY <1>0, <1>7, WorkerKeeps DEF TakeForcedPause, Executing
<1>8. CASE CheckStop(w)
  <2> PICK step \in {"leave", "record"} : wpc' = [wpc EXCEPT ![w] = step]
    BY <1>8 DEF CheckStop
  <2> QED BY <1>0, <1>8, WorkerKeeps DEF CheckStop, Executing
<1>9. CASE Record(w)
  BY <1>0, <1>9, WorkerKeeps DEF Record, Put, Executing
<1>10. CASE Resave(w)
  <2> DEFINE next == NextTask(task[w], outcome[w])
  <2>1. next \in Task /\ next.id = task[w].id
    <3>1. task[w] \in Task /\ wpc[w] = "resave"
      BY <1>10 DEF Resave
    <3>2. Reschedules(task[w], outcome[w])
      BY <3>1 DEF OwnInv, TypeInv, WorkerOK
    <3> QED BY <3>1, <3>2, NextTaskType
  <2>2. /\ task' = [task EXCEPT ![w] = next]
        /\ wpc' = [wpc EXCEPT ![w] = "repush"] /\ wpc[w] = "resave"
        /\ \E s : store' = [store EXCEPT ![next.id] = s]
        /\ UNCHANGED <<heap, slot, queue, disk, cpc, req, used>>
    BY <1>10 DEF Resave, Put
  <2> HIDE DEF next
  <2> QED BY <2>1, <2>2, WorkerKeeps DEF Executing
<1>11. CASE Repush(w)
  <2> USE DEF OwnInv
  <2>1. /\ heap' = [heap EXCEPT ![task[w]] = @ + 1] /\ task[w] \in Task
        /\ wpc' = [wpc EXCEPT ![w] = "leave"] /\ wpc[w] = "repush"
        /\ UNCHANGED <<slot, queue, task, store, disk, cpc, req, used>>
    BY <1>11 DEF Repush, Push
  <2> heap \in [Task -> Nat] BY DEF TypeInv, TypeOK
  <2>2. ExecutesJob(w, task[w].id) /\ task[w].id \in Job
    BY <2>1 DEF ExecutesJob, Executing, Task
  <2>3. /\ \A t \in Task : t.id = task[w].id => heap[t] = 0
        /\ \A t \in Task : heap'[t] > 0 => heap[t] > 0 \/ t = task[w]
        /\ \A t \in Task : t # task[w] => heap'[t] = heap[t]
        /\ heap'[task[w]] = 1
    BY <2>1, <2>2 DEF Exclusive, HeapWorker
  <2> HIDE DEF OwnInv
  <2>4. Known' BY <2>1, <2>3 DEF Known, OwnInv
  <2>5. HeapOnce' BY <2>3 DEF OwnInv, Exclusive, HeapOnce
  <2>6. \A v \in Worker : \A j : ExecutesJob(v, j)' => ExecutesJob(v, j) /\ v # w
    BY <2>1 DEF ExecutesJob, Executing
  <2>7. \A c \in Client : \A j : CarriesJob(c, j)' <=> CarriesJob(c, j)
    BY <2>1 DEF CarriesJob
  <2>8. HeapSlot' BY <2>1, <2>2, <2>3 DEF HeapSlot, OwnInv, Exclusive, SlotWorker
  <2>9. HeapQueue' BY <2>1, <2>2, <2>3 DEF HeapQueue, OwnInv, Exclusive, QueueWorker
  <2>10. HeapWorker'
    BY <2>1, <2>2, <2>3, <2>6 DEF HeapWorker, OwnInv, Exclusive, WorkerOnce, Task
  <2>11. HeapClient'
    BY <2>1, <2>2, <2>3, <2>7 DEF HeapClient, OwnInv, Exclusive, WorkerClient
  <2>12. SlotWorker' /\ QueueWorker' /\ WorkerOnce' /\ WorkerClient'
    BY <2>1, <2>6, <2>7
       DEF OwnInv, Exclusive, SlotWorker, QueueWorker, WorkerOnce, WorkerClient
  <2>13. SlotQueue' /\ SlotClient' /\ QueueOnce' /\ QueueClient' /\ ClientOnce'
    BY <2>1, <2>7
       DEF OwnInv, Exclusive, SlotQueue, SlotClient, QueueOnce, QueueClient, ClientOnce
  <2> QED BY <2>1, <2>4, <2>5, <2>8, <2>9, <2>10, <2>11, <2>12, <2>13 DEF Exclusive
<1>12. CASE Leave(w)
  BY <1>12, WorkerKeeps DEF Leave, Executing
<1> QED BY <1>1, <1>2, <1>3, <1>4, <1>5, <1>6, <1>7, <1>8, <1>9, <1>10,
           <1>11, <1>12 DEF WorkerStepOf

\* A request that moves on, or ends, and at most drops an entry of the heap
\* hands its job to nobody.
LEMMA ClientKeeps ==
    ASSUME NEW c \in Client, NEW step, NEW r, OwnInv, Continue(c, step, r),
           step \in Reserving => cpc[c] \in Reserving /\ r.id = req[c].id,
           r # None => r.id \in used,
           heap' = heap \/ \E t \in Task : TakeOut(t),
           \/ store' = store
           \/ req[c] # None /\ \E s : store' = [store EXCEPT ![req[c].id] = s],
           UNCHANGED <<wpc, task, slot, queue, disk, used>>
    PROVE  Known' /\ Exclusive'
<1> /\ cpc \in [Client -> ClientStep] /\ req \in [Client -> Request \cup {None}]
    /\ store \in [Job -> Snapshot \cup {None}] /\ heap \in [Task -> Nat]
  BY DEF OwnInv, TypeInv, TypeOK
<1> Known /\ Exclusive BY DEF OwnInv
<1>1. \A d \in Client : \A j : CarriesJob(d, j)' => CarriesJob(d, j)
  BY DEF CarriesJob, Continue
<1>2. \A w \in Worker : \A j : ExecutesJob(w, j)' <=> ExecutesJob(w, j)
  BY DEF ExecutesJob
<1>3. \A t \in Task : heap'[t] \in Nat /\ heap'[t] <= heap[t]
  BY DEF TakeOut
<1>4. Known' BY <1>3 DEF Known, Continue
<1>5. HeapOnce' /\ HeapSlot' /\ HeapQueue' /\ HeapWorker' /\ HeapClient'
  BY <1>1, <1>2, <1>3
     DEF Exclusive, HeapOnce, HeapSlot, HeapQueue, HeapWorker, HeapClient
<1>6. SlotQueue' /\ SlotWorker' /\ SlotClient' /\ QueueOnce' /\ QueueWorker'
      /\ QueueClient' /\ WorkerOnce' /\ WorkerClient' /\ ClientOnce'
  BY <1>1, <1>2
     DEF Exclusive, SlotQueue, SlotWorker, SlotClient, QueueOnce, QueueWorker,
         QueueClient, WorkerOnce, WorkerClient, ClientOnce
<1> QED BY <1>4, <1>5, <1>6 DEF Exclusive

\* A heap entry that a request takes out is then in that request's hands only.
LEMMA ClientTakes ==
    ASSUME NEW c \in Client, NEW t \in Task, NEW step \in Reserving, NEW r \in Request,
           OwnInv, TakeOut(t), Continue(c, step, r), r.id = t.id,
           UNCHANGED <<wpc, task, slot, queue, store, disk, used>>
    PROVE  Known' /\ Exclusive'
<1> /\ cpc \in [Client -> ClientStep] /\ req \in [Client -> Request \cup {None}]
    /\ heap \in [Task -> Nat]
  BY DEF OwnInv, TypeInv, TypeOK
<1> Known /\ Exclusive BY DEF OwnInv
<1> t.id \in Job BY DEF Task
<1>1. /\ heap[t] = 1 /\ \A u \in Task : u.id = t.id => heap'[u] = 0
      /\ \A u \in Task : heap'[u] \in Nat /\ heap'[u] <= heap[u]
  BY DEF TakeOut, Exclusive, HeapOnce
<1>2. \A w \in Worker : \A j : ExecutesJob(w, j)' <=> ExecutesJob(w, j)
  BY DEF ExecutesJob
<1>3. \A d \in Client : \A j :
         CarriesJob(d, j)' => (CarriesJob(d, j) /\ d # c) \/ (d = c /\ j = t.id)
  BY DEF CarriesJob, Continue
<1>4. /\ slot # None => slot.id # t.id
      /\ \A i \in 1..Len(queue) : queue[i].id # t.id
      /\ \A w \in Worker : ~ExecutesJob(w, t.id)
      /\ \A d \in Client : ~CarriesJob(d, t.id)
  BY <1>1 DEF Exclusive, HeapSlot, HeapQueue, HeapWorker, HeapClient
<1>5. Known' BY <1>1 DEF Known, Continue
<1>6. HeapOnce' /\ HeapSlot' /\ HeapQueue' /\ HeapWorker'
  BY <1>1, <1>2 DEF Exclusive, HeapOnce, HeapSlot, HeapQueue, HeapWorker
<1>7. HeapClient'
  BY <1>1, <1>3 DEF Exclusive, HeapClient
<1>8. SlotClient' /\ QueueClient' /\ WorkerClient' /\ ClientOnce'
  BY <1>2, <1>3, <1>4
     DEF Exclusive, SlotClient, QueueClient, WorkerClient, ClientOnce
<1>9. SlotQueue' /\ SlotWorker' /\ QueueOnce' /\ QueueWorker' /\ WorkerOnce'
  BY <1>2 DEF Exclusive, SlotQueue, SlotWorker, QueueOnce, QueueWorker, WorkerOnce
<1> QED BY <1>5, <1>6, <1>7, <1>8, <1>9 DEF Exclusive

LEMMA RemoveOwns ==
    ASSUME NEW c \in Client, NEW j \in Job, NEW found, NEW missing, OwnInv,
           found \in {"cancelLookup", "pauseWrite"},
           missing \in {"idle", "cancelLookup", "forceMark"},
           RemoveFromHeap(c, j, found, missing), j \in used,
           UNCHANGED <<wpc, task, slot, queue, store, disk, used>>
    PROVE  Known' /\ Exclusive'
<1>1. CASE \E t \in Copies(j) :
             /\ TakeOut(t)
             /\ Continue(c, found, [NewRequest(j) EXCEPT !.task = t, !.found = "heap"])
  <2> PICK t \in Copies(j) :
             /\ TakeOut(t)
             /\ Continue(c, found, [NewRequest(j) EXCEPT !.task = t, !.found = "heap"])
    BY <1>1
  <2>1. t \in Task /\ t.id = j BY DEF Copies
  <2> DEFINE r == [NewRequest(j) EXCEPT !.task = t, !.found = "heap"]
  <2>2. r \in Request /\ r.id = j BY <2>1 DEF NewRequest, Request, Found
  <2> HIDE DEF r
  <2>3. Continue(c, found, r) BY DEF r
  <2>4. CASE found = "pauseWrite"
    BY <2>1, <2>2, <2>3, <2>4, ClientTakes DEF Carrying, Reserving
  <2>5. CASE found = "cancelLookup"
    BY <2>1, <2>2, <2>3, <2>5, ClientKeeps DEF Carrying, Reserving
  <2> QED BY <2>4, <2>5
<1>2. CASE /\ ~InHeap(j) /\ UNCHANGED heap
           /\ IF missing = "idle" THEN Finish(c)
              ELSE Continue(c, missing, NewRequest(j))
  <2>1. NewRequest(j).id = j BY DEF NewRequest
  <2> QED BY <1>2, <2>1, ClientKeeps DEF Finish, Carrying, Reserving
<1> QED BY <1>1, <1>2 DEF RemoveFromHeap

\* A job that nobody has goes into the hands of one request.
LEMMA ClientAcquires ==
    ASSUME NEW c \in Client, NEW j \in Job, NEW step, NEW r, OwnInv, Unowned(j),
           Continue(c, step, r), r.id = j, j \in used', used \subseteq used',
           UNCHANGED <<heap, wpc, task, slot, queue, store, disk>>
    PROVE  Known' /\ Exclusive'
<1> /\ cpc \in [Client -> ClientStep] /\ req \in [Client -> Request \cup {None}]
    /\ heap \in [Task -> Nat] /\ store \in [Job -> Snapshot \cup {None}]
    /\ Known /\ Exclusive
  BY DEF OwnInv, TypeInv, TypeOK
<1>1. /\ \A t \in Task : t.id = j => heap[t] = 0
      /\ slot # None => slot.id # j
      /\ \A i \in 1..Len(queue) : queue[i].id # j
      /\ \A w \in Worker : ~ExecutesJob(w, j)
      /\ \A d \in Client : ~CarriesJob(d, j)
  BY DEF Unowned
<1>2. \A w \in Worker : \A k : ExecutesJob(w, k)' <=> ExecutesJob(w, k)
  BY DEF ExecutesJob
<1>3. \A d \in Client : \A k :
         CarriesJob(d, k)' => (CarriesJob(d, k) /\ d # c) \/ (d = c /\ k = j)
  BY DEF CarriesJob, Continue
<1>4. Known' BY DEF Known, Continue
<1>5. HeapOnce' /\ HeapSlot' /\ HeapQueue' /\ HeapWorker' /\ SlotQueue'
      /\ SlotWorker' /\ QueueOnce' /\ QueueWorker' /\ WorkerOnce'
  BY <1>2
     DEF Exclusive, HeapOnce, HeapSlot, HeapQueue, HeapWorker, SlotQueue,
         SlotWorker, QueueOnce, QueueWorker, WorkerOnce
<1>6. HeapClient' /\ SlotClient' /\ QueueClient' /\ WorkerClient' /\ ClientOnce'
  BY <1>1, <1>2, <1>3
     DEF Exclusive, HeapClient, SlotClient, QueueClient, WorkerClient, ClientOnce
<1> QED BY <1>4, <1>5, <1>6 DEF Exclusive

\* A job that has not been submitted is nowhere.
LEMMA UnusedIsUnowned ==
    ASSUME NEW j \in Job, OwnInv, j \notin used
    PROVE  Unowned(j)
<1> /\ heap \in [Task -> Nat] /\ Known BY DEF OwnInv, TypeInv, TypeOK
<1>1. \A w \in Worker : ~ExecutesJob(w, j)
  BY DEF Known, ExecutesJob, Executing, OwnInv, TypeInv, TypeOK
<1>2. \A d \in Client : ~CarriesJob(d, j)
  BY DEF Known, CarriesJob, Carrying, Reserving, OwnInv, TypeInv, TypeOK
<1> QED BY <1>1, <1>2 DEF Known, Unowned

LEMMA ClientBeginsOwns ==
    ASSUME NEW c \in Client, NEW j \in Job, OwnInv, ReentersUnowned,
           ClientBegins(c, j)
    PROVE  Known' /\ Exclusive'
<1> USE DEF clientFrame, loopVars, procVars, storeVars
<1> /\ cpc \in [Client -> ClientStep] /\ req \in [Client -> Request \cup {None}]
    /\ heap \in [Task -> Nat] /\ store \in [Job -> Snapshot \cup {None}]
    /\ Known /\ Exclusive
  BY DEF OwnInv, TypeInv, TypeOK
<1>a. ASSUME InHeap(j) PROVE j \in used
  BY <1>a DEF InHeap, Copies, Known
<1>1. CASE Submit(c, j)
  <2>1. PICK repeat \in IF j \in CronJob THEN BOOLEAN ELSE {FALSE} :
            Continue(c, "save", [NewRequest(j) EXCEPT
               !.task = [id |-> j, retry |-> 0, cron |-> repeat]])
    BY <1>1 DEF Submit
  <2> DEFINE r == [NewRequest(j) EXCEPT
               !.task = [id |-> j, retry |-> 0, cron |-> repeat]]
  <2>2. r.id = j BY DEF NewRequest
  <2>3. Continue(c, "save", r) BY <2>1
  <2> HIDE DEF r
  <2>4. /\ j \notin used /\ used' = used \cup {j}
        /\ UNCHANGED <<heap, slot, queue, wpc, task, store, disk>>
    BY <1>1 DEF Submit
  <2>5. Unowned(j) BY <2>4, UnusedIsUnowned
  <2> QED BY <2>2, <2>3, <2>4, <2>5, ClientAcquires
<1>2. CASE ResumeFind(c, j)
  <2> DEFINE r == [NewRequest(j) EXCEPT !.task = FromSnapshot(j, store[j])]
  <2>1. r.id = j BY DEF NewRequest
  <2>2. Continue(c, "resumeCheck", r) BY <1>2 DEF ResumeFind
  <2> HIDE DEF r
  <2>3. j \in used BY <1>2 DEF ResumeFind, HasStatus, Known
  <2>4. UNCHANGED <<heap, slot, queue, wpc, task, store, disk, used>>
    BY <1>2 DEF ResumeFind
  <2>5. Unowned(j) BY <1>2 DEF ReentersUnowned
  <2> QED BY <2>1, <2>2, <2>3, <2>4, <2>5, ClientAcquires
<1>3. CASE RetryFind(c, j)
  <2> DEFINE r == [NewRequest(j) EXCEPT
                     !.task = [FromSnapshot(j, store[j]) EXCEPT !.retry = 0]]
  <2>1. r.id = j BY DEF NewRequest
  <2>2. Continue(c, "save", r) BY <1>3 DEF RetryFind
  <2> HIDE DEF r
  <2>3. j \in used BY <1>3 DEF RetryFind, HasStatus, Known
  <2>4. UNCHANGED <<heap, slot, queue, wpc, task, store, disk, used>>
    BY <1>3 DEF RetryFind
  <2>5. Unowned(j) BY <1>3 DEF ReentersUnowned
  <2> QED BY <2>1, <2>2, <2>3, <2>4, <2>5, ClientAcquires
<1>4. CASE CancelRemove(c, j)
  BY <1>4, RemoveOwns DEF CancelRemove
<1>5. CASE Pause(c, j)
  BY <1>5, <1>a, RemoveOwns DEF Pause
<1>6. CASE ForcePause(c, j)
  BY <1>6, RemoveOwns DEF ForcePause
<1>7. CASE Update(c, j)
  <2> PICK t \in Copies(j) : Continue(c, "heapUpdate", [NewRequest(j) EXCEPT !.task = t])
    BY <1>7 DEF Update
  <2>1. InHeap(j) BY DEF InHeap
  <2>2. [NewRequest(j) EXCEPT !.task = t].id = j BY DEF NewRequest
  <2> QED BY <1>7, <1>a, <2>1, <2>2, ClientKeeps DEF Update, Carrying, Reserving
<1>8. CASE SetGroup(c, j)
  <2>1. j \in used BY <1>8 DEF SetGroup, Known
  <2>2. [NewRequest(j) EXCEPT !.snap = store[j]].id = j BY DEF NewRequest
  <2> QED BY <1>8, <2>1, <2>2, ClientKeeps DEF SetGroup, Carrying, Reserving
<1> QED BY <1>1, <1>2, <1>3, <1>4, <1>5, <1>6, <1>7, <1>8 DEF ClientBegins

LEMMA ClientGoesOnOwns ==
    ASSUME NEW c \in Client, OwnInv, ClientGoesOn(c)
    PROVE  Known' /\ Exclusive'
<1> USE DEF clientFrame, loopVars, procVars, storeVars, At
<1> DEFINE r == req[c]
<1>a. /\ cpc \in [Client -> ClientStep] /\ req \in [Client -> Request \cup {None}]
      /\ heap \in [Task -> Nat] /\ store \in [Job -> Snapshot \cup {None}]
      /\ Known /\ Exclusive
      /\ \A d \in Client : req[d] = None <=> cpc[d] = "idle"
  BY DEF OwnInv, TypeInv, TypeOK
<1>b. StepFits(cpc[c], r) BY DEF OwnInv, TypeInv, RequestOK
<1>c. ASSUME cpc[c] # "idle"
      PROVE  r # None /\ r \in Request /\ r.id \in Job /\ r.id \in used
  BY <1>a, <1>c DEF Known, Request
<1> HIDE DEF r
<1>1. CASE ResumeCheck(c)
  BY <1>1, <1>c, ClientKeeps DEF ResumeCheck, Finish, Carrying, Reserving, r
<1>2. CASE ScheduleSave(c)
  BY <1>2, <1>c, ClientKeeps DEF ScheduleSave, Put, Carrying, Reserving, r
<1>3. CASE SchedulePush(c)
  <2>1. r.task \in Task /\ r.task.id = r.id
    BY <1>b, <1>c, <1>3 DEF SchedulePush, StepFits, Request
  <2> DEFINE t == r.task
  <2>2. /\ heap' = [heap EXCEPT ![t] = @ + 1] /\ cpc[c] = "push"
        /\ cpc' = [cpc EXCEPT ![c] = "idle"] /\ req' = [req EXCEPT ![c] = None]
        /\ UNCHANGED <<wpc, task, slot, queue, store, disk, used>>
    BY <1>3 DEF SchedulePush, Push, Finish, Continue, r
  <2>3. CarriesJob(c, t.id) /\ t.id \in Job /\ t.id \in used
    BY <1>c, <2>1, <2>2 DEF CarriesJob, Carrying, Reserving, r
  <2>4. t \in Task BY <2>1
  <2> HIDE DEF t
  <2>5. /\ \A u \in Task : u.id = t.id => heap[u] = 0
        /\ \A u \in Task : u # t => heap'[u] = heap[u]
        /\ heap'[t] = 1
    BY <1>a, <2>2, <2>3, <2>4 DEF Exclusive, HeapClient
  <2>6. \A w \in Worker : \A j : ExecutesJob(w, j)' <=> ExecutesJob(w, j)
    BY <2>2 DEF ExecutesJob
  <2>7. \A d \in Client : \A j : CarriesJob(d, j)' => CarriesJob(d, j) /\ d # c
    BY <1>a, <2>2 DEF CarriesJob, Carrying, Reserving
  <2>8. Known' BY <1>a, <2>2, <2>3, <2>5 DEF Known
  <2>9. HeapOnce' /\ HeapSlot' /\ HeapQueue'
    BY <1>a, <2>2, <2>3, <2>4, <2>5
       DEF Exclusive, HeapOnce, HeapSlot, HeapQueue, SlotClient, QueueClient
  <2>10. HeapWorker' /\ HeapClient'
    BY <1>a, <2>3, <2>4, <2>5, <2>6, <2>7
       DEF Exclusive, HeapWorker, HeapClient, WorkerClient, ClientOnce
  <2>11. SlotQueue' /\ SlotWorker' /\ SlotClient' /\ QueueOnce' /\ QueueWorker'
         /\ QueueClient' /\ WorkerOnce' /\ WorkerClient' /\ ClientOnce'
    BY <1>a, <2>2, <2>6, <2>7
       DEF Exclusive, SlotQueue, SlotWorker, SlotClient, QueueOnce, QueueWorker,
           QueueClient, WorkerOnce, WorkerClient, ClientOnce
  <2> QED BY <2>8, <2>9, <2>10, <2>11 DEF Exclusive
<1>4. CASE CancelLookup(c)
  <2> PICK step \in {"cancelSignal", "cancelDelete", "cancelFind"} :
           Continue(c, step, r)
    BY <1>4 DEF CancelLookup, r
  <2> QED BY <1>4, <1>c, ClientKeeps DEF CancelLookup, Carrying, Reserving
<1>5. CASE CancelSignal(c)
  <2> DEFINE next == [r EXCEPT !.found = IF @ = "heap" THEN @ ELSE "context"]
  <2>1. next.id = r.id BY <1>5, <1>c DEF CancelSignal, Request
  <2>2. Continue(c, "cancelDelete", next) BY <1>5 DEF CancelSignal, r
  <2> HIDE DEF next
  <2> QED BY <1>5, <1>c, <2>1, <2>2, ClientKeeps DEF CancelSignal, Carrying, Reserving
<1>6. CASE CancelFind(c)
  <2> DEFINE next == [r EXCEPT !.found = "paused"]
  <2>1. next.id = r.id BY <1>6, <1>c DEF CancelFind, Request
  <2>2. Continue(c, "cancelDelete", next) \/ Finish(c) BY <1>6 DEF CancelFind, r
  <2> HIDE DEF next
  <2> QED BY <1>6, <1>c, <2>1, <2>2, ClientKeeps DEF CancelFind, Finish, Carrying, Reserving
<1>7. CASE CancelDelete(c)
  BY <1>7, <1>c, ClientKeeps DEF CancelDelete, Finish, Carrying, Reserving, r
<1>8. CASE PauseWrite(c)
  BY <1>8, <1>c, ClientKeeps DEF PauseWrite, Put, Finish, Carrying, Reserving, r
<1>9. CASE ForceMark(c)
  <2> PICK step \in {"forceRead", "forceFind"} : Continue(c, step, r)
    BY <1>9 DEF ForceMark, r
  <2> QED BY <1>9, <1>c, ClientKeeps DEF ForceMark, Carrying, Reserving
<1>10. CASE ForceFind(c)
  BY <1>10, <1>c, ClientKeeps DEF ForceFind, Finish, Carrying, Reserving, r
<1>11. CASE ForceFallback(c)
  BY <1>11, <1>c, RemoveOwns DEF ForceFallback, r
<1>12. CASE ForceRead(c)
  <2> DEFINE next == [r EXCEPT !.snap = store[r.id]]
  <2>1. next.id = r.id BY <1>12, <1>c DEF ForceRead, Request
  <2>2. Continue(c, "forceSignal", r) \/ Continue(c, "forceWrite", next)
    BY <1>12 DEF ForceRead, r
  <2> HIDE DEF next
  <2> QED BY <1>12, <1>c, <2>1, <2>2, ClientKeeps DEF ForceRead, Carrying, Reserving
<1>13. CASE ForceWrite(c)
  BY <1>13, <1>c, ClientKeeps DEF ForceWrite, Put, Carrying, Reserving, r
<1>14. CASE ForceSignal(c)
  BY <1>14, <1>c, ClientKeeps DEF ForceSignal, Finish, Carrying, Reserving
<1>15. CASE HeapUpdate(c)
  <2>1. r.task \in Task /\ r.task.id = r.id
    BY <1>b, <1>c, <1>15 DEF HeapUpdate, StepFits, Request
  <2>2. CASE ~InHeap(r.id) /\ Finish(c) /\ UNCHANGED heap
    BY <1>15, <2>2, ClientKeeps DEF HeapUpdate, Finish, Carrying, Reserving
  <2>3. CASE \E u \in Copies(r.id) :
             /\ heap' = [[heap EXCEPT ![u] = @ - 1] EXCEPT ![r.task] = @ + 1]
             /\ Continue(c, "updateWrite", r)
    <3> DEFINE t == r.task
    <3> PICK u \in Copies(r.id) :
             /\ heap' = [[heap EXCEPT ![u] = @ - 1] EXCEPT ![t] = @ + 1]
             /\ Continue(c, "updateWrite", r)
      BY <2>3
    <3>1. u \in Task /\ u.id = r.id /\ heap[u] > 0 BY DEF Copies
    <3>2. t \in Task /\ t.id = u.id BY <2>1, <3>1
    <3> HIDE DEF t
    <3>3. heap[u] = 1 /\ \A v \in Task : v.id = u.id /\ v # u => heap[v] = 0
      BY <1>a, <3>1 DEF Exclusive, HeapOnce
    <3>4. /\ \A v \in Task : v.id = u.id => heap'[v] = IF v = t THEN 1 ELSE 0
          /\ \A v \in Task : v.id # u.id => heap'[v] = heap[v]
      BY <1>a, <3>1, <3>2, <3>3
    <3>5. UNCHANGED <<wpc, task, slot, queue, store, disk, used>>
      BY <1>15 DEF HeapUpdate
    <3>6. \A w \in Worker : \A j : ExecutesJob(w, j)' <=> ExecutesJob(w, j)
      BY <3>5 DEF ExecutesJob
    <3>7. \A d \in Client : \A j : CarriesJob(d, j)' => CarriesJob(d, j)
      BY <1>a DEF CarriesJob, Continue, Carrying, Reserving
    <3>8. Known' BY <1>a, <1>15, <1>c, <3>1, <3>4, <3>5 DEF Known, Continue, HeapUpdate
    <3>9. HeapOnce' /\ HeapSlot' /\ HeapQueue'
      BY <1>a, <3>1, <3>4, <3>5 DEF Exclusive, HeapOnce, HeapSlot, HeapQueue
    <3>10. HeapWorker' /\ HeapClient'
      BY <1>a, <3>1, <3>4, <3>6, <3>7 DEF Exclusive, HeapWorker, HeapClient
    <3>11. SlotQueue' /\ SlotWorker' /\ SlotClient' /\ QueueOnce' /\ QueueWorker'
           /\ QueueClient' /\ WorkerOnce' /\ WorkerClient' /\ ClientOnce'
      BY <1>a, <3>5, <3>6, <3>7
         DEF Exclusive, SlotQueue, SlotWorker, SlotClient, QueueOnce, QueueWorker,
             QueueClient, WorkerOnce, WorkerClient, ClientOnce
    <3> QED BY <3>8, <3>9, <3>10, <3>11 DEF Exclusive
  <2> QED BY <1>15, <2>2, <2>3 DEF HeapUpdate, r
<1>16. CASE UpdateWrite(c)
  BY <1>16, <1>c, ClientKeeps DEF UpdateWrite, Put, Finish, Carrying, Reserving, r
<1>17. CASE GroupGet(c)
  <2>1. ASSUME NEW t \in Copies(r.id), Continue(c, "heapUpdate", [r EXCEPT !.task = t])
        PROVE  Known' /\ Exclusive'
    <3>1. [r EXCEPT !.task = t].id = r.id BY <1>17, <1>c DEF GroupGet, Request
    <3> QED BY <1>17, <1>c, <2>1, <3>1, ClientKeeps DEF GroupGet, Carrying, Reserving
  <2>2. ASSUME Finish(c) \/ Continue(c, "groupWrite", r)
        PROVE  Known' /\ Exclusive'
    BY <1>17, <1>c, <2>2, ClientKeeps DEF GroupGet, Finish, Carrying, Reserving
  <2> QED BY <1>17, <2>1, <2>2 DEF GroupGet, r
<1>18. CASE GroupWrite(c)
  BY <1>18, <1>c, ClientKeeps DEF GroupWrite, Put, Finish, Carrying, Reserving, r
<1> QED BY <1>1, <1>2, <1>3, <1>4, <1>5, <1>6, <1>7, <1>8, <1>9, <1>10, <1>11,
           <1>12, <1>13, <1>14, <1>15, <1>16, <1>17, <1>18 DEF ClientGoesOn

\* A step that changes no place changes no owner.
LEMMA Elsewhere ==
    ASSUME OwnInv, UNCHANGED <<heap, slot, queue, wpc, task, cpc, req, used>>,
           \A j \in Job : store'[j] # None \/ disk'[j] # None => j \in used
    PROVE  Known' /\ Exclusive'
<1>1. \A w \in Worker : \A j : ExecutesJob(w, j)' <=> ExecutesJob(w, j)
  BY DEF ExecutesJob
<1>2. \A c \in Client : \A j : CarriesJob(c, j)' <=> CarriesJob(c, j)
  BY DEF CarriesJob
<1>3. Known' BY DEF OwnInv, Known
<1>4. Exclusive'
  BY <1>1, <1>2
     DEF OwnInv, Exclusive, HeapOnce, HeapSlot, HeapQueue, HeapWorker,
         HeapClient, SlotQueue, SlotWorker, SlotClient, QueueOnce, QueueWorker,
         QueueClient, WorkerOnce, WorkerClient, ClientOnce
<1> QED BY <1>3, <1>4 DEF OwnInv

\* Nobody but the heap has a job, and each job at most once.
LEMMA OnlyHeap ==
    ASSUME slot' = None, Len(queue') = 0, HeapOnce',
           \A w \in Worker : wpc'[w] \notin Executing,
           \A c \in Client : cpc'[c] \notin Reserving
    PROVE  Exclusive'
<1>1. \A w \in Worker : \A j : ~ExecutesJob(w, j)' BY DEF ExecutesJob
<1>2. \A c \in Client : \A j : ~CarriesJob(c, j)' BY DEF CarriesJob
<1>3. 1..Len(queue') = {} OBVIOUS
<1> QED
  BY <1>1, <1>2, <1>3
     DEF Exclusive, HeapSlot, HeapQueue, HeapWorker, HeapClient, SlotQueue,
         SlotWorker, SlotClient, QueueOnce, QueueWorker, QueueClient, WorkerOnce,
         WorkerClient, ClientOnce

LEMMA ProcessOwns ==
    ASSUME OwnInv, Process
    PROVE  Known' /\ Exclusive'
<1> USE DEF procVars, loopVars, workerVars, storeVars, clientVars, histVars
<1>a. /\ heap \in [Task -> Nat] /\ store \in [Job -> Snapshot \cup {None}]
      /\ Known /\ Exclusive
      /\ \A w \in Worker : task[w] = None <=> wpc[w] \in {"exit", "idle"}
      /\ loop = "dispatch" <=> slot # None
      /\ phase \in {"off", "down"} =>
            loop = "exit" /\ \A w \in Worker : wpc[w] = "exit"
  BY DEF OwnInv, TypeInv, TypeOK, PhaseOK
<1>b. \A j \in Job : store[j] # None \/ disk[j] # None => j \in used
  BY <1>a DEF Known
<1>1. CASE Start
  <2> DEFINE pushed == {FromSnapshot(j, store[j]) : j \in Restorable \ HeldBack}
  <2>1. /\ heap' = [t \in Task |-> IF t \in pushed THEN heap[t] + 1 ELSE heap[t]]
        /\ slot' = None /\ queue' = <<>>
        /\ \A w \in Worker : wpc'[w] = "idle" /\ task[w] = None
        /\ \A c \in Client : cpc[c] = "idle"
        /\ UNCHANGED <<task, cpc, req, disk, used>>
    BY <1>1, <1>a DEF Start
  <2>2. \A t \in Task : t \in pushed =>
           t.id \in Restorable /\ t = FromSnapshot(t.id, store[t.id])
    BY DEF FromSnapshot, Restorable
  <2>3. \A t \in Task : t \in pushed =>
           t.id \in used /\ \A u \in Task : u.id = t.id => heap[u] = 0
    BY <1>a, <2>2 DEF Restorable, HasStatus, InHeap, Copies, Known
  <2>4. \A t, u \in Task : t \in pushed /\ u \in pushed /\ t.id = u.id => t = u
    BY <2>2
  <2>5. \A t \in Task : /\ heap'[t] > 0 => t \in pushed \/ heap[t] > 0
                        /\ t \in pushed => heap'[t] = 1
                        /\ t \notin pushed => heap'[t] = heap[t]
    BY <1>a, <2>1, <2>3
  <2> HIDE DEF pushed
  <2>6. HeapOnce'
    BY <1>a, <2>3, <2>4, <2>5 DEF Exclusive, HeapOnce
  <2>7. \A j \in Job : store'[j] # None => store[j] # None
    BY <1>1 DEF Start, HeldBack, Restorable, HasStatus
  <2>8. Known'
    <3>1. \A j \in Job : store'[j] # None \/ disk'[j] # None => j \in used'
      BY <1>b, <2>1, <2>7
    <3>2. \A t \in Task : heap'[t] > 0 => t.id \in used'
      BY <1>a, <2>1, <2>3, <2>5 DEF Known
    <3>3. 1..Len(queue') = {} BY <2>1
    <3>4. \A c \in Client : req'[c] # None => req'[c].id \in used'
      BY <1>a, <2>1 DEF Known
    <3> QED BY <2>1, <3>1, <3>2, <3>3, <3>4 DEF Known
  <2>9. Exclusive'
    BY <2>1, <2>6, OnlyHeap DEF Executing, Carrying, Reserving
  <2> QED BY <2>8, <2>9
<1>2. CASE StopBegin BY <1>2, <1>b, Elsewhere DEF StopBegin
<1>3. CASE \E w \in Worker : StopCancel(w)
  BY <1>3, <1>b, Elsewhere DEF StopCancel
<1>4. CASE StopEnd BY <1>4, <1>b, Elsewhere DEF StopEnd
<1>5. CASE Exit \/ Crash
  <2>1. LoseVolatile /\ used' = used
    BY <1>5 DEF Exit, Crash
  <2>2. /\ \A t \in Task : heap'[t] = 0
        /\ slot' = None /\ queue' = <<>>
        /\ \A w \in Worker : wpc'[w] = "exit" /\ task'[w] = None
        /\ \A c \in Client : cpc'[c] = "idle" /\ req'[c] = None
    BY <2>1 DEF LoseVolatile
  <2>3. Exclusive'
    BY <2>2, OnlyHeap DEF HeapOnce, Executing, Carrying, Reserving
  <2>4. \A j \in Job : store'[j] # None \/ disk'[j] # None => j \in used'
    BY <1>5, <1>b, <2>1 DEF Exit, Crash
  <2>5. Known' BY <2>2, <2>4 DEF Known
  <2> QED BY <2>2, <2>3, <2>5
<1>7. CASE Flush BY <1>7, <1>b, Elsewhere DEF Flush
<1>8. CASE Suspend BY <1>8, <1>b, Elsewhere DEF Suspend
<1>9. CASE Unsuspend BY <1>9, <1>b, Elsewhere DEF Unsuspend
<1> QED BY <1>1, <1>2, <1>3, <1>4, <1>5, <1>7, <1>8, <1>9 DEF Process

LEMMA InitOwns == Init => OwnInv
<1> SUFFICES ASSUME Init PROVE OwnInv
  OBVIOUS
<1>1. TypeInv BY InitType
<1>2. Known BY DEF Init, Known
<1>3. HeapOnce BY DEF Init, HeapOnce
<1>4. Exclusive
  BY <1>3
     DEF Init, Exclusive, HeapSlot, HeapQueue, HeapWorker, HeapClient,
         SlotQueue, SlotWorker, SlotClient, QueueOnce, QueueWorker,
         QueueClient, WorkerOnce, WorkerClient, ClientOnce, ExecutesJob,
         CarriesJob, Executing, Carrying, Reserving
<1> QED BY <1>1, <1>2, <1>4 DEF OwnInv

LEMMA StepOwns == OwnInv /\ ReentersUnowned /\ [Next]_vars => OwnInv'
<1> SUFFICES ASSUME OwnInv, ReentersUnowned, [Next]_vars PROVE OwnInv'
  OBVIOUS
<1>1. TypeInv'
  BY TypeStep DEF OwnInv
<1>2. CASE Process BY <1>1, <1>2, ProcessOwns DEF OwnInv
<1>3. CASE Loop BY <1>1, <1>3, LoopOwns DEF OwnInv
<1>4. CASE \E w \in Worker : WorkerStepOf(w)
  BY <1>1, <1>4, WorkerOwns DEF OwnInv
<1>5. CASE \E c \in Client : ClientGoesOn(c) \/ \E j \in Job : ClientBegins(c, j)
  BY <1>1, <1>5, ClientGoesOnOwns, ClientBeginsOwns DEF OwnInv
<1>6. CASE UNCHANGED vars
  <2>1. UNCHANGED <<heap, slot, queue, wpc, task, cpc, req, used, store, disk>>
    BY <1>6 DEF vars, loopVars, workerVars, storeVars, clientVars, histVars
  <2> QED BY <1>1, <2>1, Elsewhere DEF OwnInv, Known
<1> QED BY <1>2, <1>3, <1>4, <1>5, <1>6 DEF Next

\* However many requests, workers and restarts interleave, one job is in one
\* place at a time and never runs twice at once, as long as no client takes a
\* job up again from its snapshot.  Two concurrent Resumes of one job do break
\* it: both read "paused" before either saves "pending".
THEOREM OneOwner ==
    ASSUME NoReentry
    PROVE  Spec => []SingleOwner
<1>1. \A c \in Client, j \in Job : ~(ResumeFind(c, j) \/ RetryFind(c, j))
  BY DEF NoReentry, ResumeFind, RetryFind, Begins
<1>2. OwnInv /\ [Next]_vars => OwnInv'
  BY <1>1, StepOwns DEF ReentersUnowned
<1>3. OwnInv => SingleOwner BY ExclusiveIsSingleOwner DEF OwnInv
<1> QED BY InitOwns, <1>2, <1>3, PTL DEF Spec
------------------------------------------------------------------------------
(* What a snapshot says of its job: SettledIsIdle, TerminalIsFinal,        *)
(* CancelledPendingIsGone, NoJobForgotten and RunningIsCancellable of      *)
(* Scheduler, each for the operations under which the code keeps it.       *)

\* At most one goroutine calls the scheduler.
Alone == \A c, d \in Client : c = d

\* No operation that writes a snapshot of a job it does not have, but for
\* UpdatePending.
NoOverwrite == "forcePause" \notin Operations /\ "setGroup" \notin Operations

\* Under these a job is taken up from its snapshot only while nobody has it.
Orderly == NoOverwrite /\ (NoReentry \/ Alone)

Overwriting == {"forceMark", "forceFind", "pauseRemove", "forceRead",
                "forceWrite", "forceSignal", "groupGet", "groupWrite"}

Calm == \A c \in Client : cpc[c] \notin Overwriting

Settled(j) == store[j] # None /\ store[j].status \in Terminal \cup {"paused"}

\* Nobody has the job, unless a request has yet to save it.
Idle(j) ==
    /\ \A t \in Task : t.id = j => heap[t] = 0
    /\ slot # None => slot.id # j
    /\ \A i \in 1..Len(queue) : queue[i].id # j
    /\ \A w \in Worker : ~ExecutesJob(w, j)
    /\ \A c \in Client : cpc[c] \in {"push", "pauseWrite"} => req[c].id # j

SettledInv == OwnInv /\ Calm /\ \A j \in Job : Settled(j) => Idle(j)

USE DEF SettledInv
------------------------------------------------------------------------------
LEMMA SettledIdle == SettledInv => SettledIsIdle
<1> SUFFICES ASSUME SettledInv, NEW j \in Job, Settled(j)
             PROVE  \A p \in Place \ {"client"} : ~Has(p, j)
  BY DEF SettledIsIdle, Settled
<1>1. Idle(j) OBVIOUS
<1>2. heap \in [Task -> Nat] BY DEF OwnInv, TypeInv, TypeOK
<1>3. ~Has("heap", j) BY <1>1, <1>2 DEF Idle, Has, InHeap, Copies
<1>4. ~Has("slot", j) BY <1>1 DEF Idle, Has
<1>5. ~Has("queue", j) BY <1>1 DEF Idle, Has
<1>6. ~Has("worker", j) BY <1>1 DEF Idle, Has, ExecutesJob
<1> QED BY <1>3, <1>4, <1>5, <1>6 DEF Place

\* A settled job is taken up again by nobody who could meet another.
LEMMA OrderlyReenters == Orderly /\ SettledInv => ReentersUnowned
<1> SUFFICES ASSUME Orderly, SettledInv, NEW c \in Client, NEW j \in Job,
                    ResumeFind(c, j) \/ RetryFind(c, j)
             PROVE  Unowned(j)
  BY DEF ReentersUnowned
<1>1. Alone
  BY DEF Orderly, NoReentry, ResumeFind, RetryFind, Begins
<1>2. Settled(j)
  BY DEF ResumeFind, RetryFind, HasStatus, Settled, Terminal
<1>3. cpc[c] = "idle" BY DEF ResumeFind, RetryFind, Begins
<1>4. \A d \in Client : ~CarriesJob(d, j)
  BY <1>1, <1>3 DEF Alone, CarriesJob, Reserving, Carrying
<1> QED BY <1>2, <1>4 DEF Idle, Unowned

\* A write settles no job but the one it is about.
LEMMA PutSettles ==
    ASSUME NEW j \in Job, NEW s \in Snapshot, NEW k \in Job, Put(j, s),
           store \in [Job -> Snapshot \cup {None}], Settled(k)'
    PROVE  \/ k # j /\ Settled(k)
           \/ k = j /\ s.status \in Terminal \cup {"paused"}
BY DEF Put, Settled

\* A step that writes no snapshot and at most moves jobs.
LEMMA MovesOnly ==
    ASSUME SettledInv, store' = store, \A j \in Job : Idle(j) => Idle(j)'
    PROVE  \A j \in Job : Settled(j)' => Idle(j)'
BY DEF Settled

LEMMA LoopSettles ==
    ASSUME SettledInv, Loop
    PROVE  Calm' /\ \A j \in Job : Settled(j)' => Idle(j)'
<1>1. store' = store /\ UNCHANGED <<wpc, task, cpc, req>>
  BY DEF Loop, LoopTop, LoopPop, LoopWait, LoopDispatch, LoopDrop, loopFrame,
         workerVars, clientVars, storeVars
<1>2. Calm' BY <1>1 DEF Calm
<1>3. heap \in [Task -> Nat] /\ queue \in Seq(Task) /\ slot \in Task \cup {None}
      /\ (loop = "dispatch" <=> slot # None)
  BY DEF OwnInv, TypeInv, TypeOK
<1> SUFFICES ASSUME NEW j \in Job, Idle(j) PROVE Idle(j)'
  BY <1>1, <1>2, MovesOnly
<1>4. \A w \in Worker : ~ExecutesJob(w, j)' BY <1>1 DEF Idle, ExecutesJob
<1>5. \A c \in Client : cpc'[c] \in {"push", "pauseWrite"} => req'[c].id # j
  BY <1>1 DEF Idle
<1>6. CASE LoopTop \/ LoopWait
  BY <1>4, <1>5, <1>6 DEF LoopTop, LoopWait, Idle
<1>7. CASE LoopPop
  BY <1>3, <1>4, <1>5, <1>7 DEF LoopPop, TakeOut, Idle
<1>8. CASE LoopDispatch
  BY <1>3, <1>4, <1>5, <1>8 DEF LoopDispatch, Idle
<1>9. CASE LoopDrop
  BY <1>4, <1>5, <1>9 DEF LoopDrop, Idle
<1> QED BY <1>6, <1>7, <1>8, <1>9 DEF Loop

\* An execution writes the snapshot of its job and keeps it, or settles it and
\* has done with it.
LEMMA WorkerWrites ==
    ASSUME SettledInv, NEW w \in Worker, NEW j \in Job, NEW s \in Snapshot,
           ExecutesJob(w, j), Put(j, s),
           \A v \in Worker : v # w => wpc'[v] = wpc[v] /\ task'[v] = task[v],
           \A k \in Job : ExecutesJob(w, k)' =>
               k = j /\ s.status \notin Terminal \cup {"paused"},
           UNCHANGED <<heap, slot, queue, cpc, req>>
    PROVE  \A k \in Job : Settled(k)' => Idle(k)'
<1> SUFFICES ASSUME NEW k \in Job, Settled(k)' PROVE Idle(k)'
  OBVIOUS
<1>1. store \in [Job -> Snapshot \cup {None}] /\ heap \in [Task -> Nat]
      /\ Exclusive /\ \A c \in Client : req[c] # None => req[c] \in Request
  BY DEF OwnInv, TypeInv, TypeOK
<1>2. \A v \in Worker : v # w => (ExecutesJob(v, k)' <=> ExecutesJob(v, k))
  BY DEF ExecutesJob
<1>3. CASE k # j /\ Settled(k)
  <2>1. Idle(k) BY <1>3
  <2> QED BY <1>2, <1>3, <2>1 DEF Idle
<1>4. CASE k = j /\ s.status \in Terminal \cup {"paused"}
  <2>1. \A v \in Worker : ~ExecutesJob(v, j)'
    BY <1>1, <1>2, <1>4 DEF Exclusive, WorkerOnce
  <2>2. \A t \in Task : t.id = j => heap'[t] = 0
    BY <1>1 DEF Exclusive, HeapWorker
  <2>3. slot' # None => slot'.id # j
    BY <1>1 DEF Exclusive, SlotWorker
  <2>4. \A i \in 1..Len(queue') : queue'[i].id # j
    BY <1>1 DEF Exclusive, QueueWorker
  <2>5. \A c \in Client : cpc'[c] \in {"push", "pauseWrite"} => req'[c].id # j
    BY <1>1 DEF Exclusive, WorkerClient, CarriesJob, Carrying, Reserving
  <2> QED BY <1>4, <2>1, <2>2, <2>3, <2>4, <2>5 DEF Idle
<1> QED BY <1>1, <1>3, <1>4, PutSettles

LEMMA WorkerSettles ==
    ASSUME SettledInv, NEW w \in Worker, WorkerStepOf(w)
    PROVE  Calm' /\ \A j \in Job : Settled(j)' => Idle(j)'
<1> USE DEF workerFrame, procVars, storeVars, clientVars, histVars, loopVars, Goto
<1>0. /\ wpc \in [Worker -> WorkerStep] /\ task \in [Worker -> Task \cup {None}]
      /\ outcome \in [Worker -> Outcome] /\ heap \in [Task -> Nat]
      /\ queue \in Seq(Task)
      /\ task[w] = None <=> wpc[w] \in {"exit", "idle"}
  BY DEF OwnInv, TypeInv, TypeOK
<1>a. cpc' = cpc /\ req' = req
  BY DEF WorkerStepOf, WorkerExit, Receive, NoHandler, Register, SaveRunning,
         HandlerReturns, TakeForcedPause, CheckStop, Record, Resave, Repush, Leave
<1>b. Calm' BY <1>a DEF Calm
\* A step within the execution, or out of it.
<1>c. ASSUME store' = store, UNCHANGED <<heap, slot, queue>>, NEW step,
             wpc' = [wpc EXCEPT ![w] = step], step \in Executing => wpc[w] \in Executing,
             NEW t, task' = [task EXCEPT ![w] = t], step \in Executing => t = task[w]
      PROVE  \A j \in Job : Settled(j)' => Idle(j)'
  <2>1. \A v \in Worker : \A j \in Job : ExecutesJob(v, j)' => ExecutesJob(v, j)
    BY <1>0, <1>c DEF ExecutesJob
  <2> QED BY <1>a, <1>c, <2>1, MovesOnly DEF Idle
<1>d. task = [task EXCEPT ![w] = task[w]] BY <1>0
<1>e. ASSUME wpc[w] \in Executing
      PROVE  task[w] \in Task /\ task[w].id \in Job /\ ExecutesJob(w, task[w].id)
  BY <1>0, <1>e DEF Executing, Task, ExecutesJob
<1>1. CASE WorkerExit(w)
  BY <1>1, <1>b, <1>c, <1>d DEF WorkerExit, Executing
<1>2. CASE Receive(w)
  <2> SUFFICES ASSUME NEW j \in Job, Idle(j) PROVE Idle(j)'
    BY <1>2, <1>b, MovesOnly DEF Receive
  <2>1. queue # <<>> /\ queue' = Tail(queue) /\ task' = [task EXCEPT ![w] = Head(queue)]
        /\ wpc' = [wpc EXCEPT ![w] = "claimed"] /\ UNCHANGED <<heap, slot>>
    BY <1>2 DEF Receive
  <2>2. Head(queue) = queue[1] /\ 1 \in 1..Len(queue)
    BY <1>0, <2>1
  <2>3. \A i \in 1..Len(queue') : queue'[i] = queue[i+1] /\ i + 1 \in 1..Len(queue)
    BY <1>0, <2>1
  <2>4. \A v \in Worker : ~ExecutesJob(v, j)'
    BY <1>0, <2>1, <2>2 DEF Idle, ExecutesJob
  <2> QED BY <1>a, <2>1, <2>3, <2>4 DEF Idle
<1>3. CASE NoHandler(w)
  <2>1. wpc[w] = "claimed" /\ Put(task[w].id, Snap(task[w], "failed"))
        /\ wpc' = [wpc EXCEPT ![w] = "idle"] /\ task' = [task EXCEPT ![w] = None]
        /\ UNCHANGED <<heap, slot, queue>>
    BY <1>3 DEF NoHandler
  <2>2. wpc[w] \in Executing BY <2>1 DEF Executing
  <2>3. Snap(task[w], "failed") \in Snapshot BY <1>e, <2>2, SnapType DEF Status
  <2>4. \A k \in Job : ~ExecutesJob(w, k)' BY <1>0, <2>1 DEF ExecutesJob, Executing
  <2>5. \A v \in Worker : v # w => wpc'[v] = wpc[v] /\ task'[v] = task[v]
    BY <1>0, <2>1
  <2> QED BY <1>a, <1>b, <1>e, <2>1, <2>2, <2>3, <2>4, <2>5, WorkerWrites
<1>4. CASE Register(w)
  BY <1>4, <1>b, <1>c, <1>d DEF Register, Executing
<1>5. CASE SaveRunning(w)
  <2>1. wpc[w] = "registered" /\ Put(task[w].id, Snap(task[w], "running"))
        /\ wpc' = [wpc EXCEPT ![w] = "handler"] /\ task' = task
        /\ UNCHANGED <<heap, slot, queue>>
    BY <1>5 DEF SaveRunning
  <2>2. wpc[w] \in Executing BY <2>1 DEF Executing
  <2>3. Snap(task[w], "running") \in Snapshot BY <1>e, <2>2, SnapType DEF Status
  <2>4. Snap(task[w], "running").status \notin Terminal \cup {"paused"}
    BY DEF Snap, Terminal
  <2>5. \A k \in Job : ExecutesJob(w, k)' => k = task[w].id
    BY <2>1 DEF ExecutesJob
  <2>6. \A v \in Worker : v # w => wpc'[v] = wpc[v] /\ task'[v] = task[v]
    BY <1>0, <2>1
  <2> QED BY <1>a, <1>b, <1>e, <2>1, <2>2, <2>3, <2>4, <2>5, <2>6, WorkerWrites
<1>6. CASE \E result \in {"success", "failed", "permanent", "interrupted"} :
              HandlerReturns(w, result)
  BY <1>6, <1>b, <1>c, <1>d DEF HandlerReturns, Executing
<1>7. CASE TakeForcedPause(w)
  <2> PICK step \in {"park", "checkStop", "resave", "record"} :
           wpc' = [wpc EXCEPT ![w] = step]
    BY <1>7 DEF TakeForcedPause
  <2>1. step \in Executing => wpc[w] \in Executing
    BY <1>7 DEF TakeForcedPause, Executing
  <2> QED BY <1>7, <1>b, <1>c, <1>d, <2>1 DEF TakeForcedPause
<1>8. CASE CheckStop(w)
  <2> PICK step \in {"leave", "record"} : wpc' = [wpc EXCEPT ![w] = step]
    BY <1>8 DEF CheckStop
  <2>1. step \in Executing => wpc[w] \in Executing
    BY <1>8 DEF CheckStop, Executing
  <2> QED BY <1>8, <1>b, <1>c, <1>d, <2>1 DEF CheckStop
<1>9. CASE Record(w)
  <2> PICK st \in Status : Put(task[w].id, Snap(task[w], st))
    BY <1>9 DEF Record, Status
  <2>1. wpc[w] \in {"park", "record"} /\ wpc' = [wpc EXCEPT ![w] = "leave"]
        /\ task' = task /\ UNCHANGED <<heap, slot, queue>>
    BY <1>9 DEF Record
  <2>2. wpc[w] \in Executing BY <2>1 DEF Executing
  <2>3. Snap(task[w], st) \in Snapshot BY <1>e, <2>2, SnapType
  <2>4. \A k \in Job : ~ExecutesJob(w, k)' BY <1>0, <2>1 DEF ExecutesJob, Executing
  <2>5. \A v \in Worker : v # w => wpc'[v] = wpc[v] /\ task'[v] = task[v]
    BY <1>0, <2>1
  <2> QED BY <1>a, <1>b, <1>e, <2>1, <2>2, <2>3, <2>4, <2>5, WorkerWrites
<1>10. CASE Resave(w)
  <2> DEFINE next == NextTask(task[w], outcome[w])
  <2>1. wpc[w] = "resave" /\ Put(next.id, Snap(next, "pending"))
        /\ wpc' = [wpc EXCEPT ![w] = "repush"] /\ task' = [task EXCEPT ![w] = next]
        /\ UNCHANGED <<heap, slot, queue>>
    BY <1>10 DEF Resave
  <2>2. wpc[w] \in Executing BY <2>1 DEF Executing
  <2>3. next \in Task /\ next.id = task[w].id
    <3>1. Reschedules(task[w], outcome[w])
      BY <2>1 DEF OwnInv, TypeInv, WorkerOK
    <3> QED BY <1>0, <1>e, <2>2, <3>1, NextTaskType
  <2> HIDE DEF next
  <2>4. Snap(next, "pending") \in Snapshot BY <2>3, SnapType DEF Status
  <2>5. Snap(next, "pending").status \notin Terminal \cup {"paused"}
    BY DEF Snap, Terminal
  <2>6. \A k \in Job : ExecutesJob(w, k)' => k = task[w].id
    BY <1>0, <2>1, <2>3 DEF ExecutesJob
  <2>7. \A v \in Worker : v # w => wpc'[v] = wpc[v] /\ task'[v] = task[v]
    BY <1>0, <2>1
  <2> QED BY <1>a, <1>b, <1>e, <2>1, <2>2, <2>3, <2>4, <2>5, <2>6, <2>7, WorkerWrites
<1>11. CASE Repush(w)
  <2> SUFFICES ASSUME NEW j \in Job, Idle(j) PROVE Idle(j)'
    BY <1>11, <1>b, MovesOnly DEF Repush
  <2>1. wpc[w] = "repush" /\ heap' = [heap EXCEPT ![task[w]] = @ + 1]
        /\ wpc' = [wpc EXCEPT ![w] = "leave"] /\ UNCHANGED <<task, slot, queue>>
    BY <1>11 DEF Repush, Push
  <2>2. ExecutesJob(w, task[w].id) /\ task[w] \in Task
    BY <1>e, <2>1 DEF Executing
  <2>3. task[w].id # j BY <2>2 DEF Idle
  <2>4. \A t \in Task : t.id = j => heap'[t] = heap[t] BY <1>0, <2>1, <2>3
  <2>5. \A v \in Worker : ~ExecutesJob(v, j)'
    BY <1>0, <2>1 DEF Idle, ExecutesJob, Executing
  <2> QED BY <1>a, <2>1, <2>4, <2>5 DEF Idle
<1>12. CASE Leave(w)
  <2>1. /\ store' = store /\ UNCHANGED <<heap, slot, queue>>
        /\ wpc' = [wpc EXCEPT ![w] = "idle"] /\ task' = [task EXCEPT ![w] = None]
    BY <1>12 DEF Leave
  <2>2. "idle" \notin Executing BY DEF Executing
  <2> QED BY <1>b, <1>c, <2>1, <2>2
<1> QED BY <1>1, <1>2, <1>3, <1>4, <1>5, <1>6, <1>7, <1>8, <1>9, <1>10,
           <1>11, <1>12 DEF WorkerStepOf

\* A request that writes no snapshot, and neither has nor gets a saved job.
LEMMA ClientMoves ==
    ASSUME SettledInv, NEW c \in Client, NEW step, NEW r, Continue(c, step, r),
           store' = store, UNCHANGED <<wpc, task, slot, queue>>,
           step \notin {"push", "pauseWrite"} \cup Overwriting,
           heap' = heap \/ \E t \in Task : TakeOut(t)
    PROVE  Calm' /\ \A j \in Job : Settled(j)' => Idle(j)'
<1>1. cpc \in [Client -> ClientStep] /\ req \in [Client -> Request \cup {None}]
      /\ heap \in [Task -> Nat]
  BY DEF OwnInv, TypeInv, TypeOK
<1>2. Calm' BY <1>1 DEF Calm, Continue
<1> SUFFICES ASSUME NEW j \in Job, Idle(j) PROVE Idle(j)'
  BY <1>2, MovesOnly
<1>3. \A w \in Worker : ~ExecutesJob(w, j)' BY DEF Idle, ExecutesJob
<1>4. \A t \in Task : t.id = j => heap'[t] = 0 BY <1>1 DEF Idle, TakeOut
<1>5. \A d \in Client : cpc'[d] \in {"push", "pauseWrite"} => req'[d].id # j
  BY <1>1 DEF Idle, Continue
<1> QED BY <1>3, <1>4, <1>5 DEF Idle

\* A request takes a job out of the heap that it will have to write.
LEMMA ClientTakesOut ==
    ASSUME SettledInv, NEW c \in Client, NEW t \in Task, NEW step, NEW r,
           Continue(c, step, r), r.id = t.id, TakeOut(t), step \notin Overwriting,
           store' = store, UNCHANGED <<wpc, task, slot, queue>>
    PROVE  Calm' /\ \A j \in Job : Settled(j)' => Idle(j)'
<1>1. cpc \in [Client -> ClientStep] /\ req \in [Client -> Request \cup {None}]
      /\ heap \in [Task -> Nat]
  BY DEF OwnInv, TypeInv, TypeOK
<1>2. Calm' BY <1>1 DEF Calm, Continue
<1> SUFFICES ASSUME NEW j \in Job, Idle(j) PROVE Idle(j)'
  BY <1>2, MovesOnly
<1>3. \A w \in Worker : ~ExecutesJob(w, j)' BY DEF Idle, ExecutesJob
<1>4. t.id # j BY <1>1 DEF Idle, TakeOut
<1>5. \A u \in Task : u.id = j => heap'[u] = 0 BY <1>1 DEF Idle, TakeOut
<1>6. \A d \in Client : cpc'[d] \in {"push", "pauseWrite"} => req'[d].id # j
  BY <1>1, <1>4 DEF Idle, Continue
<1> QED BY <1>3, <1>5, <1>6 DEF Idle

LEMMA RemoveSettles ==
    ASSUME SettledInv, NEW c \in Client, NEW j \in Job, NEW found, NEW missing,
           found \in {"cancelLookup", "pauseWrite"},
           missing \in {"idle", "cancelLookup"},
           RemoveFromHeap(c, j, found, missing), store' = store,
           UNCHANGED <<wpc, task, slot, queue>>
    PROVE  Calm' /\ \A k \in Job : Settled(k)' => Idle(k)'
<1>1. CASE \E t \in Copies(j) :
             /\ TakeOut(t)
             /\ Continue(c, found, [NewRequest(j) EXCEPT !.task = t, !.found = "heap"])
  <2> PICK t \in Copies(j) :
             /\ TakeOut(t)
             /\ Continue(c, found, [NewRequest(j) EXCEPT !.task = t, !.found = "heap"])
    BY <1>1
  <2>1. t \in Task /\ t.id = j BY DEF Copies
  <2> DEFINE r == [NewRequest(j) EXCEPT !.task = t, !.found = "heap"]
  <2>2. r.id = t.id BY <2>1 DEF NewRequest
  <2>3. Continue(c, found, r) OBVIOUS
  <2> HIDE DEF r
  <2> QED BY <2>1, <2>2, <2>3, ClientTakesOut DEF Overwriting
<1>2. CASE /\ ~InHeap(j) /\ UNCHANGED heap
           /\ IF missing = "idle" THEN Finish(c)
              ELSE Continue(c, missing, NewRequest(j))
  BY <1>2, ClientMoves DEF Finish, Overwriting
<1> QED BY <1>1, <1>2 DEF RemoveFromHeap

LEMMA ClientBeginsSettles ==
    ASSUME SettledInv, NoOverwrite, NEW c \in Client, NEW j \in Job,
           ClientBegins(c, j)
    PROVE  Calm' /\ \A k \in Job : Settled(k)' => Idle(k)'
<1> USE DEF clientFrame, loopVars, procVars, storeVars, Overwriting
<1>1. CASE Submit(c, j) BY <1>1, ClientMoves DEF Submit
<1>2. CASE ResumeFind(c, j) BY <1>2, ClientMoves DEF ResumeFind
<1>3. CASE RetryFind(c, j) BY <1>3, ClientMoves DEF RetryFind
<1>4. CASE CancelRemove(c, j) BY <1>4, RemoveSettles DEF CancelRemove
<1>5. CASE Pause(c, j) BY <1>5, RemoveSettles DEF Pause
<1>6. CASE ForcePause(c, j) BY <1>6 DEF ForcePause, Begins, NoOverwrite
<1>7. CASE Update(c, j) BY <1>7, ClientMoves DEF Update
<1>8. CASE SetGroup(c, j) BY <1>8 DEF SetGroup, Begins, NoOverwrite
<1> QED BY <1>1, <1>2, <1>3, <1>4, <1>5, <1>6, <1>7, <1>8 DEF ClientBegins

\* A request writes the snapshot of its job: it goes on with the job, or lets
\* go of it, and settles it only when it alone had it.
LEMMA ClientWrites ==
    ASSUME SettledInv, NEW c \in Client, NEW j \in Job, NEW step, NEW r,
           Continue(c, step, r), step \notin Overwriting, cpc[c] # "idle",
           j = req[c].id,
           step \in {"push", "pauseWrite"} => r.id = j,
           \/ store' = [store EXCEPT ![j] = None]
           \/ \E s \in Snapshot : Put(j, s) /\
                 (s.status \in Terminal \cup {"paused"} => CarriesJob(c, j)),
           step \in {"push", "pauseWrite"} => ~Settled(j)',
           UNCHANGED <<heap, wpc, task, slot, queue>>
    PROVE  Calm' /\ \A k \in Job : Settled(k)' => Idle(k)'
<1>1. /\ cpc \in [Client -> ClientStep] /\ req \in [Client -> Request \cup {None}]
      /\ heap \in [Task -> Nat] /\ store \in [Job -> Snapshot \cup {None}]
      /\ Exclusive
  BY DEF OwnInv, TypeInv, TypeOK
<1>2. Calm' BY <1>1 DEF Calm, Continue
<1> SUFFICES ASSUME NEW k \in Job, Settled(k)' PROVE Idle(k)'
  BY <1>2
<1>3. \A w \in Worker : \A i \in Job : ExecutesJob(w, i)' <=> ExecutesJob(w, i)
  BY DEF ExecutesJob
<1>4. (Settled(k) /\ k # j) \/ (k = j /\ CarriesJob(c, j))
  <2>1. CASE store' = [store EXCEPT ![j] = None]
    BY <1>1, <2>1 DEF Settled
  <2>2. CASE \E s \in Snapshot : Put(j, s) /\
                 (s.status \in Terminal \cup {"paused"} => CarriesJob(c, j))
    BY <1>1, <2>2, PutSettles
  <2> QED BY <2>1, <2>2
<1>5. CASE Settled(k) /\ k # j
  <2>1. Idle(k) BY <1>5
  <2>2. \A d \in Client : cpc'[d] \in {"push", "pauseWrite"} => req'[d].id # k
    BY <1>1, <1>5, <2>1 DEF Idle, Continue
  <2> QED BY <1>3, <2>1, <2>2 DEF Idle
<1>6. CASE k = j /\ CarriesJob(c, j)
  <2>1. \A d \in Client : cpc'[d] \in {"push", "pauseWrite"} => req'[d].id # j
    BY <1>1, <1>6 DEF Exclusive, ClientOnce, CarriesJob, Continue, Reserving, Carrying
  <2>2. /\ \A t \in Task : t.id = j => heap[t] = 0
        /\ slot # None => slot.id # j
        /\ \A i \in 1..Len(queue) : queue[i].id # j
        /\ \A w \in Worker : ~ExecutesJob(w, j)
    BY <1>1, <1>6 DEF Exclusive, HeapClient, SlotClient, QueueClient, WorkerClient
  <2> QED BY <1>3, <1>6, <2>1, <2>2 DEF Idle
<1> QED BY <1>4, <1>5, <1>6

LEMMA ClientGoesOnSettles ==
    ASSUME SettledInv, NEW c \in Client, ClientGoesOn(c)
    PROVE  Calm' /\ \A k \in Job : Settled(k)' => Idle(k)'
<1> USE DEF clientFrame, loopVars, procVars, storeVars, At, Overwriting
<1>a. /\ cpc \in [Client -> ClientStep] /\ req \in [Client -> Request \cup {None}]
      /\ heap \in [Task -> Nat] /\ store \in [Job -> Snapshot \cup {None}]
      /\ \A d \in Client : req[d] = None <=> cpc[d] = "idle"
  BY DEF OwnInv, TypeInv, TypeOK
<1>b. StepFits(cpc[c], req[c]) BY DEF OwnInv, TypeInv, RequestOK
<1>c. ASSUME cpc[c] # "idle"
      PROVE  req[c] \in Request /\ req[c].id \in Job
  BY <1>a, <1>c DEF Request
<1>d. cpc[c] \notin Overwriting BY DEF Calm
<1>1. CASE ResumeCheck(c) BY <1>1, ClientMoves DEF ResumeCheck, Finish
<1>2. CASE ScheduleSave(c)
  <2> DEFINE s == Snap(req[c].task, "pending")
  <2>1. cpc[c] = "save" /\ Put(req[c].id, s) /\ Continue(c, "push", req[c])
        /\ UNCHANGED <<heap, wpc, task, slot, queue>>
    BY <1>2 DEF ScheduleSave
  <2>2. s \in Snapshot
    BY <1>b, <1>c, <2>1, SnapType DEF StepFits, Request, Status
  <2>3. s.status \notin Terminal \cup {"paused"} BY DEF Snap, Terminal
  <2> HIDE DEF s
  <2> PICK j \in Job : j = req[c].id BY <1>c, <2>1
  <2>4. ~Settled(j)' BY <1>a, <2>1, <2>2, <2>3, PutSettles
  <2> QED BY <2>1, <2>2, <2>3, <2>4, ClientWrites
<1>3. CASE SchedulePush(c)
  <2>1. cpc[c] = "push" /\ heap' = [heap EXCEPT ![req[c].task] = @ + 1]
        /\ cpc' = [cpc EXCEPT ![c] = "idle"] /\ req' = [req EXCEPT ![c] = None]
        /\ UNCHANGED <<store, wpc, task, slot, queue>>
    BY <1>3 DEF SchedulePush, Push, Finish, Continue
  <2>2. Calm' BY <1>a, <2>1 DEF Calm
  <2> SUFFICES ASSUME NEW j \in Job, Idle(j) PROVE Idle(j)'
    BY <2>1, <2>2, MovesOnly
  <2>3. req[c].task \in Task /\ req[c].task.id # j
    BY <1>b, <1>c, <2>1 DEF Idle, StepFits, Request
  <2>4. \A t \in Task : t.id = j => heap'[t] = heap[t] BY <1>a, <2>1, <2>3
  <2>5. \A w \in Worker : ~ExecutesJob(w, j)' BY <2>1 DEF Idle, ExecutesJob
  <2>6. \A d \in Client : cpc'[d] \in {"push", "pauseWrite"} => req'[d].id # j
    BY <1>a, <2>1 DEF Idle
  <2> QED BY <2>1, <2>4, <2>5, <2>6 DEF Idle
<1>4. CASE CancelLookup(c)
  <2> PICK step \in {"cancelSignal", "cancelDelete", "cancelFind"} :
           Continue(c, step, req[c])
    BY <1>4 DEF CancelLookup
  <2> QED BY <1>4, ClientMoves DEF CancelLookup
<1>5. CASE CancelSignal(c)
  <2> PICK r : Continue(c, "cancelDelete", r) BY <1>5 DEF CancelSignal
  <2> QED BY <1>5, ClientMoves DEF CancelSignal
<1>6. CASE CancelFind(c)
  <2>1. \/ Continue(c, "cancelDelete", [req[c] EXCEPT !.found = "paused"])
        \/ Continue(c, "idle", None)
    BY <1>6 DEF CancelFind, Finish
  <2> QED BY <1>6, <2>1, ClientMoves DEF CancelFind
<1>7. CASE CancelDelete(c)
  BY <1>7, <1>c, ClientWrites DEF CancelDelete, Finish
<1>8. CASE PauseWrite(c)
  <2> DEFINE s == Snap(req[c].task, "paused")
  <2>1. cpc[c] = "pauseWrite" /\ Put(req[c].id, s) /\ Continue(c, "idle", None)
        /\ UNCHANGED <<heap, wpc, task, slot, queue>>
    BY <1>8 DEF PauseWrite, Finish
  <2>2. s \in Snapshot
    BY <1>b, <1>c, <2>1, SnapType DEF StepFits, Request, Status
  <2>3. CarriesJob(c, req[c].id) BY <2>1 DEF CarriesJob, Carrying, Reserving
  <2> HIDE DEF s
  <2> QED BY <1>c, <2>1, <2>2, <2>3, ClientWrites
<1>9. CASE HeapUpdate(c)
  <2>1. CASE ~InHeap(req[c].id) /\ Finish(c) /\ UNCHANGED heap
    BY <1>9, <2>1, ClientMoves DEF HeapUpdate, Finish
  <2>2. CASE \E u \in Copies(req[c].id) :
             /\ heap' = [[heap EXCEPT ![u] = @ - 1] EXCEPT ![req[c].task] = @ + 1]
             /\ Continue(c, "updateWrite", req[c])
    <3> DEFINE t == req[c].task
    <3> PICK u \in Copies(req[c].id) :
             /\ heap' = [[heap EXCEPT ![u] = @ - 1] EXCEPT ![t] = @ + 1]
             /\ Continue(c, "updateWrite", req[c])
      BY <2>2
    <3>1. u \in Task /\ u.id = req[c].id /\ heap[u] > 0 BY DEF Copies
    <3>2. t \in Task /\ t.id = u.id
      BY <1>9, <1>b, <1>c, <3>1 DEF HeapUpdate, StepFits, Request
    <3> HIDE DEF t
    <3>3. \A v \in Task : v.id # u.id => heap'[v] = heap[v] BY <1>a, <3>1, <3>2
    <3>4. UNCHANGED <<wpc, task, slot, queue, store>> BY <1>9 DEF HeapUpdate
    <3>5. Calm' BY <1>a DEF Calm, Continue
    <3> SUFFICES ASSUME NEW j \in Job, Idle(j) PROVE Idle(j)'
      BY <3>4, <3>5, MovesOnly
    <3>6. u.id # j BY <1>a, <3>1 DEF Idle
    <3>7. \A v \in Task : v.id = j => heap'[v] = 0 BY <3>3, <3>6 DEF Idle
    <3>8. \A w \in Worker : ~ExecutesJob(w, j)' BY <3>4 DEF Idle, ExecutesJob
    <3>9. \A d \in Client : cpc'[d] \in {"push", "pauseWrite"} => req'[d].id # j
      BY <1>a DEF Idle, Continue
    <3> QED BY <3>4, <3>7, <3>8, <3>9 DEF Idle
  <2> QED BY <1>9, <2>1, <2>2 DEF HeapUpdate
<1>10. CASE UpdateWrite(c)
  <2> DEFINE s == Snap(req[c].task, "pending")
  <2>1. cpc[c] = "updateWrite" /\ Put(req[c].id, s) /\ Continue(c, "idle", None)
        /\ UNCHANGED <<heap, wpc, task, slot, queue>>
    BY <1>10 DEF UpdateWrite, Finish
  <2>2. s \in Snapshot
    BY <1>b, <1>c, <2>1, SnapType DEF StepFits, Request, Status
  <2>3. s.status \notin Terminal \cup {"paused"} BY DEF Snap, Terminal
  <2> HIDE DEF s
  <2> QED BY <1>c, <2>1, <2>2, <2>3, ClientWrites
<1>11. CASE \/ ForceMark(c) \/ ForceFind(c) \/ ForceFallback(c) \/ ForceRead(c)
            \/ ForceWrite(c) \/ ForceSignal(c) \/ GroupGet(c) \/ GroupWrite(c)
  BY <1>11, <1>d DEF ForceMark, ForceFind, ForceFallback, ForceRead, ForceWrite,
                     ForceSignal, GroupGet, GroupWrite
<1> QED BY <1>1, <1>2, <1>3, <1>4, <1>5, <1>6, <1>7, <1>8, <1>9, <1>10, <1>11
        DEF ClientGoesOn

\* A step that changes neither a snapshot nor a place.
LEMMA StaysSettled ==
    ASSUME SettledInv, store' = store,
           UNCHANGED <<heap, slot, queue, wpc, task, cpc, req>>
    PROVE  Calm' /\ \A j \in Job : Settled(j)' => Idle(j)'
<1>1. Calm' BY DEF Calm
<1>2. \A j \in Job : Idle(j) => Idle(j)' BY DEF Idle, ExecutesJob
<1> QED BY <1>1, <1>2, MovesOnly

LEMMA ProcessSettles ==
    ASSUME SettledInv, Process
    PROVE  Calm' /\ \A j \in Job : Settled(j)' => Idle(j)'
<1> USE DEF procVars, loopVars, workerVars, storeVars, clientVars, histVars
<1>a. /\ heap \in [Task -> Nat] /\ store \in [Job -> Snapshot \cup {None}]
      /\ \A w \in Worker : task[w] = None <=> wpc[w] \in {"exit", "idle"}
      /\ loop = "dispatch" <=> slot # None
      /\ phase \in {"off", "down"} =>
            loop = "exit" /\ \A w \in Worker : wpc[w] = "exit"
  BY DEF OwnInv, TypeInv, TypeOK, PhaseOK
<1>1. CASE Start
  <2> DEFINE pushed == {FromSnapshot(j, store[j]) : j \in Restorable \ HeldBack}
  <2>1. /\ heap' = [t \in Task |-> IF t \in pushed THEN heap[t] + 1 ELSE heap[t]]
        /\ store' = [j \in Job |-> IF j \in HeldBack
                                   THEN [store[j] EXCEPT !.status = "paused"]
                                   ELSE store[j]]
        /\ slot' = None /\ queue' = <<>>
        /\ \A w \in Worker : wpc'[w] = "idle"
        /\ \A c \in Client : cpc'[c] = "idle"
    BY <1>1, <1>a DEF Start
  <2>2. Calm' BY <2>1 DEF Calm, Overwriting
  <2> SUFFICES ASSUME NEW j \in Job, Settled(j)' PROVE Idle(j)'
    BY <2>2
  <2>3. \A t \in Task : t.id = j => heap[t] = 0 /\ t \notin pushed
    <3>1. CASE j \in HeldBack
      <4>1. \A t \in Task : t \in pushed => t.id \notin HeldBack
        BY DEF FromSnapshot
      <4> QED BY <1>a, <3>1, <4>1 DEF HeldBack, Restorable, InHeap, Copies
    <3>2. CASE j \notin HeldBack
      <4>1. Settled(j) BY <2>1, <3>2 DEF Settled
      <4>2. j \notin Restorable BY <4>1 DEF Settled, Restorable, HasStatus, Terminal
      <4>3. \A t \in Task : t \in pushed => t.id \in Restorable
        BY DEF FromSnapshot
      <4> QED BY <4>1, <4>2, <4>3 DEF Idle
    <3> QED BY <3>1, <3>2
  <2> HIDE DEF pushed
  <2>4. \A t \in Task : t.id = j => heap'[t] = 0 BY <2>1, <2>3
  <2>5. \A w \in Worker : ~ExecutesJob(w, j)' BY <2>1 DEF ExecutesJob, Executing
  <2> QED BY <2>1, <2>4, <2>5 DEF Idle
<1>2. CASE StopBegin BY <1>2, StaysSettled DEF StopBegin
<1>3. CASE \E w \in Worker : StopCancel(w) BY <1>3, StaysSettled DEF StopCancel
<1>4. CASE StopEnd BY <1>4, StaysSettled DEF StopEnd
<1>5. CASE Exit \/ Crash
  <2>1. /\ heap' = [t \in Task |-> 0] /\ slot' = None /\ queue' = <<>>
        /\ \A w \in Worker : wpc'[w] = "exit"
        /\ \A c \in Client : cpc'[c] = "idle"
    BY <1>5 DEF Exit, Crash, LoseVolatile
  <2>2. \A w \in Worker : \A j : ~ExecutesJob(w, j)'
    BY <2>1 DEF ExecutesJob, Executing
  <2> QED BY <2>1, <2>2 DEF Idle, Calm, Overwriting
<1>6. CASE Flush BY <1>6, StaysSettled DEF Flush
<1>7. CASE Suspend BY <1>7, StaysSettled DEF Suspend
<1>8. CASE Unsuspend BY <1>8, StaysSettled DEF Unsuspend
<1> QED BY <1>1, <1>2, <1>3, <1>4, <1>5, <1>6, <1>7, <1>8 DEF Process

LEMMA InitSettles == Init => SettledInv
<1> SUFFICES ASSUME Init PROVE SettledInv
  OBVIOUS
<1>1. Calm BY DEF Init, Calm, Overwriting
<1>2. \A j \in Job : ~Settled(j) BY DEF Init, Settled
<1> QED BY <1>1, <1>2, InitOwns

LEMMA StepSettles == Orderly /\ SettledInv /\ [Next]_vars => SettledInv'
<1> SUFFICES ASSUME Orderly, SettledInv, [Next]_vars PROVE SettledInv'
  OBVIOUS
<1>1. OwnInv' BY OrderlyReenters, StepOwns
<1> SUFFICES Calm' /\ \A j \in Job : Settled(j)' => Idle(j)'
  BY <1>1
<1>2. CASE Process BY <1>2, ProcessSettles
<1>3. CASE Loop BY <1>3, LoopSettles
<1>4. CASE \E w \in Worker : WorkerStepOf(w) BY <1>4, WorkerSettles
<1>5. CASE \E c \in Client : ClientGoesOn(c) \/ \E j \in Job : ClientBegins(c, j)
  BY <1>5, ClientGoesOnSettles, ClientBeginsSettles DEF Orderly
<1>6. CASE UNCHANGED vars
  BY <1>6, StaysSettled
     DEF vars, loopVars, workerVars, storeVars, clientVars, histVars
<1> QED BY <1>2, <1>3, <1>4, <1>5, <1>6 DEF Next

\* Nobody takes a job up again while it is in other hands, not even from its
\* snapshot: with one client, or without Resume and retry by hand.
THEOREM OneOwnerInOrder ==
    ASSUME Orderly
    PROVE  Spec => []SingleOwner
<1>1. SettledInv => SingleOwner BY ExclusiveIsSingleOwner DEF OwnInv
<1> QED BY InitSettles, StepSettles, <1>1, PTL DEF Spec

\* SettledIsIdle: a paused, finished or failed snapshot never lies.  The
\* hypotheses leave out the writes that do make it lie: ForcePause's and
\* SetGroup's, and two concurrent Resumes.
THEOREM SettledJobsAreIdle ==
    ASSUME Orderly
    PROVE  Spec => []SettledIsIdle
BY InitSettles, StepSettles, SettledIdle, PTL DEF Spec
------------------------------------------------------------------------------
(* Who writes a snapshot.                                                  *)

WriterStep == {"save", "pauseWrite", "forceWrite", "updateWrite", "groupWrite"}

\* The client c is about to write the snapshot of j, and moves on.
ClientWritesJob(c, j) ==
    cpc[c] \in WriterStep /\ req[c].id = j /\ cpc'[c] # cpc[c]

ClientDeletesJob(c, j) ==
    cpc[c] = "cancelDelete" /\ req[c].id = j /\ store'[j] = None

LEMMA WorkerWritesOwn ==
    ASSUME TypeInv, NEW w \in Worker, WorkerStepOf(w), NEW j \in Job,
           store'[j] # store[j]
    PROVE  ExecutesJob(w, j)
<1> USE DEF workerFrame, procVars, storeVars, clientVars, histVars, loopVars
<1>0. /\ store \in [Job -> Snapshot \cup {None}]
      /\ task \in [Worker -> Task \cup {None}] /\ outcome \in [Worker -> Outcome]
      /\ task[w] = None <=> wpc[w] \in {"exit", "idle"}
  BY DEF TypeInv, TypeOK
<1>1. CASE \/ WorkerExit(w) \/ Receive(w) \/ Register(w) \/ TakeForcedPause(w)
           \/ CheckStop(w) \/ Repush(w) \/ Leave(w)
           \/ \E result \in {"success", "failed", "permanent", "interrupted"} :
                 HandlerReturns(w, result)
  BY <1>1 DEF WorkerExit, Receive, Register, TakeForcedPause, CheckStop, Repush,
              Leave, HandlerReturns
<1>2. CASE NoHandler(w) \/ SaveRunning(w) \/ Record(w)
  BY <1>0, <1>2 DEF NoHandler, SaveRunning, Record, Put, ExecutesJob, Executing
<1>3. CASE Resave(w)
  <2> DEFINE next == NextTask(task[w], outcome[w])
  <2>1. wpc[w] = "resave" /\ Put(next.id, Snap(next, "pending"))
    BY <1>3 DEF Resave
  <2>2. next.id = task[w].id
    BY <1>0, <2>1, NextTaskType DEF TypeInv, WorkerOK
  <2> HIDE DEF next
  <2> QED BY <1>0, <2>1, <2>2 DEF Put, ExecutesJob, Executing
<1> QED BY <1>1, <1>2, <1>3 DEF WorkerStepOf

LEMMA ClientWritesOwn ==
    ASSUME TypeInv, NEW c \in Client, ClientGoesOn(c), NEW j \in Job,
           store'[j] # store[j]
    PROVE  ClientWritesJob(c, j) \/ ClientDeletesJob(c, j)
<1> USE DEF clientFrame, procVars, storeVars, loopVars, At
<1>0. /\ store \in [Job -> Snapshot \cup {None}] /\ cpc \in [Client -> ClientStep]
  BY DEF TypeInv, TypeOK
<1>1. CASE \/ ResumeCheck(c) \/ SchedulePush(c) \/ CancelLookup(c)
           \/ CancelSignal(c) \/ CancelFind(c) \/ ForceMark(c) \/ ForceFind(c)
           \/ ForceFallback(c) \/ ForceRead(c) \/ ForceSignal(c)
           \/ HeapUpdate(c) \/ GroupGet(c)
  BY <1>1 DEF ResumeCheck, SchedulePush, CancelLookup, CancelSignal, CancelFind,
       ForceMark, ForceFind, ForceFallback, ForceRead, ForceSignal, HeapUpdate,
       GroupGet
<1>2. CASE ScheduleSave(c) \/ PauseWrite(c) \/ ForceWrite(c) \/ UpdateWrite(c)
           \/ GroupWrite(c)
  BY <1>0, <1>2 DEF ScheduleSave, PauseWrite, ForceWrite, UpdateWrite,
       GroupWrite, Put, Continue, Finish, ClientWritesJob, WriterStep
<1>3. CASE CancelDelete(c)
  BY <1>0, <1>3 DEF CancelDelete, ClientDeletesJob
<1> QED BY <1>1, <1>2, <1>3 DEF ClientGoesOn

\* A snapshot is written by the execution of its job, by a request about it,
\* by Restore, or by the loss of what was not flushed.
LEMMA WhoWrites ==
    ASSUME TypeInv, [Next]_vars, NEW j \in Job, store'[j] # store[j]
    PROVE  \/ \E w \in Worker : ExecutesJob(w, j)
           \/ \E c \in Client : ClientWritesJob(c, j) \/ ClientDeletesJob(c, j)
           \/ Start /\ HasStatus(j, "running")
           \/ Crash
<1> USE DEF procVars, loopVars, workerVars, storeVars, clientVars, histVars
<1>1. CASE Process
  <2>1. CASE Start
    BY <2>1 DEF Start, HeldBack
  <2>2. CASE \/ StopBegin \/ (\E w \in Worker : StopCancel(w)) \/ StopEnd
             \/ Exit \/ Flush \/ Suspend \/ Unsuspend
    BY <2>2 DEF StopBegin, StopCancel, StopEnd, Exit, Flush, Suspend, Unsuspend
  <2> QED BY <1>1, <2>1, <2>2 DEF Process
<1>2. CASE Loop
  BY <1>2 DEF Loop, LoopTop, LoopPop, LoopWait, LoopDispatch, LoopDrop, loopFrame
<1>3. CASE \E w \in Worker : WorkerStepOf(w)
  BY <1>3, WorkerWritesOwn
<1>4. CASE \E c \in Client : ClientGoesOn(c)
  BY <1>4, ClientWritesOwn
<1>5. CASE \E c \in Client : \E i \in Job : ClientBegins(c, i)
  BY <1>5 DEF ClientBegins, Submit, ResumeFind, RetryFind, CancelRemove, Pause,
       ForcePause, Update, SetGroup, clientFrame
<1>6. CASE UNCHANGED vars BY <1>6 DEF vars
<1> QED BY <1>1, <1>2, <1>3, <1>4, <1>5, <1>6 DEF Next

\* No request is between reading a heap entry for UpdatePending and writing it.
NotUpdating == \A c \in Client : cpc[c] \notin {"heapUpdate", "updateWrite"}

\* What one step does to the place and the request of a client.
LEMMA ClientFrame ==
    ASSUME TypeInv, [Next]_vars, NEW c \in Client
    PROVE  \/ cpc'[c] = cpc[c] /\ req'[c] = req[c]
           \/ ClientGoesOn(c) \/ \E j \in Job : ClientBegins(c, j)
           \/ cpc'[c] = "idle" /\ phase' = "off"
<1> USE DEF procVars, loopVars, workerVars, storeVars, clientVars, histVars
<1>0. cpc \in [Client -> ClientStep] /\ req \in [Client -> Request \cup {None}]
  BY DEF TypeInv, TypeOK
<1>1. CASE Process
  <2>1. CASE \/ Start \/ StopBegin \/ (\E w \in Worker : StopCancel(w)) \/ StopEnd
             \/ Flush \/ Suspend \/ Unsuspend
    BY <2>1 DEF Start, StopBegin, StopCancel, StopEnd, Flush, Suspend, Unsuspend
  <2>2. CASE Exit \/ Crash
    BY <2>2 DEF Exit, Crash, LoseVolatile
  <2> QED BY <1>1, <2>1, <2>2 DEF Process
<1>2. CASE Loop
  BY <1>2 DEF Loop, LoopTop, LoopPop, LoopWait, LoopDispatch, LoopDrop, loopFrame
<1>3. CASE \E w \in Worker : WorkerStepOf(w)
  BY <1>3 DEF WorkerStepOf, WorkerExit, Receive, NoHandler, Register, SaveRunning,
       HandlerReturns, TakeForcedPause, CheckStop, Record, Resave, Repush, Leave,
       workerFrame
<1>4. ASSUME NEW d \in Client, d # c, ClientGoesOn(d)
      PROVE  cpc'[c] = cpc[c] /\ req'[c] = req[c]
  BY <1>0, <1>4 DEF ClientGoesOn, ResumeCheck, ScheduleSave, SchedulePush,
       CancelLookup, CancelSignal, CancelFind, CancelDelete, PauseWrite,
       ForceMark, ForceFind, ForceFallback, ForceRead, ForceWrite, ForceSignal,
       HeapUpdate, UpdateWrite, GroupGet, GroupWrite, RemoveFromHeap, Continue,
       Finish
<1>5. ASSUME NEW d \in Client, d # c, NEW j \in Job, ClientBegins(d, j)
      PROVE  cpc'[c] = cpc[c] /\ req'[c] = req[c]
  BY <1>0, <1>5 DEF ClientBegins, Submit, ResumeFind, RetryFind, CancelRemove,
       Pause, ForcePause, Update, SetGroup, RemoveFromHeap, Continue, Finish
<1>6. CASE UNCHANGED vars BY <1>6 DEF vars
<1> QED BY <1>1, <1>2, <1>3, <1>4, <1>5, <1>6 DEF Next

\* Nothing starts UpdatePending but the operation and SetGroup.
LEMMA StaysNotUpdating ==
    ASSUME SettledInv, NotUpdating, "update" \notin Operations, [Next]_vars
    PROVE  NotUpdating'
<1> SUFFICES ASSUME NEW c \in Client
             PROVE  cpc'[c] \notin {"heapUpdate", "updateWrite"}
  BY DEF NotUpdating
<1> USE DEF At
<1>0. cpc \in [Client -> ClientStep] /\ cpc[c] \notin {"heapUpdate", "updateWrite"}
      /\ cpc[c] \notin Overwriting
  BY DEF OwnInv, TypeInv, TypeOK, NotUpdating, Calm
<1>1. CASE ClientGoesOn(c)
  BY <1>0, <1>1 DEF ClientGoesOn, ResumeCheck, ScheduleSave, SchedulePush,
       CancelLookup, CancelSignal, CancelFind, CancelDelete, PauseWrite,
       ForceMark, ForceFind, ForceFallback, ForceRead, ForceWrite, ForceSignal,
       HeapUpdate, UpdateWrite, GroupGet, GroupWrite, Continue, Finish, Overwriting
<1>2. CASE \E j \in Job : ClientBegins(c, j)
  BY <1>0, <1>2 DEF ClientBegins, Submit, ResumeFind, RetryFind, CancelRemove,
       Pause, ForcePause, Update, SetGroup, RemoveFromHeap, Continue, Finish, Begins
<1>3. OwnInv => TypeInv BY DEF OwnInv
<1> QED BY <1>0, <1>1, <1>2, <1>3, ClientFrame

\* TerminalIsFinal: what the store says of a finished job stays said.  Without
\* UpdatePending: its late write does turn a finished job into a pending one.
THEOREM FinishedStaysFinished ==
    ASSUME Orderly, "update" \notin Operations
    PROVE  Spec => TerminalIsFinal
<1>1. Init => SettledInv /\ NotUpdating
  BY InitSettles DEF Init, NotUpdating
<1>2. SettledInv /\ NotUpdating /\ [Next]_vars => SettledInv' /\ NotUpdating'
  BY StepSettles, StaysNotUpdating
<1>3. ASSUME SettledInv, NotUpdating, [Next]_vars
      PROVE  \A j \in Job : store[j] # None /\ store[j].status \in Terminal =>
                 \/ store'[j] \in {store[j], None}
                 \/ phase' = "off"
                 \/ \E c \in Client : cpc[c] = "save" /\ req[c].id = j
  <2> SUFFICES ASSUME NEW j \in Job, store[j] # None, store[j].status \in Terminal,
                      store'[j] # store[j]
               PROVE  \/ store'[j] = None \/ phase' = "off"
                      \/ \E c \in Client : cpc[c] = "save" /\ req[c].id = j
    OBVIOUS
  <2>1. Idle(j) /\ TypeInv BY <1>3 DEF Settled, OwnInv
  <2>2. \A w \in Worker : ~ExecutesJob(w, j) BY <2>1 DEF Idle
  <2>3. CASE \E c \in Client : ClientWritesJob(c, j) \/ ClientDeletesJob(c, j)
    BY <1>3, <2>1, <2>3 DEF ClientWritesJob, ClientDeletesJob, WriterStep, Calm,
         Overwriting, NotUpdating, Idle
  <2>4. ~HasStatus(j, "running") BY DEF HasStatus, Terminal
  <2>5. CASE Crash BY <2>5 DEF Crash, LoseVolatile
  <2> QED BY <1>3, <2>1, <2>2, <2>3, <2>4, <2>5, WhoWrites
<1>4. SettledInv /\ NotUpdating /\ [Next]_vars =>
        [\A j \in Job : store[j] # None /\ store[j].status \in Terminal =>
                 \/ store'[j] \in {store[j], None}
                 \/ phase' = "off"
                 \/ \E c \in Client : cpc[c] = "save" /\ req[c].id = j]_vars
  BY <1>3
<1> QED BY <1>1, <1>2, <1>4, PTL DEF Spec, TerminalIsFinal
------------------------------------------------------------------------------
(* A job that was cancelled while it waited.                               *)

\* With several clients the late write of UpdatePending brings a cancelled job
\* back, and so does a Resume that read the snapshot before it went.
CancelOrderly ==
    NoOverwrite /\ (Alone \/ (NoReentry /\ "update" \notin Operations))

Gone(j) == cancelled[j] \in {"heap", "paused"}

\* The client has found its job where it can cancel it for good.
Ends(c) ==
    \/ /\ cpc[c] \in {"cancelLookup", "cancelSignal", "cancelDelete"}
       /\ req[c].found = "heap"
    \/ cpc[c] = "cancelDelete" /\ req[c].found = "paused"

GoneStays == \A j \in Job :
    Gone(j) => j \in used /\ store[j] = None /\ Unowned(j)
EndsUnowned == \A c \in Client, j \in Job : Ends(c) /\ req[c].id = j => Unowned(j)
SavesFirst == NoReentry => \A c \in Client :
    /\ cpc[c] # "resumeCheck"
    /\ cpc[c] = "save" => store[req[c].id] = None
UpdatesKnown == \A c \in Client, j \in Job :
    cpc[c] \in {"heapUpdate", "updateWrite"} /\ req[c].id = j =>
        "update" \in Operations /\ ~Gone(j)

CancelInv == SettledInv /\ GoneStays /\ EndsUnowned /\ SavesFirst /\ UpdatesKnown

LEMMA GoneIsGone == CancelInv => CancelledPendingIsGone
<1> SUFFICES ASSUME CancelInv, NEW j \in Job, Gone(j)
             PROVE  store[j] = None /\ ~Owned(j)
  BY DEF CancelledPendingIsGone, Gone
<1>1. store[j] = None /\ Unowned(j) BY DEF CancelInv, GoneStays
<1>2. heap \in [Task -> Nat] BY DEF CancelInv, OwnInv, TypeInv, TypeOK
<1>3. ~Has("heap", j) BY <1>1, <1>2 DEF Unowned, Has, InHeap, Copies
<1>4. ~Has("slot", j) BY <1>1 DEF Unowned, Has
<1>5. ~Has("queue", j) BY <1>1 DEF Unowned, Has
<1>6. ~Has("worker", j) BY <1>1 DEF Unowned, Has, ExecutesJob
<1>7. ~Has("client", j) BY <1>1 DEF Unowned, Has, CarriesJob, Reserving
<1> QED BY <1>1, <1>3, <1>4, <1>5, <1>6, <1>7 DEF Owned, Place

LEMMA LoopUnowned ==
    ASSUME TypeInv, Loop, NEW j \in Job, Unowned(j)
    PROVE  Unowned(j)'
<1>1. UNCHANGED <<wpc, task, cpc, req>>
  BY DEF Loop, LoopTop, LoopPop, LoopWait, LoopDispatch, LoopDrop, loopFrame,
         workerVars, clientVars
<1>2. heap \in [Task -> Nat] /\ queue \in Seq(Task) /\ slot \in Task \cup {None}
      /\ (loop = "dispatch" <=> slot # None)
  BY DEF TypeInv, TypeOK
<1>3. /\ \A w \in Worker : ~ExecutesJob(w, j)'
      /\ \A c \in Client : ~CarriesJob(c, j)'
  BY <1>1 DEF Unowned, ExecutesJob, CarriesJob
<1>4. CASE LoopTop \/ LoopWait BY <1>3, <1>4 DEF LoopTop, LoopWait, Unowned
<1>5. CASE LoopPop BY <1>2, <1>3, <1>5 DEF LoopPop, TakeOut, Unowned
<1>6. CASE LoopDispatch BY <1>2, <1>3, <1>6 DEF LoopDispatch, Unowned
<1>7. CASE LoopDrop BY <1>3, <1>7 DEF LoopDrop, Unowned
<1> QED BY <1>4, <1>5, <1>6, <1>7 DEF Loop

LEMMA WorkerUnowned ==
    ASSUME TypeInv, NEW w \in Worker, WorkerStepOf(w), NEW j \in Job, Unowned(j)
    PROVE  Unowned(j)'
<1> USE DEF workerFrame, procVars, storeVars, clientVars, histVars, loopVars, Goto
<1>0. /\ wpc \in [Worker -> WorkerStep] /\ task \in [Worker -> Task \cup {None}]
      /\ outcome \in [Worker -> Outcome] /\ heap \in [Task -> Nat]
      /\ queue \in Seq(Task)
      /\ task[w] = None <=> wpc[w] \in {"exit", "idle"}
  BY DEF TypeInv, TypeOK
<1>a. \A c \in Client : ~CarriesJob(c, j)'
  BY DEF Unowned, CarriesJob, WorkerStepOf, WorkerExit, Receive, NoHandler,
         Register, SaveRunning, HandlerReturns, TakeForcedPause, CheckStop,
         Record, Resave, Repush, Leave
<1>b. ~ExecutesJob(w, j) BY DEF Unowned
\* The execution goes on, or ends, with the job it had.
<1>c. ASSUME UNCHANGED <<heap, slot, queue>>, ~ExecutesJob(w, j)',
             \A v \in Worker : v # w => wpc'[v] = wpc[v] /\ task'[v] = task[v]
      PROVE  Unowned(j)'
  BY <1>a, <1>c DEF Unowned, ExecutesJob
<1>1. CASE WorkerExit(w)
  BY <1>0, <1>b, <1>c, <1>1 DEF WorkerExit, ExecutesJob, Executing
<1>2. CASE Receive(w)
  <2>1. queue # <<>> /\ queue' = Tail(queue) /\ task' = [task EXCEPT ![w] = Head(queue)]
        /\ wpc' = [wpc EXCEPT ![w] = "claimed"] /\ UNCHANGED <<heap, slot>>
    BY <1>2 DEF Receive
  <2>2. Head(queue) = queue[1] /\ 1 \in 1..Len(queue) BY <1>0, <2>1
  <2>3. \A i \in 1..Len(queue') : queue'[i] = queue[i+1] /\ i + 1 \in 1..Len(queue)
    BY <1>0, <2>1
  <2>4. \A v \in Worker : ~ExecutesJob(v, j)'
    BY <1>0, <2>1, <2>2 DEF Unowned, ExecutesJob
  <2> QED BY <1>a, <2>1, <2>3, <2>4 DEF Unowned
<1>3. CASE NoHandler(w)
  BY <1>0, <1>c, <1>3 DEF NoHandler, ExecutesJob, Executing
<1>4. CASE Register(w) \/ SaveRunning(w) \/ CheckStop(w) \/ Record(w)
           \/ \E result \in {"success", "failed", "permanent", "interrupted"} :
                 HandlerReturns(w, result)
  BY <1>0, <1>b, <1>c, <1>4
     DEF Register, SaveRunning, HandlerReturns, CheckStop, Record,
         ExecutesJob, Executing
<1>5. CASE TakeForcedPause(w)
  BY <1>0, <1>b, <1>c, <1>5 DEF TakeForcedPause, ExecutesJob, Executing
<1>6. CASE Resave(w)
  <2> DEFINE next == NextTask(task[w], outcome[w])
  <2>1. wpc[w] = "resave" /\ wpc' = [wpc EXCEPT ![w] = "repush"]
        /\ task' = [task EXCEPT ![w] = next] /\ UNCHANGED <<heap, slot, queue>>
    BY <1>6 DEF Resave
  <2>2. next.id = task[w].id
    BY <1>0, <2>1, NextTaskType DEF TypeInv, WorkerOK
  <2> HIDE DEF next
  <2> QED BY <1>0, <1>b, <1>c, <2>1, <2>2 DEF ExecutesJob, Executing
<1>7. CASE Repush(w)
  <2>1. wpc[w] = "repush" /\ heap' = [heap EXCEPT ![task[w]] = @ + 1]
        /\ wpc' = [wpc EXCEPT ![w] = "leave"] /\ UNCHANGED <<task, slot, queue>>
    BY <1>7 DEF Repush, Push
  <2>2. task[w] \in Task /\ task[w].id # j
    BY <1>0, <1>b, <2>1 DEF ExecutesJob, Executing
  <2>3. \A t \in Task : t.id = j => heap'[t] = heap[t] BY <1>0, <2>1, <2>2
  <2>4. \A v \in Worker : ~ExecutesJob(v, j)'
    BY <1>0, <2>1 DEF Unowned, ExecutesJob, Executing
  <2> QED BY <1>a, <2>1, <2>3, <2>4 DEF Unowned
<1>8. CASE Leave(w)
  BY <1>0, <1>c, <1>8 DEF Leave, ExecutesJob, Executing
<1> QED BY <1>1, <1>2, <1>3, <1>4, <1>5, <1>6, <1>7, <1>8 DEF WorkerStepOf

\* A request that adds no entry to the heap, and has no job that it had not.
LEMMA ClientLeavesUnowned ==
    ASSUME TypeInv, NEW c \in Client, NEW step, NEW r, Continue(c, step, r),
           NEW j \in Job, Unowned(j), step \in Reserving => r.id # j,
           heap' = heap \/ \E t \in Task : TakeOut(t),
           UNCHANGED <<wpc, task, slot, queue>>
    PROVE  Unowned(j)'
<1>1. /\ cpc \in [Client -> ClientStep] /\ req \in [Client -> Request \cup {None}]
      /\ heap \in [Task -> Nat]
  BY DEF TypeInv, TypeOK
<1>2. \A w \in Worker : ~ExecutesJob(w, j)' BY DEF Unowned, ExecutesJob
<1>3. \A d \in Client : ~CarriesJob(d, j)'
  BY <1>1 DEF Unowned, CarriesJob, Continue
<1>4. \A t \in Task : t.id = j => heap'[t] = 0 BY <1>1 DEF Unowned, TakeOut
<1> QED BY <1>2, <1>3, <1>4 DEF Unowned

LEMMA RemoveUnowned ==
    ASSUME TypeInv, NEW c \in Client, NEW i \in Job, NEW found, NEW missing,
           missing \notin Reserving, RemoveFromHeap(c, i, found, missing),
           NEW j \in Job, Unowned(j), UNCHANGED <<wpc, task, slot, queue>>
    PROVE  Unowned(j)'
<1>1. CASE \E t \in Copies(i) :
             /\ TakeOut(t)
             /\ Continue(c, found, [NewRequest(i) EXCEPT !.task = t, !.found = "heap"])
  <2> PICK t \in Copies(i) :
             /\ TakeOut(t)
             /\ Continue(c, found, [NewRequest(i) EXCEPT !.task = t, !.found = "heap"])
    BY <1>1
  <2>1. t \in Task /\ t.id = i /\ i # j BY DEF Copies, Unowned
  <2> DEFINE r == [NewRequest(i) EXCEPT !.task = t, !.found = "heap"]
  <2>2. r.id = i BY DEF NewRequest
  <2>3. Continue(c, found, r) OBVIOUS
  <2> HIDE DEF r
  <2> QED BY <2>1, <2>2, <2>3, ClientLeavesUnowned
<1>2. CASE /\ ~InHeap(i) /\ UNCHANGED heap
           /\ IF missing = "idle" THEN Finish(c)
              ELSE Continue(c, missing, NewRequest(i))
  BY <1>2, ClientLeavesUnowned DEF Finish, Reserving, Carrying
<1> QED BY <1>1, <1>2 DEF RemoveFromHeap

LEMMA ClientBeginsUnowned ==
    ASSUME TypeInv, NEW c \in Client, NEW i \in Job, ClientBegins(c, i),
           NEW j \in Job, Unowned(j), j \in used,
           ~ResumeFind(c, j), ~RetryFind(c, j)
    PROVE  Unowned(j)'
<1> USE DEF clientFrame, loopVars, procVars, storeVars, Reserving, Carrying
<1>1. CASE Submit(c, i)
  <2>1. PICK repeat \in IF i \in CronJob THEN BOOLEAN ELSE {FALSE} :
            Continue(c, "save", [NewRequest(i) EXCEPT
               !.task = [id |-> i, retry |-> 0, cron |-> repeat]])
    BY <1>1 DEF Submit
  <2> DEFINE r == [NewRequest(i) EXCEPT
               !.task = [id |-> i, retry |-> 0, cron |-> repeat]]
  <2>2. r.id = i BY DEF NewRequest
  <2>3. Continue(c, "save", r) BY <2>1
  <2> HIDE DEF r
  <2>4. i # j BY <1>1 DEF Submit
  <2> QED BY <1>1, <2>2, <2>3, <2>4, ClientLeavesUnowned DEF Submit
<1>2. CASE ResumeFind(c, i)
  <2> DEFINE r == [NewRequest(i) EXCEPT !.task = FromSnapshot(i, store[i])]
  <2>1. r.id = i BY DEF NewRequest
  <2>2. Continue(c, "resumeCheck", r) BY <1>2 DEF ResumeFind
  <2> HIDE DEF r
  <2>3. i # j BY <1>2
  <2> QED BY <1>2, <2>1, <2>2, <2>3, ClientLeavesUnowned DEF ResumeFind
<1>3. CASE RetryFind(c, i)
  <2> DEFINE r == [NewRequest(i) EXCEPT
                     !.task = [FromSnapshot(i, store[i]) EXCEPT !.retry = 0]]
  <2>1. r.id = i BY DEF NewRequest
  <2>2. Continue(c, "save", r) BY <1>3 DEF RetryFind
  <2> HIDE DEF r
  <2>3. i # j BY <1>3
  <2> QED BY <1>3, <2>1, <2>2, <2>3, ClientLeavesUnowned DEF RetryFind
<1>4. CASE CancelRemove(c, i) BY <1>4, RemoveUnowned DEF CancelRemove
<1>5. CASE Pause(c, i) BY <1>5, RemoveUnowned DEF Pause
<1>6. CASE ForcePause(c, i) BY <1>6, RemoveUnowned DEF ForcePause
<1>7. CASE Update(c, i) BY <1>7, ClientLeavesUnowned DEF Update
<1>8. CASE SetGroup(c, i) BY <1>8, ClientLeavesUnowned DEF SetGroup
<1> QED BY <1>1, <1>2, <1>3, <1>4, <1>5, <1>6, <1>7, <1>8 DEF ClientBegins

LEMMA ClientGoesOnUnowned ==
    ASSUME TypeInv, NEW c \in Client, ClientGoesOn(c), NEW j \in Job, Unowned(j)
    PROVE  Unowned(j)'
<1> USE DEF clientFrame, loopVars, procVars, storeVars, At, Reserving, Carrying
<1>0. /\ cpc \in [Client -> ClientStep] /\ req \in [Client -> Request \cup {None}]
      /\ heap \in [Task -> Nat]
      /\ \A d \in Client : req[d] = None <=> cpc[d] = "idle"
      /\ StepFits(cpc[c], req[c])
  BY DEF TypeInv, TypeOK, RequestOK
<1>1. ~CarriesJob(c, j) BY DEF Unowned
<1>2. CASE ResumeCheck(c)
  BY <1>1, <1>2, ClientLeavesUnowned DEF ResumeCheck, Finish, CarriesJob
<1>3. CASE ScheduleSave(c)
  BY <1>1, <1>3, ClientLeavesUnowned DEF ScheduleSave, CarriesJob
<1>4. CASE SchedulePush(c)
  <2>1. cpc[c] = "push" /\ heap' = [heap EXCEPT ![req[c].task] = @ + 1]
        /\ cpc' = [cpc EXCEPT ![c] = "idle"] /\ req' = [req EXCEPT ![c] = None]
        /\ UNCHANGED <<wpc, task, slot, queue>>
    BY <1>4 DEF SchedulePush, Push, Finish, Continue
  <2>2. req[c].task \in Task /\ req[c].task.id # j
    BY <1>0, <1>1, <2>1 DEF StepFits, Request, CarriesJob
  <2>3. \A t \in Task : t.id = j => heap'[t] = heap[t] BY <1>0, <2>1, <2>2
  <2>4. \A w \in Worker : ~ExecutesJob(w, j)' BY <2>1 DEF Unowned, ExecutesJob
  <2>5. \A d \in Client : ~CarriesJob(d, j)'
    BY <1>0, <2>1 DEF Unowned, CarriesJob
  <2> QED BY <2>1, <2>3, <2>4, <2>5 DEF Unowned
<1>5. CASE CancelLookup(c)
  <2> PICK step \in {"cancelSignal", "cancelDelete", "cancelFind"} :
           Continue(c, step, req[c])
    BY <1>5 DEF CancelLookup
  <2> QED BY <1>5, ClientLeavesUnowned DEF CancelLookup
<1>6. CASE CancelSignal(c)
  <2> PICK r : Continue(c, "cancelDelete", r) BY <1>6 DEF CancelSignal
  <2> QED BY <1>6, ClientLeavesUnowned DEF CancelSignal
<1>7. CASE CancelFind(c)
  <2>1. \/ Continue(c, "cancelDelete", [req[c] EXCEPT !.found = "paused"])
        \/ Continue(c, "idle", None)
    BY <1>7 DEF CancelFind, Finish
  <2> QED BY <1>7, <2>1, ClientLeavesUnowned DEF CancelFind
<1>8. CASE CancelDelete(c) \/ PauseWrite(c) \/ UpdateWrite(c) \/ GroupWrite(c)
  BY <1>8, ClientLeavesUnowned
     DEF CancelDelete, PauseWrite, UpdateWrite, GroupWrite, Finish
<1>9. CASE ForceMark(c)
  <2> PICK step \in {"forceRead", "forceFind"} : Continue(c, step, req[c])
    BY <1>9 DEF ForceMark
  <2> QED BY <1>9, ClientLeavesUnowned DEF ForceMark
<1>10. CASE ForceFind(c) \/ ForceSignal(c) \/ ForceWrite(c)
  BY <1>10, ClientLeavesUnowned DEF ForceFind, ForceSignal, ForceWrite, Finish
<1>11. CASE ForceFallback(c)
  <2>1. req[c].id \in Job BY <1>0, <1>11 DEF ForceFallback, Request
  <2> QED BY <1>11, <2>1, RemoveUnowned DEF ForceFallback
<1>12. CASE ForceRead(c)
  <2>1. \/ Continue(c, "forceWrite", [req[c] EXCEPT !.snap = store[req[c].id]])
        \/ Continue(c, "forceSignal", req[c])
    BY <1>12 DEF ForceRead
  <2> QED BY <1>12, <2>1, ClientLeavesUnowned DEF ForceRead
<1>13. CASE HeapUpdate(c)
  <2>1. CASE ~InHeap(req[c].id) /\ Finish(c) /\ UNCHANGED heap
    BY <1>13, <2>1, ClientLeavesUnowned DEF HeapUpdate, Finish
  <2>2. CASE \E u \in Copies(req[c].id) :
             /\ heap' = [[heap EXCEPT ![u] = @ - 1] EXCEPT ![req[c].task] = @ + 1]
             /\ Continue(c, "updateWrite", req[c])
    <3> DEFINE t == req[c].task
    <3> PICK u \in Copies(req[c].id) :
             /\ heap' = [[heap EXCEPT ![u] = @ - 1] EXCEPT ![t] = @ + 1]
             /\ Continue(c, "updateWrite", req[c])
      BY <2>2
    <3>1. u \in Task /\ u.id = req[c].id /\ heap[u] > 0 BY DEF Copies
    <3>2. t \in Task /\ t.id = u.id
      BY <1>0, <1>13, <3>1 DEF HeapUpdate, StepFits, Request
    <3> HIDE DEF t
    <3>3. u.id # j BY <3>1 DEF Unowned
    <3>4. \A v \in Task : v.id = j => heap'[v] = heap[v]
      BY <1>0, <3>1, <3>2, <3>3
    <3>5. UNCHANGED <<wpc, task, slot, queue>> BY <1>13 DEF HeapUpdate
    <3>6. \A w \in Worker : ~ExecutesJob(w, j)' BY <3>5 DEF Unowned, ExecutesJob
    <3>7. \A d \in Client : ~CarriesJob(d, j)'
      BY <1>0 DEF Unowned, CarriesJob, Continue
    <3> QED BY <3>4, <3>5, <3>6, <3>7 DEF Unowned
  <2> QED BY <1>13, <2>1, <2>2 DEF HeapUpdate
<1>14. CASE GroupGet(c)
  <2>1. UNCHANGED <<heap, wpc, task, slot, queue>> BY <1>14 DEF GroupGet
  <2>2. CASE \E t \in Copies(req[c].id) :
                Continue(c, "heapUpdate", [req[c] EXCEPT !.task = t])
    <3> PICK t : Continue(c, "heapUpdate", [req[c] EXCEPT !.task = t]) BY <2>2
    <3> QED BY <2>1, ClientLeavesUnowned
  <2>3. CASE Continue(c, "idle", None) \/ Continue(c, "groupWrite", req[c])
    BY <2>1, <2>3, ClientLeavesUnowned
  <2> QED BY <1>14, <2>2, <2>3 DEF GroupGet, Finish
<1> QED BY <1>2, <1>3, <1>4, <1>5, <1>6, <1>7, <1>8, <1>9, <1>10, <1>11, <1>12,
           <1>13, <1>14 DEF ClientGoesOn

\* What nobody has stays so until it is resumed, retried or restored.
LEMMA StaysUnowned ==
    ASSUME TypeInv, [Next]_vars, NEW j \in Job, Unowned(j), j \in used,
           \A c \in Client : ~ResumeFind(c, j) /\ ~RetryFind(c, j),
           ~(Start /\ store[j] # None)
    PROVE  Unowned(j)'
<1> USE DEF procVars, loopVars, workerVars, storeVars, clientVars, histVars
<1>0. /\ heap \in [Task -> Nat] /\ (loop = "dispatch" <=> slot # None)
      /\ phase \in {"off", "down"} => loop = "exit"
  BY DEF TypeInv, TypeOK, PhaseOK
<1>1. CASE Start
  <2> DEFINE pushed == {FromSnapshot(i, store[i]) : i \in Restorable \ HeldBack}
  <2>1. /\ heap' = [t \in Task |-> IF t \in pushed THEN heap[t] + 1 ELSE heap[t]]
        /\ slot' = None /\ queue' = <<>>
        /\ \A w \in Worker : wpc'[w] = "idle"
        /\ UNCHANGED <<cpc, req>>
    BY <1>0, <1>1 DEF Start
  <2>2. j \notin Restorable BY <1>1 DEF Restorable, HasStatus
  <2>3. \A t \in Task : t.id = j => t \notin pushed BY <2>2 DEF FromSnapshot
  <2> HIDE DEF pushed
  <2>4. \A t \in Task : t.id = j => heap'[t] = 0 BY <1>0, <2>1, <2>3 DEF Unowned
  <2> QED BY <2>1, <2>4 DEF Unowned, ExecutesJob, CarriesJob, Executing
<1>2. CASE Exit \/ Crash
  <2>1. LoseVolatile BY <1>2 DEF Exit, Crash
  <2> QED BY <2>1 DEF LoseVolatile, Unowned, ExecutesJob, CarriesJob, Executing,
                      Reserving, Carrying
<1>3. CASE \/ StopBegin \/ (\E w \in Worker : StopCancel(w)) \/ StopEnd
           \/ Flush \/ Suspend \/ Unsuspend \/ UNCHANGED vars
  <2>1. UNCHANGED <<heap, slot, queue, wpc, task, cpc, req>>
    BY <1>3 DEF StopBegin, StopCancel, StopEnd, Flush, Suspend, Unsuspend, vars
  <2> QED BY <2>1 DEF Unowned, ExecutesJob, CarriesJob
<1>4. CASE Loop BY <1>4, LoopUnowned
<1>5. CASE \E w \in Worker : WorkerStepOf(w) BY <1>5, WorkerUnowned
<1>6. CASE \E c \in Client : ClientGoesOn(c) \/ \E i \in Job : ClientBegins(c, i)
  BY <1>6, ClientGoesOnUnowned, ClientBeginsUnowned
<1> QED BY <1>1, <1>2, <1>3, <1>4, <1>5, <1>6 DEF Next, Process

LEMMA RequestFound ==
    ASSUME NEW r \in Request, NEW f \in Found
    PROVE  /\ [r EXCEPT !.found = f].id = r.id
           /\ [r EXCEPT !.found = f].found = f
BY DEF Request

LEMMA NewRequestFields ==
    ASSUME NEW j \in Job, NEW t
    PROVE  /\ NewRequest(j).id = j /\ NewRequest(j).found = "no"
           /\ [NewRequest(j) EXCEPT !.task = t, !.found = "heap"].id = j
           /\ [NewRequest(j) EXCEPT !.task = t, !.found = "heap"].found = "heap"
BY DEF NewRequest

\* How a request comes to hold a job it can cancel for good.
LEMMA EndsBegins ==
    ASSUME TypeInv, NEW c \in Client, NEW i \in Job, ClientBegins(c, i), Ends(c)'
    PROVE  \E t \in Task : /\ t.id = i /\ TakeOut(t) /\ req'[c].id = i
                           /\ Continue(c, "cancelLookup", req'[c])
                           /\ UNCHANGED <<wpc, task, slot, queue>>
<1> USE DEF Begins, clientFrame, loopVars
<1>0. cpc \in [Client -> ClientStep] /\ req \in [Client -> Request \cup {None}]
  BY DEF TypeInv, TypeOK
<1>1. cpc'[c] \in {"cancelLookup", "cancelSignal", "cancelDelete"} BY DEF Ends
<1>2. CASE CancelRemove(c, i)
  <2>1. RemoveFromHeap(c, i, "cancelLookup", "cancelLookup")
        /\ UNCHANGED <<wpc, task, slot, queue>>
    BY <1>2 DEF CancelRemove
  <2>2. CASE ~InHeap(i) /\ UNCHANGED heap /\ Continue(c, "cancelLookup", NewRequest(i))
    <3>1. cpc'[c] = "cancelLookup" /\ req'[c] = NewRequest(i)
      BY <1>0, <2>2 DEF Continue
    <3> QED BY <3>1, NewRequestFields DEF Ends
  <2>3. CASE \E t \in Copies(i) :
             /\ TakeOut(t)
             /\ Continue(c, "cancelLookup",
                         [NewRequest(i) EXCEPT !.task = t, !.found = "heap"])
    <3> PICK t \in Copies(i) :
             /\ TakeOut(t)
             /\ Continue(c, "cancelLookup",
                         [NewRequest(i) EXCEPT !.task = t, !.found = "heap"])
      BY <2>3
    <3> DEFINE r == [NewRequest(i) EXCEPT !.task = t, !.found = "heap"]
    <3>1. r.id = i BY NewRequestFields
    <3>2. Continue(c, "cancelLookup", r) OBVIOUS
    <3> HIDE DEF r
    <3>3. req'[c] = r BY <1>0, <3>2 DEF Continue
    <3> QED BY <2>1, <3>1, <3>2, <3>3 DEF Copies
  <2> QED BY <2>1, <2>2, <2>3 DEF RemoveFromHeap
<1>3. CASE Submit(c, i) BY <1>0, <1>1, <1>3 DEF Submit, Continue
<1>4. CASE ResumeFind(c, i) BY <1>0, <1>1, <1>4 DEF ResumeFind, Continue
<1>5. CASE RetryFind(c, i) BY <1>0, <1>1, <1>5 DEF RetryFind, Continue
<1>6. CASE Pause(c, i) BY <1>0, <1>1, <1>6 DEF Pause, RemoveFromHeap, Continue, Finish
<1>7. CASE ForcePause(c, i)
  BY <1>0, <1>1, <1>7 DEF ForcePause, RemoveFromHeap, Continue
<1>8. CASE Update(c, i) BY <1>0, <1>1, <1>8 DEF Update, Continue
<1>9. CASE SetGroup(c, i) BY <1>0, <1>1, <1>9 DEF SetGroup, Continue
<1> QED BY <1>2, <1>3, <1>4, <1>5, <1>6, <1>7, <1>8, <1>9 DEF ClientBegins

LEMMA EndsGoesOn ==
    ASSUME TypeInv, NEW c \in Client, ClientGoesOn(c), Ends(c)'
    PROVE  /\ req'[c].id = req[c].id
           /\ \/ Ends(c)
              \/ cpc[c] = "cancelFind" /\ HasStatus(req[c].id, "paused")
<1> USE DEF At
<1>0. /\ cpc \in [Client -> ClientStep] /\ req \in [Client -> Request \cup {None}]
      /\ \A d \in Client : req[d] = None <=> cpc[d] = "idle"
  BY DEF TypeInv, TypeOK
<1>1. cpc'[c] \in {"cancelLookup", "cancelSignal", "cancelDelete"} BY DEF Ends
<1>2. CASE CancelLookup(c)
  <2>1. /\ cpc[c] = "cancelLookup" /\ req'[c] = req[c]
        /\ cpc'[c] \in {"cancelSignal", "cancelDelete"}
        /\ cpc'[c] = "cancelDelete" => req[c].found = "heap"
    BY <1>0, <1>1, <1>2 DEF CancelLookup, Continue
  <2>2. req[c].found = "heap" BY <2>1 DEF Ends
  <2> QED BY <2>1, <2>2 DEF Ends
<1>3. CASE CancelSignal(c)
  <2> DEFINE r == req[c]
  <2>1. cpc[c] = "cancelSignal" /\ r \in Request BY <1>0, <1>3 DEF CancelSignal
  <2> DEFINE f == IF r.found = "heap" THEN r.found ELSE "context"
  <2>2. req' = [req EXCEPT ![c] = [r EXCEPT !.found = f]]
        /\ cpc' = [cpc EXCEPT ![c] = "cancelDelete"]
    BY <1>3 DEF CancelSignal, Continue
  <2>3. req'[c] = [r EXCEPT !.found = f] /\ cpc'[c] = "cancelDelete" BY <1>0, <2>2
  <2>4. f \in Found /\ (f = "heap" => r.found = "heap") /\ f # "paused"
    BY <2>1 DEF Found, Request
  <2> HIDE DEF f
  <2>5. req'[c].id = req[c].id /\ req'[c].found = f BY <2>1, <2>3, <2>4, RequestFound
  <2>6. r.found = "heap" BY <2>3, <2>4, <2>5 DEF Ends
  <2> QED BY <2>1, <2>5, <2>6 DEF Ends
<1>4. CASE CancelFind(c)
  <2> DEFINE r == req[c]
  <2>1. cpc[c] = "cancelFind" /\ r \in Request BY <1>0, <1>4 DEF CancelFind
  <2>2. HasStatus(r.id, "paused") /\ req'[c] = [r EXCEPT !.found = "paused"]
    BY <1>0, <1>1, <1>4 DEF CancelFind, Continue, Finish
  <2>3. req'[c].id = r.id BY <2>1, <2>2, RequestFound DEF Found
  <2> QED BY <2>1, <2>2, <2>3
<1>5. CASE \/ ResumeCheck(c) \/ ScheduleSave(c) \/ SchedulePush(c)
           \/ CancelDelete(c) \/ PauseWrite(c) \/ ForceMark(c) \/ ForceFind(c)
           \/ ForceRead(c) \/ ForceWrite(c) \/ ForceSignal(c)
           \/ HeapUpdate(c) \/ UpdateWrite(c) \/ GroupGet(c) \/ GroupWrite(c)
  BY <1>0, <1>1, <1>5 DEF ResumeCheck, ScheduleSave, SchedulePush,
       CancelDelete, PauseWrite, ForceMark, ForceFind, ForceRead,
       ForceWrite, ForceSignal, HeapUpdate, UpdateWrite, GroupGet, GroupWrite,
       Continue, Finish
<1>6. CASE ForceFallback(c)
  BY <1>0, <1>1, <1>6 DEF ForceFallback, RemoveFromHeap, Continue, Finish
<1> QED BY <1>2, <1>3, <1>4, <1>5, <1>6 DEF ClientGoesOn

\* Only CancelDelete ends a job this way.
LEMMA WhoEnds ==
    ASSUME TypeInv, [Next]_vars, NEW j \in Job, Gone(j)', ~Gone(j)
    PROVE  \E c \in Client : CancelDelete(c) /\ Ends(c) /\ req[c].id = j
<1> USE DEF procVars, loopVars, workerVars, storeVars, clientVars, histVars
<1>0. cancelled \in [Job -> Found] BY DEF TypeInv, TypeOK
<1> SUFFICES ASSUME cancelled'[j] # cancelled[j]
             PROVE  \E c \in Client : CancelDelete(c) /\ Ends(c) /\ req[c].id = j
  BY DEF Gone
<1>1. CASE Process
  BY <1>1 DEF Process, Start, StopBegin, StopCancel, StopEnd, Exit, Crash, Flush,
       Suspend, Unsuspend, Gone
<1>2. CASE Loop
  BY <1>2 DEF Loop, LoopTop, LoopPop, LoopWait, LoopDispatch, LoopDrop, loopFrame
<1>3. CASE \E w \in Worker : WorkerStepOf(w)
  BY <1>3 DEF WorkerStepOf, WorkerExit, Receive, NoHandler, Register, SaveRunning,
       HandlerReturns, TakeForcedPause, CheckStop, Record, Resave, Repush, Leave,
       workerFrame
<1>4. ASSUME NEW c \in Client, ClientGoesOn(c)
      PROVE  CancelDelete(c) /\ Ends(c) /\ req[c].id = j
  <2>1. CancelDelete(c)
    BY <1>4 DEF ClientGoesOn, ResumeCheck, ScheduleSave, SchedulePush,
       CancelLookup, CancelSignal, CancelFind, PauseWrite,
       ForceMark, ForceFind, ForceFallback, ForceRead, ForceWrite, ForceSignal,
       HeapUpdate, UpdateWrite, GroupGet, GroupWrite
  <2> QED BY <1>0, <2>1 DEF CancelDelete, At, Ends, Gone
<1>5. CASE \E c \in Client : \E i \in Job : ClientBegins(c, i)
  BY <1>5 DEF ClientBegins, Submit, ResumeFind, RetryFind, CancelRemove, Pause,
       ForcePause, Update, SetGroup
<1>6. CASE UNCHANGED vars BY <1>6 DEF vars
<1> QED BY <1>1, <1>2, <1>3, <1>4, <1>5, <1>6 DEF Next

\* What a request takes out of the heap, nobody has then.
LEMMA TakenIsUnowned ==
    ASSUME OwnInv, NEW c \in Client, NEW t \in Task, NEW step, NEW r, TakeOut(t),
           Continue(c, step, r), step \notin Reserving,
           UNCHANGED <<wpc, task, slot, queue>>
    PROVE  Unowned(t.id)'
<1>0. /\ cpc \in [Client -> ClientStep] /\ req \in [Client -> Request \cup {None}]
      /\ heap \in [Task -> Nat] /\ Exclusive /\ t.id \in Job
  BY DEF OwnInv, TypeInv, TypeOK, Task
<1>1. \A u \in Task : u.id = t.id => heap'[u] = 0
  BY <1>0 DEF TakeOut, Exclusive, HeapOnce
<1>2. /\ slot # None => slot.id # t.id
      /\ \A i \in 1..Len(queue) : queue[i].id # t.id
      /\ \A w \in Worker : ~ExecutesJob(w, t.id)
      /\ \A d \in Client : ~CarriesJob(d, t.id)
  BY <1>0 DEF TakeOut, Exclusive, HeapSlot, HeapQueue, HeapWorker, HeapClient
<1>3. \A w \in Worker : ~ExecutesJob(w, t.id)' BY <1>2 DEF ExecutesJob
<1>4. \A d \in Client : ~CarriesJob(d, t.id)'
  BY <1>0, <1>2 DEF CarriesJob, Continue
<1> QED BY <1>1, <1>2, <1>3, <1>4 DEF Unowned

\* Nobody takes up what a request is about to cancel for good.
LEMMA NobodyReenters ==
    ASSUME CancelOrderly, CancelInv, NEW c \in Client, cpc[c] # "idle", NEW j \in Job
    PROVE  \A d \in Client : ~ResumeFind(d, j) /\ ~RetryFind(d, j)
BY DEF CancelOrderly, Alone, NoReentry, ResumeFind, RetryFind, Begins

LEMMA EndsStep ==
    ASSUME CancelOrderly, CancelInv, [Next]_vars
    PROVE  EndsUnowned'
<1> SUFFICES ASSUME NEW c \in Client, NEW j \in Job, Ends(c)', req'[c].id = j
             PROVE  Unowned(j)'
  BY DEF EndsUnowned
<1>0. /\ OwnInv /\ TypeInv /\ Known
      /\ cpc \in [Client -> ClientStep] /\ req \in [Client -> Request \cup {None}]
      /\ \A d \in Client : req[d] = None <=> cpc[d] = "idle"
  BY DEF CancelInv, OwnInv, TypeInv, TypeOK
<1>a. ASSUME cpc[c] # "idle"
      PROVE  req[c].id \in Job /\ req[c].id \in used
  BY <1>0, <1>a DEF Request, Known
\* The job was in the request's hands before.
<1>b. ASSUME Unowned(j), cpc[c] # "idle", req[c].id = j
      PROVE  Unowned(j)'
  <2>1. ~Start BY <1>b DEF Start
  <2>2. \A d \in Client : ~ResumeFind(d, j) /\ ~RetryFind(d, j)
    BY <1>b, NobodyReenters
  <2> QED BY <1>0, <1>a, <1>b, <2>1, <2>2, StaysUnowned
<1>1. CASE cpc'[c] = cpc[c] /\ req'[c] = req[c]
  <2>1. Ends(c) BY <1>1 DEF Ends
  <2> QED BY <1>1, <1>b, <2>1 DEF CancelInv, EndsUnowned, Ends
<1>2. CASE ClientGoesOn(c)
  <2>1. /\ req'[c].id = req[c].id
        /\ \/ Ends(c)
           \/ cpc[c] = "cancelFind" /\ HasStatus(req[c].id, "paused")
    BY <1>0, <1>2, EndsGoesOn
  <2>2. CASE Ends(c)
    BY <1>b, <2>1, <2>2 DEF CancelInv, EndsUnowned, Ends
  <2>3. CASE cpc[c] = "cancelFind" /\ HasStatus(req[c].id, "paused")
    <3>1. Idle(j) BY <2>1, <2>3 DEF CancelInv, Settled, HasStatus
    <3>2. \A d \in Client : ~CarriesJob(d, j)
      BY <2>1, <2>3, <3>1 DEF CancelInv, SavesFirst, CancelOrderly, Alone, CarriesJob,
           Reserving, Carrying, Idle, HasStatus
    <3>3. Unowned(j) BY <3>1, <3>2 DEF Idle, Unowned
    <3> QED BY <1>b, <2>1, <2>3, <3>3
  <2> QED BY <2>1, <2>2, <2>3
<1>3. CASE \E i \in Job : ClientBegins(c, i)
  <2> PICK i \in Job : ClientBegins(c, i) BY <1>3
  <2> PICK t \in Task : /\ t.id = i /\ TakeOut(t) /\ req'[c].id = i
                        /\ Continue(c, "cancelLookup", req'[c])
                        /\ UNCHANGED <<wpc, task, slot, queue>>
    BY <1>0, EndsBegins
  <2>1. Unowned(t.id)' BY <1>0, TakenIsUnowned DEF Reserving, Carrying
  <2> QED BY <2>1
<1>4. CASE cpc'[c] = "idle" BY <1>4 DEF Ends
<1> QED BY <1>0, <1>1, <1>2, <1>3, <1>4, ClientFrame

LEMMA UsedGrows == [Next]_vars => used \subseteq used'
<1> USE DEF procVars, loopVars, workerVars, storeVars, clientVars, histVars
<1> SUFFICES ASSUME [Next]_vars PROVE used \subseteq used'
  OBVIOUS
<1>1. CASE Process
  BY <1>1 DEF Process, Start, StopBegin, StopCancel, StopEnd, Exit, Crash, Flush,
       Suspend, Unsuspend
<1>2. CASE Loop
  BY <1>2 DEF Loop, LoopTop, LoopPop, LoopWait, LoopDispatch, LoopDrop, loopFrame
<1>3. CASE \E w \in Worker : WorkerStepOf(w)
  BY <1>3 DEF WorkerStepOf, WorkerExit, Receive, NoHandler, Register, SaveRunning,
       HandlerReturns, TakeForcedPause, CheckStop, Record, Resave, Repush, Leave,
       workerFrame
<1>4. CASE \E c \in Client : ClientGoesOn(c)
  BY <1>4 DEF ClientGoesOn, ResumeCheck, ScheduleSave, SchedulePush,
       CancelLookup, CancelSignal, CancelFind, CancelDelete, PauseWrite,
       ForceMark, ForceFind, ForceFallback, ForceRead, ForceWrite, ForceSignal,
       HeapUpdate, UpdateWrite, GroupGet, GroupWrite, clientFrame
<1>5. CASE \E c \in Client : \E i \in Job : ClientBegins(c, i)
  BY <1>5 DEF ClientBegins, Submit, ResumeFind, RetryFind, CancelRemove, Pause,
       ForcePause, Update, SetGroup, clientFrame
<1>6. CASE UNCHANGED vars BY <1>6 DEF vars
<1> QED BY <1>1, <1>2, <1>3, <1>4, <1>5, <1>6 DEF Next

\* A job that was cancelled for good is written by nobody.
LEMMA GoneStep ==
    ASSUME CancelOrderly, CancelInv, [Next]_vars
    PROVE  GoneStays'
<1> SUFFICES ASSUME NEW j \in Job, Gone(j)'
             PROVE  j \in used' /\ store'[j] = None /\ Unowned(j)'
  BY DEF GoneStays
<1>0. /\ OwnInv /\ TypeInv /\ Known /\ store \in [Job -> Snapshot \cup {None}]
      /\ cpc \in [Client -> ClientStep] /\ req \in [Client -> Request \cup {None}]
      /\ \A c \in Client : req[c] = None <=> cpc[c] = "idle"
  BY DEF CancelInv, OwnInv, TypeInv, TypeOK
<1>1. CASE Gone(j)
  <2>1. j \in used /\ store[j] = None /\ Unowned(j)
    BY <1>1 DEF CancelInv, GoneStays
  <2>2. ~Crash BY DEF Crash, Gone
  <2>3. \A w \in Worker : ~ExecutesJob(w, j) BY <2>1 DEF Unowned
  <2>4. \A c \in Client : ~ClientWritesJob(c, j)
    BY <1>1, <2>1 DEF Unowned, ClientWritesJob, WriterStep, CarriesJob, Reserving,
         Carrying, CancelInv, Calm, Overwriting, UpdatesKnown
  <2>5. store'[j] = None
    BY <1>0, <2>1, <2>2, <2>3, <2>4, WhoWrites DEF ClientDeletesJob, HasStatus
  <2>6. Unowned(j)'
    BY <1>0, <2>1, StaysUnowned DEF ResumeFind, RetryFind, HasStatus
  <2> QED BY <2>1, <2>5, <2>6, UsedGrows
<1>2. CASE ~Gone(j)
  <2> PICK c \in Client : CancelDelete(c) /\ Ends(c) /\ req[c].id = j
    BY <1>0, <1>2, WhoEnds
  <2>1. Unowned(j) BY DEF CancelInv, EndsUnowned
  <2>2. store'[j] = None BY <1>0 DEF CancelDelete
  <2>3. cpc[c] = "cancelDelete" /\ j \in used BY <1>0 DEF CancelDelete, At, Known
  <2>4. ~Start BY <2>3 DEF Start
  <2>5. \A d \in Client : ~ResumeFind(d, j) /\ ~RetryFind(d, j)
    BY <2>3, NobodyReenters
  <2>6. Unowned(j)' BY <1>0, <2>1, <2>3, <2>4, <2>5, StaysUnowned
  <2> QED BY <2>2, <2>3, <2>6, UsedGrows
<1> QED BY <1>1, <1>2

\* Without reentry a request that saves is one that submits: no snapshot yet.
LEMMA SavesStep ==
    ASSUME CancelOrderly, CancelInv, [Next]_vars
    PROVE  SavesFirst'
<1> SUFFICES ASSUME NoReentry, NEW c \in Client
             PROVE  /\ cpc'[c] # "resumeCheck"
                    /\ cpc'[c] = "save" => store'[req'[c].id] = None
  BY DEF SavesFirst
<1> USE DEF clientFrame, loopVars, procVars, storeVars
<1>0. /\ OwnInv /\ TypeInv /\ Known /\ store \in [Job -> Snapshot \cup {None}]
      /\ cpc \in [Client -> ClientStep] /\ req \in [Client -> Request \cup {None}]
      /\ Exclusive /\ \A d \in Client : req[d] = None <=> cpc[d] = "idle"
      /\ cpc[c] # "resumeCheck"
      /\ cpc[c] = "save" => store[req[c].id] = None
  BY DEF CancelInv, OwnInv, TypeInv, TypeOK, SavesFirst
<1>1. CASE cpc'[c] = cpc[c] /\ req'[c] = req[c]
  <2> SUFFICES ASSUME cpc[c] = "save", NEW j \in Job, req[c].id = j,
                      store'[j] # None
               PROVE  FALSE
    BY <1>0, <1>1 DEF Request
  <2>1. store'[j] # store[j] /\ CarriesJob(c, j)
    BY <1>0 DEF CarriesJob, Reserving, Carrying
  <2>2. \A w \in Worker : ~ExecutesJob(w, j)
    BY <1>0, <2>1 DEF Exclusive, WorkerClient
  <2>3. \A d \in Client : ~ClientDeletesJob(d, j) BY DEF ClientDeletesJob
  <2>4. \A d \in Client : ~ClientWritesJob(d, j)
    <3> SUFFICES ASSUME NEW d \in Client, ClientWritesJob(d, j) PROVE FALSE
      OBVIOUS
    <3>1. d # c BY <1>1 DEF ClientWritesJob
    <3>2. cpc[d] \notin {"save", "pauseWrite"}
      BY <1>0, <2>1, <3>1 DEF ClientWritesJob, Exclusive, ClientOnce, CarriesJob,
           Reserving, Carrying
    <3>3. cpc[d] \notin {"forceWrite", "groupWrite"}
      BY DEF CancelInv, Calm, Overwriting
    <3>4. cpc[d] = "updateWrite"
      BY <3>2, <3>3 DEF ClientWritesJob, WriterStep
    <3>5. "update" \in Operations
      BY <3>4 DEF ClientWritesJob, CancelInv, UpdatesKnown
    <3> QED BY <3>1, <3>5 DEF CancelOrderly, Alone
  <2>5. ~Start /\ ~Crash
    BY <1>1 DEF Start, Crash, LoseVolatile
  <2> QED BY <1>0, <2>1, <2>2, <2>3, <2>4, <2>5, WhoWrites
<1>2. CASE ClientGoesOn(c)
  BY <1>0, <1>2 DEF ClientGoesOn, ResumeCheck, ScheduleSave, SchedulePush,
       CancelLookup, CancelSignal, CancelFind, CancelDelete, PauseWrite,
       ForceMark, ForceFind, ForceFallback, ForceRead, ForceWrite, ForceSignal,
       HeapUpdate, UpdateWrite, GroupGet, GroupWrite, RemoveFromHeap, Continue,
       Finish, At
<1>3. CASE \E j \in Job : ClientBegins(c, j)
  <2> PICK j \in Job : ClientBegins(c, j) BY <1>3
  <2>1. CASE Submit(c, j)
    <3>1. PICK repeat \in IF j \in CronJob THEN BOOLEAN ELSE {FALSE} :
              Continue(c, "save", [NewRequest(j) EXCEPT
                 !.task = [id |-> j, retry |-> 0, cron |-> repeat]])
      BY <2>1 DEF Submit
    <3> DEFINE r == [NewRequest(j) EXCEPT
                 !.task = [id |-> j, retry |-> 0, cron |-> repeat]]
    <3>2. r.id = j BY DEF NewRequest
    <3>3. Continue(c, "save", r) BY <3>1
    <3> HIDE DEF r
    <3>4. cpc'[c] = "save" /\ req'[c].id = j BY <1>0, <3>2, <3>3 DEF Continue
    <3>5. store'[j] = None BY <1>0, <2>1 DEF Submit, Known
    <3> QED BY <3>4, <3>5
  <2>2. CASE CancelRemove(c, j) \/ Pause(c, j) \/ ForcePause(c, j)
             \/ Update(c, j) \/ SetGroup(c, j)
    BY <1>0, <2>2 DEF CancelRemove, Pause, ForcePause, Update, SetGroup,
         RemoveFromHeap, Continue, Finish
  <2> QED BY <2>1, <2>2 DEF ClientBegins, ResumeFind, RetryFind, Begins, NoReentry
<1>4. CASE cpc'[c] = "idle" BY <1>4
<1> QED BY <1>0, <1>1, <1>2, <1>3, <1>4, ClientFrame

\* No update is under way for a job that was cancelled for good.
LEMMA UpdatesStep ==
    ASSUME CancelOrderly, CancelInv, [Next]_vars
    PROVE  UpdatesKnown'
<1> SUFFICES ASSUME NEW c \in Client, NEW j \in Job, req'[c].id = j,
                    cpc'[c] \in {"heapUpdate", "updateWrite"}
             PROVE  "update" \in Operations /\ ~Gone(j)'
  BY DEF UpdatesKnown
<1> USE DEF At, Begins
<1>0. /\ TypeInv /\ cpc \in [Client -> ClientStep]
      /\ req \in [Client -> Request \cup {None}] /\ heap \in [Task -> Nat]
      /\ cpc[c] \notin Overwriting
  BY DEF CancelInv, OwnInv, TypeInv, TypeOK, Calm
\* With the update under way, no other request can end its job.
<1>a. ASSUME "update" \in Operations, ~Gone(j), ~CancelDelete(c)
      PROVE  ~Gone(j)'
  BY <1>0, <1>a, WhoEnds DEF CancelOrderly, Alone
<1>1. CASE cpc'[c] = cpc[c] /\ req'[c] = req[c]
  <2>1. ~CancelDelete(c) BY <1>1 DEF CancelDelete
  <2> QED BY <1>1, <1>a, <2>1 DEF CancelInv, UpdatesKnown
<1>2. CASE ClientGoesOn(c)
  <2>1. HeapUpdate(c) /\ cpc'[c] = "updateWrite"
    BY <1>0, <1>2 DEF ClientGoesOn, ResumeCheck, ScheduleSave, SchedulePush,
       CancelLookup, CancelSignal, CancelFind, CancelDelete, PauseWrite,
       ForceMark, ForceFind, ForceFallback, ForceRead, ForceWrite, ForceSignal,
       HeapUpdate, UpdateWrite, GroupGet, GroupWrite, Continue, Finish, Overwriting
  <2>2. cpc[c] = "heapUpdate" /\ req'[c] = req[c]
    BY <1>0, <2>1 DEF HeapUpdate, Continue, Finish
  <2>3. ~CancelDelete(c) BY <2>2 DEF CancelDelete
  <2> QED BY <1>a, <2>2, <2>3 DEF CancelInv, UpdatesKnown
<1>3. CASE \E i \in Job : ClientBegins(c, i)
  <2> PICK i \in Job : ClientBegins(c, i) BY <1>3
  <2>1. Update(c, i)
    BY <1>0 DEF ClientBegins, Submit, ResumeFind, RetryFind, CancelRemove,
       Pause, ForcePause, SetGroup, RemoveFromHeap, Continue, Finish
  <2> PICK t \in Copies(i) :
           Continue(c, "heapUpdate", [NewRequest(i) EXCEPT !.task = t])
    BY <2>1 DEF Update
  <2> DEFINE r == [NewRequest(i) EXCEPT !.task = t]
  <2>2. r.id = i BY DEF NewRequest
  <2>3. Continue(c, "heapUpdate", r) OBVIOUS
  <2> HIDE DEF r
  <2>4. i = j BY <1>0, <2>2, <2>3 DEF Continue
  <2>5. ~Unowned(j) BY <2>4 DEF Unowned, Copies
  <2>6. "update" \in Operations /\ ~CancelDelete(c)
    BY <2>1 DEF Update, CancelDelete
  <2> QED BY <1>a, <2>5, <2>6 DEF CancelInv, GoneStays
<1>4. CASE cpc'[c] = "idle" BY <1>4
<1> QED BY <1>0, <1>1, <1>2, <1>3, <1>4, ClientFrame

\* CancelledPendingIsGone: a job cancelled while it waited, in the heap or
\* paused, comes back by no interleaving that CancelOrderly allows; restarts
\* included.
THEOREM CancelIsFinal ==
    ASSUME CancelOrderly
    PROVE  Spec => []CancelledPendingIsGone
<1>1. Init => CancelInv
  <2> SUFFICES ASSUME Init PROVE CancelInv
    OBVIOUS
  <2>1. GoneStays /\ EndsUnowned /\ SavesFirst /\ UpdatesKnown
    BY DEF Init, GoneStays, EndsUnowned, SavesFirst, UpdatesKnown, Gone, Ends
  <2> QED BY <2>1, InitSettles DEF CancelInv
<1>2. CancelInv /\ [Next]_vars => CancelInv'
  <2>1. Orderly BY DEF CancelOrderly, Orderly
  <2> QED BY <2>1, StepSettles, GoneStep, EndsStep, SavesStep, UpdatesStep
          DEF CancelInv
<1> QED BY <1>1, <1>2, GoneIsGone, PTL DEF Spec
------------------------------------------------------------------------------
(* Nothing that was accepted is forgotten while the scheduler is up.       *)

\* None of the operations that end a job, or interrupt it, from outside.
Gentle == Operations \cap {"cancel", "forcePause", "update", "setGroup",
                           "innerCancel"} = {}

Unfinished(j) == store[j] # None /\ store[j].status \in {"pending", "running"}

\* Owned, with the places spelled out.
Held(j) ==
    \/ \E t \in Task : t.id = j /\ heap[t] > 0
    \/ slot # None /\ slot.id = j
    \/ \E i \in 1..Len(queue) : queue[i].id = j
    \/ \E w \in Worker : ExecutesJob(w, j)
    \/ \E c \in Client : cpc[c] \in Carrying /\ req[c].id = j

Active == {"registered", "handler", "settle", "park", "checkStop", "record",
           "resave", "repush", "leave"}

Registered == \A j \in Job : cancelMap[j] # None =>
    wpc[cancelMap[j]] \in Active /\ task[cancelMap[j]].id = j
StopsActive == \A w \in stopCancels : wpc[w] \in Active
BeginsClean == \A w \in Worker :
    wpc[w] \notin Active => ~ctxDone[w] /\ outcome[w] = "none"
Quiet == phase = "up" => \A w \in Worker :
    ~ctxDone[w] /\ outcome[w] # "interrupted" /\ wpc[w] # "checkStop"
GentleClients == forcedPause = {} /\ \A c \in Client :
    cpc[c] \in {"idle", "resumeCheck", "save", "push", "pauseWrite"}
NoneForgotten == phase = "up" => \A j \in Job : Unfinished(j) => Held(j)

QuietInv == TypeInv /\ Registered /\ StopsActive /\ BeginsClean /\ Quiet
            /\ GentleClients

LEMMA HeldIsOwned ==
    ASSUME NEW j \in Job, TypeInv, Held(j)
    PROVE  Owned(j)
<1>1. Has("heap", j) <=> \E t \in Task : t.id = j /\ heap[t] > 0
  BY DEF Has, InHeap, Copies
<1>2. Has("slot", j) <=> slot # None /\ slot.id = j BY DEF Has
<1>3. Has("queue", j) <=> \E i \in 1..Len(queue) : queue[i].id = j BY DEF Has
<1>4. Has("worker", j) <=> \E w \in Worker : ExecutesJob(w, j)
  BY DEF Has, ExecutesJob
<1>5. Has("client", j) <=> \E c \in Client : cpc[c] \in Carrying /\ req[c].id = j
  BY DEF Has
<1> QED BY <1>1, <1>2, <1>3, <1>4, <1>5 DEF Held, Owned, Place

LEMMA QuietLoop ==
    ASSUME QuietInv, Loop
    PROVE  Registered' /\ StopsActive' /\ BeginsClean' /\ Quiet' /\ GentleClients'
<1>1. UNCHANGED <<phase, wpc, task, outcome, ctxDone, cancelMap, forcedPause, cpc,
                  stopCancels>>
  BY DEF Loop, LoopTop, LoopPop, LoopWait, LoopDispatch, LoopDrop, loopFrame,
         workerVars, clientVars, procVars
<1> QED BY <1>1 DEF QuietInv, Registered, StopsActive, BeginsClean, Quiet, GentleClients

LEMMA QuietWorker ==
    ASSUME QuietInv, Gentle, NEW w \in Worker, WorkerStepOf(w)
    PROVE  Registered' /\ StopsActive' /\ BeginsClean' /\ Quiet' /\ GentleClients'
<1> USE DEF workerFrame, procVars, storeVars, clientVars, histVars, loopVars, Goto
<1>0. /\ wpc \in [Worker -> WorkerStep] /\ task \in [Worker -> Task \cup {None}]
      /\ outcome \in [Worker -> Outcome] /\ ctxDone \in [Worker -> BOOLEAN]
      /\ cancelMap \in [Job -> Worker \cup {None}] /\ stopCancels \subseteq Worker
      /\ task[w] = None <=> wpc[w] \in {"exit", "idle"}
      /\ Registered /\ StopsActive /\ BeginsClean /\ Quiet /\ GentleClients
  BY DEF QuietInv, TypeInv, TypeOK
<1>1. GentleClients'
  <2>1. cpc' = cpc /\ forcedPause' \subseteq forcedPause
    BY DEF WorkerStepOf, WorkerExit, Receive, NoHandler, Register, SaveRunning,
       HandlerReturns, TakeForcedPause, CheckStop, Record, Resave, Repush, Leave
  <2> QED BY <1>0, <2>1 DEF GentleClients
\* A step that registers nothing, and returns from no handler.
<1>2. ASSUME UNCHANGED <<phase, outcome, ctxDone, cancelMap, stopCancels>>,
             NEW step, wpc' = [wpc EXCEPT ![w] = step],
             step \in Active <=> wpc[w] \in Active, step # "checkStop" \/ phase # "up",
             NEW t, task' = [task EXCEPT ![w] = t],
             wpc[w] \in Active => t.id = task[w].id
      PROVE  Registered' /\ StopsActive' /\ BeginsClean' /\ Quiet'
  <2>1. Registered' BY <1>0, <1>2 DEF Registered
  <2>2. StopsActive' BY <1>0, <1>2 DEF StopsActive
  <2>3. BeginsClean' BY <1>0, <1>2 DEF BeginsClean
  <2>4. Quiet' BY <1>0, <1>2 DEF Quiet
  <2> QED BY <2>1, <2>2, <2>3, <2>4
<1>3. task = [task EXCEPT ![w] = task[w]] BY <1>0
<1>4. CASE WorkerExit(w)
  BY <1>1, <1>2, <1>3, <1>4 DEF WorkerExit, Active
<1>5. CASE Receive(w)
  <2>1. "claimed" \notin Active /\ wpc[w] \notin Active /\ "claimed" # "checkStop"
    BY <1>5 DEF Receive, Active
  <2> QED BY <1>1, <1>2, <1>5, <2>1 DEF Receive
<1>6. CASE NoHandler(w)
  <2>1. "idle" \notin Active /\ wpc[w] \notin Active /\ "idle" # "checkStop"
    BY <1>6 DEF NoHandler, Active
  <2> QED BY <1>1, <1>2, <1>6, <2>1 DEF NoHandler
<1>7. CASE Register(w)
  <2>1. /\ wpc[w] = "claimed" /\ wpc' = [wpc EXCEPT ![w] = "registered"]
        /\ cancelMap' = [cancelMap EXCEPT ![task[w].id] = w]
        /\ ctxDone' = [ctxDone EXCEPT ![w] = phase # "up"]
        /\ UNCHANGED <<phase, task, outcome, stopCancels>>
    BY <1>7 DEF Register
  <2>2. wpc[w] \notin Active /\ "registered" \in Active BY <2>1 DEF Active
  <2>3. task[w] \in Task /\ task[w].id \in Job BY <1>0, <2>1 DEF Task
  <2>4. Registered' BY <1>0, <2>1, <2>2, <2>3 DEF Registered
  <2>5. StopsActive' BY <1>0, <2>1, <2>2 DEF StopsActive
  <2>6. BeginsClean' BY <1>0, <2>1, <2>2 DEF BeginsClean
  <2>7. Quiet' BY <1>0, <2>1 DEF Quiet
  <2> QED BY <1>1, <2>4, <2>5, <2>6, <2>7
<1>8. CASE SaveRunning(w) \/ Record(w) \/ Repush(w)
  BY <1>1, <1>2, <1>3, <1>8 DEF SaveRunning, Record, Repush, Active
<1>9. CASE \E result \in {"success", "failed", "permanent", "interrupted"} :
              HandlerReturns(w, result)
  <2> PICK result \in {"success", "failed", "permanent", "interrupted"} :
           HandlerReturns(w, result)
    BY <1>9
  <2> DEFINE o == IF result # "success" /\ ctxDone[w] THEN "interrupted" ELSE result
  <2>1. /\ wpc[w] = "handler" /\ wpc' = [wpc EXCEPT ![w] = "settle"]
        /\ outcome' = [outcome EXCEPT ![w] = o]
        /\ UNCHANGED <<phase, task, ctxDone, cancelMap, stopCancels>>
    BY DEF HandlerReturns
  <2>2. o = "interrupted" => ctxDone[w]
    BY DEF HandlerReturns, Gentle
  <2>3. wpc[w] \in Active /\ "settle" \in Active BY <2>1 DEF Active
  <2> HIDE DEF o
  <2>4. Registered' BY <1>0, <2>1, <2>3 DEF Registered
  <2>5. StopsActive' BY <1>0, <2>1, <2>3 DEF StopsActive
  <2>6. BeginsClean' BY <1>0, <2>1, <2>3 DEF BeginsClean
  <2>7. Quiet' BY <1>0, <2>1, <2>2 DEF Quiet
  <2> QED BY <1>1, <2>4, <2>5, <2>6, <2>7
<1>10. CASE TakeForcedPause(w)
  <2> PICK step \in {"park", "checkStop", "resave", "record"} :
           /\ wpc' = [wpc EXCEPT ![w] = step]
           /\ step = "checkStop" => outcome[w] = "interrupted"
    BY <1>10 DEF TakeForcedPause
  <2>1. step \in Active /\ wpc[w] \in Active BY <1>10 DEF TakeForcedPause, Active
  <2>2. step # "checkStop" \/ phase # "up" BY <1>0 DEF Quiet
  <2> QED BY <1>1, <1>2, <1>3, <1>10, <2>1, <2>2 DEF TakeForcedPause
<1>11. CASE CheckStop(w)
  <2> PICK step \in {"leave", "record"} : wpc' = [wpc EXCEPT ![w] = step]
    BY <1>11 DEF CheckStop
  <2>1. step \in Active /\ wpc[w] \in Active /\ step # "checkStop"
    BY <1>11 DEF CheckStop, Active
  <2> QED BY <1>1, <1>2, <1>3, <1>11, <2>1 DEF CheckStop
<1>12. CASE Resave(w)
  <2> DEFINE next == NextTask(task[w], outcome[w])
  <2>1. /\ wpc[w] = "resave" /\ wpc' = [wpc EXCEPT ![w] = "repush"]
        /\ task' = [task EXCEPT ![w] = next]
        /\ UNCHANGED <<phase, outcome, ctxDone, cancelMap, stopCancels>>
    BY <1>12 DEF Resave
  <2>2. next.id = task[w].id
    BY <1>0, <2>1, NextTaskType DEF QuietInv, TypeInv, WorkerOK
  <2>3. "repush" \in Active /\ wpc[w] \in Active /\ "repush" # "checkStop"
    BY <2>1 DEF Active
  <2> HIDE DEF next
  <2> QED BY <1>1, <1>2, <2>1, <2>2, <2>3
<1>13. CASE Leave(w)
  <2>1. /\ wpc[w] = "leave" /\ wpc' = [wpc EXCEPT ![w] = "idle"]
        /\ cancelMap' = [cancelMap EXCEPT ![task[w].id] = None]
        /\ ctxDone' = [ctxDone EXCEPT ![w] = FALSE]
        /\ outcome' = [outcome EXCEPT ![w] = "none"]
        /\ task' = [task EXCEPT ![w] = None]
        /\ stopCancels' = stopCancels \ {w} /\ UNCHANGED phase
    BY <1>13 DEF Leave
  <2>2. Registered' BY <1>0, <2>1 DEF Registered
  <2>3. StopsActive' BY <1>0, <2>1 DEF StopsActive
  <2>4. BeginsClean' BY <1>0, <2>1 DEF BeginsClean
  <2>5. Quiet' BY <1>0, <2>1 DEF Quiet
  <2> QED BY <1>1, <2>2, <2>3, <2>4, <2>5
<1> QED BY <1>4, <1>5, <1>6, <1>7, <1>8, <1>9, <1>10, <1>11, <1>12, <1>13
        DEF WorkerStepOf

LEMMA QuietClient ==
    ASSUME QuietInv, Gentle, NEW c \in Client,
           ClientGoesOn(c) \/ \E j \in Job : ClientBegins(c, j)
    PROVE  Registered' /\ StopsActive' /\ BeginsClean' /\ Quiet' /\ GentleClients'
<1> USE DEF clientFrame, loopVars, procVars, storeVars, At
<1>0. /\ cpc \in [Client -> ClientStep] /\ req \in [Client -> Request \cup {None}]
      /\ GentleClients
  BY DEF QuietInv, TypeInv, TypeOK
<1>1. /\ UNCHANGED <<phase, wpc, task, outcome, ctxDone, cancelMap, forcedPause,
                     stopCancels>>
      /\ \E step \in {"idle", "resumeCheck", "save", "push", "pauseWrite"} : \E r :
            Continue(c, step, r)
  <2>1. CASE ClientGoesOn(c)
    <3>1. ResumeCheck(c) \/ ScheduleSave(c) \/ SchedulePush(c) \/ PauseWrite(c)
      BY <1>0, <2>1 DEF GentleClients, ClientGoesOn, CancelLookup, CancelSignal,
           CancelFind, CancelDelete, ForceMark, ForceFind, ForceFallback,
           ForceRead, ForceWrite, ForceSignal, HeapUpdate, UpdateWrite,
           GroupGet, GroupWrite
    <3> QED BY <3>1 DEF ResumeCheck, ScheduleSave, SchedulePush, PauseWrite, Finish
  <2>2. CASE \E j \in Job : ClientBegins(c, j)
    <3> PICK j \in Job : ClientBegins(c, j) BY <2>2
    <3>1. Submit(c, j) \/ ResumeFind(c, j) \/ RetryFind(c, j) \/ Pause(c, j)
      BY DEF ClientBegins, CancelRemove, ForcePause, Update, SetGroup, Begins, Gentle
    <3>2. CASE Submit(c, j)
      <4> PICK r : Continue(c, "save", r) BY <3>2 DEF Submit
      <4> QED BY <3>2 DEF Submit
    <3>3. CASE ResumeFind(c, j)
      <4> PICK r : Continue(c, "resumeCheck", r) BY <3>3 DEF ResumeFind
      <4> QED BY <3>3 DEF ResumeFind
    <3>4. CASE RetryFind(c, j)
      <4> PICK r : Continue(c, "save", r) BY <3>4 DEF RetryFind
      <4> QED BY <3>4 DEF RetryFind
    <3>5. CASE Pause(c, j)
      <4>1. RemoveFromHeap(c, j, "pauseWrite", "idle") BY <3>5 DEF Pause
      <4>2. CASE ~InHeap(j) /\ Finish(c) BY <3>5, <4>2 DEF Pause, Finish
      <4>3. CASE \E t \in Copies(j) : Continue(c, "pauseWrite",
                     [NewRequest(j) EXCEPT !.task = t, !.found = "heap"])
        <5> PICK r : Continue(c, "pauseWrite", r) BY <4>3
        <5> QED BY <3>5 DEF Pause
      <4> QED BY <4>1, <4>2, <4>3 DEF RemoveFromHeap
    <3> QED BY <3>1, <3>2, <3>3, <3>4, <3>5
  <2> QED BY <2>1, <2>2
<1>2. GentleClients' BY <1>0, <1>1 DEF GentleClients, Continue
<1> QED BY <1>1, <1>2 DEF QuietInv, Registered, StopsActive, BeginsClean, Quiet

LEMMA QuietProcess ==
    ASSUME QuietInv, Process
    PROVE  Registered' /\ StopsActive' /\ BeginsClean' /\ Quiet' /\ GentleClients'
<1> USE DEF procVars, loopVars, workerVars, storeVars, clientVars, histVars
<1>0. /\ wpc \in [Worker -> WorkerStep] /\ ctxDone \in [Worker -> BOOLEAN]
      /\ cancelMap \in [Job -> Worker \cup {None}]
      /\ phase \in {"off", "down"} => \A w \in Worker : wpc[w] = "exit"
      /\ Registered /\ StopsActive /\ BeginsClean /\ Quiet /\ GentleClients
  BY DEF QuietInv, TypeInv, TypeOK, PhaseOK
<1>1. CASE Start
  <2>1. /\ \A w \in Worker : wpc[w] = "exit"
        /\ \A w \in Worker : wpc'[w] = "idle"
        /\ UNCHANGED <<outcome, ctxDone, cancelMap, forcedPause, cpc, stopCancels, task>>
    BY <1>0, <1>1 DEF Start
  <2>2. "exit" \notin Active /\ "idle" \notin Active BY DEF Active
  <2>3. Registered' BY <1>0, <2>1, <2>2 DEF Registered
  <2>4. StopsActive'
    <3>1. stopCancels = {} BY <1>0, <2>1, <2>2 DEF StopsActive, QuietInv, TypeInv, TypeOK
    <3> QED BY <2>1, <3>1 DEF StopsActive
  <2>5. BeginsClean' BY <1>0, <2>1, <2>2 DEF BeginsClean
  <2>6. Quiet' BY <1>0, <2>1, <2>2 DEF BeginsClean, Quiet
  <2>7. GentleClients' BY <1>0, <2>1 DEF GentleClients
  <2> QED BY <2>3, <2>4, <2>5, <2>6, <2>7
<1>2. CASE StopBegin
  <2>1. /\ phase' = "stopping" /\ stopCancels' = {cancelMap[j] : j \in Job} \ {None}
        /\ UNCHANGED <<wpc, task, outcome, ctxDone, cancelMap, forcedPause, cpc>>
    BY <1>2 DEF StopBegin
  <2> QED BY <1>0, <2>1 DEF Registered, StopsActive, BeginsClean, Quiet, GentleClients
<1>3. CASE \E w \in Worker : StopCancel(w)
  <2> PICK w \in Worker : StopCancel(w) BY <1>3
  <2>1. /\ phase = "stopping" /\ phase' = phase /\ w \in stopCancels
        /\ stopCancels' = stopCancels \ {w} /\ ctxDone' = [ctxDone EXCEPT ![w] = TRUE]
        /\ UNCHANGED <<wpc, task, outcome, cancelMap, forcedPause, cpc>>
    BY DEF StopCancel
  <2>2. wpc[w] \in Active BY <1>0, <2>1 DEF StopsActive
  <2>3. Registered' BY <1>0, <2>1 DEF Registered
  <2>4. StopsActive' BY <1>0, <2>1 DEF StopsActive
  <2>5. BeginsClean' BY <1>0, <2>1, <2>2 DEF BeginsClean
  <2>6. Quiet' /\ GentleClients' BY <1>0, <2>1 DEF Quiet, GentleClients
  <2> QED BY <2>3, <2>4, <2>5, <2>6
<1>4. CASE Exit \/ Crash
  <2>1. LoseVolatile BY <1>4 DEF Exit, Crash
  <2> QED BY <2>1 DEF LoseVolatile, Registered, StopsActive, BeginsClean, Quiet,
                      GentleClients
<1>5. CASE StopEnd \/ Flush \/ Suspend \/ Unsuspend
  <2>1. /\ UNCHANGED <<wpc, task, outcome, ctxDone, cancelMap, forcedPause, cpc,
                      stopCancels>>
        /\ phase' = "up" => phase = "up"
    BY <1>5 DEF StopEnd, Flush, Suspend, Unsuspend
  <2> QED BY <1>0, <2>1 DEF Registered, StopsActive, BeginsClean, Quiet, GentleClients
<1> QED BY <1>1, <1>2, <1>3, <1>4, <1>5 DEF Process

LEMMA QuietStep == Gentle /\ QuietInv /\ [Next]_vars => QuietInv'
<1> SUFFICES ASSUME Gentle, QuietInv, [Next]_vars PROVE QuietInv'
  OBVIOUS
<1>1. TypeInv' BY TypeStep DEF QuietInv
<1> SUFFICES Registered' /\ StopsActive' /\ BeginsClean' /\ Quiet' /\ GentleClients'
  BY <1>1 DEF QuietInv
<1>2. CASE Process BY <1>2, QuietProcess
<1>3. CASE Loop BY <1>3, QuietLoop
<1>4. CASE \E w \in Worker : WorkerStepOf(w) BY <1>4, QuietWorker
<1>5. CASE \E c \in Client : ClientGoesOn(c) \/ \E j \in Job : ClientBegins(c, j)
  BY <1>5, QuietClient
<1>6. CASE UNCHANGED vars
  BY <1>6 DEF vars, procVars, workerVars, clientVars, QuietInv, Registered,
       StopsActive, BeginsClean, Quiet, GentleClients
<1> QED BY <1>2, <1>3, <1>4, <1>5, <1>6 DEF Next

LEMMA HeldLoop ==
    ASSUME TypeInv, Loop, phase = "up", NEW j \in Job, Held(j)
    PROVE  Held(j)'
<1>1. UNCHANGED <<phase, wpc, task, cpc, req>>
  BY DEF Loop, LoopTop, LoopPop, LoopWait, LoopDispatch, LoopDrop, loopFrame,
         workerVars, clientVars, procVars
<1>2. heap \in [Task -> Nat] /\ queue \in Seq(Task) /\ slot \in Task \cup {None}
      /\ (loop = "dispatch" <=> slot # None)
  BY DEF TypeInv, TypeOK
<1>3. CASE LoopTop \/ LoopWait
  BY <1>1, <1>3 DEF LoopTop, LoopWait, Held, ExecutesJob
<1>4. CASE LoopPop
  <2> PICK t \in Task : heap[t] > 0 /\ heap' = [heap EXCEPT ![t] = @ - 1]
                        /\ slot' = t /\ slot = None /\ queue' = queue
    BY <1>2, <1>4 DEF LoopPop, TakeOut
  <2>1. CASE t.id = j
    <3>1. slot' = t /\ t # None BY ConstantsAssumption DEF Task
    <3> QED BY <2>1, <3>1 DEF Held
  <2>2. CASE t.id # j
    <3>1. \A u \in Task : u.id = j => heap'[u] = heap[u] BY <1>2, <2>2
    <3> QED BY <1>1, <3>1 DEF Held, ExecutesJob
  <2> QED BY <2>1, <2>2
<1>5. CASE LoopDispatch
  <2>1. queue' = Append(queue, slot) /\ slot \in Task /\ heap' = heap
    BY <1>2, <1>5 DEF LoopDispatch
  <2>2. /\ Len(queue') = Len(queue) + 1 /\ queue'[Len(queue) + 1] = slot
        /\ \A i \in 1..Len(queue) : queue'[i] = queue[i]
    BY <1>2, <2>1
  <2>3. \A i \in 1..Len(queue) : i \in 1..Len(queue') BY <1>2, <2>2
  <2>4. Len(queue) + 1 \in 1..Len(queue') BY <1>2, <2>2
  <2> QED BY <1>1, <2>1, <2>2, <2>3, <2>4 DEF Held, ExecutesJob
<1>6. CASE LoopDrop BY <1>6 DEF LoopDrop
<1> QED BY <1>3, <1>4, <1>5, <1>6 DEF Loop

\* An execution keeps its job, or has just written that it is settled.
LEMMA HeldWorker ==
    ASSUME QuietInv, NEW w \in Worker, WorkerStepOf(w), phase = "up",
           \A j \in Job : Unfinished(j) => Held(j),
           NEW j \in Job, Unfinished(j)'
    PROVE  Held(j)'
<1> USE DEF workerFrame, procVars, storeVars, clientVars, histVars, loopVars, Goto
<1>0. /\ wpc \in [Worker -> WorkerStep] /\ task \in [Worker -> Task \cup {None}]
      /\ outcome \in [Worker -> Outcome] /\ heap \in [Task -> Nat]
      /\ queue \in Seq(Task) /\ store \in [Job -> Snapshot \cup {None}]
      /\ task[w] = None <=> wpc[w] \in {"exit", "idle"}
  BY DEF QuietInv, TypeInv, TypeOK
<1>a. cpc' = cpc /\ req' = req /\ slot' = slot
  BY DEF WorkerStepOf, WorkerExit, Receive, NoHandler, Register, SaveRunning,
         HandlerReturns, TakeForcedPause, CheckStop, Record, Resave, Repush, Leave
\* Nothing but the execution of w changes.
<1>b. ASSUME Unfinished(j), heap' = heap, queue' = queue,
             \A v \in Worker : v # w => wpc'[v] = wpc[v] /\ task'[v] = task[v],
             ExecutesJob(w, j) => ExecutesJob(w, j)'
      PROVE  Held(j)'
  <2>1. Held(j) BY <1>b
  <2>2. \A v \in Worker : ExecutesJob(v, j) => ExecutesJob(v, j)'
    BY <1>b DEF ExecutesJob
  <2> QED BY <1>a, <1>b, <2>1, <2>2 DEF Held
<1>c. ASSUME wpc[w] \in Executing
      PROVE  task[w] \in Task /\ task[w].id \in Job
  BY <1>0, <1>c DEF Executing, Task
<1>1. CASE \/ WorkerExit(w) \/ Register(w) \/ CheckStop(w) \/ TakeForcedPause(w)
           \/ \E result \in {"success", "failed", "permanent", "interrupted"} :
                 HandlerReturns(w, result)
  <2>1. /\ store' = store /\ heap' = heap /\ queue' = queue /\ task' = task
        /\ \A v \in Worker : v # w => wpc'[v] = wpc[v]
    BY <1>0, <1>1 DEF WorkerExit, Register, CheckStop, TakeForcedPause, HandlerReturns
  <2>2. wpc[w] \in Executing => wpc'[w] \in Executing
    BY <1>0, <1>1 DEF WorkerExit, Register, CheckStop, TakeForcedPause,
         HandlerReturns, Executing, QuietInv, Quiet
  <2>3. Unfinished(j) BY <2>1 DEF Unfinished
  <2> QED BY <1>b, <2>1, <2>2, <2>3 DEF ExecutesJob
<1>2. CASE Receive(w)
  <2>1. queue # <<>> /\ queue' = Tail(queue) /\ task' = [task EXCEPT ![w] = Head(queue)]
        /\ wpc' = [wpc EXCEPT ![w] = "claimed"] /\ wpc[w] = "idle"
        /\ UNCHANGED <<heap, slot, store>>
    BY <1>2 DEF Receive
  <2>2. Held(j) BY <2>1 DEF Unfinished
  <2>3. Head(queue) = queue[1] /\ Len(queue') = Len(queue) - 1 BY <1>0, <2>1
  <2>4. \A i \in 1..Len(queue) :
           i = 1 \/ (i - 1 \in 1..Len(queue') /\ queue'[i-1] = queue[i])
    BY <1>0, <2>1, <2>3
  <2>5. queue[1].id = j => ExecutesJob(w, j)'
    BY <1>0, <2>1, <2>3 DEF ExecutesJob, Executing
  <2>6. \A v \in Worker : ExecutesJob(v, j) => ExecutesJob(v, j)'
    BY <1>0, <2>1 DEF ExecutesJob, Executing
  <2>7. (\E i \in 1..Len(queue) : queue[i].id = j) =>
           (\E i \in 1..Len(queue') : queue'[i].id = j) \/ ExecutesJob(w, j)'
    BY <2>4, <2>5
  <2> QED BY <1>a, <2>1, <2>2, <2>6, <2>7 DEF Held
<1>3. CASE NoHandler(w) \/ Record(w)
  <2> PICK st \in Status : Put(task[w].id, Snap(task[w], st))
                           /\ st \notin {"pending", "running"}
    BY <1>3 DEF NoHandler, Record, QuietInv, Quiet, Status
  <2>1. wpc[w] \in Executing BY <1>3 DEF NoHandler, Record, Executing
  <2>2. j # task[w].id /\ Unfinished(j)
    BY <1>0, <1>c, <2>1 DEF Put, Snap, Unfinished
  <2>3. /\ heap' = heap /\ queue' = queue
        /\ \A v \in Worker : v # w => wpc'[v] = wpc[v] /\ task'[v] = task[v]
    BY <1>0, <1>3 DEF NoHandler, Record
  <2> QED BY <1>b, <2>2, <2>3 DEF ExecutesJob
<1>4. CASE SaveRunning(w)
  <2>1. /\ wpc[w] = "registered" /\ wpc' = [wpc EXCEPT ![w] = "handler"]
        /\ \E s : Put(task[w].id, s)
        /\ UNCHANGED <<heap, queue, task>>
    BY <1>4 DEF SaveRunning
  <2>2. wpc'[w] \in Executing /\ wpc[w] \in Executing BY <1>0, <2>1 DEF Executing
  <2>3. CASE j = task[w].id
    BY <2>1, <2>2, <2>3 DEF Held, ExecutesJob
  <2>4. CASE j # task[w].id
    <3>1. Unfinished(j) BY <1>0, <2>1, <2>4 DEF Put, Unfinished
    <3> QED BY <1>0, <1>b, <2>1, <2>4, <3>1 DEF ExecutesJob
  <2> QED BY <2>3, <2>4
<1>5. CASE Resave(w)
  <2> DEFINE next == NextTask(task[w], outcome[w])
  <2>1. /\ wpc[w] = "resave" /\ wpc' = [wpc EXCEPT ![w] = "repush"]
        /\ Put(next.id, Snap(next, "pending"))
        /\ task' = [task EXCEPT ![w] = next] /\ UNCHANGED <<heap, queue>>
    BY <1>5 DEF Resave
  <2>2. next.id = task[w].id
    BY <1>0, <2>1, NextTaskType DEF QuietInv, TypeInv, WorkerOK
  <2> HIDE DEF next
  <2>3. wpc'[w] \in Executing /\ task'[w].id = task[w].id
    BY <1>0, <2>1, <2>2 DEF Executing
  <2>4. CASE j = task[w].id
    BY <2>3, <2>4 DEF Held, ExecutesJob
  <2>5. CASE j # task[w].id
    <3>1. Unfinished(j) BY <1>0, <2>1, <2>2, <2>5 DEF Put, Unfinished
    <3> QED BY <1>0, <1>b, <2>1, <2>5, <3>1 DEF ExecutesJob
  <2> QED BY <2>4, <2>5
<1>6. CASE Repush(w)
  <2>1. wpc[w] = "repush" /\ heap' = [heap EXCEPT ![task[w]] = @ + 1]
        /\ wpc' = [wpc EXCEPT ![w] = "leave"] /\ UNCHANGED <<task, queue, store>>
    BY <1>6 DEF Repush, Push
  <2>2. task[w] \in Task BY <1>c, <2>1 DEF Executing
  <2>3. Held(j) BY <2>1 DEF Unfinished
  <2>4. /\ heap'[task[w]] > 0 /\ \A t \in Task : heap[t] > 0 => heap'[t] > 0
        /\ \A v \in Worker : v # w => (ExecutesJob(v, j) => ExecutesJob(v, j)')
    BY <1>0, <2>1, <2>2 DEF ExecutesJob
  <2>5. CASE task[w].id = j BY <2>2, <2>4, <2>5 DEF Held
  <2>6. CASE task[w].id # j
    <3>1. ~ExecutesJob(w, j) BY <2>6 DEF ExecutesJob
    <3> QED BY <1>a, <2>1, <2>3, <2>4, <3>1 DEF Held
  <2> QED BY <2>5, <2>6
<1>7. CASE Leave(w)
  <2>1. /\ store' = store /\ heap' = heap /\ queue' = queue /\ wpc[w] = "leave"
        /\ \A v \in Worker : v # w => wpc'[v] = wpc[v] /\ task'[v] = task[v]
    BY <1>0, <1>7 DEF Leave
  <2>2. ~ExecutesJob(w, j) BY <2>1 DEF ExecutesJob, Executing
  <2>3. Unfinished(j) BY <2>1 DEF Unfinished
  <2> QED BY <1>b, <2>1, <2>2, <2>3
<1> QED BY <1>1, <1>2, <1>3, <1>4, <1>5, <1>6, <1>7 DEF WorkerStepOf

LEMMA HeldClient ==
    ASSUME QuietInv, Gentle, NEW c \in Client, phase = "up",
           ClientGoesOn(c) \/ \E i \in Job : ClientBegins(c, i),
           \A j \in Job : Unfinished(j) => Held(j),
           NEW j \in Job, Unfinished(j)'
    PROVE  Held(j)'
<1> USE DEF clientFrame, loopVars, procVars, storeVars, At
<1>0. /\ cpc \in [Client -> ClientStep] /\ req \in [Client -> Request \cup {None}]
      /\ heap \in [Task -> Nat] /\ store \in [Job -> Snapshot \cup {None}]
      /\ GentleClients /\ StepFits(cpc[c], req[c])
      /\ \A d \in Client : req[d] = None <=> cpc[d] = "idle"
  BY DEF QuietInv, TypeInv, TypeOK, RequestOK
\* A request that takes nothing, and gives away nothing that counts.
<1>a. ASSUME Unfinished(j), UNCHANGED <<heap, slot, queue, wpc, task>>,
             NEW step, NEW r, Continue(c, step, r),
             cpc[c] \in Carrying /\ req[c].id = j => step \in Carrying /\ r.id = j
      PROVE  Held(j)'
  <2>1. Held(j) BY <1>a
  <2>2. \A d \in Client : cpc[d] \in Carrying /\ req[d].id = j =>
                          cpc'[d] \in Carrying /\ req'[d].id = j
    BY <1>0, <1>a DEF Continue
  <2> QED BY <1>a, <2>1, <2>2 DEF Held, ExecutesJob
<1>1. CASE ResumeCheck(c)
  BY <1>1, <1>a DEF ResumeCheck, Finish, Unfinished, Carrying
<1>2. CASE ScheduleSave(c)
  <2>1. /\ cpc[c] = "save" /\ Continue(c, "push", req[c])
        /\ \E s : Put(req[c].id, s)
        /\ UNCHANGED <<heap, slot, queue, wpc, task>>
    BY <1>2 DEF ScheduleSave
  <2>2. CASE j = req[c].id
    <3>1. cpc'[c] \in Carrying /\ req'[c].id = j
      BY <1>0, <2>1, <2>2 DEF Continue, Carrying
    <3> QED BY <3>1 DEF Held
  <2>3. CASE j # req[c].id
    <3>1. Unfinished(j) BY <1>0, <2>1, <2>3 DEF Put, Unfinished
    <3> QED BY <1>a, <2>1, <2>3, <3>1
  <2> QED BY <2>2, <2>3
<1>3. CASE SchedulePush(c)
  <2>1. /\ cpc[c] = "push" /\ heap' = [heap EXCEPT ![req[c].task] = @ + 1]
        /\ cpc' = [cpc EXCEPT ![c] = "idle"] /\ req' = [req EXCEPT ![c] = None]
        /\ UNCHANGED <<slot, queue, wpc, task, store>>
    BY <1>3 DEF SchedulePush, Push, Finish, Continue
  <2>2. req[c].task \in Task /\ req[c].task.id = req[c].id
    BY <1>0, <2>1 DEF StepFits, Request
  <2>3. Held(j) BY <2>1 DEF Unfinished
  <2>4. /\ heap'[req[c].task] > 0 /\ \A t \in Task : heap[t] > 0 => heap'[t] > 0
    BY <1>0, <2>1, <2>2
  <2>5. CASE req[c].id = j BY <2>2, <2>4, <2>5 DEF Held
  <2>6. CASE req[c].id # j
    <3>1. \A d \in Client : cpc[d] \in Carrying /\ req[d].id = j =>
                            cpc'[d] \in Carrying /\ req'[d].id = j
      BY <1>0, <2>1, <2>6
    <3> QED BY <2>1, <2>3, <2>4, <3>1 DEF Held, ExecutesJob
  <2> QED BY <2>5, <2>6
<1>4. CASE PauseWrite(c)
  <2>1. /\ cpc[c] = "pauseWrite" /\ Continue(c, "idle", None)
        /\ Put(req[c].id, Snap(req[c].task, "paused"))
        /\ UNCHANGED <<heap, slot, queue, wpc, task>>
    BY <1>4 DEF PauseWrite, Finish
  <2>2. req[c].id \in Job BY <1>0, <2>1 DEF Request
  <2>3. j # req[c].id /\ Unfinished(j)
    BY <1>0, <2>1, <2>2 DEF Put, Snap, Unfinished
  <2> QED BY <1>a, <2>1, <2>3
<1>5. CASE \E i \in Job : ClientBegins(c, i)
  <2> PICK i \in Job : ClientBegins(c, i) BY <1>5
  <2>0. Submit(c, i) \/ ResumeFind(c, i) \/ RetryFind(c, i) \/ Pause(c, i)
    BY DEF ClientBegins, CancelRemove, ForcePause, Update, SetGroup, Begins, Gentle
  <2>1. CASE Submit(c, i)
    <3> PICK r : Continue(c, "save", r) BY <2>1 DEF Submit
    <3> QED BY <1>a, <2>1 DEF Submit, Begins, Unfinished, Carrying
  <2>2. CASE ResumeFind(c, i)
    <3> PICK r : Continue(c, "resumeCheck", r) BY <2>2 DEF ResumeFind
    <3> QED BY <1>a, <2>2 DEF ResumeFind, Begins, Unfinished, Carrying
  <2>3. CASE RetryFind(c, i)
    <3> PICK r : Continue(c, "save", r) BY <2>3 DEF RetryFind
    <3> QED BY <1>a, <2>3 DEF RetryFind, Begins, Unfinished, Carrying
  <2>4. CASE Pause(c, i)
    <3>1. /\ cpc[c] = "idle" /\ InHeap(i)
          /\ RemoveFromHeap(c, i, "pauseWrite", "idle")
          /\ UNCHANGED <<slot, queue, wpc, task, store>>
      BY <2>4 DEF Pause, Begins
    <3> PICK t \in Copies(i) :
             /\ TakeOut(t)
             /\ Continue(c, "pauseWrite",
                         [NewRequest(i) EXCEPT !.task = t, !.found = "heap"])
      BY <3>1 DEF RemoveFromHeap
    <3>2. t \in Task /\ t.id = i BY DEF Copies
    <3> DEFINE r == [NewRequest(i) EXCEPT !.task = t, !.found = "heap"]
    <3>3. r.id = i BY NewRequestFields
    <3>4. Continue(c, "pauseWrite", r) OBVIOUS
    <3> HIDE DEF r
    <3>5. cpc'[c] \in Carrying /\ req'[c].id = i
      BY <1>0, <3>3, <3>4 DEF Continue, Carrying
    <3>6. Held(j) BY <3>1 DEF Unfinished
    <3>7. CASE i = j BY <3>5, <3>7 DEF Held
    <3>8. CASE i # j
      <4>1. \A u \in Task : u.id = j => heap'[u] = heap[u]
        BY <1>0, <3>2, <3>8 DEF TakeOut
      <4>2. \A d \in Client : cpc[d] \in Carrying /\ req[d].id = j =>
                              cpc'[d] \in Carrying /\ req'[d].id = j
        BY <1>0, <3>1, <3>4 DEF Continue, Carrying
      <4> QED BY <3>1, <3>6, <4>1, <4>2 DEF Held, ExecutesJob
    <3> QED BY <3>7, <3>8
  <2> QED BY <2>0, <2>1, <2>2, <2>3, <2>4
<1>6. CASE ClientGoesOn(c)
  <2>1. ResumeCheck(c) \/ ScheduleSave(c) \/ SchedulePush(c) \/ PauseWrite(c)
    BY <1>0, <1>6 DEF GentleClients, ClientGoesOn, CancelLookup, CancelSignal,
         CancelFind, CancelDelete, ForceMark, ForceFind, ForceFallback,
         ForceRead, ForceWrite, ForceSignal, HeapUpdate, UpdateWrite,
         GroupGet, GroupWrite
  <2> QED BY <1>1, <1>2, <1>3, <1>4, <2>1
<1> QED BY <1>5, <1>6

LEMMA HeldProcess ==
    ASSUME TypeInv, Process, NoneForgotten
    PROVE  NoneForgotten'
<1> USE DEF procVars, loopVars, workerVars, storeVars, clientVars, histVars
<1>0. heap \in [Task -> Nat] /\ store \in [Job -> Snapshot \cup {None}]
  BY DEF TypeInv, TypeOK
<1>1. CASE Start
  <2> SUFFICES ASSUME NEW j \in Job, Unfinished(j)' PROVE Held(j)'
    BY DEF NoneForgotten
  <2> DEFINE pushed == {FromSnapshot(i, store[i]) : i \in Restorable \ HeldBack}
  <2>1. /\ heap' = [t \in Task |-> IF t \in pushed THEN heap[t] + 1 ELSE heap[t]]
        /\ store' = [i \in Job |-> IF i \in HeldBack
                                   THEN [store[i] EXCEPT !.status = "paused"]
                                   ELSE store[i]]
    BY <1>1 DEF Start
  <2>2. j \notin HeldBack
    <3> SUFFICES ASSUME j \in HeldBack PROVE FALSE
      OBVIOUS
    <3>1. store[j] \in Snapshot BY <1>0 DEF HeldBack, HasStatus
    <3>2. store'[j].status = "paused" BY <2>1, <3>1 DEF Snapshot
    <3> QED BY <3>2 DEF Unfinished
  <2>3. store'[j] = store[j] BY <2>1, <2>2
  <2>4. CASE InHeap(j)
    <3> PICK t \in Task : t.id = j /\ heap[t] > 0 BY <2>4 DEF InHeap, Copies
    <3>1. heap'[t] > 0 BY <1>0, <2>1
    <3> QED BY <3>1 DEF Held
  <2>5. CASE ~InHeap(j)
    <3> DEFINE t == FromSnapshot(j, store[j])
    <3>1. j \in Restorable \ HeldBack
      BY <2>2, <2>3, <2>5 DEF Restorable, HasStatus, Unfinished
    <3>2. t \in Task /\ t.id = j
      BY <1>0, <3>1, FromSnapshotType DEF Restorable, HasStatus
    <3>3. t \in pushed BY <3>1
    <3> HIDE DEF t, pushed
    <3>4. heap'[t] > 0 BY <1>0, <2>1, <3>2, <3>3
    <3> QED BY <3>2, <3>4 DEF Held
  <2> QED BY <2>4, <2>5
<1>2. CASE Flush \/ Suspend \/ Unsuspend
  BY <1>2 DEF Flush, Suspend, Unsuspend, NoneForgotten, Unfinished, Held, ExecutesJob
<1>3. CASE \/ StopBegin \/ (\E w \in Worker : StopCancel(w)) \/ StopEnd
           \/ Exit \/ Crash
  <2>1. phase' # "up"
    BY <1>3 DEF StopBegin, StopCancel, StopEnd, Exit, Crash, LoseVolatile
  <2> QED BY <2>1 DEF NoneForgotten
<1> QED BY <1>1, <1>2, <1>3 DEF Process

\* NoJobForgotten: whatever is pending or running is somewhere in a scheduler
\* that is up, through stops, crashes and restarts; Resume, retries and pauses
\* of several clients included.
THEOREM NothingIsForgotten ==
    ASSUME Gentle
    PROVE  Spec => []NoJobForgotten
<1> DEFINE KeepInv == QuietInv /\ NoneForgotten
<1>1. Init => KeepInv
  BY InitType DEF Init, QuietInv, Registered, StopsActive, BeginsClean, Quiet,
       GentleClients, NoneForgotten
<1>2. KeepInv /\ [Next]_vars => KeepInv'
  <2> SUFFICES ASSUME KeepInv, [Next]_vars PROVE KeepInv'
    OBVIOUS
  <2>1. QuietInv' BY QuietStep
  <2>2. TypeInv BY DEF QuietInv
  <2>3. CASE Process BY <2>1, <2>2, <2>3, HeldProcess
  <2>4. CASE Loop
    <3>1. store' = store /\ phase' = phase
      BY <2>4 DEF Loop, LoopTop, LoopPop, LoopWait, LoopDispatch, LoopDrop,
           loopFrame, procVars, storeVars
    <3> QED BY <2>1, <2>2, <2>4, <3>1, HeldLoop DEF NoneForgotten, Unfinished
  <2>5. CASE \E w \in Worker : WorkerStepOf(w)
    <3>1. phase' = phase
      BY <2>5 DEF WorkerStepOf, WorkerExit, Receive, NoHandler, Register,
           SaveRunning, HandlerReturns, TakeForcedPause, CheckStop, Record, Resave,
           Repush, Leave, workerFrame, procVars
    <3> QED BY <2>1, <2>5, <3>1, HeldWorker DEF NoneForgotten
  <2>6. CASE \E c \in Client : ClientGoesOn(c) \/ \E j \in Job : ClientBegins(c, j)
    <3>1. phase' = phase
      <4> PICK c \in Client : ClientGoesOn(c) \/ \E j \in Job : ClientBegins(c, j)
        BY <2>6
      <4>1. CASE ClientGoesOn(c)
        BY <4>1 DEF ClientGoesOn, ResumeCheck, ScheduleSave, SchedulePush,
             CancelLookup, CancelSignal, CancelFind, CancelDelete, PauseWrite,
             ForceMark, ForceFind, ForceFallback, ForceRead, ForceWrite,
             ForceSignal, HeapUpdate, UpdateWrite, GroupGet, GroupWrite,
             clientFrame, procVars
      <4>2. CASE \E j \in Job : ClientBegins(c, j)
        <5> PICK j \in Job : ClientBegins(c, j) BY <4>2
        <5> QED
          BY DEF ClientBegins, Submit, ResumeFind, RetryFind, CancelRemove, Pause,
               ForcePause, Update, SetGroup, clientFrame, procVars
      <4> QED BY <4>1, <4>2
    <3> QED BY <2>1, <2>6, <3>1, HeldClient DEF NoneForgotten
  <2>7. CASE UNCHANGED vars
    BY <2>1, <2>7 DEF vars, procVars, loopVars, workerVars, storeVars, clientVars,
         NoneForgotten, Unfinished, Held, ExecutesJob
  <2> QED BY <2>3, <2>4, <2>5, <2>6, <2>7 DEF Next
<1>3. KeepInv => NoJobForgotten
  BY HeldIsOwned DEF QuietInv, NoneForgotten, NoJobForgotten, HasStatus, Unfinished
<1> QED BY <1>1, <1>2, <1>3, PTL DEF Spec
------------------------------------------------------------------------------
(* Every handler that runs can be reached by Cancel and by Stop.           *)

\* No two workers are busy with one job, the ends of its executions included.
Apart == \A v, w \in Worker :
    task[v] # None /\ task[w] # None /\ task[v].id = task[w].id => v = w

\* RunningIsCancellable, under Apart: it is the late deferred delete of an
\* execution whose job has already been rescheduled that takes away the entry
\* of the next one.
THEOREM HandlersAreReached == Spec /\ []Apart => []RunningIsCancellable
<1> DEFINE Inv == TypeInv /\ RunningIsCancellable
<1>1. Init => Inv
  BY InitType DEF Init, RunningIsCancellable, Running
<1>2. Inv /\ Apart /\ [Next]_vars => Inv'
  <2> SUFFICES ASSUME Inv, Apart, [Next]_vars PROVE RunningIsCancellable'
    BY TypeStep
  <2> USE DEF procVars, loopVars, workerVars, storeVars, clientVars, histVars,
              RunningIsCancellable, Running, Goto
  <2>0. /\ wpc \in [Worker -> WorkerStep] /\ task \in [Worker -> Task \cup {None}]
        /\ ctxDone \in [Worker -> BOOLEAN]
        /\ cancelMap \in [Job -> Worker \cup {None}]
        /\ \A w \in Worker : task[w] = None <=> wpc[w] \in {"exit", "idle"}
    BY DEF TypeInv, TypeOK
  <2>1. CASE Process
    <3>1. CASE Start \/ Exit \/ Crash
      BY <3>1 DEF Start, Exit, Crash, LoseVolatile
    <3>2. CASE \/ StopBegin \/ (\E w \in Worker : StopCancel(w)) \/ StopEnd
               \/ Flush \/ Suspend \/ Unsuspend
      BY <2>0, <3>2 DEF StopBegin, StopCancel, StopEnd, Flush, Suspend, Unsuspend
    <3> QED BY <2>1, <3>1, <3>2 DEF Process
  <2>2. CASE Loop
    BY <2>2 DEF Loop, LoopTop, LoopPop, LoopWait, LoopDispatch, LoopDrop, loopFrame
  <2>3. CASE \E w \in Worker : WorkerStepOf(w)
    <3> PICK w \in Worker : WorkerStepOf(w) BY <2>3
    <3> USE DEF workerFrame
    <3>1. CASE WorkerExit(w) \/ Receive(w) \/ NoHandler(w) \/ SaveRunning(w)
               \/ TakeForcedPause(w) \/ CheckStop(w) \/ Record(w) \/ Resave(w)
               \/ Repush(w)
               \/ \E result \in {"success", "failed", "permanent", "interrupted"} :
                     HandlerReturns(w, result)
      <4>1. /\ UNCHANGED <<ctxDone, cancelMap>>
            /\ \A v \in Worker : v # w => wpc'[v] = wpc[v] /\ task'[v] = task[v]
            /\ wpc'[w] \in {"registered", "handler"} =>
                  wpc[w] = "registered" /\ task'[w] = task[w]
        BY <2>0, <3>1 DEF WorkerExit, Receive, NoHandler, SaveRunning,
             TakeForcedPause, CheckStop, Record, Resave, Repush, HandlerReturns
      <4> QED BY <4>1
    <3>2. CASE Register(w)
      <4>1. /\ wpc[w] = "claimed" /\ wpc' = [wpc EXCEPT ![w] = "registered"]
            /\ cancelMap' = [cancelMap EXCEPT ![task[w].id] = w]
            /\ ctxDone' = [ctxDone EXCEPT ![w] = phase # "up"] /\ task' = task
        BY <3>2 DEF Register
      <4>2. task[w] # None /\ task[w].id \in Job BY <2>0, <4>1 DEF Task
      <4>3. \A v \in Worker : v # w /\ wpc[v] \in {"registered", "handler"} =>
               task[v].id # task[w].id
        BY <2>0, <4>2 DEF Apart
      <4> QED BY <2>0, <4>1, <4>2, <4>3
    <3>3. CASE Leave(w)
      <4>1. /\ wpc[w] = "leave" /\ wpc' = [wpc EXCEPT ![w] = "idle"]
            /\ cancelMap' = [cancelMap EXCEPT ![task[w].id] = None]
            /\ ctxDone' = [ctxDone EXCEPT ![w] = FALSE]
            /\ task' = [task EXCEPT ![w] = None]
        BY <3>3 DEF Leave
      <4>2. \A v \in Worker : v # w /\ wpc[v] \in {"registered", "handler"} =>
               task[v].id # task[w].id
        BY <2>0, <4>1 DEF Apart
      <4> QED BY <2>0, <4>1, <4>2
    <3> QED BY <3>1, <3>2, <3>3 DEF WorkerStepOf
  <2>4. CASE \E c \in Client : ClientGoesOn(c)
    <3> PICK c \in Client : ClientGoesOn(c) BY <2>4
    <3>1. /\ UNCHANGED <<wpc, task, cancelMap>>
          /\ ctxDone' = ctxDone \/ \A w \in Worker : ctxDone[w] => ctxDone'[w]
      BY DEF ClientGoesOn, ResumeCheck, ScheduleSave, SchedulePush,
           CancelLookup, CancelSignal, CancelFind, CancelDelete, PauseWrite,
           ForceMark, ForceFind, ForceFallback, ForceRead, ForceWrite,
           ForceSignal, HeapUpdate, UpdateWrite, GroupGet, GroupWrite,
           clientFrame, Signal
    <3> QED BY <3>1
  <2>5. CASE \E c \in Client : \E j \in Job : ClientBegins(c, j)
    BY <2>5 DEF ClientBegins, Submit, ResumeFind, RetryFind, CancelRemove, Pause,
         ForcePause, Update, SetGroup, clientFrame
  <2>6. CASE UNCHANGED vars BY <2>6 DEF vars
  <2> QED BY <2>1, <2>2, <2>3, <2>4, <2>5, <2>6 DEF Next
<1>3. Inv => RunningIsCancellable
  OBVIOUS
<1> QED BY <1>1, <1>2, <1>3, PTL DEF Spec

\* The entry of a job is that of its running execution, or there is none.
EntryIsOwn == \A w \in Worker : wpc[w] \in Running => cancelMap[task[w].id] \in {w, None}

\* One step of LostToPredecessor.
LosesToPredecessor ==
    \A w \in Worker :
        wpc'[w] \in Running /\ cancelMap'[task'[w].id] # w =>
            /\ cancelMap'[task'[w].id] = None
            /\ \/ wpc[w] \in Running /\ cancelMap[task[w].id] = None
               \/ \E v \in Worker \ {w} : Leave(v) /\ task[v].id = task[w].id

\* Steps that register nobody and delete nothing.
LEMMA EntryStays ==
    ASSUME EntryIsOwn, cancelMap' = cancelMap,
           \A w \in Worker : wpc'[w] \in Running => wpc[w] \in Running /\ task'[w] = task[w]
    PROVE  EntryIsOwn' /\ LosesToPredecessor
BY DEF EntryIsOwn, LosesToPredecessor

\* Nobody registers a job over a running execution of it: they would both own it.
LEMMA RegistersAlone ==
    ASSUME OwnInv, EntryIsOwn, NEW w \in Worker, Register(w)
    PROVE  EntryIsOwn' /\ LosesToPredecessor
<1>0. /\ wpc \in [Worker -> WorkerStep] /\ task \in [Worker -> Task \cup {None}]
      /\ cancelMap \in [Job -> Worker \cup {None}]
      /\ \A v \in Worker : task[v] = None <=> wpc[v] \in {"exit", "idle"}
  BY DEF OwnInv, TypeInv, TypeOK
<1>1. /\ wpc[w] = "claimed" /\ wpc' = [wpc EXCEPT ![w] = "registered"]
      /\ cancelMap' = [cancelMap EXCEPT ![task[w].id] = w] /\ task' = task
  BY DEF Register, Goto
<1>2. task[w] # None /\ task[w].id \in Job BY <1>0, <1>1 DEF Task
<1>3. ASSUME NEW v \in Worker, v # w, wpc[v] \in Running
      PROVE  task[v].id # task[w].id
  <2>1. SUFFICES ASSUME task[v].id = task[w].id PROVE FALSE
    OBVIOUS
  <2>2. ExecutesJob(v, task[w].id) /\ ExecutesJob(w, task[w].id)
    BY <1>1, <1>3, <2>1 DEF ExecutesJob, Executing, Running
  <2> QED BY <1>2, <1>3, <2>2 DEF OwnInv, Exclusive, WorkerOnce
<1>4. ASSUME NEW v \in Worker, wpc'[v] \in Running
      PROVE  \/ v = w /\ cancelMap'[task'[v].id] = w
             \/ v # w /\ wpc[v] \in Running /\ cancelMap'[task'[v].id] = cancelMap[task[v].id]
  BY <1>0, <1>1, <1>2, <1>3, <1>4
<1> QED BY <1>1, <1>4 DEF EntryIsOwn, LosesToPredecessor

LEMMA LeaveTakesEntry ==
    ASSUME OwnInv, EntryIsOwn, NEW w \in Worker, Leave(w)
    PROVE  EntryIsOwn' /\ LosesToPredecessor
<1>0. /\ wpc \in [Worker -> WorkerStep] /\ task \in [Worker -> Task \cup {None}]
      /\ cancelMap \in [Job -> Worker \cup {None}]
      /\ \A v \in Worker : task[v] = None <=> wpc[v] \in {"exit", "idle"}
  BY DEF OwnInv, TypeInv, TypeOK
<1>1. /\ wpc[w] = "leave" /\ wpc' = [wpc EXCEPT ![w] = "idle"]
      /\ cancelMap' = [cancelMap EXCEPT ![task[w].id] = None]
      /\ task' = [task EXCEPT ![w] = None]
  BY DEF Leave, Goto
<1>2. task[w] # None /\ task[w].id \in Job BY <1>0, <1>1 DEF Task
<1>3. ASSUME NEW v \in Worker, wpc'[v] \in Running
      PROVE  /\ v # w /\ wpc[v] \in Running /\ task'[v] = task[v]
             /\ \/ task[v].id # task[w].id /\ cancelMap'[task[v].id] = cancelMap[task[v].id]
                \/ task[v].id = task[w].id /\ cancelMap'[task[v].id] = None
  <2>1. v # w /\ wpc[v] \in Running /\ task'[v] = task[v]
    BY <1>0, <1>1, <1>3 DEF Running
  <2>2. task[v].id \in Job BY <1>0, <2>1 DEF Task, Running
  <2> QED BY <1>0, <1>1, <1>2, <2>1, <2>2
<1>4. EntryIsOwn' BY <1>3 DEF EntryIsOwn
<1>5. LosesToPredecessor
  <2> SUFFICES ASSUME NEW v \in Worker, wpc'[v] \in Running, cancelMap'[task'[v].id] # v
               PROVE  /\ cancelMap'[task'[v].id] = None
                      /\ \/ wpc[v] \in Running /\ cancelMap[task[v].id] = None
                         \/ \E u \in Worker \ {v} : Leave(u) /\ task[u].id = task[v].id
    BY DEF LosesToPredecessor
  <2>1. CASE task[v].id # task[w].id
    BY <1>3, <2>1 DEF EntryIsOwn
  <2>2. CASE task[v].id = task[w].id
    BY <1>3, <2>2
  <2> QED BY <2>1, <2>2
<1> QED BY <1>4, <1>5

LEMMA EntryStep ==
    ASSUME OwnInv, EntryIsOwn, [Next]_vars
    PROVE  EntryIsOwn' /\ LosesToPredecessor
<1> USE DEF procVars, loopVars, workerVars, storeVars, clientVars, histVars
<1>0. /\ wpc \in [Worker -> WorkerStep] /\ task \in [Worker -> Task \cup {None}]
  BY DEF OwnInv, TypeInv, TypeOK
<1>1. CASE Process
  <2>1. CASE Start \/ Exit \/ Crash
    <3>1. \A w \in Worker : wpc'[w] \notin Running
      BY <2>1 DEF Start, Exit, Crash, LoseVolatile, Running
    <3> QED BY <3>1 DEF EntryIsOwn, LosesToPredecessor
  <2>2. CASE \/ StopBegin \/ (\E w \in Worker : StopCancel(w)) \/ StopEnd
             \/ Flush \/ Suspend \/ Unsuspend
    BY <2>2, EntryStays DEF StopBegin, StopCancel, StopEnd, Flush, Suspend, Unsuspend
  <2> QED BY <1>1, <2>1, <2>2 DEF Process
<1>2. CASE Loop
  BY <1>2, EntryStays DEF Loop, LoopTop, LoopPop, LoopWait, LoopDispatch, LoopDrop, loopFrame
<1>3. CASE \E w \in Worker : WorkerStepOf(w)
  <2> PICK w \in Worker : WorkerStepOf(w) BY <1>3
  <2>1. CASE \/ WorkerExit(w) \/ Receive(w) \/ NoHandler(w) \/ SaveRunning(w)
             \/ TakeForcedPause(w) \/ CheckStop(w) \/ Record(w) \/ Resave(w)
             \/ Repush(w)
             \/ \E result \in {"success", "failed", "permanent", "interrupted"} :
                   HandlerReturns(w, result)
    <3>1. /\ cancelMap' = cancelMap
          /\ \A v \in Worker : v # w => wpc'[v] = wpc[v] /\ task'[v] = task[v]
          /\ wpc'[w] \in Running => wpc[w] \in Running /\ task'[w] = task[w]
      BY <1>0, <2>1 DEF WorkerExit, Receive, NoHandler, SaveRunning, TakeForcedPause,
           CheckStop, Record, Resave, Repush, HandlerReturns, workerFrame, Goto, Running
    <3> QED BY <3>1, EntryStays
  <2>2. CASE Register(w) BY <2>2, RegistersAlone
  <2>3. CASE Leave(w) BY <2>3, LeaveTakesEntry
  <2> QED BY <2>1, <2>2, <2>3 DEF WorkerStepOf
<1>4. CASE \E c \in Client : ClientGoesOn(c)
  <2> PICK c \in Client : ClientGoesOn(c) BY <1>4
  <2>1. UNCHANGED <<wpc, task, cancelMap>>
    BY DEF ClientGoesOn, ResumeCheck, ScheduleSave, SchedulePush,
         CancelLookup, CancelSignal, CancelFind, CancelDelete, PauseWrite,
         ForceMark, ForceFind, ForceFallback, ForceRead, ForceWrite,
         ForceSignal, HeapUpdate, UpdateWrite, GroupGet, GroupWrite, clientFrame
  <2> QED BY <2>1, EntryStays
<1>5. CASE \E c \in Client : \E j \in Job : ClientBegins(c, j)
  BY <1>5, EntryStays DEF ClientBegins, Submit, ResumeFind, RetryFind, CancelRemove, Pause,
       ForcePause, Update, SetGroup, clientFrame
<1>6. CASE UNCHANGED vars BY <1>6, EntryStays DEF vars
<1> QED BY <1>1, <1>2, <1>3, <1>4, <1>5, <1>6 DEF Next

LEMMA OwnedAlways ==
    ASSUME NoReentry \/ Orderly
    PROVE  Spec => []OwnInv
<1>1. CASE NoReentry
  <2>1. \A c \in Client, j \in Job : ~(ResumeFind(c, j) \/ RetryFind(c, j))
    BY <1>1 DEF NoReentry, ResumeFind, RetryFind, Begins
  <2>2. OwnInv /\ [Next]_vars => OwnInv'
    BY <2>1, StepOwns DEF ReentersUnowned
  <2> QED BY InitOwns, <2>2, PTL DEF Spec
<1>2. CASE Orderly
  <2>1. SettledInv => OwnInv OBVIOUS
  <2> QED BY <1>2, InitSettles, StepSettles, <2>1, PTL DEF Spec
<1> QED BY <1>1, <1>2

\* LostToPredecessor, for any number of workers and jobs, whenever a job has one owner at a
\* time: under NoReentry or Orderly, as SingleOwner.  No execution is overwritten in
\* cancelMap by another one, and none but an earlier one of its job can delete its entry.
THEOREM EntriesAreLostToPredecessors ==
    ASSUME NoReentry \/ Orderly
    PROVE  Spec => LostToPredecessor
<1>1. Init => EntryIsOwn BY DEF Init, EntryIsOwn, Running
<1>2. OwnInv /\ EntryIsOwn /\ [Next]_vars => EntryIsOwn' /\ [LosesToPredecessor]_vars
  BY EntryStep
<1>3. [LosesToPredecessor]_vars =>
        [\A w \in Worker :
           wpc'[w] \in Running /\ cancelMap'[task'[w].id] # w =>
              /\ cancelMap'[task'[w].id] = None
              /\ \/ wpc[w] \in Running /\ cancelMap[task[w].id] = None
                 \/ \E v \in Worker \ {w} : Leave(v) /\ task[v].id = task[w].id]_vars
  BY DEF LosesToPredecessor
<1> QED BY <1>1, <1>2, <1>3, OwnedAlways, PTL DEF Spec, LostToPredecessor
==============================================================================
