---------------------------- MODULE RegistryProofs -----------------------------
(*****************************************************************************)
(* Theorems about the two registries that have a file and endpoints of their *)
(* own: executor profiles (ProfileApi, on ProfileRegistry) and job groups    *)
(* (Groups).                                                                 *)
(*                                                                           *)
(* Profiles: ApiInv says which entries of the table come from where, by the  *)
(* list of commands in force and, unless a change is behind or its Apply is  *)
(* still to come, by the records; the handlers follow the table as far as    *)
(* the holder of writeMu has got.  Groups: EntriesAreSafe says that a group  *)
(* has an entry that no rename is about to delete, which needs the numbers   *)
(* of the requests to tell a saved entry from all that were read before;     *)
(* PendOnCourse follows each job from the tally to the answer.               *)
(*****************************************************************************)
EXTENDS ProfileApi, Groups, TLAPS

Spelled == Name \cup {NoRecord.name}
Recorded == [name : Spelled, rev : Nat]

Errand ==
    [pc : {"idle", "get", "lookup", "save", "tally", "list", "pause", "drop", "apply",
           "applying", "undo"},
     op : {"none", "create", "update", "delete"}, name : Spelled, rev : Nat, old : Recorded,
     todo : SUBSET Job, held : SUBSET Job, pend : SUBSET Job]

TaskSnap == {"none", "pending", "running", "paused", "over"}
TaskAt == {"none", "looked", "saved", "heap", "popped", "worker", "taken"}
Task == [snap : TaskSnap, at : TaskAt, bound : BOOLEAN]

ErrandsShape ==
    /\ work \in [Server -> Errand] /\ records \subseteq Recorded
    /\ jobs \in [Job -> Task]
    /\ asked \in Nat /\ faults \in Nat
    /\ \A c \in Server : work[c].pc # "idle" => work[c].op # "none"

LEMMA NoWorkIsErrand == NoWork \in Errand /\ NoWork.pc = "idle" /\ NoWork.pend = {}
<1>1. NoRecord \in Recorded /\ NoRecord.name \in Spelled BY DEF NoRecord, Recorded, Spelled
<1> QED BY <1>1 DEF NoWork, Errand

LEMMA ErrandsShapeInit == Init => ErrandsShape
<1> SUFFICES ASSUME Init PROVE ErrandsShape OBVIOUS
<1>1. records \subseteq Recorded
  BY ApiAssumption DEF Init, Record, Recorded, Spelled
<1> QED BY <1>1, NoWorkIsErrand DEF Init, ErrandsShape, Task, TaskSnap, TaskAt

LEMMA AskErrand ==
    ASSUME ErrandsShape, NEW c \in Server, NEW op \in {"create", "update", "delete"},
           NEW n \in Name, Ask(c, op, n)
    PROVE  \E W \in Errand : work' = [work EXCEPT ![c] = W] /\ W.pc = "get" /\ W.op = op /\ W.pend = {}
<1> DEFINE W == [NoWork EXCEPT !.pc = "get", !.op = op, !.name = n, !.rev = asked + 1]
<1>1. work' = [work EXCEPT ![c] = W] BY DEF Ask
<1>2. asked + 1 \in Nat /\ n \in Spelled BY DEF ErrandsShape, Spelled
<1>3. W \in Errand /\ W.pc = "get" /\ W.op = op /\ W.pend = {}
  BY <1>2, NoWorkIsErrand DEF Errand
<1> HIDE DEF W
<1> QED BY <1>1, <1>3

LEMMA GetErrand ==
    ASSUME ErrandsShape, NEW c \in Server, GetRecord(c)
    PROVE  \E W \in Errand :
             /\ work' = [work EXCEPT ![c] = W]
             /\ \/ W = NoWork
                \/ /\ W.pc \in {"lookup", "save", "tally"} /\ W.op # "none"
                   /\ W.pend = work[c].pend
<1> DEFINE found == Found(work[c].name)
           pc == CASE work[c].op = "create" -> "lookup"
                   [] work[c].op = "update" -> "save"
                   [] work[c].op = "delete" -> "tally"
           old == IF found = {} THEN work[c].old ELSE CHOOSE r \in found : TRUE
           W == [work[c] EXCEPT !.pc = pc, !.old = old]
<1>1. work[c] \in Errand /\ work[c].op \in {"create", "update", "delete"}
  BY DEF ErrandsShape, GetRecord, Errand
<1>2. pc \in {"lookup", "save", "tally"} BY <1>1
<1>3. old \in Recorded
  <2>1. found # {} => (CHOOSE r \in found : TRUE) \in found OBVIOUS
  <2>2. found \subseteq Recorded BY DEF Found, ErrandsShape
  <2>3. work[c].old \in Recorded BY <1>1 DEF Errand
  <2> QED BY <2>1, <2>2, <2>3
<1>4. work' = [work EXCEPT ![c] = NoWork] \/ work' = [work EXCEPT ![c] = W]
  BY DEF GetRecord, Answer
<1> HIDE DEF pc, old, found
<1>5. W \in Errand /\ W.pc = pc /\ W.op = work[c].op /\ W.pend = work[c].pend
  BY <1>1, <1>2, <1>3 DEF Errand
<1> HIDE DEF W
<1> QED BY <1>1, <1>2, <1>4, <1>5, NoWorkIsErrand

\* The steps that answer, or go on.
Proceeds(c, pcs) ==
    \E W \in Errand :
        /\ work' = [work EXCEPT ![c] = W]
        /\ \/ W = NoWork
           \/ W.pc \in pcs /\ W.op # "none" /\ W.pend = work[c].pend

LEMMA GotoErrand ==
    ASSUME ErrandsShape, NEW c \in Server, work[c].pc # "idle",
           NEW p \in {"save", "drop", "apply", "applying", "undo"}, Answer(c) \/ Goto(c, p)
    PROVE  Proceeds(c, {p})
<1> DEFINE W == [work[c] EXCEPT !.pc = p]
<1>1. work[c] \in Errand /\ work[c].op # "none" BY DEF ErrandsShape
<1>2. W \in Errand /\ W.pc = p /\ W.op = work[c].op /\ W.pend = work[c].pend BY <1>1 DEF Errand
<1>3. work' = [work EXCEPT ![c] = NoWork] \/ work' = [work EXCEPT ![c] = W] BY DEF Answer, Goto
<1> HIDE DEF W
<1> QED BY <1>1, <1>2, <1>3, NoWorkIsErrand DEF Proceeds

LEMMA TallyErrand ==
    ASSUME ErrandsShape, NEW c \in Server, Tally(c)
    PROVE  \E W \in Errand :
             /\ work' = [work EXCEPT ![c] = W]
             /\ \/ W = NoWork
                \/ /\ W.op # "none" /\ W.pend = Pending(work[c].old.name) /\ W.old = work[c].old
                   /\ W.pc = "list" \/ (W.pc = "drop" /\ W.pend = {})
<1> DEFINE key == work[c].old.name
           pc == IF Pending(key) = {} THEN "drop" ELSE "list"
           W == [work[c] EXCEPT !.pc = pc, !.pend = Pending(key)]
<1>1. work[c] \in Errand /\ work[c].op # "none" BY DEF ErrandsShape, Tally
<1>2. Pending(key) \subseteq Job BY DEF Pending, InState
<1>3. pc = "list" \/ (pc = "drop" /\ Pending(key) = {}) OBVIOUS
<1>4. work' = [work EXCEPT ![c] = NoWork] \/ work' = [work EXCEPT ![c] = W] BY DEF Tally, Answer
<1> HIDE DEF pc, key
<1>5. /\ W \in Errand /\ W.pc = pc /\ W.op = work[c].op /\ W.pend = Pending(key)
      /\ W.old = work[c].old
  BY <1>1, <1>2, <1>3 DEF Errand
<1> HIDE DEF W
<1> QED BY <1>1, <1>3, <1>4, <1>5, NoWorkIsErrand DEF key

\* W is what w was, with at most the tasks of J no longer counted.
Uncounted(W, w, J) ==
    /\ W.pc = w.pc /\ W.op = w.op /\ W.todo = w.todo /\ W.old = w.old
    /\ W.pend \subseteq w.pend /\ w.pend \ J \subseteq W.pend

LEMMA MovedErrands ==
    ASSUME NEW w \in [Server -> Errand], NEW j
    PROVE  /\ Moved(j, w) \in [Server -> Errand]
           /\ \A c \in Server : Uncounted(Moved(j, w)[c], w[c], {j}) /\ j \notin Moved(j, w)[c].pend
<1> DEFINE M(c) == [w[c] EXCEPT !.pend = @ \ {j}]
<1>1. ASSUME NEW c \in Server
      PROVE  M(c) \in Errand /\ Uncounted(M(c), w[c], {j}) /\ j \notin M(c).pend
  <2>1. w[c] \in Errand OBVIOUS
  <2> QED BY <2>1 DEF Errand, Uncounted
<1>2. Moved(j, w) = [c \in Server |-> M(c)] BY DEF Moved
<1> HIDE DEF M
<1> QED BY <1>1, <1>2

LEMMA ListErrand ==
    ASSUME ErrandsShape, NEW c \in Server, ListTasks(c)
    PROVE  \E W \in Errand :
             /\ work' = [work EXCEPT ![c] = W]
             /\ W.op # "none" /\ W.pc = "pause" /\ W.pend = work[c].pend
             /\ W.todo = InState(work[c].old.name, {"pending", "running"})
<1> DEFINE T == InState(work[c].old.name, {"pending", "running"})
           W == [work[c] EXCEPT !.pc = "pause", !.todo = T]
<1>1. work[c] \in Errand /\ work[c].op # "none" BY DEF ErrandsShape, ListTasks
<1>2. T \subseteq Job BY DEF InState
<1>3. work' = [work EXCEPT ![c] = W] BY DEF ListTasks
<1> HIDE DEF T
<1>4. W \in Errand /\ W.op # "none" /\ W.pc = "pause" /\ W.pend = work[c].pend /\ W.todo = T
  BY <1>1, <1>2 DEF Errand
<1> HIDE DEF W
<1> QED BY <1>3, <1>4 DEF T

\* What PauseNext does to a request and to the tasks: it goes on to the record, with no
\* task left; or it is done with the task j, which is then in the heap no more.
PauseDone(c) ==
    \E W \in Errand :
        /\ work' = [work EXCEPT ![c] = W] /\ jobs' = jobs /\ work[c].todo = {}
        /\ W.pc = "drop" /\ W.op = work[c].op /\ W.pend = work[c].pend

PauseTook(c, j) ==
    \E W \in Errand :
        /\ work' = [work EXCEPT ![c] = W] /\ jobs' \in [Job -> Task]
        /\ W.pc = "pause" /\ W.op = work[c].op /\ W.pend = work[c].pend
        /\ W.todo = work[c].todo \ {j}
        /\ \A i \in Job : /\ jobs'[i].snap = jobs[i].snap
                          /\ jobs'[i].at = "heap" => jobs[i].at = "heap" /\ i # j

LEMMA PauseErrands ==
    ASSUME ErrandsShape, NEW c \in Server, PauseNext(c)
    PROVE  PauseDone(c) \/ \E j \in Job : PauseTook(c, j)
<1>0. work \in [Server -> Errand] /\ work[c] \in Errand /\ work[c].pc = "pause"
  BY DEF ErrandsShape, PauseNext
<1>1. CASE work[c].todo = {} /\ Goto(c, "drop") /\ UNCHANGED jobs
  <2> DEFINE W == [work[c] EXCEPT !.pc = "drop"]
  <2>1. W \in Errand /\ W.pc = "drop" /\ W.op = work[c].op /\ W.pend = work[c].pend
    BY <1>0 DEF Errand
  <2>2. work' = [work EXCEPT ![c] = W] BY <1>1 DEF Goto
  <2> HIDE DEF W
  <2> QED BY <1>1, <2>1, <2>2 DEF PauseDone
<1>2. ASSUME NEW j \in work[c].todo, NEW taken, taken = {j} \cap {i \in Job : jobs[i].at = "heap"},
             jobs' = [i \in Job |-> IF i \in taken THEN [jobs[i] EXCEPT !.at = "taken"] ELSE jobs[i]],
             work' = [work EXCEPT ![c].todo = @ \ {j}, ![c].held = taken]
      PROVE  \E i \in Job : PauseTook(c, i)
  <2> DEFINE W == [work[c] EXCEPT !.todo = @ \ {j}, !.held = taken]
  <2>1. j \in Job /\ taken \subseteq Job BY <1>0, <1>2 DEF Errand
  <2>2. /\ W \in Errand /\ W.pc = "pause" /\ W.op = work[c].op /\ W.pend = work[c].pend
        /\ W.todo = work[c].todo \ {j}
    BY <1>0, <2>1 DEF Errand
  <2>3. work' = [work EXCEPT ![c] = W] BY <1>2
  <2> HIDE DEF W
  <2>4. jobs \in [Job -> Task] BY DEF ErrandsShape
  <2>5. ASSUME NEW i \in Job
        PROVE  /\ jobs'[i] \in Task /\ jobs'[i].snap = jobs[i].snap
               /\ jobs'[i].at = "heap" => jobs[i].at = "heap" /\ i # j
    <3>1. jobs[i] \in Task BY <2>4
    <3>2. CASE i \in taken
      <4>1. jobs'[i] = [jobs[i] EXCEPT !.at = "taken"] BY <1>2, <3>2
      <4> QED BY <3>1, <4>1 DEF Task, TaskAt
    <3>3. CASE i \notin taken
      <4>1. jobs'[i] = jobs[i] BY <1>2, <3>3
      <4> QED BY <1>2, <2>1, <3>1, <3>3, <4>1
    <3> QED BY <3>2, <3>3
  <2>6. jobs' \in [Job -> Task]
    <3> DEFINE J(i) == IF i \in taken THEN [jobs[i] EXCEPT !.at = "taken"] ELSE jobs[i]
    <3>1. jobs' = [i \in Job |-> J(i)] BY <1>2
    <3> HIDE DEF J
    <3>2. \A i \in Job : J(i) \in Task BY <2>5, <3>1
    <3> QED BY <3>1, <3>2
  <2> QED BY <2>1, <2>2, <2>3, <2>5, <2>6 DEF PauseTook
<1> QED BY <1>1, <1>2 DEF PauseNext

LEMMA PausedShape ==
    ASSUME ErrandsShape, NEW c \in Server, WritePaused(c)
    PROVE  /\ ErrandsShape'
           /\ \E j \in Job : \A d \in Server :
                /\ Uncounted(work'[d], work[d], {j}) /\ j \notin work'[d].pend
                /\ \A i \in Job : i # j => jobs'[i] = jobs[i]
<1>0. work \in [Server -> Errand] /\ work[c] \in Errand BY DEF ErrandsShape
<1>1. PICK j \in work[c].held : /\ jobs' = [jobs EXCEPT ![j].snap = "paused", ![j].at = "none"]
                                /\ work' = Moved(j, [work EXCEPT ![c].held = {}])
  BY DEF WritePaused
<1>2. j \in Job BY <1>0 DEF Errand
<1> DEFINE W == [work[c] EXCEPT !.held = {}]
           left == [work EXCEPT ![c] = W]
<1>3. W \in Errand /\ Uncounted(W, work[c], {}) BY <1>0 DEF Errand, Uncounted
<1>4. work' = Moved(j, left) BY <1>1
<1> HIDE DEF W
<1>5. left \in [Server -> Errand] /\ \A d \in Server : Uncounted(left[d], work[d], {})
  BY <1>0, <1>3 DEF Uncounted
<1> HIDE DEF left
<1>6. /\ work' \in [Server -> Errand]
      /\ \A d \in Server : Uncounted(work'[d], left[d], {j}) /\ j \notin work'[d].pend
  BY <1>4, <1>5, MovedErrands
<1>7. \A d \in Server : Uncounted(work'[d], work[d], {j}) BY <1>5, <1>6 DEF Uncounted
<1>8. jobs' \in [Job -> Task] /\ \A i \in Job : i # j => jobs'[i] = jobs[i]
  BY <1>1, <1>2 DEF ErrandsShape, Task, TaskSnap, TaskAt
<1>9. UNCHANGED <<records, counted>> BY DEF WritePaused
<1> QED BY <1>2, <1>6, <1>7, <1>8, <1>9 DEF ErrandsShape, counted, Uncounted

\* A step of one request, of a task, and of the applier, as the errands see it.
LEMMA ErrandMoves ==
    ASSUME ErrandsShape, records' \subseteq Recorded, jobs' = jobs, asked' \in Nat, faults' \in Nat,
           NEW c \in Server, NEW W \in Errand, work' = [work EXCEPT ![c] = W],
           W = NoWork \/ W.op # "none"
    PROVE  ErrandsShape' /\ work'[c] = W /\ \A d \in Server : d # c => work'[d] = work[d]
BY NoWorkIsErrand DEF ErrandsShape

TaskStep(j) ==
    LookUp(j) \/ SaveTask(j) \/ PushTask(j) \/ PopTask(j) \/ Execute(j) \/ Finish(j) \/ Resume(j)

LEMMA PushShape ==
    ASSUME ErrandsShape, NEW j \in Job, PushTask(j)
    PROVE  /\ jobs' \in [Job -> Task] /\ work' \in [Server -> Errand]
           /\ jobs'[j].snap = jobs[j].snap
           /\ \A i \in Job : i # j => jobs'[i] = jobs[i]
           /\ \A d \in Server : Uncounted(work'[d], work[d], {j})
           /\ \A d \in Server : StillToCome(d, j) \/ j \notin work'[d].pend
<1>0. work \in [Server -> Errand] /\ jobs \in [Job -> Task] BY DEF ErrandsShape
<1> DEFINE P(d) == IF StillToCome(d, j) THEN work[d] ELSE [work[d] EXCEPT !.pend = @ \ {j}]
<1>1. ASSUME NEW d \in Server
      PROVE  /\ P(d) \in Errand /\ Uncounted(P(d), work[d], {j})
             /\ StillToCome(d, j) \/ j \notin P(d).pend
  <2>1. work[d] \in Errand BY <1>0
  <2>2. CASE StillToCome(d, j) BY <2>1, <2>2 DEF Uncounted
  <2>3. CASE ~StillToCome(d, j)
    <3>1. P(d) = [work[d] EXCEPT !.pend = @ \ {j}] BY <2>3
    <3> HIDE DEF P
    <3> QED BY <2>1, <3>1 DEF Errand, Uncounted
  <2> QED BY <2>2, <2>3
<1>2. work' = [d \in Server |-> P(d)] BY DEF PushTask
<1> HIDE DEF P
<1>3. jobs' \in [Job -> Task] /\ jobs'[j].snap = jobs[j].snap /\ \A i \in Job : i # j => jobs'[i] = jobs[i]
  BY <1>0 DEF PushTask, Task, TaskAt
<1> QED BY <1>1, <1>2, <1>3

LEMMA SetShape ==
    ASSUME ErrandsShape, NEW j \in Job, NEW t \in Task, jobs' = [jobs EXCEPT ![j] = t],
           work' = Moved(j, work)
    PROVE  /\ jobs' \in [Job -> Task] /\ work' \in [Server -> Errand]
           /\ \A i \in Job : i # j => jobs'[i] = jobs[i]
           /\ \A d \in Server : Uncounted(work'[d], work[d], {j}) /\ j \notin work'[d].pend
<1>1. work \in [Server -> Errand] /\ jobs \in [Job -> Task] BY DEF ErrandsShape
<1>2. jobs' \in [Job -> Task] /\ \A i \in Job : i # j => jobs'[i] = jobs[i] BY <1>1
<1> QED BY <1>1, <1>2, MovedErrands

LEMMA SetTask ==
    ASSUME ErrandsShape, NEW j \in Job, TaskStep(j), ~PushTask(j)
    PROVE  \E t \in Task : jobs' = [jobs EXCEPT ![j] = t] /\ work' = Moved(j, work)
<1>0. jobs[j].bound \in BOOLEAN BY DEF ErrandsShape, Task
<1> DEFINE T(s, a, b) == [snap |-> s, at |-> a, bound |-> b]
           Set(t) == jobs' = [jobs EXCEPT ![j] = t] /\ work' = Moved(j, work)
<1>1. /\ {T("none", "looked", TRUE), T("pending", "saved", TRUE), T("running", "worker", TRUE),
          T("over", "none", FALSE), T("paused", "none", FALSE)} \subseteq Task
      /\ \A b \in BOOLEAN : T("pending", "popped", b) \in Task /\ T("pending", "saved", b) \in Task
  BY DEF Task, TaskSnap, TaskAt
<1>2. CASE LookUp(j) \/ SaveTask(j) \/ Execute(j) \/ Finish(j)
  <2>1. \/ Set(T("none", "looked", TRUE)) \/ Set(T("pending", "saved", TRUE))
        \/ Set(T("running", "worker", TRUE)) \/ Set(T("over", "none", FALSE))
        \/ Set(T("paused", "none", FALSE))
    BY <1>2 DEF LookUp, SaveTask, Execute, Finish, SetJob
  <2> HIDE DEF T
  <2> QED BY <1>1, <2>1
<1>3. CASE PopTask(j) \/ Resume(j)
  <2>0. PICK b \in BOOLEAN : b = jobs[j].bound BY <1>0
  <2>1. PICK d \in BOOLEAN : d <=> JobName[j] \in DOMAIN handlers
    <3>1. CASE JobName[j] \in DOMAIN handlers BY <3>1
    <3>2. CASE JobName[j] \notin DOMAIN handlers BY <3>2
    <3> QED BY <3>1, <3>2
  <2>2. Set(T("pending", "popped", b)) \/ Set(T("pending", "saved", d))
    BY <1>3, <2>0, <2>1 DEF PopTask, Resume, SetJob
  <2> HIDE DEF T
  <2> QED BY <1>1, <2>2
<1> QED BY <1>2, <1>3 DEF TaskStep

LEMMA TaskShape ==
    ASSUME ErrandsShape, NEW j \in Job, TaskStep(j)
    PROVE  /\ ErrandsShape' /\ UNCHANGED <<registryVars, records, disk, behind>>
           /\ \A d \in Server : Uncounted(work'[d], work[d], {j})
           /\ \A i \in Job : i # j => jobs'[i] = jobs[i]
           /\ \A d \in Server : j \in work'[d].pend =>
                  jobs'[j].snap = jobs[j].snap /\ StillToCome(d, j)
<1>0. UNCHANGED <<registryVars, records, disk, counted, behind>>
  BY DEF TaskStep, LookUp, SaveTask, PushTask, PopTask, Execute, Finish, Resume, SetJob, TaskFrame
<1>1. CASE PushTask(j)
  <2>1. ErrandsShape' BY <1>0, <1>1, PushShape DEF ErrandsShape, counted, Uncounted
  <2> QED BY <1>0, <1>1, <2>1, PushShape
<1>2. CASE ~PushTask(j)
  <2>1. PICK t \in Task : jobs' = [jobs EXCEPT ![j] = t] /\ work' = Moved(j, work)
    BY <1>2, SetTask
  <2>2. /\ jobs' \in [Job -> Task] /\ work' \in [Server -> Errand]
        /\ \A i \in Job : i # j => jobs'[i] = jobs[i]
        /\ \A d \in Server : Uncounted(work'[d], work[d], {j}) /\ j \notin work'[d].pend
    BY <2>1, SetShape
  <2>3. ErrandsShape' BY <1>0, <2>2 DEF ErrandsShape, counted, Uncounted
  <2> QED BY <1>0, <2>2, <2>3
<1> QED BY <1>1, <1>2

ApplierStep(c) == BeginApply(c) \/ SwapApply(c) \/ SyncApply(c)

\* The steps of a request that answer or go on, from where they leave.
LEMMA StepErrand ==
    ASSUME ErrandsShape, NEW c \in Server,
           LookupKey(c) \/ SaveRecord(c) \/ DropRecord(c) \/ ApplierStep(c)
    PROVE  /\ \/ UNCHANGED work
              \/ Proceeds(c, {"save", "apply", "applying", "undo"})
           /\ jobs' = jobs /\ asked' = asked
           /\ faults' = faults \/ faults' = faults + 1
<1>1. CASE LookupKey(c)
  <2>1. work[c].pc = "lookup" BY <1>1 DEF LookupKey
  <2>2. Proceeds(c, {"save"}) BY <1>1, <2>1, GotoErrand DEF LookupKey
  <2> QED BY <1>1, <2>2 DEF LookupKey, Proceeds, counted
<1>2. CASE SaveRecord(c) \/ DropRecord(c)
  <2>1. work[c].pc # "idle" /\ (Answer(c) \/ Goto(c, "apply"))
    BY <1>2 DEF SaveRecord, DropRecord
  <2>2. Proceeds(c, {"apply"}) BY <2>1, GotoErrand
  <2>3. jobs' = jobs /\ asked' = asked /\ (faults' = faults \/ faults' = faults + 1)
    BY <1>2 DEF SaveRecord, DropRecord, Write
  <2> QED BY <2>2, <2>3 DEF Proceeds
<1>3. CASE BeginApply(c)
  <2>1. work[c].pc = "apply" BY <1>3 DEF BeginApply
  <2>2. Proceeds(c, {"applying"}) BY <1>3, <2>1, GotoErrand DEF BeginApply
  <2> QED BY <1>3, <2>2 DEF BeginApply, Proceeds, counted
<1>4. CASE SwapApply(c)
  <2>1. work[c].pc = "applying" BY <1>4 DEF SwapApply
  <2>2. UNCHANGED work \/ Proceeds(c, {"undo"}) BY <1>4, <2>1, GotoErrand DEF SwapApply
  <2> QED BY <1>4, <2>2 DEF SwapApply, Proceeds, counted
<1>5. CASE SyncApply(c)
  <2>1. Proceeds(c, {"undo"})
    BY <1>5, NoWorkIsErrand DEF SyncApply, Answer, Proceeds
  <2> QED BY <1>5, <2>1 DEF SyncApply, Proceeds, counted
<1> QED BY <1>1, <1>2, <1>3, <1>4, <1>5 DEF ApplierStep

\* Every step keeps the shape of the errands.
LEMMA RecordsShape ==
    ASSUME ErrandsShape, NEW c \in Server, SaveRecord(c) \/ DropRecord(c)
    PROVE  records' \subseteq Recorded
<1>1. work[c] \in Errand BY DEF ErrandsShape
<1>2. [name |-> work[c].name, rev |-> work[c].rev] \in Recorded BY <1>1 DEF Errand, Recorded
<1>3. CASE SaveRecord(c) BY <1>2, <1>3 DEF SaveRecord, Write, ErrandsShape, Without
<1>4. CASE DropRecord(c) BY <1>4 DEF DropRecord, Write, ErrandsShape, Without
<1> QED BY <1>3, <1>4

ReloadStep == (\E l \in Lists : Reload(l)) \/ SwapReload \/ SyncReload

LEMMA ErrandsShapeStep ==
    ASSUME ErrandsShape, [Next]_vars
    PROVE  ErrandsShape'
<1>1. ASSUME NEW c \in Server, NEW op \in {"create", "update", "delete"}, NEW n \in Name, Ask(c, op, n)
      PROVE  ErrandsShape'
  <2>1. PICK W \in Errand : work' = [work EXCEPT ![c] = W] /\ W.op = op BY <1>1, AskErrand
  <2>2. records' = records /\ jobs' = jobs /\ asked' = asked + 1 /\ faults' = faults BY <1>1 DEF Ask
  <2>3. records' \subseteq Recorded /\ asked' \in Nat /\ faults' \in Nat BY <2>2 DEF ErrandsShape
  <2> QED BY <2>1, <2>2, <2>3, ErrandMoves
<1>2. ASSUME NEW c \in Server, GetRecord(c) \/ Tally(c) PROVE ErrandsShape'
  <2>1. UNCHANGED <<records, jobs, counted>> BY <1>2 DEF GetRecord, Tally
  <2>2. \E W \in Errand : work' = [work EXCEPT ![c] = W] /\ (W = NoWork \/ W.op # "none")
    BY <1>2, GetErrand, TallyErrand
  <2>3. records' \subseteq Recorded /\ asked' \in Nat /\ faults' \in Nat
    BY <2>1 DEF ErrandsShape, counted
  <2> QED BY <2>1, <2>2, <2>3, ErrandMoves
<1>3. ASSUME NEW c \in Server, LookupKey(c) \/ SaveRecord(c) \/ DropRecord(c) \/ ApplierStep(c)
      PROVE  ErrandsShape'
  <2>1. records' \subseteq Recorded
    <3>1. CASE SaveRecord(c) \/ DropRecord(c) BY <3>1, RecordsShape
    <3>2. CASE LookupKey(c) \/ ApplierStep(c)
      BY <3>2 DEF LookupKey, ApplierStep, BeginApply, SwapApply, SyncApply, ErrandsShape
    <3> QED BY <1>3, <3>1, <3>2
  <2>2. /\ UNCHANGED work \/ Proceeds(c, {"save", "apply", "applying", "undo"})
        /\ jobs' = jobs /\ asked' = asked /\ (faults' = faults \/ faults' = faults + 1)
    BY <1>3, StepErrand
  <2>3. asked' \in Nat /\ faults' \in Nat BY <2>2 DEF ErrandsShape
  <2>4. CASE UNCHANGED work BY <2>1, <2>2, <2>3, <2>4 DEF ErrandsShape
  <2>5. CASE Proceeds(c, {"save", "apply", "applying", "undo"})
    <3>1. PICK W \in Errand : work' = [work EXCEPT ![c] = W] /\ (W = NoWork \/ W.op # "none")
      BY <2>5 DEF Proceeds
    <3> QED BY <2>1, <2>2, <2>3, <3>1, ErrandMoves
  <2> QED BY <2>2, <2>4, <2>5
<1>4. ASSUME NEW c \in Server, ListTasks(c) \/ PauseNext(c) PROVE ErrandsShape'
  <2>1. UNCHANGED <<records, counted>> BY <1>4 DEF ListTasks, PauseNext
  <2>2. work[c].op # "none" /\ (ListTasks(c) => jobs' = jobs)
    BY <1>4 DEF ListTasks, PauseNext, ErrandsShape
  <2>3. /\ jobs' \in [Job -> Task]
        /\ \E W \in Errand : work' = [work EXCEPT ![c] = W] /\ W.op # "none"
    <3>1. CASE ListTasks(c) BY <2>2, <3>1, ListErrand DEF ErrandsShape
    <3>2. CASE PauseNext(c)
      BY <2>2, <3>2, PauseErrands DEF PauseDone, PauseTook, ErrandsShape
    <3> QED BY <1>4, <3>1, <3>2
  <2>4. PICK W \in Errand : work' = [work EXCEPT ![c] = W] /\ W.op # "none" BY <2>3
  <2> QED BY <2>1, <2>3, <2>4 DEF ErrandsShape, counted
<1>5. CASE ReloadStep
  BY <1>5 DEF ReloadStep, Reload, SwapReload, SyncReload, ErrandsShape, counted
<1>6. ASSUME NEW j \in Job, TaskStep(j) PROVE ErrandsShape' BY <1>6, TaskShape
<1>7. CASE UNCHANGED vars BY <1>7 DEF vars, ErrandsShape, counted
<1>9. ASSUME NEW c \in Server, WritePaused(c) PROVE ErrandsShape' BY <1>9, PausedShape
<1>8. CASE Next
  BY <1>1, <1>2, <1>3, <1>4, <1>5, <1>6, <1>8, <1>9 DEF Next, Request, ReloadStep, TaskStep, ApplierStep
<1> QED BY <1>7, <1>8

\* A task that was counted and has not moved since waits; in the heap it is before a
\* request only as long as that request has still to come to it.
CountedWait ==
    \A c \in Server : \A j \in work[c].pend :
        /\ jobs[j].snap = "pending"
        /\ jobs[j].at = "heap" => StillToCome(c, j)
        /\ work[c].pc = "list" => JobName[j] = work[c].old.name

LEMMA CountedDesk ==
    ASSUME ErrandsShape, CountedWait, jobs' = jobs, NEW c \in Server, NEW W \in Errand,
           work' = [work EXCEPT ![c] = W],
           \/ W.pend = {}
           \/ W.pend = work[c].pend /\ work[c].pc \notin {"list", "pause"} /\ W.pc # "list"
    PROVE  CountedWait'
<1>1. work'[c] = W /\ \A d \in Server : d # c => work'[d] = work[d] BY DEF ErrandsShape
<1> QED BY <1>1 DEF CountedWait, StillToCome

LEMMA CountedStep ==
    ASSUME ErrandsShape, CountedWait, [Next]_vars
    PROVE  CountedWait'
<1>0. work \in [Server -> Errand] BY DEF ErrandsShape
<1>1. ASSUME NEW c \in Server, NEW op \in {"create", "update", "delete"}, NEW n \in Name, Ask(c, op, n)
      PROVE  CountedWait'
  <2>1. PICK W \in Errand : work' = [work EXCEPT ![c] = W] /\ W.pend = {} BY <1>1, AskErrand
  <2>2. jobs' = jobs BY <1>1 DEF Ask
  <2> QED BY <2>1, <2>2, CountedDesk
<1>2. ASSUME NEW c \in Server, GetRecord(c) PROVE CountedWait'
  <2>1. jobs' = jobs /\ work[c].pc = "get" BY <1>2 DEF GetRecord
  <2>2. PICK W \in Errand :
          /\ work' = [work EXCEPT ![c] = W]
          /\ W = NoWork \/ (W.pend = work[c].pend /\ W.pc \in {"lookup", "save", "tally"})
    BY <1>2, GetErrand
  <2> QED BY <2>1, <2>2, CountedDesk, NoWorkIsErrand
<1>3. ASSUME NEW c \in Server, Tally(c) PROVE CountedWait'
  <2>1. jobs' = jobs BY <1>3 DEF Tally
  <2>2. PICK W \in Errand :
          /\ work' = [work EXCEPT ![c] = W]
          /\ \/ W = NoWork
             \/ /\ W.pend = Pending(work[c].old.name) /\ W.old = work[c].old
                /\ W.pc = "list" \/ (W.pc = "drop" /\ W.pend = {})
    BY <1>3, TallyErrand
  <2>3. CASE W.pend = {} BY <2>1, <2>2, <2>3, CountedDesk
  <2>4. CASE W.pend # {}
    <3>1. work'[c] = W /\ \A d \in Server : d # c => work'[d] = work[d] BY <1>0, <2>2
    <3>2. W.pc = "list" /\ \A j \in W.pend : jobs[j].snap = "pending" /\ JobName[j] = W.old.name
      BY <2>2, <2>4, NoWorkIsErrand DEF Pending, InState
    <3> QED BY <2>1, <3>1, <3>2 DEF CountedWait, StillToCome
  <2> QED BY <2>3, <2>4
<1>4. ASSUME NEW c \in Server, LookupKey(c) \/ SaveRecord(c) \/ DropRecord(c) \/ ApplierStep(c)
      PROVE  CountedWait'
  <2>1. jobs' = jobs /\ (UNCHANGED work \/ Proceeds(c, {"save", "apply", "applying", "undo"}))
    BY <1>4, StepErrand
  <2>2. work[c].pc \notin {"list", "pause"}
    BY <1>4 DEF LookupKey, SaveRecord, DropRecord, ApplierStep, BeginApply, SwapApply, SyncApply
  <2>3. CASE UNCHANGED work BY <2>1, <2>3 DEF CountedWait, StillToCome
  <2>4. CASE Proceeds(c, {"save", "apply", "applying", "undo"})
    <3>1. PICK W \in Errand :
            /\ work' = [work EXCEPT ![c] = W]
            /\ \/ W = NoWork
               \/ W.pend = work[c].pend /\ W.pc \in {"save", "apply", "applying", "undo"}
      BY <2>4 DEF Proceeds
    <3> QED BY <2>1, <2>2, <3>1, CountedDesk, NoWorkIsErrand
  <2> QED BY <2>1, <2>3, <2>4
<1>5. ASSUME NEW c \in Server, ListTasks(c) PROVE CountedWait'
  <2>1. jobs' = jobs /\ work[c].pc = "list" BY <1>5 DEF ListTasks
  <2>2. PICK W \in Errand :
          /\ work' = [work EXCEPT ![c] = W] /\ W.pc = "pause" /\ W.pend = work[c].pend
          /\ W.todo = InState(work[c].old.name, {"pending", "running"})
    BY <1>5, ListErrand
  <2>3. work'[c] = W /\ \A d \in Server : d # c => work'[d] = work[d] BY <1>0, <2>2
  <2>4. W.pend \subseteq W.todo
    <3>1. work[c].pend \subseteq Job BY <1>0 DEF Errand
    <3> QED BY <2>1, <2>2, <3>1 DEF CountedWait, InState
  <2> QED BY <2>1, <2>2, <2>3, <2>4 DEF CountedWait, StillToCome
<1>6. ASSUME NEW c \in Server, PauseNext(c) PROVE CountedWait'
  <2>1. work[c].pc = "pause" /\ work[c].pend \subseteq Job BY <1>0, <1>6 DEF PauseNext, Errand
  <2>2. CASE PauseDone(c)
    <3>1. PICK W \in Errand :
            /\ work' = [work EXCEPT ![c] = W] /\ jobs' = jobs /\ work[c].todo = {}
            /\ W.pc = "drop" /\ W.pend = work[c].pend
      BY <2>2 DEF PauseDone
    <3>2. work'[c] = W /\ \A d \in Server : d # c => work'[d] = work[d] BY <1>0, <3>1
    <3> QED BY <2>1, <3>1, <3>2 DEF CountedWait, StillToCome
  <2>3. ASSUME NEW j \in Job, PauseTook(c, j) PROVE CountedWait'
    <3>1. PICK W \in Errand :
            /\ work' = [work EXCEPT ![c] = W] /\ W.pc = "pause" /\ W.pend = work[c].pend
            /\ W.todo = work[c].todo \ {j}
            /\ \A i \in Job : /\ jobs'[i].snap = jobs[i].snap
                              /\ jobs'[i].at = "heap" => jobs[i].at = "heap" /\ i # j
      BY <2>3 DEF PauseTook
    <3>2. work'[c] = W /\ \A d \in Server : d # c => work'[d] = work[d] BY <1>0, <3>1
    <3>3. \A d \in Server : work[d].pend \subseteq Job BY <1>0 DEF Errand
    <3> QED BY <2>1, <3>1, <3>2, <3>3 DEF CountedWait, StillToCome
  <2> QED BY <1>6, <2>2, <2>3, PauseErrands
<1>7. ASSUME NEW c \in Server, WritePaused(c) PROVE CountedWait'
  <2>1. PICK j \in Job : \A d \in Server :
          /\ Uncounted(work'[d], work[d], {j}) /\ j \notin work'[d].pend
          /\ \A i \in Job : i # j => jobs'[i] = jobs[i]
    BY <1>7, PausedShape
  <2>2. \A d \in Server : work[d].pend \subseteq Job BY <1>0 DEF Errand
  <2> QED BY <2>1, <2>2 DEF CountedWait, StillToCome, Uncounted
<1>8. CASE ReloadStep
  BY <1>8 DEF ReloadStep, Reload, SwapReload, SyncReload, CountedWait, StillToCome
<1>9. ASSUME NEW j \in Job, TaskStep(j) PROVE CountedWait'
  <2>1. /\ \A d \in Server : Uncounted(work'[d], work[d], {j})
        /\ \A i \in Job : i # j => jobs'[i] = jobs[i]
        /\ \A d \in Server : j \in work'[d].pend => jobs'[j].snap = jobs[j].snap /\ StillToCome(d, j)
    BY <1>9, TaskShape
  <2>2. \A d \in Server : work[d].pend \subseteq Job BY <1>0 DEF Errand
  <2> QED BY <2>1, <2>2 DEF CountedWait, StillToCome, Uncounted
<1>10. CASE UNCHANGED vars BY <1>10 DEF vars, CountedWait, StillToCome
<1>11. CASE Next
  BY <1>1, <1>2, <1>3, <1>4, <1>5, <1>6, <1>7, <1>8, <1>9, <1>11
  DEF Next, Request, ReloadStep, TaskStep, ApplierStep
<1> QED BY <1>10, <1>11

\* DeleteExecutorProfile: no task that was in the heap, and waits there since it was counted
\* or was pushed there before its turn, is still there when the record goes.
THEOREM DeletesPauseFirst == Spec => []DeletedIsPinned
<1>1. Init => ErrandsShape /\ CountedWait
  BY ErrandsShapeInit, NoWorkIsErrand DEF Init, CountedWait
<1>2. ErrandsShape /\ CountedWait /\ [Next]_vars => (ErrandsShape /\ CountedWait)'
  BY ErrandsShapeStep, CountedStep
<1>3. CountedWait => DeletedIsPinned BY DEF CountedWait, DeletedIsPinned, StillToCome
<1> QED BY <1>1, <1>2, <1>3, PTL DEF Spec

\* A table of profiles, the part of it that is configured, and what a batch of the store
\* makes of it: T is t with the records of R that give way to nothing.
IsTable(t) ==
    /\ t = [n \in DOMAIN t |-> t[n]]
    /\ \A n \in DOMAIN t : t[n].source \in Source

ConfigTrue(t, list) ==
    /\ From(t, "config") = DOMAIN list
    /\ \A n \in DOMAIN list : t[n] = Entry("config", list[n])
    /\ From(t, "adhoc") \subseteq Builtin

Unalike(R) == \A r, s \in R : r.name = s.name => r = s

Free(R, list) == {r \in Buildable(R) : r.name \notin DOMAIN list}

Stocked(T, t, R, list) ==
    /\ \A n : n \in DOMAIN T <=> (n \in DOMAIN t /\ n \notin From(t, "store"))
                               \/ \E r \in Free(R, list) : r.name = n
    /\ \A r \in Free(R, list) : T[r.name] = Entry("store", r.rev)
    /\ \A n \in DOMAIN T : (\A r \in Free(R, list) : r.name # n) => T[n] = t[n]

LEMMA WithStoreStocks ==
    ASSUME NEW t, NEW R, NEW list, From(t, "config") = DOMAIN list, Unalike(R)
    PROVE  /\ Stocked(WithStore(t, R), t, R, list)
           /\ WithStore(t, R) = [n \in DOMAIN WithStore(t, R) |-> WithStore(t, R)[n]]
<1> DEFINE mine == Free(R, list)
           rest == DOMAIN t \ From(t, "store")
           D == rest \cup {r.name : r \in mine}
           V(n) == IF \E r \in mine : r.name = n
                   THEN Entry("store", (CHOOSE r \in mine : r.name = n).rev) ELSE t[n]
<1>1. WithStore(t, R) = [n \in D |-> V(n)] BY DEF WithStore, Free
<1>2. \A r \in mine : V(r.name) = Entry("store", r.rev)
  <2> TAKE r \in mine
  <2>1. \A s \in mine : s.name = r.name => s = r BY DEF Free, Buildable, Unalike
  <2>2. (CHOOSE s \in mine : s.name = r.name) = r BY <2>1
  <2> QED BY <2>2
<1>3. \A n : (\A r \in mine : r.name # n) => V(n) = t[n] OBVIOUS
<1>4. \A n : n \in D <=> (n \in DOMAIN t /\ n \notin From(t, "store")) \/ \E r \in mine : r.name = n
  OBVIOUS
<1> HIDE DEF D, V
<1>5. DOMAIN WithStore(t, R) = D /\ \A n \in D : WithStore(t, R)[n] = V(n) BY <1>1
<1>6. \A r \in mine : r.name \in D BY <1>4
<1> QED BY <1>1, <1>2, <1>3, <1>4, <1>5, <1>6 DEF Stocked

\* The entries of the store are those of the records that give way to nothing.
StoreTrue(t, list, R) ==
    /\ \A n : n \in From(t, "store") <=> \E r \in Free(R, list) : r.name = n
    /\ \A r \in Free(R, list) : t[r.name] = Entry("store", r.rev)

Yields(R, list) == {r \in Buildable(R) : r.name \in DOMAIN list}

DegradedTrue(d, list, R) ==
    /\ \A r \in Yields(R, list) : r \in d
    /\ \A r \in d : r.name \in Builtin \/ r \in Yields(R, list)

LEMMA EntryFields == \A s, v : Entry(s, v).source = s /\ Entry(s, v).rev = v
BY DEF Entry

LEMMA StockedTrue ==
    ASSUME NEW t, NEW T, NEW R, NEW list, IsTable(t), ConfigTrue(t, list),
           T = [n \in DOMAIN T |-> T[n]], Stocked(T, t, R, list)
    PROVE  /\ IsTable(T) /\ ConfigTrue(T, list) /\ StoreTrue(T, list, R)
           /\ \A n \in DOMAIN T \ From(T, "store") : n \in DOMAIN t /\ T[n] = t[n]
<1>1. ASSUME NEW n \in DOMAIN T
      PROVE  \/ \E r \in Free(R, list) : r.name = n /\ T[n] = Entry("store", r.rev)
             \/ /\ \A r \in Free(R, list) : r.name # n
                /\ T[n] = t[n] /\ n \in DOMAIN t /\ n \notin From(t, "store")
  BY DEF Stocked
<1>2. IsTable(T)
  <2>1. ASSUME NEW n \in DOMAIN T PROVE T[n].source \in Source
    <3>1. CASE \E r \in Free(R, list) : T[n] = Entry("store", r.rev)
      BY <3>1, EntryFields DEF Source
    <3>2. CASE T[n] = t[n] /\ n \in DOMAIN t BY <3>2 DEF IsTable
    <3> QED BY <1>1, <3>1, <3>2
  <2> QED BY <2>1 DEF IsTable
<1>3. \A n : n \in From(T, "store") <=> \E r \in Free(R, list) : r.name = n
  <2>1. ASSUME NEW n \in DOMAIN T, T[n].source = "store" PROVE \E r \in Free(R, list) : r.name = n
    BY <1>1, <2>1 DEF From
  <2>2. ASSUME NEW r \in Free(R, list) PROVE r.name \in DOMAIN T /\ T[r.name].source = "store"
    BY EntryFields DEF Stocked
  <2> QED BY <2>1, <2>2 DEF From
<1>4. \A r \in Free(R, list) : T[r.name] = Entry("store", r.rev) BY DEF Stocked
<1>5. \A n \in DOMAIN T \ From(T, "store") : n \in DOMAIN t /\ T[n] = t[n]
  BY <1>1, <1>3
<1>6. \A n \in DOMAIN list : n \in DOMAIN T /\ T[n] = t[n]
  <2> TAKE n \in DOMAIN list
  <2>1. n \in DOMAIN t /\ t[n].source = "config" BY DEF ConfigTrue, From
  <2>2. n \notin From(t, "store") BY <2>1 DEF From
  <2>3. \A r \in Free(R, list) : r.name # n BY DEF Free
  <2>4. n \in DOMAIN T BY <2>1, <2>2 DEF Stocked
  <2> QED BY <2>3, <2>4 DEF Stocked
<1>7. From(T, "config") = DOMAIN list
  <2>1. ASSUME NEW n \in DOMAIN T, T[n].source = "config" PROVE n \in DOMAIN list
    <3>1. n \notin From(T, "store") BY <2>1 DEF From
    <3>2. n \in DOMAIN t /\ t[n].source = "config" BY <1>5, <2>1, <3>1
    <3> QED BY <3>2 DEF ConfigTrue, From
  <2>2. ASSUME NEW n \in DOMAIN list PROVE n \in DOMAIN T /\ T[n].source = "config"
    BY <1>6, EntryFields DEF ConfigTrue
  <2> QED BY <2>1, <2>2 DEF From
<1>8. From(T, "adhoc") \subseteq Builtin
  <2>1. ASSUME NEW n \in DOMAIN T, T[n].source = "adhoc" PROVE n \in Builtin
    <3>1. n \notin From(T, "store") BY <2>1 DEF From
    <3>2. n \in DOMAIN t /\ t[n].source = "adhoc" BY <1>5, <2>1, <3>1
    <3> QED BY <3>2 DEF ConfigTrue, From
  <2> QED BY <2>1 DEF From
<1> QED BY <1>2, <1>3, <1>4, <1>5, <1>6, <1>7, <1>8 DEF ConfigTrue, StoreTrue

LEMMA NewTableTrue ==
    ASSUME NEW list
    PROVE  /\ IsTable(NewTable(list)) /\ ConfigTrue(NewTable(list), list)
           /\ \A n : n \in DOMAIN NewTable(list) <=> n \in DOMAIN list \/ n \in Builtin
<1> DEFINE T == NewTable(list)
<1>1. /\ DOMAIN T = DOMAIN list \cup Builtin /\ T = [n \in DOMAIN T |-> T[n]]
      /\ \A n \in DOMAIN list : T[n] = Entry("config", list[n])
      /\ \A n \in Builtin \ DOMAIN list : T[n] = Entry("adhoc", 0)
  BY DEF NewTable
<1> HIDE DEF T
<1>2. /\ \A n \in DOMAIN list : T[n].source = "config"
      /\ \A n \in Builtin \ DOMAIN list : T[n].source = "adhoc"
  BY <1>1, EntryFields
<1>3. IsTable(T) /\ ConfigTrue(T, list) BY <1>1, <1>2 DEF IsTable, ConfigTrue, From, Source
<1> QED BY <1>1, <1>3 DEF T

\* What a batch of the configuration makes of a table.
LEMMA WithConfigTrue ==
    ASSUME NEW t, NEW old, NEW list, IsTable(t), ConfigTrue(t, old)
    PROVE  /\ IsTable(WithConfig(t, list)) /\ ConfigTrue(WithConfig(t, list), list)
           /\ \A n : n \in DOMAIN WithConfig(t, list)
                      <=> n \in DOMAIN list \/ (n \in DOMAIN t /\ n \notin DOMAIN old)
           /\ \A n \in DOMAIN t \ (DOMAIN old \cup DOMAIN list) : WithConfig(t, list)[n] = t[n]
<1> DEFINE T == WithConfig(t, list)
<1>1. /\ DOMAIN T = (DOMAIN t \ DOMAIN old) \cup DOMAIN list /\ T = [n \in DOMAIN T |-> T[n]]
      /\ \A n \in DOMAIN list : T[n] = Entry("config", list[n])
      /\ \A n \in DOMAIN t \ (DOMAIN old \cup DOMAIN list) : T[n] = t[n]
  BY DEF WithConfig, ConfigTrue
<1> HIDE DEF T
<1>2. \A n \in DOMAIN list : T[n].source = "config" BY <1>1, EntryFields
<1>3. \A n \in DOMAIN t \ DOMAIN old : t[n].source \in {"store", "adhoc"}
  BY DEF IsTable, Source, ConfigTrue, From
<1>4. \A n \in DOMAIN T \ DOMAIN list : n \in DOMAIN t \ DOMAIN old /\ T[n] = t[n] BY <1>1
<1>5. \A n \in DOMAIN T : T[n].source \in Source
  <2> TAKE n \in DOMAIN T
  <2>1. CASE n \in DOMAIN list BY <1>2, <2>1 DEF Source
  <2>2. CASE n \notin DOMAIN list BY <1>4, <2>2 DEF IsTable
  <2> QED BY <2>1, <2>2
<1>6. From(T, "config") = DOMAIN list
  <2>1. ASSUME NEW n \in DOMAIN T, T[n].source = "config" PROVE n \in DOMAIN list
    <3>1. SUFFICES ASSUME n \notin DOMAIN list PROVE FALSE OBVIOUS
    <3>2. t[n].source = "config" /\ n \in DOMAIN t \ DOMAIN old BY <1>4, <2>1, <3>1
    <3> QED BY <1>3, <3>2
  <2> QED BY <1>1, <1>2, <2>1 DEF From
<1>7. From(T, "adhoc") \subseteq Builtin
  <2>1. ASSUME NEW n \in DOMAIN T, T[n].source = "adhoc" PROVE n \in Builtin
    <3>1. n \notin DOMAIN list BY <1>2, <2>1
    <3>2. t[n].source = "adhoc" /\ n \in DOMAIN t BY <1>4, <2>1, <3>1
    <3> QED BY <3>2 DEF ConfigTrue, From
  <2> QED BY <2>1 DEF From
<1> QED BY <1>1, <1>5, <1>6, <1>7 DEF IsTable, ConfigTrue, T

\* A reload that leaves no record without its name keeps the store's part true.
LEMMA WithConfigStore ==
    ASSUME NEW t, NEW old, NEW list, NEW d, NEW R, R \subseteq Recorded,
           IsTable(t), ConfigTrue(t, old), StoreTrue(t, old, R), DegradedTrue(d, old, R),
           \A r \in d : r.name \in DOMAIN list
    PROVE  /\ StoreTrue(WithConfig(t, list), list, R)
           /\ DegradedTrue(StillDegraded(t, d, list), list, R)
<1> DEFINE T == WithConfig(t, list)
           D == StillDegraded(t, d, list)
<1>0. /\ IsTable(T) /\ ConfigTrue(T, list)
      /\ \A n : n \in DOMAIN T <=> n \in DOMAIN list \/ (n \in DOMAIN t /\ n \notin DOMAIN old)
      /\ \A n \in DOMAIN t \ (DOMAIN old \cup DOMAIN list) : T[n] = t[n]
  BY WithConfigTrue
<1> HIDE DEF T
<1>1. \A r \in Free(R, list) : r \in Free(R, old)
  <2> SUFFICES ASSUME NEW r \in Free(R, list), r.name \in DOMAIN old PROVE FALSE BY DEF Free
  <2>1. r \in Yields(R, old) BY DEF Free, Yields
  <2>2. r \in d BY <2>1 DEF DegradedTrue
  <2> QED BY <2>2 DEF Free
<1>2. ASSUME NEW r \in Free(R, list)
      PROVE  r.name \in DOMAIN T /\ T[r.name] = Entry("store", r.rev)
  <2>1. r \in Free(R, old) BY <1>1
  <2>2. r.name \in From(t, "store") BY <2>1 DEF StoreTrue
  <2>3. r.name \in DOMAIN t BY <2>2 DEF From
  <2>4. r.name \notin DOMAIN list /\ r.name \notin DOMAIN old BY <2>1 DEF Free
  <2>5. T[r.name] = t[r.name] /\ r.name \in DOMAIN T BY <1>0, <2>3, <2>4
  <2> QED BY <2>1, <2>5 DEF StoreTrue
<1>3. ASSUME NEW n \in From(T, "store") PROVE \E r \in Free(R, list) : r.name = n
  <2>1. n \in DOMAIN T /\ T[n].source = "store" BY DEF From
  <2>2. n \notin DOMAIN list
    <3> SUFFICES ASSUME n \in DOMAIN list PROVE FALSE OBVIOUS
    <3>1. n \in From(T, "config") BY <1>0 DEF ConfigTrue
    <3> QED BY <2>1, <3>1 DEF From
  <2>3. n \in DOMAIN t /\ n \notin DOMAIN old /\ T[n] = t[n] BY <1>0, <2>1, <2>2
  <2>4. n \in From(t, "store") BY <2>1, <2>3 DEF From
  <2>5. PICK r \in Free(R, old) : r.name = n BY <2>4 DEF StoreTrue
  <2>6. r \in Free(R, list) BY <2>2, <2>5 DEF Free
  <2> QED BY <2>5, <2>6
<1>4. StoreTrue(T, list, R)
  <2>1. \A r \in Free(R, list) : r.name \in From(T, "store")
    BY <1>2, EntryFields DEF From
  <2> QED BY <1>2, <1>3, <2>1 DEF StoreTrue
<1> DEFINE joins == {[name |-> n, rev |-> t[n].rev] :
                       n \in (DOMAIN t \ From(t, "config")) \cap DOMAIN list}
<1>5. \A r : r \in D <=> (r \in d /\ r.name \in DOMAIN list) \/ r \in joins
  BY DEF StillDegraded
<1>6. ASSUME NEW r \in Yields(R, list) PROVE r \in D
  <2>1. r \in Buildable(R) /\ r \in Recorded /\ r.name \in DOMAIN list BY DEF Yields, Buildable
  <2>2. CASE r.name \in DOMAIN old
    <3>1. r \in Yields(R, old) BY <2>1, <2>2 DEF Yields
    <3>2. r \in d BY <3>1 DEF DegradedTrue
    <3> QED BY <1>5, <2>1, <3>2
  <2>3. CASE r.name \notin DOMAIN old
    <3>1. r \in Free(R, old) BY <2>1, <2>3 DEF Free
    <3>2. r.name \in From(t, "store") /\ t[r.name] = Entry("store", r.rev) BY <3>1 DEF StoreTrue
    <3>3. r.name \in DOMAIN t /\ r.name \notin From(t, "config") BY <2>3, <3>2 DEF From, ConfigTrue
    <3>4. r = [name |-> r.name, rev |-> t[r.name].rev] BY <2>1, <3>2, EntryFields DEF Recorded
    <3>5. r \in joins BY <2>1, <3>3, <3>4
    <3> HIDE DEF joins
    <3> QED BY <1>5, <3>5
  <2> QED BY <2>2, <2>3
<1>7. ASSUME NEW r \in D PROVE r.name \in Builtin \/ r \in Yields(R, list)
  <2>1. CASE r \in d /\ r.name \in DOMAIN list BY <2>1 DEF DegradedTrue, Yields
  <2>2. CASE r \in joins
    <3>1. PICK n \in DOMAIN t : /\ n \notin From(t, "config") /\ n \in DOMAIN list
                                /\ r = [name |-> n, rev |-> t[n].rev]
      BY <2>2
    <3>2. t[n].source \in {"store", "adhoc"} BY <3>1 DEF IsTable, Source, From
    <3>3. CASE t[n].source = "adhoc" BY <3>1, <3>3 DEF ConfigTrue, From
    <3>4. CASE t[n].source = "store"
      <4>1. n \in From(t, "store") BY <3>4 DEF From
      <4>2. PICK s \in Free(R, old) : s.name = n BY <4>1 DEF StoreTrue
      <4>3. t[n] = Entry("store", s.rev) /\ s \in Buildable(R) /\ s \in Recorded
        BY <4>2 DEF StoreTrue, Free, Buildable
      <4>4. s = r BY <3>1, <4>2, <4>3, EntryFields DEF Recorded
      <4> QED BY <3>1, <4>2, <4>3, <4>4 DEF Yields
    <3> QED BY <3>2, <3>3, <3>4
  <2> QED BY <1>5, <2>1, <2>2
<1> HIDE DEF D
<1>8. DegradedTrue(D, list, R) BY <1>6, <1>7 DEF DegradedTrue
<1> QED BY <1>4, <1>8 DEF T, D

\* The list the table was made of; the applier records it when the handlers have followed.
InForce == IF hand.pc = "resync" THEN hand.list ELSE commands

HandFits ==
    /\ hand = [pc |-> hand.pc, records |-> hand.records, list |-> hand.list]
    /\ hand.pc \in {"idle", "store", "sync", "config", "resync"}
    /\ holder = Nobody <=> hand.pc = "idle"
    /\ holder = Reloader <=> hand.pc \in {"config", "resync"}
    /\ \A c \in Server : work[c].pc = "applying" <=> holder = c

RecordsApart ==
    /\ \A r, s \in records : Lower[r.name] = Lower[s.name] => r = s
    /\ hand.pc = "store" => Unalike(hand.records)

\* Nothing is stored that no Apply has read, or is about to.
Fresh == ~behind /\ \A c \in Server : work[c].pc # "apply"

StoreFits ==
    Fresh => IF hand.pc = "store" THEN hand.records = records
             ELSE StoreTrue(table, InForce, records) /\ DegradedTrue(degraded, InForce, records)

HandlersFit ==
    /\ hand.pc \in {"idle", "store", "config"} => handlers = table
    /\ hand.pc = "sync" =>
          \A n \in DOMAIN table \ From(table, "store") : n \in DOMAIN handlers /\ handlers[n] = table[n]

NoneUndone == \A c \in Server : work[c].pc # "undo"

ApiInv ==
    /\ ErrandsShape /\ HandFits /\ RecordsApart /\ StoreFits /\ HandlersFit /\ NoneUndone
    /\ IsTable(table) /\ ConfigTrue(table, InForce)

LEMMA YieldsGaveWay ==
    ASSUME NEW t, NEW R, NEW list, ConfigTrue(t, list)
    PROVE  GaveWay(t, R) = Yields(R, list) /\ DegradedTrue(GaveWay(t, R), list, R)
BY DEF GaveWay, Yields, ConfigTrue, DegradedTrue

LEMMA LowerApart ==
    ASSUME NEW R, \A r, s \in R : Lower[r.name] = Lower[s.name] => r = s
    PROVE  Unalike(R)
BY DEF Unalike

LEMMA ApiInvInit == Init => ApiInv
<1> SUFFICES ASSUME Init PROVE ApiInv OBVIOUS
<1>1. ErrandsShape BY ErrandsShapeInit
<1>2. /\ hand = Idle /\ holder = Nobody /\ handlers = table /\ Fresh /\ NoneUndone
      /\ \A c \in Server : work[c].pc = "idle"
      /\ table = Started(commands, records) /\ degraded = StartedDegraded(commands, records)
  BY NoWorkIsErrand DEF Init, RegistryInit, Fresh, NoneUndone
<1>3. hand.pc = "idle" /\ hand = [pc |-> hand.pc, records |-> hand.records, list |-> hand.list]
  BY <1>2 DEF Idle
<1>4. HandFits BY <1>2, <1>3, RegistryAssumption DEF HandFits
<1>5. \A r, s \in records : Lower[r.name] = Lower[s.name] => r = s BY ApiAssumption DEF Init
<1>6. RecordsApart BY <1>3, <1>5 DEF RecordsApart
<1> DEFINE t == NewTable(commands)
<1>7. IsTable(t) /\ ConfigTrue(t, commands) BY NewTableTrue
<1>8. Unalike(records) BY <1>5, LowerApart
<1> HIDE DEF t
<1>9. table = WithStore(t, records) /\ degraded = GaveWay(t, records)
  BY <1>2 DEF t, Started, StartedDegraded
<1>10. Stocked(table, t, records, commands) /\ table = [n \in DOMAIN table |-> table[n]]
  BY <1>7, <1>8, <1>9, WithStoreStocks DEF ConfigTrue
<1>11. IsTable(table) /\ ConfigTrue(table, commands) /\ StoreTrue(table, commands, records)
  BY <1>7, <1>10, StockedTrue
<1>12. DegradedTrue(degraded, commands, records) BY <1>7, <1>9, YieldsGaveWay
<1> QED
  BY <1>1, <1>2, <1>3, <1>4, <1>6, <1>11, <1>12 DEF ApiInv, StoreFits, HandlersFit, InForce

\* Steps that touch neither the registry nor the records.
LEMMA ApiAside ==
    ASSUME ApiInv, ErrandsShape', UNCHANGED <<registryVars, records, behind>>,
           \A d \in Server : \A p \in {"apply", "applying", "undo"} : work'[d].pc = p <=> work[d].pc = p
    PROVE  ApiInv'
<1>1. UNCHANGED <<table, degraded, handlers, commands, holder, hand, records, behind>>
  BY DEF registryVars
<1>2. HandFits' BY <1>1 DEF ApiInv, HandFits
<1>3. Fresh' <=> Fresh BY <1>1 DEF Fresh
<1>4. NoneUndone' BY DEF ApiInv, NoneUndone
<1>5. InForce' = InForce BY <1>1 DEF InForce
<1>6. RecordsApart' BY <1>1 DEF ApiInv, RecordsApart
<1>7. StoreFits' BY <1>1, <1>3, <1>5 DEF ApiInv, StoreFits
<1>8. HandlersFit' BY <1>1 DEF ApiInv, HandlersFit
<1> QED BY <1>1, <1>2, <1>4, <1>5, <1>6, <1>7, <1>8 DEF ApiInv

\* A write: the change is behind, or its Apply is to come.
LEMMA WriteKeeps ==
    ASSUME ApiInv, ErrandsShape', NEW c \in Server, SaveRecord(c) \/ DropRecord(c)
    PROVE  ApiInv'
<1>0. work \in [Server -> Errand] /\ faults \in Nat BY DEF ApiInv, ErrandsShape
<1>1. work[c].pc \in {"save", "drop"} /\ registryVars' = registryVars BY DEF SaveRecord, DropRecord
<1>2. UNCHANGED <<table, degraded, handlers, commands, holder, hand>> BY <1>1 DEF registryVars
<1>3. \/ UNCHANGED <<records, behind>> /\ Answer(c)
      \/ /\ records' = Without(work[c].name) \cup {[name |-> work[c].name, rev |-> work[c].rev]}
            \/ records' = Without(work[c].old.name)
         /\ \/ Goto(c, "apply") /\ behind' = behind
            \/ behind' = TRUE /\ Answer(c)
  <2>1. faults + 1 # faults BY <1>0
  <2>2. CASE SaveRecord(c) BY <2>1, <2>2 DEF SaveRecord, Write, Wrote
  <2>3. CASE DropRecord(c) BY <2>1, <2>3 DEF DropRecord, Write, Wrote
  <2> QED BY <2>2, <2>3
<1>4. Answer(c) =>
        \A d \in Server : \A p \in {"apply", "applying", "undo"} : work'[d].pc = p <=> work[d].pc = p
  BY <1>0, <1>1, NoWorkIsErrand DEF Answer
<1>5. CASE UNCHANGED <<records, behind>> /\ Answer(c) BY <1>1, <1>4, <1>5, ApiAside
<1>6. CASE /\ \/ records' = Without(work[c].name) \cup {[name |-> work[c].name, rev |-> work[c].rev]}
              \/ records' = Without(work[c].old.name)
           /\ \/ Goto(c, "apply") /\ behind' = behind
              \/ behind' = TRUE /\ Answer(c)
  <2>1. \A d \in Server : \A p \in {"applying", "undo"} : work'[d].pc = p <=> work[d].pc = p
    <3>1. CASE Answer(c) BY <1>4, <3>1
    <3>2. CASE Goto(c, "apply")
      <4>1. \A d \in Server : d # c => work'[d] = work[d] BY <1>0, <3>2 DEF Goto
      <4>2. work[c] \in Errand BY <1>0
      <4>3. work'[c].pc = "apply" BY <1>0, <3>2, <4>2 DEF Goto, Errand
      <4> QED BY <1>1, <4>1, <4>3
    <3> QED BY <1>6, <3>1, <3>2
  <2>2. ~Fresh'
    <3>1. CASE behind' = TRUE BY <3>1 DEF Fresh
    <3>2. CASE Goto(c, "apply")
      <4>1. work[c] \in Errand BY <1>0
      <4>2. work'[c].pc = "apply" BY <1>0, <3>2, <4>1 DEF Goto, Errand
      <4> QED BY <4>2 DEF Fresh
    <3> QED BY <1>6, <3>1, <3>2
  <2>3. \A r, s \in records' : Lower[r.name] = Lower[s.name] => r = s
    <3>1. CASE records' = Without(work[c].name) \cup {[name |-> work[c].name, rev |-> work[c].rev]}
      BY <3>1 DEF Without, Found, ApiInv, RecordsApart
    <3>2. CASE records' = Without(work[c].old.name)
      BY <3>2 DEF Without, ApiInv, RecordsApart
    <3> QED BY <1>6, <3>1, <3>2
  <2>4. HandFits' /\ NoneUndone'
    <3>1. /\ hand = [pc |-> hand.pc, records |-> hand.records, list |-> hand.list]
          /\ hand.pc \in {"idle", "store", "sync", "config", "resync"}
          /\ holder = Nobody <=> hand.pc = "idle"
          /\ holder = Reloader <=> hand.pc \in {"config", "resync"}
          /\ \A d \in Server : work[d].pc = "applying" <=> holder = d
      BY DEF ApiInv, HandFits
    <3> QED BY <1>2, <2>1, <3>1 DEF ApiInv, HandFits, NoneUndone
  <2>5. RecordsApart' BY <1>2, <2>3 DEF ApiInv, RecordsApart
  <2>6. StoreFits' BY <2>2 DEF StoreFits
  <2>7. HandlersFit' BY <1>2 DEF ApiInv, HandlersFit
  <2>8. IsTable(table)' /\ ConfigTrue(table, InForce)' BY <1>2 DEF ApiInv, InForce
  <2> QED BY <2>4, <2>5, <2>6, <2>7, <2>8 DEF ApiInv
<1> QED BY <1>3, <1>5, <1>6

LEMMA GotoPc ==
    ASSUME ErrandsShape, NEW c \in Server, NEW p, Goto(c, p)
    PROVE  work'[c].pc = p /\ \A d \in Server : d # c => work'[d].pc = work[d].pc
<1>1. work \in [Server -> Errand] /\ work[c] \in Errand BY DEF ErrandsShape
<1>2. work' = [work EXCEPT ![c].pc = p] BY DEF Goto
<1> QED BY <1>1, <1>2 DEF Errand

LEMMA AnswerPc ==
    ASSUME ErrandsShape, NEW c \in Server, Answer(c)
    PROVE  work'[c].pc = "idle" /\ \A d \in Server : d # c => work'[d].pc = work[d].pc
BY NoWorkIsErrand DEF ErrandsShape, Answer

LEMMA BeginKeeps ==
    ASSUME ApiInv, ErrandsShape', NEW c \in Server, BeginApply(c)
    PROVE  ApiInv'
<1>0. ErrandsShape BY DEF ApiInv
<1>1. /\ holder = Nobody /\ holder' = c /\ work[c].pc = "apply"
      /\ hand' = [Idle EXCEPT !.pc = "store", !.records = records]
      /\ UNCHANGED <<table, degraded, handlers, commands, records>>
  BY DEF BeginApply, ApplyBegin
<1>2. hand'.pc = "store" /\ hand'.records = records /\ hand' = [pc |-> "store", records |-> records, list |-> hand'.list]
  BY <1>1 DEF Idle
<1>3. /\ hand.pc = "idle" /\ handlers = table /\ \A d \in Server : work[d].pc # "applying"
  <2>1. hand.pc = "idle" BY <1>1 DEF ApiInv, HandFits
  <2>2. \A d \in Server : work[d].pc # "applying" BY <1>1, RegistryAssumption DEF ApiInv, HandFits
  <2> QED BY <2>1, <2>2 DEF ApiInv, HandlersFit
<1>4. work'[c].pc = "applying" /\ \A d \in Server : d # c => work'[d].pc = work[d].pc
  BY <1>0, GotoPc DEF BeginApply
<1>5. HandFits' BY <1>1, <1>2, <1>3, <1>4, RegistryAssumption DEF HandFits
<1>6. NoneUndone' BY <1>4 DEF ApiInv, NoneUndone
<1>7. RecordsApart' BY <1>1, <1>2, LowerApart DEF ApiInv, RecordsApart
<1>8. StoreFits' BY <1>1, <1>2 DEF StoreFits
<1>9. HandlersFit' BY <1>1, <1>2, <1>3 DEF HandlersFit
<1>10. IsTable(table)' /\ ConfigTrue(table, InForce)'
  <2>1. InForce' = InForce BY <1>1, <1>2, <1>3 DEF InForce
  <2> QED BY <1>1, <2>1 DEF ApiInv
<1> QED BY <1>5, <1>6, <1>7, <1>8, <1>9, <1>10 DEF ApiInv

\* Apply is not refused: the commands the applier knows are those of the table.
LEMMA SwapKeeps ==
    ASSUME ApiInv, ErrandsShape', NEW c \in Server, SwapApply(c)
    PROVE  ApiInv'
<1>1. /\ holder = c /\ hand.pc = "store" /\ work[c].pc = "applying"
      /\ UNCHANGED <<handlers, commands, records, behind>>
  BY DEF SwapApply, ApplySwap
<1>2. ConfigTrue(table, commands) /\ IsTable(table) /\ handlers = table
  BY <1>1 DEF ApiInv, InForce, HandlersFit
<1>3. ~Refuses(table, hand.records, commands) BY <1>2 DEF Refuses, ConfigTrue
<1>4. /\ table' = WithStore(table, hand.records) /\ degraded' = GaveWay(table, hand.records)
      /\ hand' = [hand EXCEPT !.pc = "sync"] /\ holder' = holder
  BY <1>3 DEF SwapApply, ApplySwap
<1>5. work' = work BY <1>1, <1>4 DEF SwapApply
<1>6. /\ hand'.pc = "sync" /\ hand'.records = hand.records /\ hand'.list = hand.list
      /\ hand' = [pc |-> hand'.pc, records |-> hand'.records, list |-> hand'.list]
  <2>1. hand = [pc |-> hand.pc, records |-> hand.records, list |-> hand.list] BY DEF ApiInv, HandFits
  <2>2. hand' = [pc |-> "sync", records |-> hand.records, list |-> hand.list] BY <1>4, <2>1
  <2> QED BY <2>2
<1> DEFINE T == table'
           R == hand.records
<1>7. Unalike(R) BY <1>1 DEF ApiInv, RecordsApart
<1>8. Stocked(T, table, R, commands) /\ T = [n \in DOMAIN T |-> T[n]]
  BY <1>2, <1>4, <1>7, WithStoreStocks DEF ConfigTrue
<1> HIDE DEF T, R
<1>9. /\ IsTable(T) /\ ConfigTrue(T, commands) /\ StoreTrue(T, commands, R)
      /\ \A n \in DOMAIN T \ From(T, "store") : n \in DOMAIN table /\ T[n] = table[n]
  BY <1>2, <1>8, StockedTrue
<1>10. DegradedTrue(degraded', commands, R) BY <1>2, <1>4, YieldsGaveWay DEF R
<1>11. HandFits' BY <1>1, <1>4, <1>5, <1>6, RegistryAssumption DEF ApiInv, HandFits
<1>12. InForce' = commands BY <1>1, <1>6 DEF InForce
<1>13. IsTable(table)' /\ ConfigTrue(table, InForce)' BY <1>9, <1>12 DEF T
<1>14. StoreFits'
  <2> SUFFICES ASSUME Fresh' PROVE StoreTrue(T, commands, records) /\ DegradedTrue(degraded', commands, records)
    BY <1>1, <1>6, <1>12 DEF StoreFits, T
  <2>1. Fresh BY <1>1, <1>5 DEF Fresh
  <2>2. R = records BY <1>1, <2>1 DEF ApiInv, StoreFits, R
  <2> QED BY <1>9, <1>10, <2>2
<1>15. HandlersFit'
  <2>1. \A n \in DOMAIN T \ From(T, "store") : n \in DOMAIN handlers' /\ handlers'[n] = T[n]
    BY <1>1, <1>2, <1>9
  <2> QED BY <1>6, <2>1 DEF HandlersFit, T
<1>16. RecordsApart' BY <1>1, <1>6 DEF ApiInv, RecordsApart
<1>17. NoneUndone' BY <1>5 DEF ApiInv, NoneUndone
<1> QED BY <1>11, <1>13, <1>14, <1>15, <1>16, <1>17 DEF ApiInv

LEMMA IdleHand ==
    /\ Idle.pc = "idle" /\ Idle = [pc |-> Idle.pc, records |-> Idle.records, list |-> Idle.list]
BY DEF Idle

\* syncHandlers leaves the handlers as the table is.
LEMMA SyncedIsTable ==
    ASSUME IsTable(table), NEW again, again \subseteq DOMAIN table,
           \A n \in DOMAIN table \ again : n \in DOMAIN handlers /\ handlers[n] = table[n]
    PROVE  Synced(again) = table
<1> DEFINE H == Synced(again)
<1>1. DOMAIN H = DOMAIN table /\ H = [n \in DOMAIN H |-> H[n]] /\ \A n \in DOMAIN table : H[n] = table[n]
  BY DEF Synced
<1> HIDE DEF H
<1>2. H = table BY <1>1 DEF IsTable
<1> QED BY <1>2 DEF H

LEMMA SyncKeeps ==
    ASSUME ApiInv, ErrandsShape', NEW c \in Server, SyncApply(c)
    PROVE  ApiInv'
<1>0. ErrandsShape BY DEF ApiInv
<1>1. /\ holder = c /\ hand.pc = "sync" /\ holder' = Nobody /\ hand' = Idle
      /\ handlers' = Synced(From(table, "store"))
      /\ UNCHANGED <<table, degraded, commands, records, behind>> /\ work[c].pc = "applying"
  BY DEF SyncApply, ApplySync
<1>2. handlers' = table
  <2>1. From(table, "store") \subseteq DOMAIN table BY DEF From
  <2>2. \A n \in DOMAIN table \ From(table, "store") : n \in DOMAIN handlers /\ handlers[n] = table[n]
    BY <1>1 DEF ApiInv, HandlersFit
  <2> QED BY <1>1, <2>1, <2>2, SyncedIsTable DEF ApiInv
<1>3. work'[c].pc = "idle" /\ \A d \in Server : d # c => work'[d].pc = work[d].pc
  BY <1>0, AnswerPc DEF SyncApply
<1>4. HandFits'
  <2>1. \A d \in Server : work[d].pc = "applying" <=> d = c BY <1>1 DEF ApiInv, HandFits
  <2> QED BY <1>1, <1>3, <2>1, IdleHand, RegistryAssumption DEF HandFits
<1>5. InForce' = InForce BY <1>1, IdleHand DEF InForce
<1>6. StoreFits'
  <2>1. Fresh' => Fresh BY <1>1, <1>3 DEF Fresh
  <2> QED BY <1>1, <1>5, <2>1, IdleHand DEF ApiInv, StoreFits
<1>7. HandlersFit' BY <1>1, <1>2, IdleHand DEF HandlersFit
<1>8. RecordsApart' BY <1>1, IdleHand DEF ApiInv, RecordsApart
<1>9. NoneUndone' BY <1>3 DEF ApiInv, NoneUndone
<1>10. IsTable(table)' /\ ConfigTrue(table, InForce)' BY <1>1, <1>5 DEF ApiInv
<1> QED BY <1>4, <1>6, <1>7, <1>8, <1>9, <1>10 DEF ApiInv

LEMMA ReloadKeeps ==
    ASSUME ApiInv, ErrandsShape', ReloadStep
    PROVE  ApiInv'
<1>1. UNCHANGED <<records, work>> BY DEF ReloadStep, Reload, SwapReload, SyncReload
<1>2. CASE \E l \in Lists : Reload(l)
  <2>1. PICK l \in Lists : Reload(l) BY <1>2
  <2>2. CASE l \in BadLists
    <3>1. UNCHANGED <<registryVars, behind>> BY <2>1, <2>2 DEF Reload, ReloadBegin, registryVars
    <3> QED BY <1>1, <3>1, ApiAside
  <2>3. CASE l \notin BadLists
    <3>1. /\ holder = Nobody /\ holder' = Reloader /\ hand' = [Idle EXCEPT !.pc = "config", !.list = l]
          /\ UNCHANGED <<table, degraded, handlers, commands, behind>>
      BY <2>1, <2>3 DEF Reload, ReloadBegin
    <3>2. hand'.pc = "config" /\ hand' = [pc |-> hand'.pc, records |-> hand'.records, list |-> hand'.list]
      BY <3>1 DEF Idle
    <3>3. hand.pc = "idle" BY <3>1 DEF ApiInv, HandFits
    <3>4. HandFits' BY <1>1, <3>1, <3>2, RegistryAssumption DEF ApiInv, HandFits
    <3>5. InForce' = InForce BY <3>1, <3>2, <3>3 DEF InForce
    <3>6. StoreFits'
      <4>1. Fresh' => Fresh BY <1>1, <3>1 DEF Fresh
      <4> QED BY <1>1, <3>1, <3>2, <3>3, <3>5, <4>1 DEF ApiInv, StoreFits
    <3>7. HandlersFit' BY <3>1, <3>2, <3>3 DEF ApiInv, HandlersFit
    <3>8. RecordsApart' BY <1>1, <3>2 DEF ApiInv, RecordsApart
    <3>9. NoneUndone' BY <1>1 DEF ApiInv, NoneUndone
    <3>10. IsTable(table)' /\ ConfigTrue(table, InForce)' BY <3>1, <3>5 DEF ApiInv
    <3> QED BY <3>4, <3>6, <3>7, <3>8, <3>9, <3>10 DEF ApiInv
  <2> QED BY <2>2, <2>3
<1>3. CASE SwapReload
  <2>1. /\ holder = Reloader /\ hand.pc = "config" /\ hand' = [hand EXCEPT !.pc = "resync"]
        /\ table' = WithConfig(table, hand.list)
        /\ degraded' = StillDegraded(table, degraded, hand.list)
        /\ UNCHANGED <<handlers, commands, holder>>
        /\ behind' = (behind \/ \E r \in degraded : r.name \notin DOMAIN hand.list)
    BY <1>3 DEF SwapReload, ReloadSwap
  <2>2. /\ hand'.pc = "resync" /\ hand'.list = hand.list
        /\ hand' = [pc |-> hand'.pc, records |-> hand'.records, list |-> hand'.list]
    <3>1. hand = [pc |-> hand.pc, records |-> hand.records, list |-> hand.list] BY DEF ApiInv, HandFits
    <3>2. hand' = [pc |-> "resync", records |-> hand.records, list |-> hand.list] BY <2>1, <3>1
    <3> QED BY <3>2
  <2>3. InForce = commands /\ InForce' = hand.list BY <2>1, <2>2 DEF InForce
  <2>4. IsTable(table') /\ ConfigTrue(table', hand.list)
    BY <2>1, <2>3, WithConfigTrue DEF ApiInv
  <2>5. StoreFits'
    <3> SUFFICES ASSUME Fresh'
                 PROVE  StoreTrue(table', hand.list, records) /\ DegradedTrue(degraded', hand.list, records)
      BY <1>1, <2>2, <2>3 DEF StoreFits
    <3>1. Fresh /\ \A r \in degraded : r.name \in DOMAIN hand.list BY <1>1, <2>1 DEF Fresh
    <3>2. StoreTrue(table, commands, records) /\ DegradedTrue(degraded, commands, records)
      BY <2>1, <2>3, <3>1 DEF ApiInv, StoreFits
    <3>3. IsTable(table) /\ ConfigTrue(table, commands) /\ records \subseteq Recorded
      BY <2>3 DEF ApiInv, ErrandsShape
    <3> QED BY <2>1, <3>1, <3>2, <3>3, WithConfigStore
  <2>6. HandFits' BY <1>1, <2>1, <2>2 DEF ApiInv, HandFits
  <2>7. HandlersFit' BY <2>2 DEF HandlersFit
  <2>8. RecordsApart' BY <1>1, <2>2 DEF ApiInv, RecordsApart
  <2>9. NoneUndone' BY <1>1 DEF ApiInv, NoneUndone
  <2>10. IsTable(table)' /\ ConfigTrue(table, InForce)' BY <2>3, <2>4
  <2> QED BY <2>5, <2>6, <2>7, <2>8, <2>9, <2>10 DEF ApiInv
<1>4. CASE SyncReload
  <2>1. /\ holder = Reloader /\ hand.pc = "resync" /\ holder' = Nobody /\ hand' = Idle
        /\ handlers' = Synced(DOMAIN table) /\ commands' = hand.list
        /\ UNCHANGED <<table, degraded, behind>>
    BY <1>4 DEF SyncReload, ReloadSync
  <2>2. handlers' = table
    <3>1. DOMAIN table \subseteq DOMAIN table /\ DOMAIN table \ DOMAIN table = {} OBVIOUS
    <3> QED BY <2>1, <3>1, SyncedIsTable DEF ApiInv
  <2>3. InForce' = InForce BY <2>1, IdleHand DEF InForce
  <2>4. HandFits' BY <1>1, <2>1, IdleHand, RegistryAssumption DEF ApiInv, HandFits
  <2>5. StoreFits'
    <3>1. Fresh' => Fresh BY <1>1, <2>1 DEF Fresh
    <3> QED BY <1>1, <2>1, <2>3, <3>1, IdleHand DEF ApiInv, StoreFits
  <2>6. HandlersFit' BY <2>1, <2>2, IdleHand DEF HandlersFit
  <2>7. RecordsApart' BY <1>1, <2>1, IdleHand DEF ApiInv, RecordsApart
  <2>8. NoneUndone' BY <1>1 DEF ApiInv, NoneUndone
  <2>9. IsTable(table)' /\ ConfigTrue(table, InForce)' BY <2>1, <2>3 DEF ApiInv
  <2> QED BY <2>4, <2>5, <2>6, <2>7, <2>8, <2>9 DEF ApiInv
<1> QED BY <1>2, <1>3, <1>4 DEF ReloadStep

LEMMA ApiInvStep == ApiInv /\ [Next]_vars => ApiInv'
<1> SUFFICES ASSUME ApiInv, [Next]_vars PROVE ApiInv' OBVIOUS
<1>0. ErrandsShape /\ ErrandsShape' BY ErrandsShapeStep DEF ApiInv
<1>a. work \in [Server -> Errand] BY <1>0 DEF ErrandsShape
<1>1. ASSUME NEW c \in Server, NEW op \in {"create", "update", "delete"}, NEW n \in Name, Ask(c, op, n)
      PROVE  ApiInv'
  <2>1. PICK W \in Errand : work' = [work EXCEPT ![c] = W] /\ W.pc = "get" BY <1>0, <1>1, AskErrand
  <2>2. UNCHANGED <<registryVars, records, behind>> /\ work[c].pc = "idle" BY <1>1 DEF Ask
  <2> QED BY <1>0, <1>a, <2>1, <2>2, ApiAside
<1>2. ASSUME NEW c \in Server, GetRecord(c) \/ Tally(c) PROVE ApiInv'
  <2>1. UNCHANGED <<registryVars, records, behind>> /\ work[c].pc \in {"get", "tally"}
    BY <1>2 DEF GetRecord, Tally
  <2>2. \E W \in Errand : /\ work' = [work EXCEPT ![c] = W]
                          /\ W.pc \in {"idle", "lookup", "save", "tally", "list", "drop"}
    BY <1>0, <1>2, GetErrand, TallyErrand, NoWorkIsErrand
  <2> QED BY <1>0, <1>a, <2>1, <2>2, ApiAside
<1>3. ASSUME NEW c \in Server, LookupKey(c) PROVE ApiInv'
  <2>1. UNCHANGED <<registryVars, records, behind>> /\ work[c].pc = "lookup" BY <1>3 DEF LookupKey
  <2>2. Proceeds(c, {"save"}) BY <1>0, <1>3, <2>1, GotoErrand DEF LookupKey
  <2>3. \E W \in Errand : work' = [work EXCEPT ![c] = W] /\ W.pc \in {"idle", "save"}
    BY <2>2, NoWorkIsErrand DEF Proceeds
  <2> QED BY <1>0, <1>a, <2>1, <2>3, ApiAside
<1>4. ASSUME NEW c \in Server, ListTasks(c) \/ PauseNext(c) PROVE ApiInv'
  <2>1. UNCHANGED <<registryVars, records, behind>> /\ work[c].pc \in {"list", "pause"}
    BY <1>4 DEF ListTasks, PauseNext
  <2>2. \E W \in Errand : work' = [work EXCEPT ![c] = W] /\ W.pc \in {"pause", "drop"}
    <3>1. CASE ListTasks(c) BY <1>0, <3>1, ListErrand
    <3>2. CASE PauseNext(c) BY <1>0, <3>2, PauseErrands DEF PauseDone, PauseTook
    <3> QED BY <1>4, <3>1, <3>2
  <2> QED BY <1>0, <1>a, <2>1, <2>2, ApiAside
<1>11. ASSUME NEW c \in Server, WritePaused(c) PROVE ApiInv'
  <2>1. UNCHANGED <<registryVars, records, behind>> BY <1>11 DEF WritePaused
  <2>2. \A d \in Server : work'[d].pc = work[d].pc BY <1>0, <1>11, PausedShape DEF Uncounted
  <2> QED BY <1>0, <2>1, <2>2, ApiAside
<1>5. ASSUME NEW c \in Server, SaveRecord(c) \/ DropRecord(c) PROVE ApiInv' BY <1>0, <1>5, WriteKeeps
<1>6. ASSUME NEW c \in Server, ApplierStep(c) PROVE ApiInv'
  BY <1>0, <1>6, BeginKeeps, SwapKeeps, SyncKeeps DEF ApplierStep
<1>7. CASE ReloadStep BY <1>0, <1>7, ReloadKeeps
<1>8. ASSUME NEW j \in Job, TaskStep(j) PROVE ApiInv'
  <2>1. UNCHANGED <<registryVars, records, behind>> /\ \A d \in Server : Uncounted(work'[d], work[d], {j})
    BY <1>0, <1>8, TaskShape
  <2>2. \A d \in Server : work'[d].pc = work[d].pc BY <2>1 DEF Uncounted
  <2> QED BY <1>0, <2>1, <2>2, ApiAside
<1>9. CASE UNCHANGED vars BY <1>0, <1>9, ApiAside DEF vars
<1>10. CASE Next
  BY <1>1, <1>2, <1>3, <1>4, <1>5, <1>6, <1>7, <1>8, <1>10, <1>11
     DEF Next, Request, ReloadStep, TaskStep, ApplierStep
<1> QED BY <1>9, <1>10

\* What is declared, built-in profiles left out, is what the commands and the records say.
LEMMA TablesAgree ==
    ASSUME NEW t, NEW s, NEW list, NEW R, IsTable(t), ConfigTrue(t, list), StoreTrue(t, list, R),
           ConfigTrue(s, list), StoreTrue(s, list, R), NEW n \in DOMAIN t \ Builtin
    PROVE  n \in DOMAIN s /\ s[n] = t[n]
<1>1. CASE t[n].source = "config"
  <2>1. n \in DOMAIN list BY <1>1 DEF ConfigTrue, From
  <2>2. n \in From(s, "config") BY <2>1 DEF ConfigTrue
  <2> QED BY <2>1, <2>2 DEF ConfigTrue, From
<1>2. CASE t[n].source = "store"
  <2>1. n \in From(t, "store") BY <1>2 DEF From
  <2>2. PICK r \in Free(R, list) : r.name = n BY <2>1 DEF StoreTrue
  <2>3. n \in From(s, "store") BY <2>2 DEF StoreTrue
  <2> QED BY <2>2, <2>3 DEF StoreTrue, From
<1>3. CASE t[n].source = "adhoc" BY <1>3 DEF ConfigTrue, From
<1> QED BY <1>1, <1>2, <1>3 DEF IsTable, Source

LEMMA ApiInvSays == ApiInv => RestartChangesNothing
<1> SUFFICES ASSUME ApiInv, Quiet
             PROVE  /\ Declared(table) = Declared(Started(commands, disk))
                    /\ {r \in degraded : r.name \notin Builtin}
                         = {r \in StartedDegraded(commands, disk) : r.name \notin Builtin}
                    /\ handlers = table
  BY DEF RestartChangesNothing, ApiInv, NoneUndone
<1>1. hand.pc = "idle" /\ disk = records /\ Fresh BY DEF Quiet, ApiInv, HandFits, Fresh
<1>2. /\ IsTable(table) /\ ConfigTrue(table, commands) /\ StoreTrue(table, commands, records)
      /\ DegradedTrue(degraded, commands, records) /\ handlers = table
  BY <1>1 DEF ApiInv, InForce, StoreFits, HandlersFit
<1> DEFINE t == NewTable(commands)
           S == WithStore(t, records)
<1>3. IsTable(t) /\ ConfigTrue(t, commands) BY NewTableTrue
<1>4. Unalike(records) BY LowerApart DEF ApiInv, RecordsApart
<1> HIDE DEF t
<1>5. Stocked(S, t, records, commands) /\ S = [n \in DOMAIN S |-> S[n]]
  BY <1>3, <1>4, WithStoreStocks DEF ConfigTrue
<1> HIDE DEF S
<1>6. IsTable(S) /\ ConfigTrue(S, commands) /\ StoreTrue(S, commands, records)
  BY <1>3, <1>5, StockedTrue
<1>7. Declared(table) = Declared(S)
  <2>1. \A n \in DOMAIN table \ Builtin : n \in DOMAIN S /\ S[n] = table[n]
    BY <1>2, <1>6, TablesAgree
  <2>2. \A n \in DOMAIN S \ Builtin : n \in DOMAIN table /\ table[n] = S[n]
    BY <1>2, <1>6, TablesAgree
  <2> QED BY <2>1, <2>2 DEF Declared
<1>8. DegradedTrue(GaveWay(t, records), commands, records) BY <1>3, YieldsGaveWay
<1>9. {r \in degraded : r.name \notin Builtin} = {r \in GaveWay(t, records) : r.name \notin Builtin}
  BY <1>2, <1>8 DEF DegradedTrue
<1> QED BY <1>1, <1>2, <1>7, <1>9 DEF S, t, Started, StartedDegraded

\* The applier and the reload: a restart would change nothing, and no Apply is refused.
THEOREM ARestartIsIdle == Spec => []RestartChangesNothing
BY ApiInvInit, ApiInvStep, ApiInvSays, PTL DEF Spec
-------------------------------------------------------------------------------
\* Names, tags and the marker of no entry.
Spelling == Label \cup {NoGroup, NoEntry.name}

GroupEntry == [name : Spelling, id : Nat, by : Nat]

\* A request has one job in hand at most.
Read == [job : GroupJob, snap : SnapStatus \ {"none"}, tag : Spelling]
Held == [job : GroupJob, snap : SnapStatus \ {"none"}, step : {"entry", "updated", "snapshot"}]
Hands == {H \in SUBSET Held : \A h, k \in H : h = k}

Desk ==
    [pc : {"idle", "get", "clash", "save", "unname", "tally", "list", "retag", "erase", "answer"},
     op : {"none", "create", "update", "delete", "move", "put"}, name : Spelling, to : Spelling,
     no : Nat, cur : GroupEntry, todo : SUBSET Read, hand : Hands, pend : SUBSET GroupJob]

TagRecord == [at : JobPlace, tag : Spelling, snap : SnapStatus, stag : Spelling]

GroupsShape ==
    /\ groups \subseteq GroupEntry /\ opened \in Nat
    /\ desk \in [Clerk -> Desk]
    /\ tagged \in [GroupJob -> TagRecord]
    /\ \A c \in Clerk : /\ desk[c].pc # "idle" => desk[c].op # "none"
                        /\ desk[c].pc = "tally" => desk[c].op = "delete"
                        /\ desk[c].pc = "get" => desk[c].op \in {"create", "update", "delete"}
                        /\ desk[c].pc # "retag" => desk[c].hand = {}

LEMMA GroupsShapeInit == GroupsInit => GroupsShape
<1> SUFFICES ASSUME GroupsInit PROVE GroupsShape OBVIOUS
<1>1. NoDesk \in Desk
  <2>1. NoEntry \in GroupEntry /\ NoGroup \in Spelling /\ NoEntry.name \in Spelling
    BY DEF NoEntry, GroupEntry, Spelling
  <2>2. {} \in Hands BY DEF Hands
  <2> QED BY <2>1, <2>2 DEF NoDesk, Desk
<1>2. groups \subseteq GroupEntry
  BY GroupAssumption DEF GroupsInit, GroupEntry, Spelling
<1>3. tagged \in [GroupJob -> TagRecord]
  BY DEF GroupsInit, TagRecord, JobPlace, SnapStatus, Spelling
<1>4. NoDesk.pc = "idle" /\ NoDesk.hand = {} BY DEF NoDesk
<1> QED BY <1>1, <1>2, <1>3, <1>4 DEF GroupsInit, GroupsShape

\* A step of one request that leaves the jobs alone, by what it leaves on its desk.
LEMMA DeskMoves ==
    ASSUME GroupsShape, groups' \subseteq GroupEntry, opened' \in Nat, tagged' = tagged,
           NEW c \in Clerk, NEW D \in Desk, desk' = [desk EXCEPT ![c] = D],
           D.pc # "idle" => D.op # "none", D.pc = "tally" => D.op = "delete",
           D.pc = "get" => D.op \in {"create", "update", "delete"},
           D.pc # "retag" => D.hand = {}
    PROVE  GroupsShape'
BY DEF GroupsShape

LEMMA NoDeskIsDesk ==
    /\ NoDesk \in Desk /\ NoDesk.pc = "idle" /\ NoDesk.pend = {} /\ NoDesk.no = 0
    /\ NoDesk.cur.by = 0 /\ NoDesk.hand = {}
<1>1. NoEntry \in GroupEntry /\ NoGroup \in Spelling /\ NoEntry.name \in Spelling
  BY DEF NoEntry, GroupEntry, Spelling
<1>2. {} \in Hands BY DEF Hands
<1> QED BY <1>1, <1>2 DEF NoDesk, Desk, NoEntry

LEMMA OpenDesk ==
    ASSUME GroupsShape, NEW c \in Clerk, NEW op \in {"create", "update", "delete"},
           NEW n \in Label, NEW to \in Label \cup {NoGroup}, OpenRequest(c, op, n, to)
    PROVE  \E D \in Desk : /\ desk' = [desk EXCEPT ![c] = D]
                           /\ D.pc = "get" /\ D.op = op /\ D.pend = {} /\ D.hand = {}
                           /\ D.no = opened + 1 /\ D.cur.by = 0
<1> DEFINE cur == [name |-> n, id |-> opened + 1, by |-> 0]
           D == [NoDesk EXCEPT !.pc = "get", !.op = op, !.name = n, !.to = to,
                               !.no = opened + 1, !.cur = cur]
<1>1. NoDesk \in Desk /\ NoDesk.pend = {} /\ NoDesk.hand = {} BY NoDeskIsDesk
<1>2. cur \in GroupEntry /\ cur.by = 0 BY DEF GroupsShape, GroupEntry, Spelling
<1>a. opened + 1 \in Nat /\ n \in Spelling /\ to \in Spelling BY DEF GroupsShape, Spelling
<1>3. desk' = [desk EXCEPT ![c] = D] BY DEF OpenRequest
<1> HIDE DEF cur
<1>4. D \in Desk BY <1>1, <1>2, <1>a DEF Desk
<1>5. /\ D.pc = "get" /\ D.op = op /\ D.pend = {} /\ D.hand = {} /\ D.no = opened + 1
      /\ D.cur = cur
  BY <1>1 DEF Desk
<1> HIDE DEF D
<1> QED BY <1>2, <1>3, <1>4, <1>5

LEMMA GetDesk ==
    ASSUME GroupsShape, NEW c \in Clerk, GetGroup(c)
    PROVE  \E D \in Desk :
             /\ desk' = [desk EXCEPT ![c] = D]
             /\ \/ D = NoDesk
                \/ /\ D.pc \in {"save", "clash", "tally"} /\ D.op = desk[c].op
                   /\ D.op # "none" /\ D.no = desk[c].no /\ D.pend = desk[c].pend /\ D.hand = {}
                   /\ D.cur = desk[c].cur \/ D.cur \in groups
                   /\ D.pc = "tally" => D.op = "delete"
<1> DEFINE found == GroupsNamed(desk[c].name)
           pc == CASE desk[c].op = "create" -> "save"
                   [] desk[c].op = "update" -> "clash"
                   [] desk[c].op = "delete" -> "tally"
           cur == IF found = {} THEN desk[c].cur ELSE CHOOSE g \in found : TRUE
           D == [desk[c] EXCEPT !.pc = pc, !.cur = cur]
<1>1. desk[c] \in Desk /\ desk[c].op \in {"create", "update", "delete"} /\ desk[c].hand = {}
  BY DEF GroupsShape, GetGroup
<1>2. pc \in {"save", "clash", "tally"} /\ (pc = "tally" => desk[c].op = "delete") BY <1>1
<1>3. cur = desk[c].cur \/ cur \in groups
  <2>1. found # {} => (CHOOSE g \in found : TRUE) \in found OBVIOUS
  <2>2. found \subseteq groups BY DEF GroupsNamed
  <2> QED BY <2>1, <2>2
<1>4. cur \in GroupEntry
  <2>1. desk[c].cur \in GroupEntry BY <1>1 DEF Desk
  <2> HIDE DEF cur
  <2> QED BY <1>3, <2>1 DEF GroupsShape
<1>5. \/ desk' = [desk EXCEPT ![c] = NoDesk]
      \/ desk' = [desk EXCEPT ![c] = D]
  BY DEF GetGroup, Respond
<1> HIDE DEF pc, cur, found
<1>6. D \in Desk BY <1>1, <1>2, <1>4 DEF Desk
<1>7. /\ D.pc = pc /\ D.op = desk[c].op /\ D.no = desk[c].no /\ D.pend = desk[c].pend
      /\ D.cur = cur /\ D.hand = desk[c].hand
  BY <1>1 DEF Desk
<1> HIDE DEF D
<1> QED BY <1>1, <1>2, <1>3, <1>5, <1>6, <1>7, NoDeskIsDesk

\* The steps that answer, or go on.
Onward(c, pcs) ==
    \E D \in Desk :
        /\ desk' = [desk EXCEPT ![c] = D]
        /\ \/ D = NoDesk
           \/ /\ D.pc \in pcs /\ D.op = desk[c].op /\ D.to = desk[c].to /\ D.no = desk[c].no
              /\ D.cur = desk[c].cur /\ D.pend = desk[c].pend /\ D.op # "none" /\ D.hand = {}

LEMMA OnwardDesk ==
    ASSUME GroupsShape, NEW c \in Clerk,
           NEW p \in {"save", "clash", "unname", "list", "erase", "answer"},
           desk[c].pc # "idle", desk[c].hand = {}, Respond(c) \/ MoveDesk(c, p)
    PROVE  Onward(c, {p})
<1> DEFINE D == [desk[c] EXCEPT !.pc = p]
<1>1. desk[c] \in Desk /\ desk[c].op # "none" BY DEF GroupsShape
<1>2. /\ D \in Desk /\ D.pc = p /\ D.op = desk[c].op /\ D.to = desk[c].to /\ D.no = desk[c].no
      /\ D.cur = desk[c].cur /\ D.pend = desk[c].pend /\ D.hand = {}
  BY <1>1 DEF Desk
<1>3. desk' = [desk EXCEPT ![c] = NoDesk] \/ desk' = [desk EXCEPT ![c] = D]
  BY DEF Respond, MoveDesk
<1> HIDE DEF D
<1> QED BY <1>1, <1>2, <1>3, NoDeskIsDesk DEF Onward

LEMMA TallyDesk ==
    ASSUME GroupsShape, NEW c \in Clerk, TallyJobs(c)
    PROVE  \E D \in Desk :
             /\ desk' = [desk EXCEPT ![c] = D]
             /\ \/ D = NoDesk
                \/ /\ D.op = desk[c].op /\ D.no = desk[c].no /\ D.cur = desk[c].cur
                   /\ D.op # "none"
                   /\ D.pc \in {"erase", "list"} /\ D.pend = Settled(TaggedWith(desk[c].cur.name))
                   /\ D.hand = {} /\ (D.pc = "erase" => D.pend = {})
<1> DEFINE n == desk[c].cur.name
           pc == IF TaggedWith(n) = {} THEN "erase" ELSE "list"
           pend == Settled(TaggedWith(n))
           D == [desk[c] EXCEPT !.pc = pc, !.pend = pend]
<1>1. desk[c] \in Desk /\ desk[c].op # "none" /\ desk[c].hand = {}
  BY DEF GroupsShape, TallyJobs
<1>2. pend \subseteq GroupJob BY DEF Settled, TaggedWith
<1>3. pc \in {"erase", "list"} /\ (pc = "erase" => pend = {}) BY DEF Settled
<1>4. desk' = [desk EXCEPT ![c] = NoDesk] \/ desk' = [desk EXCEPT ![c] = D]
  BY DEF TallyJobs, Respond
<1> HIDE DEF pc, pend
<1>5. D \in Desk BY <1>1, <1>2, <1>3 DEF Desk
<1>6. /\ D.pc = pc /\ D.op = desk[c].op /\ D.no = desk[c].no /\ D.pend = pend
      /\ D.cur = desk[c].cur /\ D.hand = {}
  BY <1>1 DEF Desk
<1> HIDE DEF D
<1> QED BY <1>1, <1>3, <1>4, <1>5, <1>6, NoDeskIsDesk DEF pend

LEMMA ListDesk ==
    ASSUME GroupsShape, NEW c \in Clerk, ListJobs(c)
    PROVE  \E D \in Desk :
             /\ desk' = [desk EXCEPT ![c] = D]
             /\ D.pc = "retag" /\ D.op = desk[c].op /\ D.to = desk[c].to /\ D.no = desk[c].no
             /\ D.cur = desk[c].cur /\ D.hand = {}
             /\ D.todo = {Snapshot(j) : j \in TaggedWith(desk[c].cur.name)}
             /\ D.pend = IF desk[c].op = "delete" THEN desk[c].pend
                         ELSE Settled(TaggedWith(desk[c].cur.name))
<1> DEFINE n == desk[c].cur.name
           todo == {Snapshot(j) : j \in TaggedWith(n)}
           pend == IF desk[c].op = "delete" THEN desk[c].pend ELSE Settled(TaggedWith(n))
           D == [desk[c] EXCEPT !.pc = "retag", !.todo = todo, !.pend = pend]
<1>1. desk[c] \in Desk /\ desk[c].hand = {} BY DEF GroupsShape, ListJobs
<1>2. pend \subseteq GroupJob BY <1>1 DEF Settled, TaggedWith, Desk
<1>3. todo \subseteq Read
  <2>1. \A j \in TaggedWith(n) : Snapshot(j) \in Read
    BY DEF TaggedWith, GroupsShape, Snapshot, Read, TagRecord
  <2> QED BY <2>1
<1>4. desk' = [desk EXCEPT ![c] = D] BY DEF ListJobs
<1> HIDE DEF todo, pend
<1>5. D \in Desk BY <1>1, <1>2, <1>3 DEF Desk
<1>6. /\ D.pc = "retag" /\ D.op = desk[c].op /\ D.to = desk[c].to /\ D.no = desk[c].no
      /\ D.cur = desk[c].cur /\ D.todo = todo /\ D.pend = pend /\ D.hand = {}
  BY <1>1 DEF Desk
<1> HIDE DEF D
<1> QED BY <1>4, <1>5, <1>6 DEF todo, pend

\* D is what d was, with some jobs forgotten.
LeftWithout(D, d) ==
    /\ D.pc = d.pc /\ D.op = d.op /\ D.to = d.to /\ D.no = d.no /\ D.cur = d.cur
    /\ D.todo = d.todo /\ D.hand = d.hand /\ D.pend \subseteq d.pend

LEMMA ForgottenDesks ==
    ASSUME NEW f \in [Clerk -> Desk], NEW j, NEW C
    PROVE  /\ Forgotten(j, C, f) \in [Clerk -> Desk]
           /\ \A d \in Clerk : /\ LeftWithout(Forgotten(j, C, f)[d], f[d])
                               /\ d \in C => j \notin Forgotten(j, C, f)[d].pend
<1> DEFINE F(d) == IF d \in C THEN [f[d] EXCEPT !.pend = @ \ {j}] ELSE f[d]
<1>1. ASSUME NEW d \in Clerk
      PROVE  F(d) \in Desk /\ LeftWithout(F(d), f[d]) /\ (d \in C => j \notin F(d).pend)
  <2>1. f[d] \in Desk OBVIOUS
  <2>2. [f[d] EXCEPT !.pend = @ \ {j}] \in Desk BY <2>1 DEF Desk
  <2>3. CASE d \notin C BY <2>1, <2>3 DEF LeftWithout, Desk
  <2>4. CASE d \in C
    <3> DEFINE E == [f[d] EXCEPT !.pend = @ \ {j}]
    <3>1. F(d) = E BY <2>4
    <3>2. LeftWithout(E, f[d]) /\ E.pend = f[d].pend \ {j} BY <2>1 DEF Desk, LeftWithout
    <3> HIDE DEF E
    <3> QED BY <2>2, <3>1, <3>2 DEF E
  <2> QED BY <2>3, <2>4
<1>2. Forgotten(j, C, f) = [d \in Clerk |-> F(d)] BY DEF Forgotten
<1> HIDE DEF F
<1> QED BY <1>1, <1>2

LEMMA ForgottenByNobody ==
    ASSUME NEW f \in [Clerk -> Desk], NEW j PROVE Forgotten(j, {}, f) = f
BY DEF Forgotten

\* What a request saves has a number of its own, that nobody has read.
NumbersAreFresh ==
    /\ \A e \in groups : e.by \in 0..opened
    /\ \A c \in Clerk : desk[c].no \in 0..opened /\ desk[c].cur.by \in 0..opened
    /\ \A c \in Clerk : desk[c].pc \in {"get", "clash", "save"} =>
          /\ desk[c].no # 0 /\ \A e \in groups : e.by # desk[c].no
          /\ \A d \in Clerk : desk[d].cur.by # desk[c].no
          /\ \A d \in Clerk : d # c => desk[d].no # desk[c].no

\* Each group that was created has an entry that no rename is about to delete.
EntriesAreSafe ==
    \A g \in kept \ gone : \E e \in groups :
        e.id = g /\ \A c \in Clerk : desk[c].pc = "unname" => desk[c].cur # e

GroupsInv == GroupsShape /\ NumbersAreFresh /\ EntriesAreSafe /\ NoGroupVanishes

LEMMA NumbersKept ==
    ASSUME GroupsShape, NumbersAreFresh, groups' \subseteq groups, opened' \in {opened, opened + 1},
           \A d \in Clerk :
              \/ desk'[d].no = 0 /\ desk'[d].cur.by = 0 /\ desk'[d].pc \in {"idle", "retag"}
              \/ /\ desk'[d].no = desk[d].no
                 /\ desk'[d].cur = desk[d].cur \/ desk'[d].cur \in groups
                 /\ desk'[d].pc \in {"get", "clash", "save"} => desk[d].pc \in {"get", "clash", "save"}
    PROVE  NumbersAreFresh'
<1>1. /\ \A d \in Clerk : desk'[d].no \in 0..opened' /\ desk'[d].cur.by \in 0..opened'
      /\ \A e \in groups' : e.by \in 0..opened'
  <2>1. \A n \in 0..opened : n \in 0..opened' BY DEF GroupsShape
  <2>2. 0 \in 0..opened BY DEF GroupsShape
  <2>3. \A d \in Clerk : desk'[d].no \in 0..opened /\ desk'[d].cur.by \in 0..opened
    BY <2>2 DEF NumbersAreFresh
  <2>4. \A e \in groups' : e.by \in 0..opened BY DEF NumbersAreFresh
  <2> QED BY <2>1, <2>3, <2>4
<1>2. ASSUME NEW c \in Clerk, desk'[c].pc \in {"get", "clash", "save"}
      PROVE  /\ desk'[c].no # 0 /\ \A e \in groups' : e.by # desk'[c].no
             /\ \A d \in Clerk : desk'[d].cur.by # desk'[c].no
             /\ \A d \in Clerk : d # c => desk'[d].no # desk'[c].no
  <2>1. desk'[c].no = desk[c].no /\ desk[c].pc \in {"get", "clash", "save"} BY <1>2
  <2>2. /\ desk[c].no # 0 /\ \A e \in groups : e.by # desk[c].no
        /\ \A d \in Clerk : desk[d].cur.by # desk[c].no
        /\ \A d \in Clerk : d # c => desk[d].no # desk[c].no
    BY <2>1 DEF NumbersAreFresh
  <2> QED BY <2>1, <2>2
<1> QED BY <1>1, <1>2 DEF NumbersAreFresh

\* Steps that save nothing: an entry that goes is gone, or was to go.
LEMMA EntriesKept ==
    ASSUME GroupsInv, kept' = kept, gone \subseteq gone', groups' \subseteq groups,
           opened' \in {opened, opened + 1}, GroupsShape',
           \A d \in Clerk :
              \/ desk'[d].no = 0 /\ desk'[d].cur.by = 0 /\ desk'[d].pc \in {"idle", "retag"}
              \/ /\ desk'[d].no = desk[d].no
                 /\ desk'[d].cur = desk[d].cur \/ desk'[d].cur \in groups
                 /\ desk'[d].pc \in {"get", "clash", "save"} => desk[d].pc \in {"get", "clash", "save"}
                 /\ desk'[d].pc = "unname" => desk[d].pc = "unname" /\ desk'[d].cur = desk[d].cur,
           \A e \in groups \ groups' :
              e.id \in gone' \/ \E c \in Clerk : desk[c].pc = "unname" /\ desk[c].cur = e,
           groupFile' \in {groupFile, groups'}
    PROVE  GroupsInv'
<1>1. NumbersAreFresh' BY NumbersKept DEF GroupsInv
<1>2. ASSUME NEW g \in kept' \ gone'
      PROVE  \E e \in groups' :
                e.id = g /\ \A c \in Clerk : desk'[c].pc = "unname" => desk'[c].cur # e
  <2>1. PICK e \in groups :
           e.id = g /\ \A c \in Clerk : desk[c].pc = "unname" => desk[c].cur # e
    BY <1>2 DEF GroupsInv, EntriesAreSafe
  <2>2. e \in groups' BY <2>1
  <2> QED BY <2>1, <2>2
<1>3. NoGroupVanishes'
  <2> SUFFICES ASSUME NEW g \in kept' \ gone' PROVE \E e \in groupFile' : e.id = g
    BY DEF NoGroupVanishes
  <2>1. \E e \in groups' : e.id = g BY <1>2
  <2>2. \E e \in groupFile : e.id = g BY DEF GroupsInv, NoGroupVanishes
  <2> QED BY <2>1, <2>2
<1> QED BY <1>1, <1>2, <1>3 DEF GroupsInv, EntriesAreSafe

\* What the registry needs of a step of a request: the desk of nobody else changes.
LEMMA DeskShape ==
    ASSUME GroupsShape, groups' \subseteq GroupEntry, opened' \in Nat, tagged' = tagged,
           NEW c \in Clerk, NEW D \in Desk, desk' = [desk EXCEPT ![c] = D],
           \/ D = NoDesk
           \/ /\ D.op # "none" /\ (D.pc = "tally" => D.op = "delete")
              /\ D.pc # "retag" => D.hand = {}
              /\ D.pc = "get" => D.op \in {"create", "update", "delete"}
    PROVE  GroupsShape' /\ desk'[c] = D /\ \A d \in Clerk : d # c => desk'[d] = desk[d]
BY NoDeskIsDesk, DeskMoves DEF GroupsShape

LEMMA OpenKeeps ==
    ASSUME GroupsInv, NEW c \in Clerk, NEW op \in {"create", "update", "delete"},
           NEW n \in Label, NEW to \in Label \cup {NoGroup}, OpenRequest(c, op, n, to)
    PROVE  GroupsInv'
<1>0. GroupsShape /\ NumbersAreFresh BY DEF GroupsInv
<1>1. PICK D \in Desk : /\ desk' = [desk EXCEPT ![c] = D]
                        /\ D.pc = "get" /\ D.op = op /\ D.pend = {} /\ D.hand = {}
                        /\ D.no = opened + 1 /\ D.cur.by = 0
  BY <1>0, OpenDesk
<1>2. /\ opened' = opened + 1 /\ opened \in Nat /\ opened' \in Nat
      /\ UNCHANGED <<groups, groupFile, tagged, kept, gone>>
  BY <1>0 DEF OpenRequest, GroupsShape
<1>3. GroupsShape' /\ desk'[c] = D /\ \A d \in Clerk : d # c => desk'[d] = desk[d]
  BY <1>0, <1>1, <1>2, DeskShape DEF GroupsShape
<1>4. NumbersAreFresh'
  <2>1. \A e \in groups' : e.by \in 0..opened' BY <1>0, <1>2 DEF NumbersAreFresh
  <2>2. \A d \in Clerk : desk'[d].no \in 0..opened' /\ desk'[d].cur.by \in 0..opened
    BY <1>0, <1>1, <1>2, <1>3 DEF NumbersAreFresh
  <2>3. ASSUME NEW d \in Clerk, desk'[d].pc \in {"get", "clash", "save"}
        PROVE  /\ desk'[d].no # 0 /\ \A e \in groups' : e.by # desk'[d].no
               /\ \A x \in Clerk : desk'[x].cur.by # desk'[d].no
               /\ \A x \in Clerk : x # d => desk'[x].no # desk'[d].no
    <3>1. CASE d = c
      <4>1. \A e \in groups : e.by # opened + 1 BY <1>0, <1>2 DEF NumbersAreFresh
      <4>2. \A x \in Clerk : desk[x].cur.by # opened + 1 /\ desk[x].no # opened + 1
        BY <1>0, <1>2 DEF NumbersAreFresh
      <4> QED BY <1>1, <1>2, <1>3, <3>1, <4>1, <4>2
    <3>2. CASE d # c
      <4>1. desk'[d] = desk[d] BY <1>3, <3>2
      <4>2. /\ desk[d].no # 0 /\ desk[d].no # opened + 1
            /\ \A e \in groups : e.by # desk[d].no
            /\ \A x \in Clerk : desk[x].cur.by # desk[d].no
            /\ \A x \in Clerk : x # d => desk[x].no # desk[d].no
        BY <1>0, <1>2, <2>3, <4>1 DEF NumbersAreFresh
      <4> QED BY <1>1, <1>2, <1>3, <4>1, <4>2
    <3> QED BY <3>1, <3>2
  <2> QED BY <1>2, <2>1, <2>2, <2>3 DEF NumbersAreFresh
<1>5. EntriesAreSafe'
  <2> SUFFICES ASSUME NEW g \in kept \ gone
               PROVE  \E e \in groups :
                  e.id = g /\ \A d \in Clerk : desk'[d].pc = "unname" => desk'[d].cur # e
    BY <1>2 DEF EntriesAreSafe
  <2> QED BY <1>1, <1>3 DEF GroupsInv, EntriesAreSafe
<1>6. NoGroupVanishes' BY <1>2 DEF GroupsInv, NoGroupVanishes
<1> QED BY <1>3, <1>4, <1>5, <1>6 DEF GroupsInv

LEMMA SaveKeeps ==
    ASSUME GroupsInv, groupFaults \in Nat, NEW c \in Clerk, SaveEntry(c)
    PROVE  GroupsInv'
<1> DEFINE new == Saved(c)
           old == GroupsNamed(new.name)
<1>0. GroupsShape /\ NumbersAreFresh /\ EntriesAreSafe /\ NoGroupVanishes BY DEF GroupsInv
<1>a. desk[c] \in Desk /\ desk[c].pc = "save" /\ desk[c].op # "none" /\ desk[c].hand = {}
  BY <1>0 DEF GroupsShape, SaveEntry
<1>b. desk[c].cur \in GroupEntry /\ desk[c].to \in Spelling /\ desk[c].no \in Nat
  BY <1>a DEF Desk
<1>1. new \in GroupEntry /\ new.id = desk[c].cur.id /\ new.by = desk[c].no
  BY <1>b DEF Saved, GroupEntry
<1>2. /\ groups' = (groups \ old) \cup {new}
      /\ gone' = gone \cup (Ids(old) \ {new.id})
      /\ UNCHANGED <<opened, tagged>>
      /\ \/ groupFile' = groups' /\ kept' = kept \cup {desk[c].cur.id}
         \/ groupFile' = groupFile /\ kept' = kept
  <2>1. /\ groups' = (groups \ old) \cup {new}
        /\ gone' = gone \cup (Ids(old) \ {new.id})
        /\ UNCHANGED <<opened, tagged>>
        /\ FlushGroups /\ kept' = IF Flushed THEN kept \cup {desk[c].cur.id} ELSE kept
    BY DEF SaveEntry, SaveGroup
  <2>2. \/ groupFile' = groups' /\ Flushed
        \/ groupFile' = groupFile /\ ~Flushed
    BY <2>1 DEF FlushGroups, Flushed
  <2> QED BY <2>1, <2>2
<1>3. Onward(c, {"unname"}) BY <1>0, <1>a, OnwardDesk DEF SaveEntry
<1> HIDE DEF new
<1>4. PICK D \in Desk :
        /\ desk' = [desk EXCEPT ![c] = D]
        /\ \/ D = NoDesk
           \/ /\ D.pc = "unname" /\ D.no = desk[c].no /\ D.cur = desk[c].cur /\ D.op # "none"
              /\ D.hand = {}
  BY <1>3 DEF Onward
<1>5. groups' \subseteq GroupEntry BY <1>0, <1>1, <1>2 DEF GroupsShape
<1>6. GroupsShape' /\ desk'[c] = D /\ \A d \in Clerk : d # c => desk'[d] = desk[d]
  BY <1>0, <1>2, <1>4, <1>5, DeskShape DEF GroupsShape
<1>7. /\ desk[c].no # 0 /\ \A e \in groups : e.by # desk[c].no
      /\ \A d \in Clerk : desk[d].cur.by # desk[c].no
      /\ \A d \in Clerk : d # c => desk[d].no # desk[c].no
      /\ desk[c].no \in 0..opened
  BY <1>0, <1>a DEF NumbersAreFresh
<1>8. \A d \in Clerk : /\ desk'[d].no \in {0, desk[d].no}
                       /\ desk'[d].cur.by \in {0, desk[d].cur.by}
                       /\ desk'[d].pc \in {"get", "clash", "save"} => d # c
                       /\ desk'[d].pc = "unname" => desk'[d].cur = desk[d].cur
                       /\ d # c => desk'[d] = desk[d]
  BY <1>4, <1>6, NoDeskIsDesk
<1>9. NumbersAreFresh'
  <2>1. \A e \in groups' : e.by \in 0..opened BY <1>0, <1>1, <1>2, <1>7 DEF NumbersAreFresh
  <2>2. \A d \in Clerk : desk'[d].no \in 0..opened /\ desk'[d].cur.by \in 0..opened
    <3>1. opened \in Nat BY <1>0 DEF GroupsShape
    <3> QED BY <1>0, <1>8, <3>1 DEF NumbersAreFresh
  <2>3. ASSUME NEW d \in Clerk, desk'[d].pc \in {"get", "clash", "save"}
        PROVE  /\ desk'[d].no # 0 /\ \A e \in groups' : e.by # desk'[d].no
               /\ \A x \in Clerk : desk'[x].cur.by # desk'[d].no
               /\ \A x \in Clerk : x # d => desk'[x].no # desk'[d].no
    <3>1. d # c /\ desk'[d] = desk[d] BY <1>8, <2>3
    <3>2. /\ desk[d].no # 0 /\ \A e \in groups : e.by # desk[d].no
          /\ \A x \in Clerk : desk[x].cur.by # desk[d].no
          /\ \A x \in Clerk : x # d => desk[x].no # desk[d].no
      BY <1>0, <2>3, <3>1 DEF NumbersAreFresh
    <3>3. \A e \in groups' : e.by # desk[d].no BY <1>1, <1>2, <1>7, <3>1, <3>2
    <3> QED BY <1>8, <3>1, <3>2, <3>3
  <2> QED BY <1>2, <2>1, <2>2, <2>3 DEF NumbersAreFresh
<1>10. EntriesAreSafe'
  <2> SUFFICES ASSUME NEW g \in kept' \ gone'
               PROVE  \E e \in groups' :
                  e.id = g /\ \A d \in Clerk : desk'[d].pc = "unname" => desk'[d].cur # e
    BY DEF EntriesAreSafe
  <2>1. CASE g = new.id
    <3>1. \A d \in Clerk : desk'[d].pc = "unname" => desk'[d].cur # new
      BY <1>1, <1>7, <1>8
    <3> QED BY <1>2, <2>1, <3>1
  <2>2. CASE g # new.id
    <3>1. g \in kept \ gone BY <1>1, <1>2, <2>2
    <3>2. PICK e \in groups :
             e.id = g /\ \A d \in Clerk : desk[d].pc = "unname" => desk[d].cur # e
      BY <1>0, <3>1 DEF EntriesAreSafe
    <3>3. e \notin old
      <4> SUFFICES ASSUME e \in old PROVE FALSE OBVIOUS
      <4>1. e.id \in Ids(old) BY DEF Ids
      <4> QED BY <1>2, <2>2, <3>2, <4>1
    <3>4. ASSUME NEW d \in Clerk, desk'[d].pc = "unname" PROVE desk'[d].cur # e
      <4>1. CASE d = c BY <1>1, <1>8, <2>2, <3>2, <3>4, <4>1
      <4>2. CASE d # c BY <1>8, <3>2, <3>4, <4>2
      <4> QED BY <4>1, <4>2
    <3> QED BY <1>2, <3>2, <3>3, <3>4
  <2> QED BY <2>1, <2>2
<1>11. NoGroupVanishes'
  <2> SUFFICES ASSUME NEW g \in kept' \ gone' PROVE \E e \in groupFile' : e.id = g
    BY DEF NoGroupVanishes
  <2>1. \E e \in groups' : e.id = g BY <1>10 DEF EntriesAreSafe
  <2>2. CASE groupFile' = groups' BY <2>1, <2>2
  <2>3. CASE groupFile' = groupFile /\ kept' = kept
    BY <1>0, <1>2, <2>3 DEF NoGroupVanishes
  <2> QED BY <1>2, <2>2, <2>3
<1> QED BY <1>6, <1>9, <1>10, <1>11 DEF GroupsInv

LEMMA DropKeeps ==
    ASSUME GroupsInv, NEW c \in Clerk, DropOldName(c)
    PROVE  GroupsInv'
<1> DEFINE old == GroupsNamed(desk[c].cur.name)
<1>0. GroupsShape BY DEF GroupsInv
<1>a. desk[c].pc = "unname" /\ desk[c].hand = {} BY <1>0 DEF DropOldName, GroupsShape
<1>1. /\ groups' = groups \ old
      /\ gone' = gone \cup Ids(old \ {desk[c].cur})
      /\ groupFile' \in {groups', groupFile}
      /\ UNCHANGED <<tagged, opened, kept>>
  BY DEF DropOldName, EraseGroup, FlushGroups
<1>2. Onward(c, {"list"}) BY <1>0, <1>a, OnwardDesk DEF DropOldName
<1>3. PICK D \in Desk :
        /\ desk' = [desk EXCEPT ![c] = D]
        /\ \/ D = NoDesk
           \/ /\ D.pc = "list" /\ D.no = desk[c].no /\ D.cur = desk[c].cur /\ D.op # "none"
              /\ D.hand = {}
  BY <1>2 DEF Onward
<1>4. GroupsShape' /\ desk'[c] = D /\ \A d \in Clerk : d # c => desk'[d] = desk[d]
  BY <1>0, <1>1, <1>3, DeskShape DEF GroupsShape
<1>5. \A e \in groups \ groups' : e.id \in gone' \/ desk[c].cur = e
  <2> SUFFICES ASSUME NEW e \in old, e # desk[c].cur PROVE e.id \in gone' BY <1>1
  <2> QED BY <1>1 DEF Ids
<1> HIDE DEF old
<1> QED BY <1>a, <1>1, <1>3, <1>4, <1>5, NoDeskIsDesk, EntriesKept

LEMMA EraseKeeps ==
    ASSUME GroupsInv, NEW c \in Clerk, DropGroup(c)
    PROVE  GroupsInv'
<1> DEFINE old == GroupsNamed(desk[c].cur.name)
<1>0. GroupsShape /\ opened \in Nat BY DEF GroupsInv, GroupsShape
<1>1. /\ groups' = groups \ old /\ gone' = gone \cup Ids(old)
      /\ groupFile' \in {groups', groupFile}
      /\ UNCHANGED <<tagged, opened, kept>>
  <2>1. CASE old = {}
    <3>1. Ids(old) = {} BY <2>1 DEF Ids
    <3> QED BY <2>1, <3>1 DEF DropGroup
  <2>2. CASE old # {} BY <2>2 DEF DropGroup, EraseGroup, FlushGroups
  <2> QED BY <2>1, <2>2
<1>2. desk' = [desk EXCEPT ![c] = NoDesk] BY DEF DropGroup, Respond
<1>3. GroupsShape' /\ desk'[c] = NoDesk /\ \A d \in Clerk : d # c => desk'[d] = desk[d]
  <2>1. groups' \subseteq GroupEntry BY <1>0, <1>1 DEF GroupsShape
  <2> QED BY <1>0, <1>1, <1>2, <2>1, NoDeskIsDesk, DeskShape
<1>4. \A e \in groups \ groups' : e.id \in gone'
  BY <1>1 DEF Ids
<1> HIDE DEF old
<1> QED BY <1>1, <1>3, <1>4, NoDeskIsDesk, EntriesKept


\* Steps that do not touch the registry.
LEMMA RegistryAside ==
    ASSUME GroupsInv, GroupsShape', UNCHANGED <<groups, groupFile, kept, gone>>,
           opened' \in {opened, opened + 1},
           \A d \in Clerk :
              \/ desk'[d].no = 0 /\ desk'[d].cur.by = 0 /\ desk'[d].pc \in {"idle", "retag"}
              \/ /\ desk'[d].no = desk[d].no
                 /\ desk'[d].cur = desk[d].cur \/ desk'[d].cur \in groups
                 /\ desk'[d].pc \in {"get", "clash", "save"} => desk[d].pc \in {"get", "clash", "save"}
                 /\ desk'[d].pc = "unname" => desk[d].pc = "unname" /\ desk'[d].cur = desk[d].cur
    PROVE  GroupsInv'
BY EntriesKept

\* With none left.
LEMMA DoneDesk ==
    ASSUME GroupsShape, NEW c \in Clerk, RetagDone(c)
    PROVE  \E D \in Desk :
             /\ desk' = [desk EXCEPT ![c] = D]
             /\ \/ D = NoDesk
                \/ /\ D.pc \in {"erase", "answer"} /\ D.op = desk[c].op /\ D.to = desk[c].to
                   /\ D.op # "none" /\ D.no = desk[c].no /\ D.cur = desk[c].cur
                   /\ D.pend = desk[c].pend /\ D.hand = {}
<1>1. desk[c].pc = "retag" /\ desk[c].hand = {} BY DEF RetagDone
<1>2. \E p \in {"erase", "answer"} : Respond(c) \/ MoveDesk(c, p) BY DEF RetagDone
<1>3. PICK p \in {"erase", "answer"} : Onward(c, {p}) BY <1>1, <1>2, OnwardDesk
<1> QED BY <1>3 DEF Onward

LEMMA ReadKeeps ==
    ASSUME GroupsInv, NEW c \in Clerk,
           \/ GetGroup(c) \/ CheckClash(c) \/ TallyJobs(c) \/ ListJobs(c) \/ AnswerRename(c)
           \/ RetagDone(c)
    PROVE  GroupsInv'
<1>0. GroupsShape /\ opened \in Nat /\ groups \subseteq GroupEntry BY DEF GroupsInv, GroupsShape
<1>1. UNCHANGED <<groups, groupFile, tagged, opened, kept, gone>>
  BY DEF GetGroup, CheckClash, TallyJobs, ListJobs, AnswerRename, RetagDone
<1>2. \E D \in Desk :
        /\ desk' = [desk EXCEPT ![c] = D]
        /\ \/ D = NoDesk
           \/ /\ D.op # "none" /\ D.no = desk[c].no /\ D.pc \notin {"get", "unname"}
              /\ D.hand = {}
              /\ D.cur = desk[c].cur \/ D.cur \in groups
              /\ D.pc = "tally" => D.op = "delete"
              /\ D.pc \in {"get", "clash", "save"} => desk[c].pc \in {"get", "clash", "save"}
  <2>1. CASE GetGroup(c)
    <3>1. desk[c].pc = "get" BY <2>1 DEF GetGroup
    <3>2. PICK D \in Desk :
             /\ desk' = [desk EXCEPT ![c] = D]
             /\ \/ D = NoDesk
                \/ /\ D.pc \in {"save", "clash", "tally"} /\ D.op = desk[c].op
                   /\ D.op # "none" /\ D.no = desk[c].no /\ D.pend = desk[c].pend /\ D.hand = {}
                   /\ D.cur = desk[c].cur \/ D.cur \in groups
                   /\ D.pc = "tally" => D.op = "delete"
      BY <1>0, <2>1, GetDesk
    <3> QED BY <3>1, <3>2
  <2>2. CASE CheckClash(c)
    <3>1. desk[c].pc = "clash" /\ desk[c].hand = {} BY <1>0, <2>2 DEF CheckClash, GroupsShape
    <3>2. Onward(c, {"save"}) BY <1>0, <2>2, <3>1, OnwardDesk DEF CheckClash
    <3> QED BY <3>1, <3>2 DEF Onward
  <2>3. CASE TallyJobs(c)
    <3>1. PICK D \in Desk :
             /\ desk' = [desk EXCEPT ![c] = D]
             /\ \/ D = NoDesk
                \/ /\ D.op = desk[c].op /\ D.no = desk[c].no /\ D.cur = desk[c].cur
                   /\ D.op # "none" /\ D.pc \in {"erase", "list"} /\ D.hand = {}
      BY <1>0, <2>3, TallyDesk
    <3> QED BY <3>1
  <2>4. CASE ListJobs(c)
    <3>1. desk[c].op # "none" BY <1>0, <2>4 DEF ListJobs, GroupsShape
    <3>2. PICK D \in Desk :
             /\ desk' = [desk EXCEPT ![c] = D]
             /\ D.pc = "retag" /\ D.op = desk[c].op /\ D.no = desk[c].no /\ D.cur = desk[c].cur
             /\ D.hand = {}
      BY <1>0, <2>4, ListDesk
    <3> QED BY <3>1, <3>2
  <2>5. CASE AnswerRename(c) BY <2>5, NoDeskIsDesk DEF AnswerRename, Respond
  <2>6. CASE RetagDone(c)
    <3>1. PICK D \in Desk :
             /\ desk' = [desk EXCEPT ![c] = D]
             /\ \/ D = NoDesk
                \/ /\ D.pc \in {"erase", "answer"} /\ D.op # "none" /\ D.no = desk[c].no
                   /\ D.cur = desk[c].cur /\ D.hand = {}
      BY <1>0, <2>6, DoneDesk
    <3> QED BY <3>1
  <2> QED BY <2>1, <2>2, <2>3, <2>4, <2>5, <2>6
<1>3. PICK D \in Desk :
        /\ desk' = [desk EXCEPT ![c] = D]
        /\ \/ D = NoDesk
           \/ /\ D.op # "none" /\ D.no = desk[c].no /\ D.pc \notin {"get", "unname"}
              /\ D.hand = {}
              /\ D.cur = desk[c].cur \/ D.cur \in groups
              /\ D.pc = "tally" => D.op = "delete"
              /\ D.pc \in {"get", "clash", "save"} => desk[c].pc \in {"get", "clash", "save"}
  BY <1>2
<1>4. GroupsShape' /\ desk'[c] = D /\ \A d \in Clerk : d # c => desk'[d] = desk[d]
  BY <1>0, <1>1, <1>3, DeskShape
<1> QED BY <1>1, <1>3, <1>4, NoDeskIsDesk, RegistryAside

\* One of applyGroupToSnapshot's steps for job j leaves D on the desk of c, and the requests
\* of C forget the job.
Goes(c, D, j, C) ==
    /\ desk' = Forgotten(j, C, [desk EXCEPT ![c] = D])
    /\ D.pc = desk[c].pc /\ D.op = desk[c].op /\ D.to = desk[c].to /\ D.no = desk[c].no
    /\ D.cur = desk[c].cur /\ D.pend = desk[c].pend

LEMMA GoesOn ==
    ASSUME GroupsShape, NEW c \in Clerk, NEW D \in Desk, NEW j, NEW C, Goes(c, D, j, C)
    PROVE  /\ desk' \in [Clerk -> Desk]
           /\ LeftWithout(desk'[c], D)
           /\ \A d \in Clerk : d # c => LeftWithout(desk'[d], desk[d])
           /\ \A d \in Clerk : d \in C => j \notin desk'[d].pend
<1> DEFINE f == [desk EXCEPT ![c] = D]
<1>1. f \in [Clerk -> Desk] /\ f[c] = D /\ \A d \in Clerk : d # c => f[d] = desk[d]
  BY DEF GroupsShape
<1>2. desk' = Forgotten(j, C, f) BY DEF Goes
<1> HIDE DEF f
<1> QED BY <1>1, <1>2, ForgottenDesks

LEMMA RetagKeeps ==
    ASSUME GroupsInv, NEW c \in Clerk, NEW D \in Desk, NEW j, NEW C, Goes(c, D, j, C),
           desk[c].pc = "retag", tagged' \in [GroupJob -> TagRecord],
           UNCHANGED <<groups, groupFile, opened, kept, gone>>
    PROVE  GroupsInv'
<1>0. GroupsShape BY DEF GroupsInv
<1>a. /\ desk' \in [Clerk -> Desk] /\ LeftWithout(desk'[c], D)
      /\ \A d \in Clerk : d # c => LeftWithout(desk'[d], desk[d])
  BY <1>0, GoesOn
<1>b. D.pc = desk[c].pc /\ D.op = desk[c].op /\ D.no = desk[c].no /\ D.cur = desk[c].cur
  BY DEF Goes
<1>1. /\ desk' \in [Clerk -> Desk]
      /\ \A d \in Clerk : /\ desk'[d].pc = desk[d].pc /\ desk'[d].op = desk[d].op
                          /\ desk'[d].no = desk[d].no /\ desk'[d].cur = desk[d].cur
                          /\ d = c \/ desk'[d].hand = desk[d].hand
  <2> SUFFICES ASSUME NEW d \in Clerk
               PROVE  /\ desk'[d].pc = desk[d].pc /\ desk'[d].op = desk[d].op
                      /\ desk'[d].no = desk[d].no /\ desk'[d].cur = desk[d].cur
                      /\ d = c \/ desk'[d].hand = desk[d].hand
    BY <1>a
  <2>1. CASE d = c BY <1>a, <1>b, <2>1 DEF LeftWithout
  <2>2. CASE d # c BY <1>a, <2>2 DEF LeftWithout
  <2> QED BY <2>1, <2>2
<1>2. GroupsShape' BY <1>0, <1>1 DEF GroupsShape
<1> QED BY <1>1, <1>2, RegistryAside

\* What a step of TakeNext takes from the list.
Takes(c, e, D, C) ==
    /\ Goes(c, D, e.job, C) /\ D.todo = desk[c].todo \ {e}
    /\ c \notin C => tagged[e.job].at \in {"none", "heap"}
    /\ \/ /\ D.hand = {}
          /\ \/ tagged[e.job].at = "heap" /\ tagged[e.job].tag = NewTag(c)
             \/ tagged[e.job].at # "heap" /\ (e.snap = "running" \/ e.tag = NewTag(c))
       \/ \E h \in Held :
             /\ D.hand = {h} /\ h.job = e.job /\ h.snap = e.snap
             /\ \/ tagged[e.job].at = "heap" /\ h.step = "entry"
                \/ tagged[e.job].at # "heap" /\ h.step = "snapshot" /\ h.snap # "running"

LEMMA TakeDesk ==
    ASSUME GroupsShape, NEW c \in Clerk, TakeNext(c)
    PROVE  \E e \in desk[c].todo, D \in Desk, C \in SUBSET Clerk : Takes(c, e, D, C)
<1>0. desk \in [Clerk -> Desk] /\ desk[c] \in Desk BY DEF GroupsShape
<1>1. PICK e \in desk[c].todo :
        LET waits == tagged[e.job].at = "heap"
            skip == IF waits THEN tagged[e.job].tag = NewTag(c)
                    ELSE e.snap = "running" \/ e.tag = NewTag(c)
            inHand == IF skip THEN {}
                    ELSE {[job |-> e.job, snap |-> e.snap,
                           step |-> IF waits THEN "entry" ELSE "snapshot"]}
        IN  desk' = Forgotten(e.job, IF tagged[e.job].at \in {"none", "heap"} THEN {} ELSE {c},
                              Taking(c, e, inHand))
  BY DEF TakeNext
<1> DEFINE waits == tagged[e.job].at = "heap"
           skip == IF waits THEN tagged[e.job].tag = NewTag(c)
                   ELSE e.snap = "running" \/ e.tag = NewTag(c)
           h == [job |-> e.job, snap |-> e.snap, step |-> IF waits THEN "entry" ELSE "snapshot"]
           inHand == IF skip THEN {} ELSE {h}
           C == IF tagged[e.job].at \in {"none", "heap"} THEN {} ELSE {c}
           D == [desk[c] EXCEPT !.todo = @ \ {e}, !.hand = inHand]
<1>2. desk' = Forgotten(e.job, C, Taking(c, e, inHand)) BY <1>1
<1>3. e \in Read BY <1>0 DEF Desk
<1>4. h \in Held /\ h.job = e.job /\ h.snap = e.snap BY <1>3 DEF Read, Held
<1>5. \/ inHand = {} /\ skip
      \/ inHand = {h} /\ ~skip
  OBVIOUS
<1>6. inHand \in Hands BY <1>4, <1>5 DEF Hands
<1>7. C \in SUBSET Clerk /\ (c \notin C => tagged[e.job].at \in {"none", "heap"}) OBVIOUS
<1>8. \/ /\ inHand = {}
         /\ \/ tagged[e.job].at = "heap" /\ tagged[e.job].tag = NewTag(c)
            \/ tagged[e.job].at # "heap" /\ (e.snap = "running" \/ e.tag = NewTag(c))
      \/ /\ inHand = {h}
         /\ \/ tagged[e.job].at = "heap" /\ h.step = "entry"
            \/ tagged[e.job].at # "heap" /\ h.step = "snapshot" /\ h.snap # "running"
  <2>1. h.step = IF waits THEN "entry" ELSE "snapshot" OBVIOUS
  <2> QED BY <1>4, <1>5, <2>1
<1> HIDE DEF h, inHand, C, waits, skip
<1>9. Taking(c, e, inHand) = [desk EXCEPT ![c] = D] BY <1>0 DEF Taking
<1>10. /\ D \in Desk /\ D.todo = desk[c].todo \ {e} /\ D.hand = inHand
       /\ D.pc = desk[c].pc /\ D.op = desk[c].op /\ D.to = desk[c].to /\ D.no = desk[c].no
       /\ D.cur = desk[c].cur /\ D.pend = desk[c].pend
  BY <1>0, <1>6 DEF Desk
<1> HIDE DEF D
<1>11. Goes(c, D, e.job, C) BY <1>2, <1>9, <1>10 DEF Goes
<1>12. Takes(c, e, D, C) BY <1>4, <1>7, <1>8, <1>10, <1>11 DEF Takes
<1> QED BY <1>7, <1>10, <1>12

\* A step with the job that is in hand: k is what is in hand then, T the job's record.
Handles(c, h, D, C, T) ==
    /\ Goes(c, D, h.job, C) /\ D.todo = desk[c].todo
    /\ tagged' = [tagged EXCEPT ![h.job] = T]
    /\ T.at = tagged[h.job].at
    /\ \/ /\ h.step = "entry" /\ T.at # "heap" /\ T = tagged[h.job] /\ D.hand = {}
       \/ /\ h.step = "entry" /\ T.at = "heap" /\ Clerk \ {c} \subseteq C
          /\ T.tag = NewTag(c) /\ T.snap = tagged[h.job].snap /\ T.stag = tagged[h.job].stag
          /\ \E k \in Held : D.hand = {k} /\ k.job = h.job /\ k.step = "updated"
       \/ /\ h.step # "entry" /\ Clerk \ {c} \subseteq C
          /\ T.tag = tagged[h.job].tag /\ T.stag = NewTag(c) /\ D.hand = {}
          /\ T.snap = IF h.step = "updated" THEN "pending" ELSE h.snap

LEMMA UpdateDesk ==
    ASSUME GroupsShape, NEW c \in Clerk, UpdateEntry(c)
    PROVE  \E h \in desk[c].hand, D \in Desk, C \in SUBSET Clerk, T \in TagRecord :
              Handles(c, h, D, C, T)
<1>0. /\ desk \in [Clerk -> Desk] /\ desk[c] \in Desk
      /\ tagged \in [GroupJob -> TagRecord]
  BY DEF GroupsShape
<1>1. PICK h \in desk[c].hand :
        /\ h.step = "entry"
        /\ IF tagged[h.job].at = "heap"
           THEN /\ tagged' = [tagged EXCEPT ![h.job].tag = NewTag(c)]
                /\ desk' = Forgotten(h.job, Clerk \ {c},
                             [desk EXCEPT ![c].hand = {[h EXCEPT !.step = "updated"]}])
           ELSE desk' = [desk EXCEPT ![c].hand = {}] /\ UNCHANGED tagged
  BY DEF UpdateEntry
<1>2. h \in Held /\ h.job \in GroupJob BY <1>0 DEF Desk, Hands, Held
<1>3. tagged[h.job] \in TagRecord BY <1>0, <1>2
<1>4. NewTag(c) \in Spelling BY <1>0 DEF NewTag, Spelling, Desk
<1>5. CASE tagged[h.job].at = "heap"
  <2> DEFINE k == [h EXCEPT !.step = "updated"]
             H == {k}
             D == [desk[c] EXCEPT !.hand = H]
             T == [tagged[h.job] EXCEPT !.tag = NewTag(c)]
             C == Clerk \ {c}
  <2>1. k \in Held /\ k.job = h.job /\ k.step = "updated" BY <1>2 DEF Held
  <2>2. H \in Hands BY <2>1 DEF Hands
  <2>3. tagged' = [tagged EXCEPT ![h.job] = T] BY <1>0, <1>1, <1>5
  <2>4. /\ T \in TagRecord /\ T.at = "heap" /\ T.tag = NewTag(c)
        /\ T.snap = tagged[h.job].snap /\ T.stag = tagged[h.job].stag
    BY <1>3, <1>4, <1>5 DEF TagRecord
  <2>5. desk' = Forgotten(h.job, C, [desk EXCEPT ![c] = D]) BY <1>0, <1>1, <1>5
  <2>h. D.hand = {k} BY <1>0 DEF Desk
  <2> HIDE DEF H, k, T
  <2>6. /\ D \in Desk /\ D.todo = desk[c].todo
        /\ D.pc = desk[c].pc /\ D.op = desk[c].op /\ D.to = desk[c].to /\ D.no = desk[c].no
        /\ D.cur = desk[c].cur /\ D.pend = desk[c].pend
    BY <1>0, <2>2 DEF Desk
  <2> HIDE DEF D
  <2>7. Goes(c, D, h.job, C) BY <2>5, <2>6 DEF Goes
  <2>8. \E x \in Held : D.hand = {x} /\ x.job = h.job /\ x.step = "updated" BY <2>1, <2>h
  <2>9. Handles(c, h, D, C, T) BY <1>1, <1>5, <2>3, <2>4, <2>6, <2>7, <2>8 DEF Handles
  <2> QED BY <2>4, <2>6, <2>9
<1>6. CASE tagged[h.job].at # "heap"
  <2> DEFINE D == [desk[c] EXCEPT !.hand = {}]
             T == tagged[h.job]
  <2>1. /\ D \in Desk /\ D.todo = desk[c].todo /\ D.hand = {}
        /\ D.pc = desk[c].pc /\ D.op = desk[c].op /\ D.to = desk[c].to /\ D.no = desk[c].no
        /\ D.cur = desk[c].cur /\ D.pend = desk[c].pend
    <3>1. {} \in Hands BY DEF Hands
    <3> QED BY <1>0, <3>1 DEF Desk
  <2>2. desk' = [desk EXCEPT ![c] = D] BY <1>0, <1>1, <1>6
  <2> HIDE DEF D
  <2>3. [desk EXCEPT ![c] = D] \in [Clerk -> Desk] BY <1>0, <2>1
  <2>4. Goes(c, D, h.job, {}) BY <2>1, <2>2, <2>3, ForgottenByNobody DEF Goes
  <2>5. tagged' = [tagged EXCEPT ![h.job] = T] BY <1>0, <1>1, <1>2, <1>6
  <2>6. Handles(c, h, D, {}, T) BY <1>1, <1>6, <2>1, <2>4, <2>5 DEF Handles
  <2> QED BY <1>3, <2>1, <2>6
<1> QED BY <1>5, <1>6

LEMMA WriteDesk ==
    ASSUME GroupsShape, NEW c \in Clerk, WriteSnapshot(c)
    PROVE  \E h \in desk[c].hand, D \in Desk, C \in SUBSET Clerk, T \in TagRecord :
              Handles(c, h, D, C, T)
<1>0. /\ desk \in [Clerk -> Desk] /\ desk[c] \in Desk
      /\ tagged \in [GroupJob -> TagRecord]
  BY DEF GroupsShape
<1> DEFINE status(h) == IF h.step = "updated" THEN "pending" ELSE h.snap
<1>1. PICK h \in desk[c].hand :
        /\ h.step \in {"updated", "snapshot"}
        /\ tagged' = [tagged EXCEPT ![h.job].stag = NewTag(c), ![h.job].snap = status(h)]
        /\ desk' = Forgotten(h.job, Clerk \ {c}, [desk EXCEPT ![c].hand = {}])
  BY DEF WriteSnapshot
<1>2. h \in Held /\ h.job \in GroupJob /\ status(h) \in SnapStatus
  BY <1>0 DEF Desk, Hands, Held, SnapStatus
<1>3. tagged[h.job] \in TagRecord BY <1>0, <1>2
<1>4. NewTag(c) \in Spelling BY <1>0 DEF NewTag, Spelling, Desk
<1> DEFINE D == [desk[c] EXCEPT !.hand = {}]
           T == [tagged[h.job] EXCEPT !.stag = NewTag(c), !.snap = status(h)]
           C == Clerk \ {c}
<1>5. /\ D \in Desk /\ D.todo = desk[c].todo /\ D.hand = {}
      /\ D.pc = desk[c].pc /\ D.op = desk[c].op /\ D.to = desk[c].to /\ D.no = desk[c].no
      /\ D.cur = desk[c].cur /\ D.pend = desk[c].pend
  <2>1. {} \in Hands BY DEF Hands
  <2> QED BY <1>0, <2>1 DEF Desk
<1>6. desk' = Forgotten(h.job, C, [desk EXCEPT ![c] = D]) BY <1>0, <1>1
<1> HIDE DEF D
<1>7. tagged' = [tagged EXCEPT ![h.job] = T] BY <1>0, <1>1
<1>8. T.snap = status(h) BY <1>3 DEF TagRecord
<1>9. /\ T \in TagRecord /\ T.at = tagged[h.job].at /\ T.tag = tagged[h.job].tag
      /\ T.stag = NewTag(c)
  BY <1>2, <1>3, <1>4 DEF TagRecord
<1> HIDE DEF T
<1>10. Goes(c, D, h.job, C) BY <1>5, <1>6 DEF Goes
<1>11. Handles(c, h, D, C, T) BY <1>1, <1>5, <1>7, <1>8, <1>9, <1>10 DEF Handles
<1> QED BY <1>5, <1>9, <1>11

\* A request for one job starts with it.
LEMMA SingleDesk ==
    ASSUME GroupsShape, NEW c \in Clerk, NEW j \in GroupJob,
           NEW t \in JobTag \cup {NoGroup, tagged[j].tag}, MoveJob(c, j, t) \/ PutTag(c, j, t)
    PROVE  \E D \in Desk : /\ desk' = [desk EXCEPT ![c] = D]
                           /\ D.pc = "retag" /\ D.op \in {"move", "put"} /\ D.pend = {}
                           /\ D.no = 0 /\ D.cur.by = 0
<1>0. tagged[j] \in TagRecord BY DEF GroupsShape
<1>1. t \in Spelling
  <2>1. tagged[j].tag \in Spelling BY <1>0 DEF TagRecord
  <2> QED BY <2>1, GroupAssumption DEF Spelling
<1>2. NoDesk \in Desk /\ NoDesk.no = 0 /\ NoDesk.cur.by = 0 /\ NoDesk.pend = {} BY NoDeskIsDesk
<1>3. CASE MoveJob(c, j, t)
  <2> DEFINE todo == {Snapshot(j)}
             D == [NoDesk EXCEPT !.pc = "retag", !.op = "move", !.to = t, !.todo = todo]
  <2>1. Snapshot(j) \in Read BY <1>0, <1>3 DEF Snapshot, Read, TagRecord, MoveJob
  <2>2. todo \in SUBSET Read BY <2>1
  <2>3. desk' = [desk EXCEPT ![c] = D] BY <1>3 DEF MoveJob
  <2> HIDE DEF todo
  <2>4. D \in Desk BY <1>1, <1>2, <2>2 DEF Desk
  <2>5. D.pc = "retag" /\ D.op = "move" /\ D.pend = {} /\ D.no = 0 /\ D.cur.by = 0
    BY <1>2 DEF Desk
  <2> HIDE DEF D
  <2> QED BY <2>3, <2>4, <2>5
<1>4. CASE PutTag(c, j, t)
  <2> DEFINE h == [job |-> j, snap |-> "pending", step |-> "entry"]
             inHand == {h}
             D == [NoDesk EXCEPT !.pc = "retag", !.op = "put", !.to = t, !.hand = inHand]
  <2>1. h \in Held BY DEF Held, SnapStatus
  <2>2. inHand \in Hands BY <2>1 DEF Hands
  <2>3. desk' = [desk EXCEPT ![c] = D] BY <1>4 DEF PutTag
  <2> HIDE DEF inHand
  <2>4. D \in Desk BY <1>1, <1>2, <2>2 DEF Desk
  <2>5. D.pc = "retag" /\ D.op = "put" /\ D.pend = {} /\ D.no = 0 /\ D.cur.by = 0
    BY <1>2 DEF Desk
  <2> HIDE DEF D
  <2> QED BY <2>3, <2>4, <2>5
<1> QED BY <1>3, <1>4

LEMMA SingleKeeps ==
    ASSUME GroupsInv, NEW c \in Clerk, NEW j \in GroupJob,
           NEW t \in JobTag \cup {NoGroup, tagged[j].tag}, MoveJob(c, j, t) \/ PutTag(c, j, t)
    PROVE  GroupsInv'
<1>0. GroupsShape /\ opened \in Nat /\ groups \subseteq GroupEntry BY DEF GroupsInv, GroupsShape
<1>1. /\ UNCHANGED <<groups, groupFile, tagged, kept, gone>>
      /\ opened' = opened + 1
  BY DEF MoveJob, PutTag
<1>2. PICK D \in Desk : /\ desk' = [desk EXCEPT ![c] = D]
                        /\ D.pc = "retag" /\ D.op \in {"move", "put"} /\ D.pend = {}
                        /\ D.no = 0 /\ D.cur.by = 0
  BY <1>0, SingleDesk
<1>a. groups' \subseteq GroupEntry /\ opened' \in Nat /\ tagged' = tagged BY <1>0, <1>1
<1>b. D.op # "none" /\ D.pc = "retag" BY <1>2
<1>3. GroupsShape' /\ desk'[c] = D /\ \A d \in Clerk : d # c => desk'[d] = desk[d]
  <2>1. D.hand = {} \/ D.pc = "retag" BY <1>b
  <2> QED BY <1>0, <1>2, <1>a, <1>b, <2>1, DeskShape
<1> QED BY <1>1, <1>2, <1>3, RegistryAside

\* What a request has counted, and nobody else has disturbed, is on its way to the new tag:
\* its snapshot as the list goes on, the job itself with its snapshot, but for the moment
\* between the two writes.
DueTag(D) == IF D.op = "delete" THEN NoGroup ELSE D.to

Consistent(T) == T.at # "none" => T.tag = T.stag

StepFits(D, h, T) ==
    /\ h.step \in {"entry", "updated"} => T.at = "heap"
    /\ h.step = "updated" => T.tag = DueTag(D)
    /\ h.step = "snapshot" => T.at = "none" /\ h.snap # "running"

Unheld(D, j) == \A h \in D.hand : h.job # j

Ahead(D, j, T) == \E e \in D.todo : e.job = j /\ e.snap # "running" /\ e.tag = T.stag

OnCourse(D, j, T) ==
    /\ T.at \in {"none", "saved", "heap", "taken", "read"} /\ T.snap \notin {"none", "running"}
    /\ D.pc \in {"list", "retag", "erase", "answer"}
    /\ \A h \in D.hand : h.job = j => StepFits(D, h, T)
    /\ Unheld(D, j) =>
          /\ Consistent(T)
          /\ D.pc = "list" => SameLabel(T.stag, D.cur.name)
          /\ D.pc = "retag" => T.stag = DueTag(D) \/ Ahead(D, j, T)
          /\ D.pc \in {"erase", "answer"} => T.stag = DueTag(D)

PendOnCourse == \A c \in Clerk : \A j \in desk[c].pend : OnCourse(desk[c], j, tagged[j])

\* Jobs and requests apart: a step of a job at most makes requests forget it, and leaves it
\* on its course for the others.
KeepsCourse(j, C, T) ==
    \A d \in Clerk : d \notin C /\ OnCourse(desk[d], j, tagged[j]) => OnCourse(desk[d], j, T)

JobStep(j) ==
    \/ \E t \in JobTag \cup {NoGroup} : SubmitTagged(j, t)
    \/ PushJob(j) \/ PopJob(j) \/ StartJob(j) \/ EndJob(j)
    \/ PauseJob(j) \/ WritePause(j) \/ ReadBack(j) \/ SaveBack(j)

LEMMA UnheldCourse ==
    ASSUME NEW D, NEW j, NEW T, NEW U, OnCourse(D, j, T), Unheld(D, j), U.stag = T.stag,
           U.at # "none" => U.tag = T.stag,
           U.at \in {"none", "saved", "heap", "taken", "read"}, U.snap \notin {"none", "running"}
    PROVE  OnCourse(D, j, U)
<1>1. Ahead(D, j, T) => Ahead(D, j, U) BY DEF Ahead
<1> QED BY <1>1 DEF OnCourse, Consistent, Unheld

LEMMA InTransit ==
    ASSUME GroupsShape, NEW d \in Clerk, NEW j, OnCourse(desk[d], j, tagged[j]),
           tagged[j].at \in {"saved", "taken", "read"}
    PROVE  Unheld(desk[d], j) /\ tagged[j].tag = tagged[j].stag
<1>1. desk[d].hand \subseteq Held BY DEF GroupsShape, Desk, Hands
<1>2. Unheld(desk[d], j)
  <2> SUFFICES ASSUME NEW h \in desk[d].hand, h.job = j PROVE FALSE BY DEF Unheld
  <2>1. h.step \in {"entry", "updated", "snapshot"} BY <1>1 DEF Held
  <2>2. StepFits(desk[d], h, tagged[j]) BY DEF OnCourse
  <2> QED BY <2>1, <2>2 DEF StepFits
<1> QED BY <1>2 DEF OnCourse, Consistent

\* The steps that keep each request counting the job, or make those that hold it forget it.
LEMMA JobStepSays ==
    ASSUME GroupsShape, NEW j \in GroupJob, JobStep(j)
    PROVE  /\ UNCHANGED <<groups, groupFile, opened, groupFaults, kept, gone>>
           /\ \E C \in SUBSET Clerk, T \in TagRecord :
                /\ tagged' = [tagged EXCEPT ![j] = T]
                /\ desk' = Forgotten(j, C, desk)
                /\ KeepsCourse(j, C, T)
<1> DEFINE Says == \E C \in SUBSET Clerk, T \in TagRecord :
                /\ tagged' = [tagged EXCEPT ![j] = T]
                /\ desk' = Forgotten(j, C, desk)
                /\ KeepsCourse(j, C, T)
<1>0. /\ desk \in [Clerk -> Desk] /\ tagged \in [GroupJob -> TagRecord]
      /\ tagged[j] \in TagRecord
  BY DEF GroupsShape
<1>1. UNCHANGED <<groups, groupFile, opened, groupFaults, kept, gone>>
  BY DEF JobStep, SubmitTagged, PushJob, PopJob, StartJob, EndJob, PauseJob, WritePause,
         ReadBack, SaveBack, GoesTo, IsSaved, JobFrame
<1>n. Forgotten(j, {}, desk) = desk BY <1>0, ForgottenByNobody
<1>u. ASSUME NEW T \in TagRecord, tagged' = [tagged EXCEPT ![j] = T], desk' = desk,
             KeepsCourse(j, {}, T)
      PROVE  Says
  BY <1>n, <1>u
<1>f. ASSUME NEW T \in TagRecord, NEW C \in SUBSET Clerk, tagged' = [tagged EXCEPT ![j] = T],
             desk' = Forgotten(j, C, desk), KeepsCourse(j, C, T)
      PROVE  Says
  BY <1>f
<1>h. \A d \in Clerk : d \notin {c \in Clerk : Holds(c, j)} => Unheld(desk[d], j)
  BY DEF Holds, Unheld
<1> HIDE DEF Says
<1>2. ASSUME NEW t \in JobTag \cup {NoGroup}, SubmitTagged(j, t) PROVE Says
  <2> DEFINE T == [at |-> "saved", tag |-> t, snap |-> "pending", stag |-> t]
  <2>1. tagged' = [tagged EXCEPT ![j] = T] /\ desk' = desk /\ tagged[j].snap = "none"
    BY <1>2 DEF SubmitTagged
  <2>2. T \in TagRecord BY GroupAssumption DEF TagRecord, Spelling, JobPlace, SnapStatus
  <2>3. KeepsCourse(j, {}, T) BY <2>1 DEF KeepsCourse, OnCourse
  <2> QED BY <1>u, <2>1, <2>2, <2>3
<1>3. ASSUME NEW at \in {"heap", "popped"}, tagged' = [tagged EXCEPT ![j].at = at]
      PROVE  \E T \in TagRecord :
                /\ tagged' = [tagged EXCEPT ![j] = T] /\ T.at = at
                /\ T.tag = tagged[j].tag /\ T.snap = tagged[j].snap /\ T.stag = tagged[j].stag
  <2> DEFINE T == [tagged[j] EXCEPT !.at = at]
  <2>1. tagged' = [tagged EXCEPT ![j] = T] BY <1>0, <1>3
  <2>2. /\ T \in TagRecord /\ T.at = at
        /\ T.tag = tagged[j].tag /\ T.snap = tagged[j].snap /\ T.stag = tagged[j].stag
    BY <1>0 DEF TagRecord, JobPlace
  <2> HIDE DEF T
  <2> QED BY <2>1, <2>2
<1>4. ASSUME PushJob(j) PROVE Says
  <2>1. /\ tagged[j].at = "saved" /\ tagged' = [tagged EXCEPT ![j].at = "heap"]
        /\ desk' = desk
    BY <1>4 DEF PushJob, GoesTo
  <2>2. PICK T \in TagRecord :
           /\ tagged' = [tagged EXCEPT ![j] = T] /\ T.at = "heap"
           /\ T.tag = tagged[j].tag /\ T.snap = tagged[j].snap /\ T.stag = tagged[j].stag
    BY <1>3, <2>1
  <2>3. ASSUME NEW d \in Clerk, OnCourse(desk[d], j, tagged[j])
        PROVE  OnCourse(desk[d], j, T)
    <3>1. Unheld(desk[d], j) /\ tagged[j].tag = tagged[j].stag BY <2>1, <2>3, InTransit
    <3>2. T.snap \notin {"none", "running"} BY <2>2, <2>3 DEF OnCourse
    <3> QED BY <2>2, <2>3, <3>1, <3>2, UnheldCourse
  <2> QED BY <1>u, <2>1, <2>2, <2>3 DEF KeepsCourse
<1>5. ASSUME PopJob(j) PROVE Says
  <2>1. tagged' = [tagged EXCEPT ![j].at = "popped"] /\ desk' = Forgotten(j, Clerk, desk)
    BY <1>5 DEF PopJob, GoesTo
  <2>2. PICK T \in TagRecord : tagged' = [tagged EXCEPT ![j] = T] BY <1>3, <2>1
  <2>3. KeepsCourse(j, Clerk, T) BY DEF KeepsCourse
  <2> QED BY <1>f, <2>1, <2>2, <2>3
<1>6. ASSUME PauseJob(j) PROVE Says
  <2> DEFINE C == {c \in Clerk : Holds(c, j)}
             T == [tagged[j] EXCEPT !.at = "taken"]
  <2>1. /\ tagged[j].at = "heap" /\ tagged' = [tagged EXCEPT ![j].at = "taken"]
        /\ desk' = Forgotten(j, C, desk)
    BY <1>6 DEF PauseJob, GoesTo, Disturbed
  <2>2. tagged' = [tagged EXCEPT ![j] = T] BY <1>0, <2>1
  <2>3. /\ T \in TagRecord /\ T.at = "taken"
        /\ T.tag = tagged[j].tag /\ T.snap = tagged[j].snap /\ T.stag = tagged[j].stag
    BY <1>0 DEF TagRecord, JobPlace
  <2> HIDE DEF T
  <2>4. ASSUME NEW d \in Clerk, d \notin C, OnCourse(desk[d], j, tagged[j])
        PROVE  OnCourse(desk[d], j, T)
    <3>1. Unheld(desk[d], j) BY <1>h, <2>4
    <3>2. tagged[j].tag = tagged[j].stag BY <2>1, <2>4, <3>1 DEF OnCourse, Consistent
    <3>3. T.snap \notin {"none", "running"} BY <2>3, <2>4 DEF OnCourse
    <3> QED BY <2>3, <2>4, <3>1, <3>2, <3>3, UnheldCourse
  <2>5. C \in SUBSET Clerk OBVIOUS
  <2> HIDE DEF C
  <2> QED BY <1>f, <2>1, <2>2, <2>3, <2>4, <2>5 DEF KeepsCourse
<1>7. ASSUME ReadBack(j) PROVE Says
  <2> DEFINE C == {c \in Clerk : Holds(c, j)}
             T == [tagged[j] EXCEPT !.at = "read", !.tag = tagged[j].stag]
  <2>1. /\ tagged' = [tagged EXCEPT ![j].at = "read", ![j].tag = tagged[j].stag]
        /\ desk' = Forgotten(j, C, desk)
    BY <1>7 DEF ReadBack, Disturbed
  <2>2. tagged' = [tagged EXCEPT ![j] = T] BY <1>0, <2>1
  <2>3. /\ T \in TagRecord /\ T.at = "read"
        /\ T.tag = tagged[j].stag /\ T.snap = tagged[j].snap /\ T.stag = tagged[j].stag
    BY <1>0 DEF TagRecord, JobPlace
  <2> HIDE DEF T
  <2>4. ASSUME NEW d \in Clerk, d \notin C, OnCourse(desk[d], j, tagged[j])
        PROVE  OnCourse(desk[d], j, T)
    <3>1. Unheld(desk[d], j) BY <1>h, <2>4
    <3>3. T.snap \notin {"none", "running"} BY <2>3, <2>4 DEF OnCourse
    <3> QED BY <2>3, <2>4, <3>1, <3>3, UnheldCourse
  <2>5. C \in SUBSET Clerk OBVIOUS
  <2> HIDE DEF C
  <2> QED BY <1>f, <2>1, <2>2, <2>3, <2>4, <2>5 DEF KeepsCourse
<1>8. ASSUME NEW at \in {"worker", "none", "saved"},
             NEW status \in {"running", "over", "paused", "pending"}, IsSaved(j, at, status),
             \/ tagged[j].at \in {"popped", "worker"}
             \/ tagged[j].at \in {"taken", "read"} /\ at # "worker" /\ status # "running"
      PROVE  Says
  <2> DEFINE T == [tagged[j] EXCEPT !.at = at, !.snap = status, !.stag = tagged[j].tag]
  <2>1. /\ tagged' = [tagged EXCEPT ![j].at = at, ![j].snap = status, ![j].stag = tagged[j].tag]
        /\ desk' = desk
    BY <1>8 DEF IsSaved
  <2>2. tagged' = [tagged EXCEPT ![j] = T] BY <1>0, <2>1
  <2>3. /\ T \in TagRecord /\ T.at = at
        /\ T.tag = tagged[j].tag /\ T.snap = status /\ T.stag = tagged[j].tag
    BY <1>0 DEF TagRecord, JobPlace, SnapStatus
  <2> HIDE DEF T
  <2>4. ASSUME NEW d \in Clerk, OnCourse(desk[d], j, tagged[j])
        PROVE  OnCourse(desk[d], j, T)
    <3>1. tagged[j].at \notin {"popped", "worker"} BY <2>4 DEF OnCourse
    <3>2. Unheld(desk[d], j) /\ tagged[j].tag = tagged[j].stag BY <1>8, <2>4, <3>1, InTransit
    <3> QED BY <1>8, <2>3, <2>4, <3>1, <3>2, UnheldCourse
  <2> QED BY <1>u, <2>1, <2>2, <2>3, <2>4 DEF KeepsCourse
<1>9. ASSUME StartJob(j) \/ EndJob(j) \/ WritePause(j) \/ SaveBack(j) PROVE Says
  BY <1>8, <1>9 DEF StartJob, EndJob, WritePause, SaveBack
<1>10. Says BY <1>2, <1>4, <1>5, <1>6, <1>7, <1>9 DEF JobStep
<1> QED BY <1>1, <1>10 DEF Says

LEMMA JobKeeps ==
    ASSUME GroupsInv, NEW j \in GroupJob, JobStep(j)
    PROVE  GroupsInv' /\ groupFaults' = groupFaults
<1>0. GroupsShape /\ desk \in [Clerk -> Desk] BY DEF GroupsInv, GroupsShape
<1>1. UNCHANGED <<groups, groupFile, opened, groupFaults, kept, gone>> BY <1>0, JobStepSays
<1>2. PICK C \in SUBSET Clerk, T \in TagRecord :
         tagged' = [tagged EXCEPT ![j] = T] /\ desk' = Forgotten(j, C, desk)
  BY <1>0, JobStepSays
<1>3. tagged' \in [GroupJob -> TagRecord] BY <1>0, <1>2 DEF GroupsShape
<1>4. desk' \in [Clerk -> Desk] /\ \A d \in Clerk : LeftWithout(desk'[d], desk[d])
  BY <1>0, <1>2, ForgottenDesks
<1>5. \A d \in Clerk : /\ desk'[d].no = desk[d].no /\ desk'[d].cur = desk[d].cur
                      /\ desk'[d].pc = desk[d].pc
  BY <1>4 DEF LeftWithout
<1>6. GroupsShape' BY <1>0, <1>1, <1>3, <1>4 DEF GroupsShape, LeftWithout
<1> QED BY <1>1, <1>5, <1>6, RegistryAside

LEMMA GroupsInvInit == GroupsInit => GroupsInv
<1> SUFFICES ASSUME GroupsInit PROVE GroupsInv OBVIOUS
<1>1. GroupsShape BY GroupsShapeInit
<1>2. /\ groupFile = groups /\ kept \ gone = {0} /\ \E e \in groups : e.id = 0
      /\ \A e \in groups : e.by = 0
      /\ opened = 0 /\ \A c \in Clerk : desk[c] = NoDesk
  BY DEF GroupsInit
<1> QED BY <1>1, <1>2, NoDeskIsDesk DEF GroupsInv, NumbersAreFresh, EntriesAreSafe, NoGroupVanishes

LEMMA GroupsInvStep ==
    GroupsInv /\ groupFaults \in Nat /\ [GroupsNext]_groupVars => (GroupsInv /\ groupFaults \in Nat)'
<1> SUFFICES ASSUME GroupsInv, groupFaults \in Nat, [GroupsNext]_groupVars
             PROVE  GroupsInv' /\ groupFaults' \in Nat
  OBVIOUS
<1>0. GroupsShape BY DEF GroupsInv
<1>1. ASSUME NEW c \in Clerk, NEW n \in Label, NEW to \in Label \cup {NoGroup},
             NEW op \in {"create", "update", "delete"}, OpenRequest(c, op, n, to)
      PROVE  GroupsInv' /\ groupFaults' \in Nat
  BY <1>1, OpenKeeps DEF OpenRequest
<1>2. ASSUME NEW c \in Clerk,
             \/ GetGroup(c) \/ CheckClash(c) \/ TallyJobs(c) \/ ListJobs(c) \/ AnswerRename(c)
             \/ RetagDone(c)
      PROVE  GroupsInv' /\ groupFaults' \in Nat
  <2>1. groupFaults' = groupFaults
    BY <1>2 DEF GetGroup, CheckClash, TallyJobs, ListJobs, AnswerRename, RetagDone
  <2> QED BY <1>2, <2>1, ReadKeeps
<1>3. ASSUME NEW c \in Clerk, SaveEntry(c) \/ DropOldName(c) \/ DropGroup(c)
      PROVE  GroupsInv' /\ groupFaults' \in Nat
  <2>1. groupFaults' = groupFaults \/ groupFaults' = groupFaults + 1
    BY <1>3 DEF SaveEntry, DropOldName, DropGroup, SaveGroup, EraseGroup, FlushGroups
  <2> QED BY <1>3, <2>1, SaveKeeps, DropKeeps, EraseKeeps
<1>4. ASSUME NEW c \in Clerk, TakeNext(c)
      PROVE  GroupsInv' /\ groupFaults' \in Nat
  <2>1. /\ desk[c].pc = "retag"
        /\ UNCHANGED <<groups, groupFile, tagged, opened, groupFaults, kept, gone>>
    BY <1>4 DEF TakeNext
  <2>2. PICK e \in desk[c].todo, D \in Desk, C \in SUBSET Clerk : Goes(c, D, e.job, C)
    BY <1>0, <1>4, TakeDesk DEF Takes
  <2>3. tagged' \in [GroupJob -> TagRecord] BY <1>0, <2>1 DEF GroupsShape
  <2> QED BY <2>1, <2>2, <2>3, RetagKeeps
<1>5. ASSUME NEW c \in Clerk, UpdateEntry(c) \/ WriteSnapshot(c)
      PROVE  GroupsInv' /\ groupFaults' \in Nat
  <2>1. UNCHANGED <<groups, groupFile, opened, groupFaults, kept, gone>>
    BY <1>5 DEF UpdateEntry, WriteSnapshot
  <2>2. PICK h \in desk[c].hand, D \in Desk, C \in SUBSET Clerk, T \in TagRecord :
           Handles(c, h, D, C, T)
    BY <1>0, <1>5, UpdateDesk, WriteDesk
  <2>3. desk[c].pc = "retag" BY <1>0, <2>2 DEF GroupsShape
  <2>4. tagged' \in [GroupJob -> TagRecord] BY <1>0, <2>2 DEF GroupsShape, Handles
  <2>5. Goes(c, D, h.job, C) BY <2>2 DEF Handles
  <2> QED BY <2>1, <2>3, <2>4, <2>5, RetagKeeps
<1>6. ASSUME NEW c \in Clerk, NEW j \in GroupJob,
             NEW t \in JobTag \cup {NoGroup, tagged[j].tag}, MoveJob(c, j, t) \/ PutTag(c, j, t)
      PROVE  GroupsInv' /\ groupFaults' \in Nat
  BY <1>6, SingleKeeps DEF MoveJob, PutTag
<1>7. ASSUME NEW j \in GroupJob, JobStep(j) PROVE GroupsInv' /\ groupFaults' \in Nat
  BY <1>7, JobKeeps
<1>8. CASE UNCHANGED groupVars
  <2>1. UNCHANGED <<groups, groupFile, tagged, desk, opened, groupFaults, kept, gone>>
    BY <1>8 DEF groupVars
  <2>2. GroupsShape' BY <1>0, <2>1 DEF GroupsShape
  <2> QED BY <2>1, <2>2, RegistryAside
<1>9. CASE \E c \in Clerk : GroupRequest(c)
  BY <1>1, <1>2, <1>3, <1>4, <1>5, <1>6, <1>9 DEF GroupRequest
<1>10. CASE \E j \in GroupJob : JobStep(j) BY <1>7, <1>10
<1>11. GroupsNext => \/ \E c \in Clerk : GroupRequest(c)
                     \/ \E j \in GroupJob : JobStep(j)
  BY DEF GroupsNext, JobStep
<1> QED BY <1>8, <1>9, <1>10, <1>11

\* UpdateGroup: the file always has an entry of each group that was created, unless a DELETE
\* removed it, another group was saved over it, or a rename deleted an entry that was saved
\* after it had read its own; wherever the process ends and whichever write fails.
THEOREM NoGroupIsLost == GroupsSpec => []NoGroupVanishes
<1>1. GroupsInit => GroupsInv /\ groupFaults \in Nat BY GroupsInvInit DEF GroupsInit
<1>2. GroupsInv /\ groupFaults \in Nat => NoGroupVanishes BY DEF GroupsInv
<1> QED BY <1>1, <1>2, GroupsInvStep, PTL DEF GroupsSpec

LEMMA DeskCourse ==
    ASSUME GroupsShape, PendOnCourse, tagged' = tagged, NEW c \in Clerk, NEW D \in Desk,
           desk' = [desk EXCEPT ![c] = D], \A j \in D.pend : OnCourse(D, j, tagged[j])
    PROVE  PendOnCourse'
<1>1. desk'[c] = D /\ \A d \in Clerk : d # c => desk'[d] = desk[d] BY DEF GroupsShape
<1>2. ASSUME NEW d \in Clerk, NEW j \in desk'[d].pend
      PROVE  OnCourse(desk'[d], j, tagged'[j])
  <2>1. CASE d = c BY <1>1, <1>2, <2>1
  <2>2. CASE d # c
    <3>1. desk'[d] = desk[d] BY <1>1, <2>2
    <3>2. OnCourse(desk[d], j, tagged[j]) BY <1>2, <3>1 DEF PendOnCourse
    <3> QED BY <3>1, <3>2
  <2> QED BY <2>1, <2>2
<1> QED BY <1>2 DEF PendOnCourse

LEMMA WithoutKeepsCourse ==
    ASSUME NEW D, NEW E, LeftWithout(E, D), NEW j, NEW T, OnCourse(D, j, T)
    PROVE  OnCourse(E, j, T)
<1>1. Ahead(D, j, T) => Ahead(E, j, T) BY DEF LeftWithout, Ahead
<1>2. Unheld(E, j) => Unheld(D, j) BY DEF LeftWithout, Unheld
<1>3. DueTag(E) = DueTag(D) BY DEF LeftWithout, DueTag
<1>4. \A h \in E.hand : h.job = j => StepFits(E, h, T)
  BY <1>3 DEF LeftWithout, OnCourse, StepFits
<1> QED BY <1>1, <1>2, <1>3, <1>4 DEF LeftWithout, OnCourse

LEMMA JobCourse ==
    ASSUME GroupsShape, PendOnCourse, NEW j \in GroupJob, JobStep(j)
    PROVE  PendOnCourse'
<1>0. desk \in [Clerk -> Desk] BY DEF GroupsShape
<1>1. PICK C \in SUBSET Clerk, T \in TagRecord :
         /\ tagged' = [tagged EXCEPT ![j] = T]
         /\ desk' = Forgotten(j, C, desk)
         /\ KeepsCourse(j, C, T)
  BY JobStepSays
<1>2. (\A i \in GroupJob : i # j => tagged'[i] = tagged[i]) /\ tagged'[j] = T
  BY <1>1 DEF GroupsShape
<1>3. \A d \in Clerk : LeftWithout(desk'[d], desk[d]) /\ (d \in C => j \notin desk'[d].pend)
  BY <1>0, <1>1, ForgottenDesks
<1>4. ASSUME NEW d \in Clerk, NEW i \in desk'[d].pend
      PROVE  OnCourse(desk'[d], i, tagged'[i])
  <2>1. i \in desk[d].pend /\ (i = j => d \notin C) BY <1>3, <1>4 DEF LeftWithout
  <2>2. i \in GroupJob BY <1>0, <2>1 DEF Desk
  <2>3. OnCourse(desk[d], i, tagged[i]) BY <2>1 DEF PendOnCourse
  <2>4. OnCourse(desk[d], i, tagged'[i])
    <3>1. CASE i = j BY <1>1, <1>2, <2>1, <2>3, <3>1 DEF KeepsCourse
    <3>2. CASE i # j BY <1>2, <2>2, <2>3, <3>2
    <3> QED BY <3>1, <3>2
  <2> QED BY <1>3, <2>4, WithoutKeepsCourse
<1> QED BY <1>4 DEF PendOnCourse

LEMMA SettledTag ==
    ASSUME NEW n, NEW j \in Settled(TaggedWith(n)), GroupsShape
    PROVE  /\ j \in TaggedWith(n) /\ j \in GroupJob /\ SameLabel(tagged[j].stag, n)
           /\ tagged[j].snap \notin {"none", "running"} /\ tagged[j].at \in {"none", "heap"}
           /\ Consistent(tagged[j])
BY DEF Settled, TaggedWith, GroupsShape, TagRecord, Consistent

LEMMA TallyCourse ==
    ASSUME GroupsShape, PendOnCourse, NEW c \in Clerk, TallyJobs(c)
    PROVE  PendOnCourse'
<1>1. PICK D \in Desk :
        /\ desk' = [desk EXCEPT ![c] = D]
        /\ \/ D = NoDesk
           \/ /\ D.cur = desk[c].cur /\ D.pc \in {"erase", "list"}
              /\ D.pend = Settled(TaggedWith(desk[c].cur.name))
              /\ D.hand = {} /\ (D.pc = "erase" => D.pend = {})
  BY TallyDesk
<1>2. ASSUME NEW j \in D.pend PROVE OnCourse(D, j, tagged[j])
  <2>1. D.pc = "list" /\ D.hand = {} /\ D.cur = desk[c].cur
        /\ j \in Settled(TaggedWith(desk[c].cur.name))
    BY <1>1, <1>2, NoDeskIsDesk
  <2> QED BY <2>1, SettledTag DEF OnCourse
<1>3. tagged' = tagged BY DEF TallyJobs
<1> QED BY <1>1, <1>2, <1>3, DeskCourse

LEMMA ListCourse ==
    ASSUME GroupsShape, PendOnCourse, NEW c \in Clerk, ListJobs(c)
    PROVE  PendOnCourse'
<1>1. PICK D \in Desk :
         /\ desk' = [desk EXCEPT ![c] = D]
         /\ D.pc = "retag" /\ D.hand = {}
         /\ D.todo = {Snapshot(j) : j \in TaggedWith(desk[c].cur.name)}
         /\ D.pend = IF desk[c].op = "delete" THEN desk[c].pend
                     ELSE Settled(TaggedWith(desk[c].cur.name))
  BY ListDesk
<1>2. ASSUME NEW j \in D.pend PROVE OnCourse(D, j, tagged[j])
  <2>1. /\ j \in TaggedWith(desk[c].cur.name)
        /\ tagged[j].at \in {"none", "saved", "heap", "taken", "read"}
        /\ tagged[j].snap \notin {"none", "running"} /\ Consistent(tagged[j])
    <3>1. CASE desk[c].op = "delete"
      <4>1. OnCourse(desk[c], j, tagged[j]) BY <1>1, <1>2, <3>1 DEF PendOnCourse
      <4>2. j \in GroupJob /\ desk[c].pc = "list" /\ desk[c].hand = {}
        BY <1>1, <1>2, <3>1 DEF GroupsShape, Desk, ListJobs
      <4>3. Unheld(desk[c], j) BY <4>2 DEF Unheld
      <4> QED BY <4>1, <4>2, <4>3 DEF OnCourse, TaggedWith
    <3>2. CASE desk[c].op # "delete" BY <1>1, <1>2, <3>2, SettledTag
    <3> QED BY <3>1, <3>2
  <2>2. Snapshot(j) \in D.todo BY <1>1, <2>1
  <2>3. Ahead(D, j, tagged[j]) BY <2>1, <2>2 DEF Ahead, Snapshot
  <2> QED BY <1>1, <2>1, <2>3 DEF OnCourse
<1>3. tagged' = tagged BY DEF ListJobs
<1> QED BY <1>1, <1>2, <1>3, DeskCourse

\* The steps of a request that has counted nothing, and the answers.
LEMMA OnwardCourse ==
    ASSUME GroupsShape, PendOnCourse, tagged' = tagged, NEW c \in Clerk, NEW D \in Desk,
           desk' = [desk EXCEPT ![c] = D],
           D.pend = {} \/ (D.pend = desk[c].pend /\ desk[c].pc \notin {"list", "retag", "erase", "answer"})
    PROVE  PendOnCourse'
<1>1. ASSUME NEW j \in D.pend PROVE FALSE
  <2>1. j \in desk[c].pend /\ desk[c].pc \notin {"list", "retag", "erase", "answer"} BY <1>1
  <2>2. OnCourse(desk[c], j, tagged[j]) BY <2>1 DEF PendOnCourse
  <2> QED BY <2>1, <2>2 DEF OnCourse
<1> QED BY <1>1, DeskCourse

\* The steps of applyGroupToSnapshot, by what the request itself still counts: the others
\* have forgotten the job when it is changed.
LEMMA GoesCourse ==
    ASSUME GroupsShape, PendOnCourse, NEW c \in Clerk, NEW D \in Desk, NEW j \in GroupJob,
           NEW C, Goes(c, D, j, C),
           \A i \in GroupJob : i # j => tagged'[i] = tagged[i],
           tagged'[j] = tagged[j] \/ Clerk \ {c} \subseteq C,
           \A i \in desk[c].pend : i # j \/ c \notin C => OnCourse(D, i, tagged'[i])
    PROVE  PendOnCourse'
<1>0. desk \in [Clerk -> Desk] BY DEF GroupsShape
<1>1. /\ desk' \in [Clerk -> Desk]
      /\ LeftWithout(desk'[c], D)
      /\ \A d \in Clerk : d # c => LeftWithout(desk'[d], desk[d])
      /\ \A d \in Clerk : d \in C => j \notin desk'[d].pend
  BY GoesOn
<1>2. ASSUME NEW d \in Clerk, NEW i \in desk'[d].pend
      PROVE  OnCourse(desk'[d], i, tagged'[i])
  <2>1. CASE d = c
    <3>1. i \in desk[c].pend BY <1>1, <1>2, <2>1 DEF LeftWithout, Goes
    <3>2. i # j \/ c \notin C BY <1>1, <1>2, <2>1
    <3>3. OnCourse(D, i, tagged'[i]) BY <3>1, <3>2
    <3> QED BY <1>1, <2>1, <3>3, WithoutKeepsCourse
  <2>2. CASE d # c
    <3>1. i \in desk[d].pend /\ i \in GroupJob BY <1>0, <1>1, <1>2, <2>2 DEF LeftWithout, Desk
    <3>2. i = j => d \notin C BY <1>1, <1>2
    <3>3. tagged'[i] = tagged[i] BY <2>2, <3>1, <3>2
    <3>4. OnCourse(desk[d], i, tagged'[i]) BY <3>1, <3>3 DEF PendOnCourse
    <3> QED BY <1>1, <2>2, <3>4, WithoutKeepsCourse
  <2> QED BY <2>1, <2>2
<1> QED BY <1>2 DEF PendOnCourse

LEMMA DueTagIs == ASSUME NEW c PROVE NewTag(c) = DueTag(desk[c])
BY DEF NewTag, DueTag

\* A job that is not taken is where it was.
LEMMA OtherCourse ==
    ASSUME NEW D, NEW E, NEW i, NEW T, OnCourse(D, i, T), D.pc = "retag", E.pc = D.pc,
           DueTag(E) = DueTag(D), \A h \in D.hand : h.job # i, \A h \in E.hand : h.job # i,
           \A e \in D.todo : e.job = i => e \in E.todo
    PROVE  OnCourse(E, i, T)
<1>1. Ahead(D, i, T) => Ahead(E, i, T) BY DEF Ahead
<1> QED BY <1>1 DEF OnCourse, Unheld

LEMMA TakeCourse ==
    ASSUME GroupsShape, PendOnCourse, NEW c \in Clerk, TakeNext(c)
    PROVE  PendOnCourse'
<1>0. /\ desk[c] \in Desk /\ desk[c].pc = "retag" /\ desk[c].hand = {} /\ tagged' = tagged
  BY DEF GroupsShape, TakeNext
<1>1. PICK e \in desk[c].todo, D \in Desk, C \in SUBSET Clerk : Takes(c, e, D, C)
  BY TakeDesk
<1>2. e \in Read /\ e.job \in GroupJob BY <1>0 DEF Desk, Read
<1>3. /\ Goes(c, D, e.job, C) /\ D.todo = desk[c].todo \ {e}
      /\ c \notin C => tagged[e.job].at \in {"none", "heap"}
  BY <1>1 DEF Takes
<1>4. D.pc = "retag" /\ DueTag(D) = NewTag(c) /\ DueTag(desk[c]) = NewTag(c)
  BY <1>0, <1>3 DEF Goes, DueTag, NewTag
<1>5. ASSUME NEW i \in desk[c].pend, i # e.job \/ c \notin C PROVE OnCourse(D, i, tagged[i])
  <2>1. OnCourse(desk[c], i, tagged[i]) BY <1>5 DEF PendOnCourse
  <2>2. Unheld(desk[c], i) BY <1>0 DEF Unheld
  <2>3. /\ Consistent(tagged[i])
        /\ tagged[i].stag = NewTag(c) \/ Ahead(desk[c], i, tagged[i])
    BY <1>0, <1>4, <2>1, <2>2 DEF OnCourse
  <2>4. CASE i # e.job
    <3>1. \A h \in D.hand : h.job # i BY <1>1, <2>4 DEF Takes
    <3>2. \A x \in desk[c].todo : x.job = i => x \in D.todo BY <1>3, <2>4
    <3> QED BY <1>0, <1>4, <2>1, <2>2, <3>1, <3>2, OtherCourse DEF Unheld
  <2>5. CASE i = e.job /\ D.hand = {}
    <3>1. tagged[i].stag = NewTag(c) \/ Ahead(D, i, tagged[i])
      <4>1. CASE tagged[i].at = "heap"
        <5>1. tagged[i].tag = NewTag(c) BY <1>1, <2>5, <4>1 DEF Takes
        <5> QED BY <2>3, <4>1, <5>1 DEF Consistent
      <4>2. CASE tagged[i].at # "heap"
        <5>1. e.snap = "running" \/ e.tag = NewTag(c) BY <1>1, <2>5, <4>2 DEF Takes
        <5>2. CASE tagged[i].stag = NewTag(c) BY <5>2
        <5>3. CASE Ahead(desk[c], i, tagged[i])
          <6>1. PICK x \in desk[c].todo :
                   x.job = i /\ x.snap # "running" /\ x.tag = tagged[i].stag
            BY <5>3 DEF Ahead
          <6>2. CASE x = e BY <5>1, <6>1, <6>2
          <6>3. CASE x # e BY <1>3, <6>1, <6>3 DEF Ahead
          <6> QED BY <6>2, <6>3
        <5> QED BY <2>3, <5>2, <5>3
      <4> QED BY <4>1, <4>2
    <3> QED BY <1>4, <2>1, <2>3, <2>5, <3>1 DEF OnCourse, Unheld
  <2>6. CASE i = e.job /\ D.hand # {}
    <3>1. PICK h \in Held :
             /\ D.hand = {h} /\ h.job = e.job
             /\ \/ tagged[i].at = "heap" /\ h.step = "entry"
                \/ tagged[i].at # "heap" /\ h.step = "snapshot" /\ h.snap # "running"
      BY <1>1, <2>6 DEF Takes
    <3>2. tagged[i].at \in {"none", "heap"} BY <1>3, <1>5, <2>6
    <3>3. StepFits(D, h, tagged[i]) BY <3>1, <3>2 DEF StepFits
    <3>4. ~Unheld(D, i) BY <2>6, <3>1 DEF Unheld
    <3> QED BY <1>4, <2>1, <3>1, <3>3, <3>4 DEF OnCourse
  <2> QED BY <2>4, <2>5, <2>6
<1> QED BY <1>0, <1>2, <1>3, <1>5, GoesCourse

LEMMA HandleCourse ==
    ASSUME GroupsShape, PendOnCourse, NEW c \in Clerk, UpdateEntry(c) \/ WriteSnapshot(c)
    PROVE  PendOnCourse'
<1>0. desk[c] \in Desk /\ tagged \in [GroupJob -> TagRecord] BY DEF GroupsShape
<1>1. PICK h \in desk[c].hand, D \in Desk, C \in SUBSET Clerk, T \in TagRecord :
         Handles(c, h, D, C, T)
  BY UpdateDesk, WriteDesk
<1>2. /\ h \in Held /\ h.job \in GroupJob /\ desk[c].pc = "retag"
      /\ \A k \in desk[c].hand : k = h
  BY <1>0 DEF Desk, Hands, Held, GroupsShape
<1>3. /\ Goes(c, D, h.job, C) /\ D.todo = desk[c].todo
      /\ tagged' = [tagged EXCEPT ![h.job] = T] /\ T.at = tagged[h.job].at
  BY <1>1 DEF Handles
<1>4. /\ \A i \in GroupJob : i # h.job => tagged'[i] = tagged[i]
      /\ tagged'[h.job] = T
  BY <1>0, <1>2, <1>3
<1>5. D.pc = "retag" /\ DueTag(D) = NewTag(c) /\ DueTag(desk[c]) = NewTag(c)
  BY <1>2, <1>3 DEF Goes, DueTag, NewTag
<1>6. T = tagged[h.job] \/ Clerk \ {c} \subseteq C BY <1>1 DEF Handles
<1>7. ASSUME NEW i \in desk[c].pend PROVE OnCourse(D, i, tagged'[i])
  <2>1. OnCourse(desk[c], i, tagged[i]) /\ i \in GroupJob
    BY <1>0, <1>7 DEF PendOnCourse, Desk
  <2>2. CASE i # h.job
    <3>1. \A k \in desk[c].hand : k.job # i BY <1>2, <2>2
    <3>2. \A k \in D.hand : k.job # i BY <1>1, <2>2 DEF Handles
    <3>3. OnCourse(D, i, tagged[i]) BY <1>2, <1>3, <1>5, <2>1, <3>1, <3>2, OtherCourse
    <3> QED BY <1>4, <2>1, <2>2, <3>3
  <2>3. CASE i = h.job
    <3>1. StepFits(desk[c], h, tagged[i]) BY <2>1, <2>3 DEF OnCourse
    <3>2. T.at \in {"none", "heap"}
      BY <1>2, <1>3, <2>3, <3>1 DEF StepFits, Held
    <3>3. CASE h.step = "entry"
      <4>1. T.at = "heap" /\ T.snap = tagged[i].snap
        /\ \E k \in Held : D.hand = {k} /\ k.job = h.job /\ k.step = "updated"
        /\ T.tag = NewTag(c)
        BY <1>1, <1>3, <2>3, <3>1, <3>3 DEF Handles, StepFits
      <4>2. PICK k \in Held : D.hand = {k} /\ k.job = h.job /\ k.step = "updated" BY <4>1
      <4>3. StepFits(D, k, T) BY <1>5, <4>1, <4>2 DEF StepFits
      <4>4. ~Unheld(D, i) BY <2>3, <4>2 DEF Unheld
      <4>5. T.snap \notin {"none", "running"} BY <2>1, <4>1 DEF OnCourse
      <4>6. OnCourse(D, i, T) BY <1>5, <4>1, <4>2, <4>3, <4>4, <4>5 DEF OnCourse
      <4> QED BY <1>4, <2>3, <4>6
    <3>4. CASE h.step # "entry"
      <4>1. /\ T.tag = tagged[i].tag /\ T.stag = NewTag(c) /\ D.hand = {}
            /\ T.snap = IF h.step = "updated" THEN "pending" ELSE h.snap
        BY <1>1, <2>3, <3>4 DEF Handles
      <4>2. h.step \in {"updated", "snapshot"} /\ h.snap \in SnapStatus \ {"none"}
        BY <1>2, <3>4 DEF Held
      <4>3. T.snap \notin {"none", "running"} BY <3>1, <4>1, <4>2 DEF StepFits
      <4>4. Consistent(T)
        BY <1>3, <1>5, <2>3, <3>1, <4>1, <4>2 DEF StepFits, Consistent
      <4>5. OnCourse(D, i, T) BY <1>5, <3>2, <4>1, <4>3, <4>4 DEF OnCourse
      <4> QED BY <1>4, <2>3, <4>5
    <3> QED BY <3>3, <3>4
  <2> QED BY <2>2, <2>3
<1>8. tagged'[h.job] = tagged[h.job] \/ Clerk \ {c} \subseteq C BY <1>4, <1>6
<1> QED BY <1>2, <1>3, <1>4, <1>7, <1>8, GoesCourse

LEMMA DoneCourse ==
    ASSUME GroupsShape, PendOnCourse, NEW c \in Clerk, RetagDone(c)
    PROVE  PendOnCourse'
<1>0. /\ desk[c].pc = "retag" /\ desk[c].hand = {} /\ desk[c].todo = {} /\ tagged' = tagged
  BY DEF RetagDone
<1>1. PICK D \in Desk :
         /\ desk' = [desk EXCEPT ![c] = D]
         /\ \/ D = NoDesk
            \/ /\ D.pc \in {"erase", "answer"} /\ D.op = desk[c].op /\ D.to = desk[c].to
               /\ D.pend = desk[c].pend /\ D.hand = {}
  BY DoneDesk
<1>2. ASSUME NEW j \in D.pend PROVE OnCourse(D, j, tagged[j])
  <2>1. /\ D.pc \in {"erase", "answer"} /\ D.op = desk[c].op /\ D.to = desk[c].to
        /\ D.hand = {} /\ j \in desk[c].pend
    BY <1>1, <1>2, NoDeskIsDesk
  <2>2. OnCourse(desk[c], j, tagged[j]) BY <2>1 DEF PendOnCourse
  <2>3. Unheld(desk[c], j) /\ ~Ahead(desk[c], j, tagged[j]) BY <1>0 DEF Unheld, Ahead
  <2>4. tagged[j].stag = DueTag(D) /\ Consistent(tagged[j])
    BY <1>0, <2>1, <2>2, <2>3 DEF OnCourse, DueTag
  <2> QED BY <2>1, <2>2, <2>4 DEF OnCourse
<1> QED BY <1>0, <1>1, <1>2, DeskCourse

LEMMA RequestCourse ==
    ASSUME GroupsShape, PendOnCourse, NEW c \in Clerk, GroupRequest(c)
    PROVE  PendOnCourse'
<1>1. ASSUME NEW op \in {"create", "update", "delete"}, NEW n \in Label,
             NEW to \in Label \cup {NoGroup}, OpenRequest(c, op, n, to)
      PROVE  PendOnCourse'
  <2>1. PICK D \in Desk : desk' = [desk EXCEPT ![c] = D] /\ D.pend = {} BY <1>1, OpenDesk
  <2>2. tagged' = tagged BY <1>1 DEF OpenRequest
  <2> QED BY <2>1, <2>2, OnwardCourse
<1>2. CASE GetGroup(c)
  <2>1. desk[c].pc = "get" /\ tagged' = tagged BY <1>2 DEF GetGroup
  <2>2. PICK D \in Desk : desk' = [desk EXCEPT ![c] = D] /\ (D = NoDesk \/ D.pend = desk[c].pend)
    BY <1>2, GetDesk
  <2> QED BY <2>1, <2>2, NoDeskIsDesk, OnwardCourse
<1>3. CASE CheckClash(c) \/ SaveEntry(c) \/ DropOldName(c)
  <2>1. /\ desk[c].pc \in {"clash", "save", "unname"} /\ tagged' = tagged
        /\ desk[c].hand = {}
    BY <1>3 DEF CheckClash, SaveEntry, DropOldName, GroupsShape
  <2>2. \E p \in {"save", "unname", "list"} : Onward(c, {p})
    <3>1. \E p \in {"save", "unname", "list"} : Respond(c) \/ MoveDesk(c, p)
      BY <1>3 DEF CheckClash, SaveEntry, DropOldName
    <3> QED BY <2>1, <3>1, OnwardDesk
  <2>3. PICK D \in Desk : desk' = [desk EXCEPT ![c] = D] /\ (D = NoDesk \/ D.pend = desk[c].pend)
    BY <2>2 DEF Onward
  <2> QED BY <2>1, <2>3, NoDeskIsDesk, OnwardCourse
<1>4. CASE DropGroup(c) \/ AnswerRename(c)
  <2>1. desk' = [desk EXCEPT ![c] = NoDesk] /\ tagged' = tagged
    BY <1>4 DEF DropGroup, AnswerRename, Respond
  <2> QED BY <2>1, NoDeskIsDesk, OnwardCourse
<1>5. ASSUME NEW j \in GroupJob, NEW t \in JobTag \cup {NoGroup, tagged[j].tag},
             MoveJob(c, j, t) \/ PutTag(c, j, t)
      PROVE  PendOnCourse'
  <2>1. PICK D \in Desk : desk' = [desk EXCEPT ![c] = D] /\ D.pend = {} BY <1>5, SingleDesk
  <2>2. tagged' = tagged BY <1>5 DEF MoveJob, PutTag
  <2> QED BY <2>1, <2>2, OnwardCourse
<1>6. CASE UpdateEntry(c) \/ WriteSnapshot(c) BY <1>6, HandleCourse
<1> QED BY <1>1, <1>2, <1>3, <1>4, <1>5, <1>6, TallyCourse, ListCourse, TakeCourse, DoneCourse
        DEF GroupRequest

\* DeleteGroup and RetagGroup (updateGroup): when the entry is about to go, or the rename
\* answers, each job that was counted and left alone since has the new tag, itself and in
\* its snapshot; whatever other requests and jobs did between the three steps by which each
\* is moved.
THEOREM EveryTagMoves == GroupsSpec => []RetagReachesAll
<1> DEFINE Inv == GroupsInv /\ groupFaults \in Nat /\ PendOnCourse
<1>1. GroupsInit => Inv
  <2>1. GroupsInit => PendOnCourse BY NoDeskIsDesk DEF GroupsInit, PendOnCourse
  <2> QED BY <2>1, GroupsInvInit DEF GroupsInit
<1>2. Inv /\ [GroupsNext]_groupVars => Inv'
  <2> SUFFICES ASSUME Inv, [GroupsNext]_groupVars PROVE PendOnCourse'
    BY GroupsInvStep
  <2>1. GroupsShape BY DEF GroupsInv
  <2>2. CASE \E c \in Clerk : GroupRequest(c) BY <2>1, <2>2, RequestCourse
  <2>3. CASE \E j \in GroupJob : JobStep(j) BY <2>1, <2>3, JobCourse
  <2>4. CASE UNCHANGED groupVars BY <2>4 DEF groupVars, PendOnCourse
  <2>5. GroupsNext => \/ \E c \in Clerk : GroupRequest(c)
                      \/ \E j \in GroupJob : JobStep(j)
    BY DEF GroupsNext, JobStep
  <2> QED BY <2>2, <2>3, <2>4, <2>5
<1>3. Inv => RetagReachesAll
  <2> SUFFICES ASSUME GroupsShape, PendOnCourse, NEW c \in Clerk,
                      desk[c].pc \in {"erase", "answer"}, NEW j \in desk[c].pend
               PROVE  /\ tagged[j].stag = NewTag(c)
                      /\ tagged[j].at # "none" => tagged[j].tag = NewTag(c)
    BY DEF RetagReachesAll, GroupsInv
  <2>1. OnCourse(desk[c], j, tagged[j]) BY DEF PendOnCourse
  <2>2. Unheld(desk[c], j) BY DEF GroupsShape, Unheld
  <2> QED BY <2>1, <2>2, DueTagIs DEF OnCourse, Consistent
<1> QED BY <1>1, <1>2, <1>3, PTL DEF GroupsSpec
===============================================================================
