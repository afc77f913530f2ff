------------------------------- MODULE ProfileApi ------------------------------
(****************************************************************************)
(* The endpoints that create, change and delete executor profiles           *)
(* (api/handlers_executor_profiles.go), with the store they write           *)
(* (core/executor_profile_store.go), the applier that makes a change live   *)
(* and the reload of executors.commands beside them.  A request is a        *)
(* sequence of calls; each call is atomic, and nothing holds them together: *)
(* other requests, a reload and jobs run in between.                        *)
(*                                                                          *)
(* The store's records are kept under their name in lower case, the handler *)
(* keys under its exact spelling.                                           *)
(****************************************************************************)
EXTENDS ProfileRegistry

CONSTANTS
    Lower,        \* strings.ToLower, from Name
    FileAtStart,  \* the profile files a start may find, sets of records
    Job,          \* tasks that name a profile
    JobName,      \* the profile a task names, by its exact spelling
    MaxRequests, MaxReloads, MaxFaults  \* bounds

ASSUME ApiAssumption ==
    /\ DOMAIN Lower = Name
    /\ \A f \in FileAtStart :
          f \subseteq Record /\ \A r, s \in f : Lower[r.name] = Lower[s.name] => r = s
    /\ JobName \in [Job -> Name]
    /\ {MaxRequests, MaxReloads, MaxFaults} \subseteq Nat

VARIABLES
    records,  \* JSONFileExecutorProfileStore.records
    disk,     \* the profile file
    work,     \* what each request has in hand
    jobs,     \* the status in each task's snapshot, where the task is, and whether a
              \* handler is bound to it
    asked, reloads, faults,   \* counted for the bounds; a request's number is its revision
    behind    \* a change that no Apply has read: a write failed after the memory took
              \* it, or a reload dropped a name that a record waits for (history)

counted == <<asked, reloads, faults>>
vars == <<registryVars, records, disk, work, jobs, counted, behind>>

NoRecord == [name |-> CHOOSE n \in Name : TRUE, rev |-> 0]
NoWork == [pc |-> "idle", op |-> "none", name |-> NoRecord.name, rev |-> 0, old |-> NoRecord,
           todo |-> {}, held |-> {}, pend |-> {}]

\* Mutant: the name is compared as it is spelled.
FoundBySpelling(n) == {r \in records : r.name = n}

\* Get: the record under the same name in lower case.
Found(n) == {r \in records : Lower[r.name] = Lower[n]}
Without(n) == records \ Found(n)

Init ==
    /\ \E f \in FileAtStart, l \in Lists \ BadLists :
          records = f /\ disk = f /\ RegistryInit(l, f)
    /\ work = [c \in Server |-> NoWork]
    /\ jobs = [j \in Job |-> [snap |-> "none", at |-> "none", bound |-> FALSE]]
    /\ asked = 0 /\ reloads = 0 /\ faults = 0
    /\ behind = FALSE
-------------------------------------------------------------------------------
\* The memory takes the change first; then the whole file is written beside the old one
\* and renamed, or the write fails.
Write(after) ==
    /\ records' = after
    /\ \/ disk' = after /\ UNCHANGED <<faults, behind>>
       \/ /\ faults < MaxFaults /\ faults' = faults + 1
          /\ behind' = TRUE
          /\ UNCHANGED disk

Wrote == faults' = faults

Goto(c, pc) == work' = [work EXCEPT ![c].pc = pc]
Answer(c) == work' = [work EXCEPT ![c] = NoWork]

\* The three endpoints, entered after the checks that read only the request.
Ask(c, op, n) ==
    /\ work[c].pc = "idle" /\ asked < MaxRequests
    /\ asked' = asked + 1
    /\ work' = [work EXCEPT ![c] = [NoWork EXCEPT !.pc = "get", !.op = op, !.name = n,
                                                  !.rev = asked + 1]]
    /\ UNCHANGED <<registryVars, records, disk, jobs, reloads, faults, behind>>

\* Create is refused when the name is stored, the others when it is not.
GetRecord(c) ==
    /\ work[c].pc = "get"
    /\ LET found == Found(work[c].name)
       IN  IF (work[c].op = "create") # (found = {}) THEN Answer(c)
           ELSE work' = [work EXCEPT
                  ![c].pc = CASE work[c].op = "create" -> "lookup"
                              [] work[c].op = "update" -> "save"
                              [] work[c].op = "delete" -> "tally",
                  ![c].old = IF found = {} THEN @ ELSE CHOOSE r \in found : TRUE]
    /\ UNCHANGED <<registryVars, records, disk, jobs, counted, behind>>

\* Create is refused when the table has the key.
LookupKey(c) ==
    /\ work[c].pc = "lookup"
    /\ IF work[c].name \in DOMAIN table THEN Answer(c) ELSE Goto(c, "save")
    /\ UNCHANGED <<registryVars, records, disk, jobs, counted, behind>>

\* Create and update: the record is stored under the spelling of the request.
SaveRecord(c) ==
    /\ work[c].pc = "save"
    /\ Write(Without(work[c].name) \cup {[name |-> work[c].name, rev |-> work[c].rev]})
    /\ IF Wrote THEN Goto(c, "apply") ELSE Answer(c)
    /\ UNCHANGED <<registryVars, jobs, asked, reloads>>

\* jobTallyByHandlerKey counts snapshots, by the exact key.
InState(n, states) == {j \in Job : jobs[j].snap \in states /\ JobName[j] = n}
Pending(n) == InState(n, {"pending"})
Alive(n) == InState(n, {"pending", "running", "paused"})

\* Mutant: the tally goes by the spelling of the request, not by the record's.
TallyBySpelling(c) ==
    /\ work[c].pc = "tally"
    /\ \E block \in BOOLEAN :
          IF block /\ Alive(work[c].name) # {} THEN Answer(c)
          ELSE work' = [work EXCEPT
                  ![c].pc = IF Pending(work[c].name) = {} THEN "drop" ELSE "list",
                  ![c].pend = Pending(work[c].old.name)]
    /\ UNCHANGED <<registryVars, records, disk, jobs, counted, behind>>

\* Delete: the tasks of the record's key are counted.  Under "block" any of them ends the
\* request; else those that wait are to be paused.  (pend: the ones that wait since they
\* were counted, history.)
Tally(c) ==
    /\ work[c].pc = "tally"
    /\ LET key == work[c].old.name
       IN  \E block \in BOOLEAN :
              IF block /\ Alive(key) # {} THEN Answer(c)
              ELSE work' = [work EXCEPT ![c].pc = IF Pending(key) = {} THEN "drop" ELSE "list",
                                        ![c].pend = Pending(key)]
    /\ UNCHANGED <<registryVars, records, disk, jobs, counted, behind>>

\* PauseByHandlerKey reads the snapshots for itself.
ListTasks(c) ==
    /\ work[c].pc = "list"
    /\ work' = [work EXCEPT ![c].pc = "pause",
                            ![c].todo = InState(work[c].old.name, {"pending", "running"})]
    /\ UNCHANGED <<registryVars, records, disk, jobs, counted, behind>>

\* A step of a task takes it out of what the deletes have counted.
Moved(j, w) == [c \in Server |-> [w[c] EXCEPT !.pend = @ \ {j}]]

\* One task after the other is taken out of the heap; one that is not there is passed
\* over, whatever its snapshot says: popped, with a worker, or not yet pushed.
PauseNext(c) ==
    /\ work[c].pc = "pause" /\ work[c].held = {}
    /\ \/ \E j \in work[c].todo :
             LET taken == {j} \cap {i \in Job : jobs[i].at = "heap"}
             IN  /\ jobs' = [i \in Job |->
                               IF i \in taken THEN [jobs[i] EXCEPT !.at = "taken"] ELSE jobs[i]]
                 /\ work' = [work EXCEPT ![c].todo = @ \ {j}, ![c].held = taken]
       \/ work[c].todo = {} /\ Goto(c, "drop") /\ UNCHANGED jobs
    /\ UNCHANGED <<registryVars, records, disk, counted, behind>>

\* A task that was taken out is written as paused.
WritePaused(c) ==
    /\ work[c].pc = "pause"
    /\ \E j \in work[c].held :
          /\ jobs' = [jobs EXCEPT ![j].snap = "paused", ![j].at = "none"]
          /\ work' = Moved(j, [work EXCEPT ![c].held = {}])
    /\ UNCHANGED <<registryVars, records, disk, counted, behind>>

\* Delete: a record that is gone by now ends the request.
DropRecord(c) ==
    /\ work[c].pc = "drop"
    /\ IF Found(work[c].old.name) = {}
       THEN Answer(c) /\ UNCHANGED <<records, disk, faults, behind>>
       ELSE /\ Write(Without(work[c].old.name))
            /\ IF Wrote THEN Goto(c, "apply") ELSE Answer(c)
    /\ UNCHANGED <<registryVars, jobs, asked, reloads>>

\* Apply, as the three requests call it.  What it reads is no longer behind.
BeginApply(c) ==
    /\ work[c].pc = "apply"
    /\ ApplyBegin(c, records)
    /\ Goto(c, "applying") /\ behind' = FALSE
    /\ UNCHANGED <<records, disk, jobs, counted>>

\* A refused Apply sends the request to its roll-back, which is left out:
\* RestartChangesNothing says that none is refused.
SwapApply(c) ==
    /\ work[c].pc = "applying"
    /\ ApplySwap(c)
    /\ IF holder' = c THEN UNCHANGED work ELSE Goto(c, "undo")
    /\ UNCHANGED <<records, disk, jobs, counted, behind>>

SyncApply(c) ==
    /\ work[c].pc = "applying"
    /\ ApplySync(c)
    /\ Answer(c)
    /\ UNCHANGED <<records, disk, jobs, counted, behind>>

-------------------------------------------------------------------------------
\* The reload: a name that leaves the list does not bring back what gave way to it.
Reload(list) ==
    /\ reloads < MaxReloads /\ reloads' = reloads + 1
    /\ ReloadBegin(list)
    /\ UNCHANGED <<records, disk, work, jobs, asked, faults, behind>>

SwapReload ==
    /\ ReloadSwap
    /\ behind' = (behind \/ \E r \in degraded : r.name \notin DOMAIN hand.list)
    /\ UNCHANGED <<records, disk, work, jobs, counted>>

SyncReload == ReloadSync /\ UNCHANGED <<records, disk, work, jobs, counted, behind>>
-------------------------------------------------------------------------------
TaskFrame == UNCHANGED <<registryVars, records, disk, counted, behind>>

SetJob(j, snap, at, bound) ==
    /\ jobs' = [jobs EXCEPT ![j] = [snap |-> snap, at |-> at, bound |-> bound]]
    /\ work' = Moved(j, work)
    /\ TaskFrame

\* createJob looks the handler up and binds it, and schedules the task later.
LookUp(j) ==
    /\ jobs[j].snap = "none" /\ jobs[j].at = "none" /\ JobName[j] \in DOMAIN handlers
    /\ SetJob(j, "none", "looked", TRUE)

\* Schedule saves a pending snapshot first and pushes the task later.
SaveTask(j) == jobs[j].at = "looked" /\ SetJob(j, "pending", "saved", TRUE)

\* The delete has not come to the task yet.
StillToCome(c, j) ==
    work[c].pc = "list" \/ (work[c].pc = "pause" /\ j \in work[c].todo)

\* A delete that has passed the task over by now will not come back for it.
PushTask(j) ==
    /\ jobs[j].at = "saved"
    /\ jobs' = [jobs EXCEPT ![j].at = "heap"]
    /\ work' = [c \in Server |->
                  IF StillToCome(c, j) THEN work[c] ELSE [work[c] EXCEPT !.pend = @ \ {j}]]
    /\ TaskFrame

\* The loop takes a task that is due; from then on it is in no heap.
PopTask(j) == jobs[j].at = "heap" /\ SetJob(j, "pending", "popped", jobs[j].bound)

\* A task runs what is bound to it, else what its key has now; without either it fails.
Execute(j) ==
    /\ jobs[j].at = "popped"
    /\ IF jobs[j].bound \/ JobName[j] \in DOMAIN handlers
       THEN SetJob(j, "running", "worker", TRUE)
       ELSE SetJob(j, "over", "none", FALSE)

\* It ends, is parked by a forced pause, or goes through Schedule for its next round.
Finish(j) ==
    /\ jobs[j].at = "worker"
    /\ \/ SetJob(j, "over", "none", FALSE)
       \/ SetJob(j, "paused", "none", FALSE)
       \/ SetJob(j, "pending", "saved", TRUE)

\* A paused task comes back from its snapshot, bound to what its key has now, and goes
\* through Schedule.
Resume(j) ==
    /\ jobs[j].snap = "paused"
    /\ SetJob(j, "pending", "saved", JobName[j] \in DOMAIN handlers)

Request(c) ==
    \/ \E op \in {"create", "update", "delete"}, n \in Name : Ask(c, op, n)
    \/ GetRecord(c) \/ LookupKey(c) \/ SaveRecord(c)
    \/ Tally(c) \/ ListTasks(c) \/ PauseNext(c) \/ WritePaused(c) \/ DropRecord(c)
    \/ BeginApply(c) \/ SwapApply(c) \/ SyncApply(c)

Next ==
    \/ \E c \in Server : Request(c)
    \/ \E l \in Lists : Reload(l)
    \/ SwapReload \/ SyncReload
    \/ \E j \in Job : \/ LookUp(j) \/ SaveTask(j) \/ PushTask(j) \/ PopTask(j)
                      \/ Execute(j) \/ Finish(j) \/ Resume(j)

Spec == Init /\ [][Next]_vars
-------------------------------------------------------------------------------
\* The variables hold what their comments say.
TypeOK ==
    /\ RegistryTypeOK
    /\ records \subseteq Record /\ disk \subseteq Record
    /\ \A r, s \in records : Lower[r.name] = Lower[s.name] => r = s
    /\ \A c \in Server :
          /\ work[c].pc \in {"idle", "get", "lookup", "save", "tally", "list", "pause",
                             "drop", "apply", "applying", "undo"}
          /\ work[c].old \in Record
    /\ \A j \in Job :
          /\ jobs[j].snap \in {"none", "pending", "running", "paused", "over"}
          /\ jobs[j].at \in {"none", "looked", "saved", "heap", "popped", "worker", "taken"}

\* A restart would change nothing: with no Apply outstanding, the table, the profiles
\* that gave way and the handlers are those that a start builds from the file and the
\* configured commands.  Built-in profiles are left out: one that a record or a command
\* has displaced returns only at the start.  And Apply is never refused once a record is
\* in the file, whatever reloads came between a request's checks and its Apply: the
\* roll-backs of the three endpoints, which would write an old record over what another
\* request has stored since, never run.
Quiet ==
    /\ holder = Nobody /\ ~behind /\ disk = records
    /\ \A c \in Server : work[c].pc # "apply"
Declared(t) == {<<n, t[n]>> : n \in DOMAIN t \ Builtin}
RestartChangesNothing ==
    /\ \A c \in Server : work[c].pc # "undo"
    /\ Quiet =>
        /\ Declared(table) = Declared(Started(commands, disk))
        /\ {r \in degraded : r.name \notin Builtin}
             = {r \in StartedDegraded(commands, disk) : r.name \notin Builtin}
        /\ handlers = table

\* A profile is deleted only after each task that waited for it when the request counted
\* them is paused, or has been popped or paused by somebody else meanwhile; also one whose
\* Schedule had saved it and pushed it only before its turn.  The exception: a task whose
\* push comes after its turn has been passed over, and goes into the heap later, unpaused
\* (PushTask takes it out of pend).
DeletedIsPinned ==
    \A c \in Server : work[c].op = "delete" /\ work[c].pc \in {"drop", "apply", "applying"}
        => \A j \in work[c].pend : jobs[j].at # "heap"
===============================================================================
