------------------------------ MODULE Artifacts ------------------------------
(***************************************************************************)
(* The output of executor jobs, executor/artifact.go, and its index in the *)
(* observability database, executor/artifact_index.go and                  *)
(* store/sqlite/artifacts.go.  Runners (executor/proc.go and http.go, one  *)
(* order of steps) write and register files, a cleaner removes whole       *)
(* directories of jobs, readers mark what they no longer find, and the     *)
(* startup settles what a crash has left.                                  *)
(***************************************************************************)
EXTENDS Naturals, FiniteSets

CONSTANTS
    Job,
    MaxAttempts,        \* attempts of each job: a bound
    Permits,            \* MaxParallel of the profile they all run under
    None,               \* the cleaner is at no job
    MaxFaults,          \* failures of disk, database and operators: a bound
    MaxCrashes          \* a bound

ASSUME ArtifactsAssumption ==
    /\ MaxAttempts \in [Job -> Nat] /\ Permits \in Nat \ {0}
    /\ MaxFaults \in Nat /\ MaxCrashes \in Nat /\ None \notin Job

VARIABLES
    phase,      \* of the process: "down", the scans of runStartup, "serving"
    snap,       \* the jobs' snapshots in the store
    status, attempt,    \* the scheduler's own copy of a job
    run,        \* where the runner of a job is
    files,      \* the attempts that have files, if the directory exists
    present,    \* the jobs that have a directory
    old,        \* the directories not touched for the TTL
    row,        \* the state of an attempt in artifact_index
    cleaner,    \* the sweep: what is left, the job it is at, how far there, the files
                \* that RemoveAll has read and not removed, and whether more have come
    reader,     \* requests that did not find the file they came for
    registered, \* history: attempts whose row has been written since their files
    raced,      \* history: attempts opened while the rows of their job were going
    misread,    \* history: attempts marked purged by who had looked before they were opened
    excused,    \* history: attempts that a fault or a purge has cut off their row
    faults, crashes

runVars == <<status, attempt, run>>
dirVars == <<files, present, old>>
history == <<registered, raced, misread, excused>>
artifactVars == <<phase, snap, runVars, dirVars, row, cleaner, reader, history,
                  faults, crashes>>

Attempt == UNION {1..MaxAttempts[j] : j \in Job}

AtRest == [todo |-> {}, at |-> None, step |-> "list", left |-> {}, more |-> FALSE]

ArtifactInit ==
    /\ phase = "serving"
    /\ snap = [j \in Job |-> [status |-> "pending", attempts |-> 0, exec |-> "none"]]
    /\ status = [j \in Job |-> "pending"] /\ attempt = [j \in Job |-> 0]
    /\ run = [j \in Job |-> "idle"]
    /\ files = [j \in Job |-> {}] /\ present = {} /\ old = {}
    /\ row = [j \in Job |-> [a \in Attempt |-> "none"]]
    /\ cleaner = AtRest /\ reader = {}
    /\ registered = {} /\ raced = {} /\ misread = {} /\ excused = {}
    /\ faults = 0 /\ crashes = 0

Fault == faults < MaxFaults /\ faults' = faults + 1

Row(j) == {a \in Attempt : row[j][a] = "available"}

Astray(j) == {<<j, a>> : a \in Row(j) \ files[j]}
-----------------------------------------------------------------------------
\* executeJob up to the handler: the attempt is counted and saved.
Begin(j) ==
    /\ phase = "serving" /\ run[j] = "idle"
    /\ status[j] = "pending" /\ attempt[j] < MaxAttempts[j]
    /\ run' = [run EXCEPT ![j] = "waiting"]
    /\ attempt' = [attempt EXCEPT ![j] = @ + 1]
    /\ status' = [status EXCEPT ![j] = "running"]
    /\ snap' = [snap EXCEPT ![j].status = "running", ![j].attempts = attempt'[j]]
    /\ UNCHANGED <<phase, dirVars, row, cleaner, reader, history, faults, crashes>>

Holders == {j \in Job : run[j] \notin {"idle", "waiting"}}

\* The handler returns and the permit with it; the scheduler saves its own copy.
Return(j, exec) ==
    \E s \in {"done"} \cup (IF attempt[j] < MaxAttempts[j] THEN {"pending"} ELSE {}) :
        /\ run' = [run EXCEPT ![j] = "idle"] /\ status' = [status EXCEPT ![j] = s]
        /\ snap' = [snap EXCEPT ![j] =
                        [status |-> s, attempts |-> attempt[j], exec |-> exec]]
        /\ UNCHANGED attempt

\* acquirePermit fails: the wait is over, or the job is cancelled; or what the
\* handler checks before has failed.
GiveUp(j) ==
    /\ run[j] = "waiting" /\ Return(j, "none")
    /\ UNCHANGED <<phase, dirVars, row, cleaner, reader, history, faults, crashes>>

\* acquirePermit, and Open: the directory, and then the two files of the attempt.
OpenDir(j) ==
    /\ run[j] = "waiting" /\ Cardinality(Holders) < Permits
    /\ run' = [run EXCEPT ![j] = "opening"] /\ present' = present \cup {j}
    /\ UNCHANGED <<phase, snap, status, attempt, files, old, row, cleaner, reader, history,
                   faults, crashes>>

\* A file that RemoveAll, if it is there, does not know of.
NewFile(j) ==
    cleaner' = [cleaner EXCEPT !.more =
                    @ \/ (cleaner.at = j /\ cleaner.step = "removing" /\ j \in present)]

OpenFiles(j) ==
    /\ run[j] = "opening" /\ j \in present
    /\ run' = [run EXCEPT ![j] = "writing"]
    /\ files' = [files EXCEPT ![j] = @ \cup {attempt[j]}] /\ old' = old \ {j}
    /\ raced' = IF cleaner.at = j /\ cleaner.step = "removed"
                THEN raced \cup {<<j, attempt[j]>>} ELSE raced
    /\ registered' = registered \ {<<j, attempt[j]>>}
    /\ NewFile(j)
    /\ UNCHANGED <<phase, snap, status, attempt, present, row, reader, misread, excused,
                   faults, crashes>>

\* The directory has been removed in between: no output, so no execution.
OpenFails(j) ==
    /\ run[j] = "opening" /\ j \notin present
    /\ Return(j, "none")
    /\ UNCHANGED <<phase, dirVars, row, cleaner, reader, history, faults, crashes>>

\* The process has ended, Close, recordIndex: a failure is only a warning.
CloseAndRecord(j) ==
    /\ run[j] = "writing" /\ run' = [run EXCEPT ![j] = "recorded"]
    /\ \/ /\ row' = [row EXCEPT ![j][attempt[j]] = "available"]
          /\ registered' = registered \cup {<<j, attempt[j]>>}
          /\ UNCHANGED faults
       \/ Fault /\ UNCHANGED <<row, registered>>
    /\ UNCHANGED <<phase, snap, status, attempt, dirVars, cleaner, reader, raced, misread,
                   excused, crashes>>

\* WriteMeta: a rename in the directory, if it is still there; and the end.
WriteMeta(j) ==
    /\ run[j] = "recorded" /\ Return(j, "available")
    /\ old' = old \ {j} /\ NewFile(j)
    /\ UNCHANGED <<phase, files, present, row, reader, history, faults, crashes>>

Runner(j) ==
    \/ Begin(j) \/ GiveUp(j) \/ OpenDir(j) \/ OpenFiles(j)
    \/ OpenFails(j) \/ CloseAndRecord(j) \/ WriteMeta(j)
-----------------------------------------------------------------------------
\* A directory that nothing has been created in for the TTL.
Age(j) ==
    /\ phase = "serving" /\ j \in present \ old /\ old' = old \cup {j}
    /\ UNCHANGED <<phase, snap, runVars, files, present, row, cleaner, reader, history,
                   faults, crashes>>

\* The scan of a round: PurgeExpired, by the ticker or at startup.
Tick ==
    /\ phase = "serving" /\ cleaner = AtRest /\ old # {}
    /\ cleaner' = [AtRest EXCEPT !.todo = present]
    /\ UNCHANGED <<phase, snap, runVars, dirVars, row, reader, history, faults, crashes>>

Orphan(j) == snap[j].status = "absent"

\* The next directory is looked at: what is to go by it, or by live, is doomed.
Inspect(j) ==
    /\ cleaner.at = None /\ j \in cleaner.todo
    /\ cleaner' = IF phase = "orphans" \/ j \in old \cap present
                     THEN [cleaner EXCEPT !.todo = @ \ {j}, !.at = j, !.step = "doomed"]
                     ELSE [cleaner EXCEPT !.todo = @ \ {j}]
    /\ UNCHANGED <<phase, snap, runVars, dirVars, row, reader, history, faults, crashes>>

\* deleteIndexRows; a failure is only a warning.  Who still writes to files that have
\* gone will register them all the same.
DropRows(j) ==
    \/ /\ row' = [row EXCEPT ![j] = [a \in Attempt |-> "none"]] /\ UNCHANGED faults
       /\ excused' = {e \in excused : e[1] = j => run[j] = "writing" /\ e[2] = attempt[j]}
    \/ /\ Fault /\ UNCHANGED row
       /\ excused' = excused \cup {<<j, a>> : a \in Row(j)}

\* RemoveAll reads what is in the directory ...
ReadNames(j) ==
    /\ cleaner.at = j /\ cleaner.step = "doomed"
    /\ cleaner' = [cleaner EXCEPT !.step = "removing", !.left = files[j], !.more = FALSE]
    /\ UNCHANGED <<phase, snap, runVars, dirVars, row, reader, history, faults, crashes>>

\* ... removes one after the other, which makes the directory a young one ...
UnlinkFiles(j) ==
    /\ cleaner.at = j /\ cleaner.step = "removing"
    /\ \E a \in cleaner.left :
        /\ cleaner' = [cleaner EXCEPT !.left = @ \ {a}]
        /\ files' = [files EXCEPT ![j] = @ \ {a}] /\ old' = old \ {j}
        /\ excused' = excused \cup
                         {e \in {<<j, a>>} : run[j] = "writing" /\ attempt[j] = a}
    /\ UNCHANGED <<phase, snap, runVars, present, row, reader, registered, raced, misread,
                   faults, crashes>>

\* ... and then the directory itself.
RemoveDir(j) ==
    /\ cleaner.at = j /\ cleaner.step = "removing" /\ cleaner.left = {}
    /\ j \in present => ~cleaner.more
    /\ present' = present \ {j} /\ old' = old \ {j}
    /\ cleaner' = [cleaner EXCEPT !.step = "removed"]
    /\ UNCHANGED <<phase, snap, runVars, files, row, reader, history, faults, crashes>>

\* Mutant of RemoveFails: the error is only a warning, and the rows go all the same.
RemoveWarns(j) ==
    /\ cleaner.at = j /\ cleaner.step = "removing"
    /\ cleaner' = [cleaner EXCEPT !.step = "removed"]
    /\ Fault \/ (cleaner.left = {} /\ j \in present /\ cleaner.more /\ UNCHANGED faults)
    /\ UNCHANGED <<phase, snap, runVars, dirVars, row, reader, history, crashes>>

\* A file cannot be removed, though others are, or the directory is not empty: an error
\* ends the sweep, and the rows stay.
RemoveFails(j) ==
    /\ cleaner.at = j /\ cleaner.step = "removing" /\ cleaner' = AtRest
    /\ Fault \/ (cleaner.left = {} /\ j \in present /\ cleaner.more /\ UNCHANGED faults)
    /\ excused' = excused \cup Astray(j)
    /\ UNCHANGED <<phase, snap, runVars, dirVars, row, reader, registered, raced, misread,
                   crashes>>

\* After the directory, the rows.
DeleteRows(j) ==
    /\ cleaner.at = j /\ cleaner.step = "removed"
    /\ DropRows(j) /\ cleaner' = [cleaner EXCEPT !.at = None, !.step = "list"]
    /\ UNCHANGED <<phase, snap, runVars, dirVars, reader, registered, raced, misread, crashes>>

Cleaner == \E j \in Job : \/ Inspect(j) \/ ReadNames(j) \/ UnlinkFiles(j) \/ RemoveDir(j)
                         \/ RemoveFails(j) \/ DeleteRows(j)

\* A directory disappears under the process.
RemoveByHand(j) ==
    /\ j \in present /\ Fault
    /\ present' = present \ {j} /\ old' = old \ {j} /\ files' = [files EXCEPT ![j] = {}]
    /\ excused' = excused \cup {<<j, a>> : a \in Row(j)}
                    \cup (IF run[j] = "writing" THEN {<<j, attempt[j]>>} ELSE {})
    /\ UNCHANGED <<phase, snap, runVars, row, cleaner, reader, registered, raced, misread,
                   crashes>>

\* The job is deleted, or falls out of the history: its files stay.
Forget(j) ==
    /\ phase = "serving" /\ snap[j].status = "done"
    /\ snap' = [snap EXCEPT ![j].status = "absent"]
    /\ UNCHANGED <<phase, runVars, dirVars, row, cleaner, reader, history, faults, crashes>>
-----------------------------------------------------------------------------
\* GetJobResult: the snapshot is loaded, and the file of the attempt is missing.
ReadMissing(j) ==
    /\ phase = "serving" /\ reader = {}
    /\ snap[j].status # "absent" /\ snap[j].exec # "none"
    /\ \E a \in 1..snap[j].attempts :
        /\ a \notin files[j]
        /\ reader' = {[job |-> j, attempt |-> a, seen |-> snap[j]]}
    /\ UNCHANGED <<phase, snap, runVars, dirVars, row, cleaner, history, faults, crashes>>

\* markArtifactPurged: the loaded snapshot is written back, changed in one field,
\* whatever has become of the job since; and the row is marked, of files too that have
\* come since.
MarkPurged ==
    /\ \E r \in reader :
        /\ snap' = IF r.seen.exec = "purged" \/ snap[r.job].status = "absent" THEN snap
                   ELSE [snap EXCEPT ![r.job] = [r.seen EXCEPT !.exec = "purged"]]
        /\ row' = IF row[r.job][r.attempt] = "available"
                  THEN [row EXCEPT ![r.job][r.attempt] = "purged"] ELSE row
        /\ misread' = misread \cup {e \in {<<r.job, r.attempt>>} : r.attempt \in files[r.job]}
    /\ reader' = {}
    /\ UNCHANGED <<phase, runVars, dirVars, cleaner, registered, raced, excused, faults,
                   crashes>>
-----------------------------------------------------------------------------
Crash ==
    /\ phase # "down" /\ crashes < MaxCrashes /\ crashes' = crashes + 1
    /\ phase' = "down" /\ cleaner' = AtRest /\ reader' = {}
    /\ run' = [j \in Job |-> "idle"]
    /\ excused' = excused \cup (IF cleaner.step \in {"removing", "removed"}
                                THEN Astray(cleaner.at) ELSE {})
    /\ UNCHANGED <<snap, status, attempt, dirVars, row, registered, raced, misread, faults>>

\* runStartup, before anything runs: PurgeOrphans by the store's snapshots ...
Boot ==
    /\ phase = "down" /\ phase' = "orphans"
    /\ cleaner' = [AtRest EXCEPT !.todo = {j \in present : Orphan(j)}]
    /\ status' = [j \in Job |-> IF snap[j].status = "running" THEN "pending"
                                ELSE snap[j].status]
    /\ attempt' = [j \in Job |-> snap[j].attempts]
    /\ UNCHANGED <<snap, run, dirVars, row, reader, history, faults, crashes>>

ScanDone == cleaner.at = None /\ cleaner.todo = {}

\* ... then PurgeExpired ...
ThenExpired ==
    /\ phase = "orphans" /\ ScanDone
    /\ phase' = "expired" /\ cleaner' = [AtRest EXCEPT !.todo = present]
    /\ UNCHANGED <<snap, runVars, dirVars, row, reader, history, faults, crashes>>

\* ReconcileMissing: what the index has of jobs without a directory is purged.
Reconciled == [j \in Job |-> [a \in Attempt |->
                 IF j \notin present /\ row[j][a] = "available" THEN "purged" ELSE row[j][a]]]

\* ... and then reconcileIndex, which may fail; the process serves all the same.
ThenReconcile ==
    /\ phase = "expired" /\ ScanDone /\ phase' = "serving"
    /\ \/ /\ row' = Reconciled
          /\ excused' = {e \in excused : e[1] \in present} /\ UNCHANGED faults
       \/ /\ Fault /\ excused' = excused \cup UNION {Astray(j) : j \in Job}
          /\ UNCHANGED row
    /\ UNCHANGED <<snap, runVars, dirVars, cleaner, reader, registered, raced, misread, crashes>>

ArtifactNext ==
    \/ \E j \in Job : Runner(j) \/ Age(j) \/ RemoveByHand(j) \/ Forget(j) \/ ReadMissing(j)
    \/ Tick \/ Cleaner \/ MarkPurged
    \/ Crash \/ Boot \/ ThenExpired \/ ThenReconcile

ArtifactSpec == ArtifactInit /\ [][ArtifactNext]_artifactVars
-----------------------------------------------------------------------------
\* The index and the files agree, over purges that a failing disk, a new file or a crash
\* cuts short in the middle.  deleteIndexRows: "反过来会留下“索引说没有、文件还在”的状态" - a
\* registered output that is still on disk is available by the index; but for an attempt
\* that opened its files between the removal of the directory and that of the rows,
\* and one that a request had looked for before they were opened and marked purged
\* after.  And what the index calls available is on disk while the process serves,
\* unless the cleaner is just there, or the files went while the attempt was writing, or
\* by hand, or the database failed, or a removal was cut short: then the rows of the
\* files that went stay, until a later removal completes.  A startup whose
\* reconciliation succeeds leaves an excuse only to jobs that have a directory
\* ("剩下的“行在、目录不在”才是真正需要标注的那一批").
IndexIsTrue ==
    \A j \in Job :
        /\ \A a \in files[j] :
            <<j, a>> \in registered =>
                \/ row[j][a] = "available"
                \/ row[j][a] = "none" /\ <<j, a>> \in raced
                \/ row[j][a] = "purged" /\ <<j, a>> \in misread
        /\ phase = "serving" => \A a \in Row(j) :
            \/ a \in files[j]
            \/ cleaner.at = j /\ cleaner.step \in {"removing", "removed"}
            \/ <<j, a>> \in excused
=============================================================================
