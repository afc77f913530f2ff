---------------------------- MODULE DirectoryLoader ----------------------------
(***************************************************************************)
(* Jobs from files, core/load.go: a scan at the start, then a watched      *)
(* directory.  Every event (re)arms a timer of its path, and when that     *)
(* fires the file is read, its job scheduled, and the file deleted, moved  *)
(* or remembered.  Timers fire whenever they like, callbacks run           *)
(* side by side, and files are written while they are read.                *)
(***************************************************************************)
EXTENDS Naturals, FiniteSets

CONSTANTS
    Path,
    Thread,     \* callbacks that may run at a time: a bound
    Scanner     \* the goroutine of Start

ASSUME LoaderAssumption == Scanner \notin Thread

VARIABLES
    options,    \* LoaderOptions: [post, errorDir]
    content,    \* of a file when it is whole: "job", "exec", "invalid"
    file,       \* "unborn", "half", "whole"; "gone": deleted or moved
    queued,     \* events of a path that the watcher holds
    watching,   \* watcher.Add is done
    stopped,    \* stopCh is closed
    entry,      \* pendingLoads: "none", a timer that is "armed", one that has "fired"
    strays,     \* timers armed that are not in pendingLoads any longer
    load,       \* a LoadFile or the callback before it: [at, path, read]
    found,      \* files of the scan
    processed,  \* processedFiles
    settled,    \* history: files that were read whole and scheduled or refused
    announced   \* history: files finished while the directory was watched

loaderVars == <<options, content, file, queued, watching, stopped, entry, strays,
                load, found, processed, settled, announced>>
timerVars == <<entry, strays>>
diskVars == <<options, content, file, announced>>

Idle == [at |-> "idle"]

LoaderInit ==
    /\ options \in [post : {"delete", "archive", "keep"}, errorDir : BOOLEAN]
    /\ content \in [Path -> {"job", "exec", "invalid"}]
    /\ file \in [Path -> {"unborn", "half"}]
    /\ queued = [p \in Path |-> 0]
    /\ watching = FALSE /\ stopped = FALSE
    /\ entry = [p \in Path |-> "none"] /\ strays = [p \in Path |-> 0]
    /\ load = [t \in Thread \cup {Scanner} |->
                 IF t = Scanner THEN [at |-> "scan"] ELSE Idle]
    /\ found = {} /\ processed = {} /\ settled = {} /\ announced = {}

Move(t, step) == load' = [load EXCEPT ![t] = step]
-----------------------------------------------------------------------------
\* Somebody creates a file and writes it in two steps; every step is one event or
\* two (creation and writing, a write in blocks), if the directory is watched.
\* What has been deleted half written stays away.
WriteFile(p) ==
    /\ \/ file[p] = "unborn" /\ file' = [file EXCEPT ![p] = "half"] /\ UNCHANGED announced
       \/ /\ file[p] = "half" /\ file' = [file EXCEPT ![p] = "whole"]
          /\ announced' = IF watching THEN announced \cup {p} ELSE announced
    /\ IF watching THEN \E n \in {1, 2} : queued' = [queued EXCEPT ![p] = @ + n]
                  ELSE UNCHANGED queued
    /\ UNCHANGED <<options, content, watching, stopped, timerVars, load, found, processed,
                   settled>>

\* ScanAndLoad: the walk, then file by file ...
Walk ==
    /\ load[Scanner].at = "scan" /\ Move(Scanner, [at |-> "next"])
    /\ found' = {p \in Path : file[p] \in {"half", "whole"}}
    /\ UNCHANGED <<diskVars, queued, watching, stopped, timerVars, processed, settled>>

NextFile ==
    /\ load[Scanner].at = "next"
    /\ \E p \in found : found' = found \ {p} /\ Move(Scanner, [at |-> "read", path |-> p])
    /\ UNCHANGED <<diskVars, queued, watching, stopped, timerVars, processed, settled>>

\* ... and then startWatcher: what was finished since the walk is never heard of.
StartWatcher ==
    /\ load[Scanner].at = "next" /\ found = {} /\ Move(Scanner, Idle)
    /\ watching' = TRUE
    /\ UNCHANGED <<diskVars, queued, stopped, timerVars, found, processed, settled>>
-----------------------------------------------------------------------------
\* The event loop, until it has seen stopCh: scheduleLoad; Reset arms a timer
\* again that has fired.
HandleWrite(p) ==
    /\ queued[p] > 0 /\ queued' = [queued EXCEPT ![p] = @ - 1]
    /\ entry' = [entry EXCEPT ![p] = "armed"]
    /\ UNCHANGED <<diskVars, watching, stopped, strays, load, found, processed, settled>>

\* A timer fires, and its callback starts.
FireTimer(p, t) ==
    /\ load[t] = Idle /\ t # Scanner
    /\ \/ entry[p] = "armed" /\ entry' = [entry EXCEPT ![p] = "fired"] /\ UNCHANGED strays
       \/ strays[p] > 0 /\ strays' = [strays EXCEPT ![p] = @ - 1] /\ UNCHANGED entry
    /\ Move(t, [at |-> "forget", path |-> p])
    /\ UNCHANGED <<diskVars, queued, watching, stopped, found, processed, settled>>

\* forgetPending goes by the path, whatever timer is there by now.
Forget(t) ==
    /\ load[t].at = "forget"
    /\ LET p == load[t].path IN
        /\ entry' = [entry EXCEPT ![p] = "none"]
        /\ strays' = [strays EXCEPT ![p] = IF entry[p] = "armed" THEN @ + 1 ELSE @]
        /\ Move(t, [at |-> IF stopped THEN "idle" ELSE "read", path |-> p])
    /\ UNCHANGED <<diskVars, queued, watching, stopped, found, processed, settled>>

\* What a load goes back to.
Over(t) == IF t = Scanner THEN [at |-> "next"] ELSE Idle

\* A failed load is logged; only the scan has handleErrorFile behind it.
Fails(t) == IF t = Scanner /\ options.errorDir
            THEN [at |-> "stash", path |-> load[t].path] ELSE Over(t)

\* Mutant of ReadFile: who keeps its files marks them before it has read them.
ReadMarksFirst(t) ==
    /\ load[t].at = "read"
    /\ LET p == load[t].path IN
        /\ processed' = IF options.post = "keep" THEN processed \cup {p} ELSE processed
        /\ IF p \in processed THEN Move(t, Over(t)) /\ UNCHANGED settled
           ELSE IF file[p] # "whole" THEN Move(t, Fails(t)) /\ UNCHANGED settled
           ELSE IF content[p] = "invalid"
           THEN Move(t, Fails(t)) /\ settled' = settled \cup {p}
           ELSE Move(t, [at |-> IF content[p] = "exec" THEN "reject" ELSE "schedule",
                         path |-> p]) /\ UNCHANGED settled
    /\ UNCHANGED <<diskVars, queued, watching, stopped, timerVars, found>>

\* LoadFile up to the decision: done before, nothing to read, half a file, no
\* job, a job that files may not bring, a job.
ReadFile(t) ==
    /\ load[t].at = "read"
    /\ LET p == load[t].path IN
        IF p \in processed THEN Move(t, Over(t)) /\ UNCHANGED settled
        ELSE IF file[p] # "whole" THEN Move(t, Fails(t)) /\ UNCHANGED settled
        ELSE IF content[p] = "invalid"
        THEN Move(t, Fails(t)) /\ settled' = settled \cup {p}
        ELSE Move(t, [at |-> IF content[p] = "exec" THEN "reject" ELSE "schedule",
                      path |-> p]) /\ UNCHANGED settled
    /\ UNCHANGED <<diskVars, queued, watching, stopped, timerVars, found, processed>>

\* Schedule, which may refuse the job.
ScheduleJob(t) ==
    /\ load[t].at = "schedule"
    /\ settled' = settled \cup {load[t].path}
    /\ \/ Move(t, [load[t] EXCEPT !.at = "post"]) \/ Move(t, Fails(t))
    /\ UNCHANGED <<diskVars, queued, watching, stopped, timerVars, found, processed>>

\* postProcess: of a file that is gone by now it is an error.
PostProcess(t) ==
    LET p == load[t].path IN
    /\ load[t].at = "post"
    /\ IF options.post = "keep"
       THEN processed' = processed \cup {p} /\ Move(t, Over(t)) /\ UNCHANGED file
       ELSE /\ file' = [file EXCEPT ![p] = "gone"] /\ UNCHANGED processed
            /\ Move(t, IF file[p] = "gone" THEN Fails(t) ELSE Over(t))
    /\ UNCHANGED <<options, content, announced, queued, watching, stopped, timerVars, found,
                   settled>>

\* handleErrorFile: copied with its reason, and deleted where that is the policy.
Stash(t) ==
    LET p == load[t].path IN
    /\ load[t].at = "stash" /\ Move(t, Over(t))
    /\ file' = IF options.post = "delete" THEN [file EXCEPT ![p] = "gone"] ELSE file
    /\ UNCHANGED <<options, content, announced, queued, watching, stopped, timerVars, found,
                   processed, settled>>

\* rejectExecJob: set aside, which fails if the file has gone, or left to
\* postProcess.
RejectExecJob(t) ==
    LET p == load[t].path
        stashed == options.errorDir /\ file[p] # "gone" IN
    /\ load[t].at = "reject" /\ settled' = settled \cup {p}
    /\ IF stashed /\ options.post = "delete"
       THEN file' = [file EXCEPT ![p] = "gone"] /\ Move(t, Over(t))
       ELSE Move(t, [load[t] EXCEPT !.at = "post"]) /\ UNCHANGED file
    /\ UNCHANGED <<options, content, announced, queued, watching, stopped, timerVars, found,
                   processed>>
-----------------------------------------------------------------------------
\* Stop: the loop ends, timers in the map are stopped; strays fire to no effect,
\* and a load that is under way goes on.
StopLoader ==
    /\ watching /\ ~stopped /\ stopped' = TRUE
    /\ entry' = [p \in Path |-> "none"]
    /\ UNCHANGED <<diskVars, queued, watching, strays, load, found, processed, settled>>

LoadStep(t) ==
    Forget(t) \/ ReadFile(t) \/ ScheduleJob(t) \/ PostProcess(t) \/ Stash(t)
    \/ RejectExecJob(t)

LoaderNext ==
    \/ Walk \/ NextFile \/ StartWatcher \/ StopLoader
    \/ \E p \in Path : WriteFile(p) \/ HandleWrite(p)
    \/ \E t \in Thread, p \in Path : FireTimer(p, t)
    \/ \E t \in Thread \cup {Scanner} : LoadStep(t)

\* The event loop and the callbacks run, and armed timers fire.  Nothing is
\* assumed of who writes the files.
LoaderFairness ==
    /\ WF_loaderVars(\E t \in Thread, p \in Path : FireTimer(p, t))
    /\ WF_loaderVars(\E p \in Path : HandleWrite(p))
    /\ \A t \in Thread \cup {Scanner} : WF_loaderVars(LoadStep(t))

LoaderSpec == LoaderInit /\ [][LoaderNext]_loaderVars /\ LoaderFairness
-----------------------------------------------------------------------------
\* scheduleLoad: "等静默窗口过去再读，既不阻塞事件循环也避免读到半截文件" - whatever the
\* timers do, and although files are read half written and again while they are
\* being taken away: a file that is finished while its directory is watched is
\* read as a whole at last, and its job scheduled, or refused with a reason.
EveryFileIsLoaded ==
    \A p \in Path : p \in announced ~> p \in settled \/ stopped
=============================================================================
