----------------------------- MODULE ConfigWatcher -----------------------------
(******************************************************************************)
(* The watcher of the configuration file (core/watch.go), the chain it calls  *)
(* (ReloadChain) and the part of the process that shuts both down             *)
(* (cmd/server/main.go).  Goroutines: the event loop, one callback per timer  *)
(* that has fired, the main goroutine; the editor and the file system are the *)
(* environment.  A timer fires whenever it likes: the window is not measured. *)
(* A panic of the chain, which callReload turns into a fault, is left out: no *)
(* setter raises one.                                                         *)
(******************************************************************************)
EXTENDS ReloadChain

CONSTANTS
    MaxWrites    \* bound: writes to the file

ASSUME WatcherAssumption == MaxWrites \in Nat

\* Timers are told apart by their generation; 0 is none.
Gen == 1..MaxWrites

VARIABLES
    saving,    \* an editor has truncated the file and is about to write this
    events,    \* events of the file system that the loop has not received
    loop,      \* the event loop
    closed,    \* ConfigWatcher.closed
    fsClosed,  \* the file system's watcher is closed or dead
    slot,      \* generation in the table of timers, 0 when it is empty
    seq,       \* generations given out
    ticking,   \* generations whose timer runs
    fired,     \* callbacks that have not claimed yet, per generation
    call,      \* callbacks that have claimed, per generation
    holder,    \* who holds reloadMu, 0 when it is free
    report,    \* the state that can be read
    main       \* the main goroutine

timerVars == <<slot, seq, ticking, fired>>
loopVars  == <<loop, closed, fsClosed>>
fileVars  == <<file, version, saving>>
vars == <<fileVars, events, loopVars, timerVars, call, holder, report, main, chainVars>>

\* Nothing to save.
NoContent == [kind |-> "none", cfg |-> Silent]

CallStep == {"none", "claimed", "waiting", "calling"}
MainStep == {"up", "close", "sweep", "wait", "stopChain", "down"}

TypeOK ==
    /\ ChainTypeOK
    /\ file \in Content /\ version \in 0..MaxWrites
    /\ saving \in Content \cup {NoContent}
    /\ events \in 0..MaxWrites
    /\ loop \in {"new", "run", "leaving", "sweeping", "done"}
    /\ closed \in BOOLEAN /\ fsClosed \in BOOLEAN
    /\ slot \in 0..seq /\ seq \in 0..MaxWrites
    /\ ticking \subseteq Gen
    /\ fired \in [Gen -> 0..2]
    /\ call \in [Gen -> CallStep]
    /\ holder \in {0} \cup Gen
    /\ report \in [result : Results, seen : 0..MaxWrites, fault : BOOLEAN]
    /\ main \in MainStep

Init ==
    /\ ChainInit
    /\ file = Values(Startup) /\ version = 0 /\ saving = NoContent
    /\ events = 0
    /\ loop = "new" /\ closed = FALSE /\ fsClosed = FALSE
    /\ slot = 0 /\ seq = 0 /\ ticking = {} /\ fired = [g \in Gen |-> 0]
    /\ call = [g \in Gen |-> "none"]
    /\ holder = 0
    /\ report = [result |-> "none", seen |-> 0, fault |-> FALSE]
    /\ main = "up"
-------------------------------------------------------------------------------
(* The editor.  A write raises one event of the directory. *)

Write(c) ==
    /\ version < MaxWrites
    /\ file' = c /\ version' = version + 1
    /\ events' = IF fsClosed THEN events ELSE events + 1
    /\ UNCHANGED <<loopVars, timerVars, call, holder, report, main, chainVars>>

\* Either the new content is renamed over the file, or the file is truncated first.
Save(c) ==
    /\ saving = NoContent
    /\ \/ Write(c) /\ UNCHANGED saving
       \/ Write(Blank) /\ saving' = c /\ version + 1 < MaxWrites

FinishSave ==
    /\ saving # NoContent
    /\ Write(saving) /\ saving' = NoContent
-------------------------------------------------------------------------------
(* Timers. *)

\* A new timer under a new generation; the one in the table is given up.
Arm ==
    /\ seq' = seq + 1
    /\ slot' = seq + 1
    /\ ticking' = (ticking \ {slot}) \cup {seq + 1}

\* An event of the target: a running timer is set anew, a dead one replaced.  Between
\* its Reset and its Stop the dead timer runs, and may fire once more.
Schedule ==
    IF closed \/ slot \in ticking THEN UNCHANGED timerVars
    ELSE /\ Arm
         /\ \/ UNCHANGED fired
            \/ slot # 0 /\ fired[slot] < 2 /\ fired' = [fired EXCEPT ![slot] = @ + 1]

\* Mutant: the table is emptied and the timer left to run.
ForgetTimers == slot' = 0 /\ UNCHANGED <<seq, ticking, fired>>

StopTimers == slot' = 0 /\ ticking' = ticking \ {slot} /\ UNCHANGED <<seq, fired>>

Fire(g) ==
    /\ g \in ticking
    /\ ticking' = ticking \ {g}
    /\ fired' = [fired EXCEPT ![g] = @ + 1]
    /\ UNCHANGED <<fileVars, events, loopVars, slot, seq, call, holder, report, main, chainVars>>

\* Mutant: the callback clears the table without looking at the generation in it.
ClaimAny(g) ==
    /\ fired[g] > 0
    /\ fired' = [fired EXCEPT ![g] = @ - 1]
    /\ IF slot # 0
       THEN slot' = 0 /\ call' = [call EXCEPT ![g] = "claimed"]
       ELSE UNCHANGED <<slot, call>>
    /\ UNCHANGED <<fileVars, events, loopVars, seq, ticking, holder, report, main, chainVars>>

\* Only the generation in the table goes on, and leaves the table.
Claim(g) ==
    /\ fired[g] > 0
    /\ fired' = [fired EXCEPT ![g] = @ - 1]
    /\ IF slot = g
       THEN slot' = 0 /\ call' = [call EXCEPT ![g] = "claimed"]
       ELSE UNCHANGED <<slot, call>>
    /\ UNCHANGED <<fileVars, events, loopVars, seq, ticking, holder, report, main, chainVars>>
-------------------------------------------------------------------------------
(* The callback after its claim: trigger, then callReload under reloadMu. *)

\* Mutant: a trigger that finds a reload under way leaves it at that.
TriggerSkips(g) ==
    /\ call[g] = "claimed"
    /\ call' = [call EXCEPT ![g] = IF closed \/ holder # 0 THEN "none" ELSE "waiting"]
    /\ UNCHANGED <<fileVars, events, loopVars, timerVars, holder, report, main, chainVars>>

Trigger(g) ==
    /\ call[g] = "claimed"
    /\ call' = [call EXCEPT ![g] = IF closed THEN "none" ELSE "waiting"]
    /\ UNCHANGED <<fileVars, events, loopVars, timerVars, holder, report, main, chainVars>>

LockReload(g) ==
    /\ call[g] = "waiting" /\ holder = 0
    /\ holder' = g
    /\ UNCHANGED <<fileVars, events, loopVars, timerVars, call, report, main, chainVars>>

CallReload(g) ==
    /\ holder = g /\ call[g] = "waiting"
    /\ Begin
    /\ call' = [call EXCEPT ![g] = "calling"]
    /\ UNCHANGED <<fileVars, events, loopVars, timerVars, holder, report, main>>

\* Mutant: the state the chain hands over is stored as it is.
StoredWhole(r) == [result |-> r.result, seen |-> r.seen, fault |-> FALSE]

\* storeState: everything but the watcher's own fault is what the chain says.
Stored(r) == [result |-> r.result, seen |-> r.seen, fault |-> report.fault]

StoreState(g) ==
    /\ call[g] = "calling" /\ chain.pc = "return"
    /\ report' = Stored(chain)
    /\ call' = [call EXCEPT ![g] = "none"]
    /\ holder' = 0
    /\ Leave
    /\ UNCHANGED <<fileVars, events, loopVars, timerVars, main>>

Reloading ==
    /\ ChainNext
    /\ UNCHANGED <<fileVars, events, loopVars, timerVars, call, holder, report, main>>
-------------------------------------------------------------------------------
(* The event loop. *)

MarkWatcherError == report' = [report EXCEPT !.fault = TRUE]

LoopStart ==
    /\ loop = "new" /\ loop' = "run"
    /\ UNCHANGED <<fileVars, events, closed, fsClosed, timerVars, call, holder, report, main, chainVars>>

HandleEvent ==
    /\ loop = "run" /\ events > 0
    /\ events' = events - 1
    /\ Schedule
    /\ UNCHANGED <<fileVars, loopVars, call, holder, report, main, chainVars>>

\* The file system reports an error: its queue has overflowed, what was in it is lost.
HandleError ==
    /\ loop = "run" /\ ~fsClosed /\ ~report.fault
    /\ events' = 0
    /\ MarkWatcherError
    /\ UNCHANGED <<fileVars, loopVars, timerVars, call, holder, main, chainVars>>

\* The file system's watcher dies without being asked to.
FsDies ==
    /\ ~fsClosed /\ ~closed
    /\ fsClosed' = TRUE
    /\ UNCHANGED <<fileVars, events, loop, closed, timerVars, call, holder, report, main, chainVars>>

\* The loop sees stopCh, or that the channel of events is closed.
LoopLeave ==
    /\ loop = "run"
    /\ \/ main \in {"sweep", "wait", "stopChain", "down"} /\ UNCHANGED report
       \/ fsClosed /\ IF closed THEN UNCHANGED report ELSE MarkWatcherError
    /\ loop' = "leaving"
    /\ UNCHANGED <<fileVars, events, closed, fsClosed, timerVars, call, holder, main, chainVars>>

LoopClosed ==
    /\ loop = "leaving" /\ loop' = "sweeping"
    /\ closed' = TRUE /\ fsClosed' = TRUE /\ events' = 0
    /\ UNCHANGED <<fileVars, timerVars, call, holder, report, main, chainVars>>

LoopSweep ==
    /\ loop = "sweeping" /\ loop' = "done"
    /\ StopTimers
    /\ UNCHANGED <<fileVars, events, closed, fsClosed, call, holder, report, main, chainVars>>
-------------------------------------------------------------------------------
(* Shutdown: Close, then the chain's Stop. *)

Shutdown ==
    /\ main = "up" /\ main' = "close"
    /\ closed' = TRUE
    /\ UNCHANGED <<fileVars, events, loop, fsClosed, timerVars, call, holder, report, chainVars>>

CloseFs ==
    /\ main = "close" /\ main' = "sweep"
    /\ fsClosed' = TRUE /\ events' = 0
    /\ UNCHANGED <<fileVars, loop, closed, timerVars, call, holder, report, chainVars>>

CloseSweep ==
    /\ main = "sweep" /\ main' = "wait"
    /\ StopTimers
    /\ UNCHANGED <<fileVars, events, loopVars, call, holder, report, chainVars>>

\* A loop that has not begun is not waited for; one that takes too long is reported.
WaitForLoop ==
    /\ main = "wait" /\ main' = "stopChain"
    /\ \/ loop \in {"new", "done"} /\ UNCHANGED report
       \/ loop \notin {"new", "done"} /\ MarkWatcherError
    /\ UNCHANGED <<fileVars, events, loopVars, timerVars, call, holder, chainVars>>

MainStopsChain ==
    /\ main = "stopChain" /\ main' = "down"
    /\ StopChain
    /\ UNCHANGED <<fileVars, events, loopVars, timerVars, call, holder, report>>

Exited ==
    /\ main = "down" /\ loop = "done" /\ ticking = {}
    /\ \A g \in Gen : fired[g] = 0 /\ call[g] = "none"
    /\ UNCHANGED vars
-------------------------------------------------------------------------------
Callback(g) == Claim(g) \/ Trigger(g) \/ LockReload(g) \/ CallReload(g) \/ StoreState(g)

EventLoop == LoopStart \/ HandleEvent \/ LoopLeave \/ LoopClosed \/ LoopSweep

Environment == (\E c \in Content : Save(c)) \/ FinishSave \/ HandleError \/ FsDies

Main == Shutdown \/ CloseFs \/ CloseSweep \/ WaitForLoop \/ MainStopsChain

Next ==
    \/ Environment \/ EventLoop \/ Main \/ Reloading \/ Exited
    \/ \E g \in Gen : Fire(g) \/ Callback(g)

\* Goroutines run, timers fire and the mutexes are handed on; nobody has to save.
Fairness ==
    /\ WF_vars(EventLoop) /\ WF_vars(Reloading)
    /\ WF_vars(CloseFs \/ CloseSweep \/ WaitForLoop \/ MainStopsChain)
    /\ \A g \in Gen : WF_vars(Fire(g)) /\ WF_vars(Callback(g)) /\ SF_vars(LockReload(g))

Spec == Init /\ [][Next]_vars /\ Fairness
-------------------------------------------------------------------------------
\* Every timer that runs is the one in the table: schedule, claim and the two sweeps
\* leave none that nobody can stop.
TimersAreOwned == ticking \subseteq {slot} \ {0}

\* Each content of the file is looked at by a reload that began to read after it was
\* written, unless the watcher is closed or has reported its own failure.
SaveIsAnswered ==
    \A v \in 1..MaxWrites :
        version = v ~> (report.seen >= v \/ closed \/ report.fault)

\* What can be read never goes back to an older reading of the file, until the chain
\* is stopped, and a fault of the watcher is never wiped out by a reload.
ReportMovesForward ==
    [][/\ report'.seen >= report.seen \/ stopped
       /\ report.fault => report'.fault]_vars
===============================================================================
