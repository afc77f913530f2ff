------------------------------ MODULE Execution ------------------------------
(***************************************************************************)
(* One execution of an executor job, from the call of its handler to what  *)
(* the scheduler makes of the answer: executor/proc.go with the killing of *)
(* the process tree (proc_unix.go, proc_windows.go), executor/http.go, the *)
(* classes of executor/exit.go and the end of executeJob                   *)
(* (core/scheduler.go), with the output that the file refuses              *)
(* (limitedWriter in executor/artifact.go).  External: what os/exec does   *)
(* between Start and the return of Wait, the operating system, and the     *)
(* program that is run.                                                    *)
(*                                                                         *)
(* The program may exit or not, fork a process that outlives it, keeps its *)
(* output open or leaves the process group, and ignore SIGTERM.  Killing   *)
(* it is never refused (a program under another account would be): the     *)
(* errors of killTree are left out.                                        *)
(***************************************************************************)
EXTENDS Integers

CONSTANTS MaxParallel    \* permits of the profile

ASSUME ExecutionAssumption == MaxParallel \in Nat \ {0}

VARIABLES
    kind,       \* "unix" or "windows" for a process, "http"
    at,         \* where the handler is
    others,     \* permits that other executions of the profile hold
    over,       \* Err() of the execution's context: the first reason counts
    cancelled,  \* Cancel, ForcePause or Stop has cancelled the scheduler's context
    leader,     \* the program: "none", "alive", or how it ended
    child,      \* a process it has forked: "none", or in its "group", or "away"
    piped,      \* the child holds pipes of the output that are still copied
    unwritten,  \* how many of the two streams of output ended with a failed write
    watch,      \* the goroutine of os/exec that waits for the context
    blamed,     \* what it hands over: the context is why the program ended
    result,     \* what cmd.Run or the request has come to
    answer,     \* the class of the error that the handler returns, or "success"
    permanent,  \* ExecMeta.Permanent of the summary
    verdict     \* what the scheduler does next

executionVars == <<kind, at, others, over, cancelled, leader, child, piped, unwritten,
                   watch, blamed, result, answer, permanent, verdict>>
processVars == <<leader, child, piped, unwritten, watch, blamed>>
answerVars == <<answer, permanent, verdict>>

\* cmd.WaitDelay, in seconds; os/exec takes 0 for no limit.
NoWaitDelay == 0
ProcessWaitDelay == 4

ExecutionInit ==
    /\ kind \in {"unix", "windows", "http"} /\ at = "idle" /\ others \in 0..MaxParallel
    /\ over = "no" /\ cancelled = FALSE
    /\ leader = "none" /\ child = "none" /\ piped = FALSE /\ unwritten = 0
    /\ watch = "off" /\ blamed = FALSE
    /\ result = "none" /\ answer = "none" /\ permanent = FALSE /\ verdict = "none"

-----------------------------------------------------------------------------
(* The classes of failures (classifyExit).                                 *)

Repeatable == {"timed out", "concurrency limit", "listed exit", "passing status", "transport"}
Final == {"invalid", "unavailable", "not allowed", "exit", "status", "address refused"}

ByContext == IF over = "deadline" THEN "timed out" ELSE "cancelled"

\* classifyFailure: a context that is over comes before the exit status, and what is
\* left is taken for a program that cannot be started, though it has run and its output
\* could not be written ("copy").  And one that looks at the status first.
ClassifyByStatusFirst ==
    CASE result = "nil" -> "success"
      [] result = "exit" -> IF leader = "listed" THEN "listed exit" ELSE "exit"
      [] result # "nil" /\ result # "exit" /\ over # "no" -> ByContext
      [] result = "wait delay" /\ over = "no" -> "exit"
      [] result \in {"start", "copy"} /\ over = "no" -> "unavailable"

ClassifyFailure ==
    CASE result = "nil" -> "success"
      [] result # "nil" /\ over # "no" -> ByContext
      [] result = "wait delay" /\ over = "no" -> "exit"
      [] result = "exit" /\ over = "no" ->
            IF leader = "listed" THEN "listed exit" ELSE "exit"
      [] result \in {"start", "copy"} /\ over = "no" -> "unavailable"

\* The status of a response counts whatever the context; an error of Do or of
\* the body does not.
ClassifyHTTPError ==
    CASE result = "nil" -> "success"
      [] result \in {"status", "passing status"} -> result
      [] result \in {"refused", "broken"} /\ over # "no" -> ByContext
      [] result = "refused" /\ over = "no" -> "address refused"
      [] result = "broken" /\ over = "no" -> "transport"

\* The handler returns, by way of its deferred functions.
Return(class) ==
    /\ answer' = class /\ permanent' = (class \in Final)
    /\ at' = "returned"
    /\ UNCHANGED <<kind, others, over, cancelled, processVars, result, verdict>>

-----------------------------------------------------------------------------
(* The handler.                                                            *)

Goes(step) ==
    at' = step /\ UNCHANGED <<kind, others, over, cancelled, processVars, result, answerVars>>

CallHandler == at = "idle" /\ Goes("permit")

InvalidSubmission == at = "permit" /\ Return("invalid")

\* acquirePermit tries once without waiting, then waits.
AcquirePermit ==
    /\ at \in {"permit", "queue"} /\ others < MaxParallel
    /\ Goes("output")

AwaitPermit == at = "permit" /\ others = MaxParallel /\ Goes("queue")

PermitFailure ==
    /\ at = "queue"
    /\ Return(IF over # "no" THEN ByContext ELSE "concurrency limit")

OpenOutput == at = "output" /\ Goes("start")

OutputRefused == at = "output" /\ Return("not allowed")

\* cmd.Start: not with a context that is over.
StartFails ==
    /\ at = "start" /\ kind # "http"
    /\ at' = "ended" /\ result' = IF over # "no" THEN "context" ELSE "start"
    /\ UNCHANGED <<kind, others, over, cancelled, processVars, answerVars>>

StartProcess ==
    /\ at = "start" /\ kind # "http" /\ over = "no"
    /\ at' = "wait" /\ leader' = "alive" /\ watch' = "watching"
    /\ UNCHANGED <<kind, others, over, cancelled, child, piped, unwritten, blamed, result,
                   answerVars>>

SendRequest == at = "start" /\ kind = "http" /\ Goes("sent")

\* A response, or an error, of the file of the body too; with a context that is over, soon the error.
RequestEnds(r) ==
    /\ at = "sent" /\ at' = "ended" /\ result' = r
    /\ UNCHANGED <<kind, others, over, cancelled, processVars, answerVars>>

Classify ==
    /\ at = "ended"
    /\ Return(IF kind = "http" THEN ClassifyHTTPError ELSE ClassifyFailure)

-----------------------------------------------------------------------------
(* os/exec: Wait, its goroutines that copy the output, and watchCtx, which *)
(* waits for the context or to be told that the program has ended.         *)

Reap == at = "wait" /\ leader \notin {"none", "alive"} /\ Goes("reaped")

GroupIsGone == leader # "alive" /\ at # "wait" /\ child # "group"

\* killTree, first half.  SIGTERM to the group: each of it ends or not, and an
\* empty group counts as ended.  taskkill finds the program and, if that still
\* runs, its children; it may miss one or fail.
KillTree ==
    /\ watch = "watching" /\ over # "no"
    /\ IF kind = "unix" /\ GroupIsGone
         THEN watch' = "killed" /\ blamed' = TRUE /\ UNCHANGED <<leader, child, piped>>
         ELSE /\ watch' = "grace"
              /\ leader' \in IF leader = "alive" THEN {"alive", "killed"} ELSE {leader}
              /\ child' \in IF \/ kind = "unix" /\ child = "group"
                               \/ kind = "windows" /\ leader' = "killed"
                              THEN {child, "none"} ELSE {child}
              /\ piped' = (piped /\ child' # "none")
              /\ UNCHANGED blamed
    /\ UNCHANGED <<kind, at, others, over, cancelled, unwritten, result, answerVars>>

\* The second half, after the grace: SIGKILL to the group, or Kill of the program.
KillTreeFinally ==
    /\ watch = "grace"
    /\ watch' = "killed" /\ blamed' = TRUE
    /\ leader' = IF leader = "alive" THEN "killed" ELSE leader
    /\ child' = IF kind = "unix" /\ child = "group" THEN "none" ELSE child
    /\ piped' = (piped /\ child' # "none")
    /\ UNCHANGED <<kind, at, others, over, cancelled, unwritten, result, answerVars>>

\* The program is not reaped within WaitDelay of that: the pipes are closed here.
ForceEnd ==
    /\ watch = "killed" /\ at = "wait" /\ ProcessWaitDelay # 0
    /\ watch' = "closed"
    /\ UNCHANGED <<kind, at, others, over, cancelled, leader, child, piped, unwritten,
                   blamed, result, answerVars>>

\* Wait takes over: its own error first, else that of watchCtx.
WaitReturns ==
    /\ at = "reaped" /\ watch \in {"watching", "killed", "closed"}
    /\ at' = IF watch = "closed" THEN "ended" ELSE "copying"
    /\ result' = IF leader # "zero" THEN "exit" ELSE IF blamed THEN "context" ELSE "nil"
    /\ watch' = "off"
    /\ UNCHANGED <<kind, others, over, cancelled, leader, child, piped, unwritten, blamed,
                   answerVars>>

\* limitedWriter.Write hands on the error of the file, and the stream is not copied any
\* more; the child may have held no other.
WriteFails ==
    /\ at \in {"wait", "reaped", "copying"} /\ watch # "closed" /\ unwritten < 2
    /\ unwritten' = unwritten + 1
    /\ piped' \in {piped, FALSE} /\ (unwritten # 0 => ~piped')
    /\ UNCHANGED <<kind, at, others, over, cancelled, leader, child, watch, blamed, result,
                   answerVars>>

\* The error of the copying counts when there is no other.
OutputEnds ==
    /\ at = "copying" /\ ~piped
    /\ at' = "ended"
    /\ result' = IF result = "nil" /\ unwritten # 0 THEN "copy" ELSE result
    /\ UNCHANGED <<kind, others, over, cancelled, processVars, answerVars>>

OutputIsCut ==
    /\ at = "copying" /\ piped /\ ProcessWaitDelay # 0
    /\ at' = "ended" /\ result' = IF result = "nil" THEN "wait delay" ELSE result
    /\ UNCHANGED <<kind, others, over, cancelled, processVars, answerVars>>

-----------------------------------------------------------------------------
(* The scheduler and the world.                                            *)

\* The end of executeJob: a cancelled context comes before what the error says.
Conclude ==
    /\ at = "returned"
    /\ verdict' = CASE answer = "success" -> "success"
                    [] answer # "success" /\ (cancelled \/ answer = "cancelled") -> "interrupted"
                    [] ~cancelled /\ answer \in Final -> "failed"
                    [] ~cancelled /\ answer \in Repeatable -> "retry"
    /\ at' = "over"
    /\ UNCHANGED <<kind, others, over, cancelled, processVars, result, answer, permanent>>

CancelExecution ==
    /\ at # "over" /\ ~cancelled
    /\ cancelled' = TRUE /\ over' = IF over = "no" THEN "canceled" ELSE over
    /\ UNCHANGED <<kind, at, others, processVars, result, answerVars>>

Deadline ==
    /\ at \notin {"idle", "returned", "over"} /\ over = "no"
    /\ over' = "deadline"
    /\ UNCHANGED <<kind, at, others, cancelled, processVars, result, answerVars>>

\* Other executions of the profile take permits and give them back.
OthersMove ==
    /\ at \in {"permit", "queue"}
    /\ others' \in (others - 1..others + 1) \cap 0..MaxParallel
    /\ UNCHANGED <<kind, at, over, cancelled, processVars, result, answerVars>>

Exits ==
    /\ leader = "alive"
    /\ leader' \in {"zero", "code", "listed"}
    /\ UNCHANGED <<kind, at, others, over, cancelled, child, piped, unwritten, watch,
                   blamed, result, answerVars>>

Forks ==
    /\ leader = "alive" /\ child = "none"
    /\ child' \in {"group", "away"} /\ piped' \in BOOLEAN /\ (piped' => unwritten < 2)
    /\ UNCHANGED <<kind, at, others, over, cancelled, leader, unwritten, watch, blamed,
                   result, answerVars>>

ChildEnds ==
    /\ child # "none"
    /\ child' = "none" /\ piped' = FALSE
    /\ UNCHANGED <<kind, at, others, over, cancelled, leader, unwritten, watch, blamed,
                   result, answerVars>>

HandlerStep ==
    \/ AcquirePermit \/ AwaitPermit \/ PermitFailure \/ OpenOutput \/ StartFails
    \/ StartProcess \/ SendRequest \/ Classify \/ Reap \/ WaitReturns \/ OutputEnds
    \/ OutputIsCut \/ Conclude

ExecutionNext ==
    \/ CallHandler \/ HandlerStep \/ InvalidSubmission \/ OutputRefused
    \/ \E r \in {"nil", "status", "passing status", "refused", "broken"} : RequestEnds(r)
    \/ KillTree \/ KillTreeFinally \/ ForceEnd \/ WriteFails
    \/ CancelExecution \/ Deadline \/ OthersMove \/ Exits \/ Forks \/ ChildEnds

\* Go runs its goroutines, timers fire, and net/http gives up when the context is
\* over; each is fair by itself, and that some step of theirs comes is enough.
\* Nothing is assumed of the program, its children and the other executions.
ExecutionFairness ==
    WF_executionVars(\/ HandlerStep \/ Deadline \/ KillTree \/ KillTreeFinally
                     \/ over # "no" /\ RequestEnds("broken"))

ExecutionSpec == ExecutionInit /\ [][ExecutionNext]_executionVars /\ ExecutionFairness
-----------------------------------------------------------------------------
Killed == kind = "unix" /\ blamed

\* What the scheduler makes of an execution is true of it, however its end, the
\* context's and the killing fall together.
VerdictIsTrue ==
    \* killTree: "结束整棵进程树" - whatever it has sent where, none of the group is left
    /\ Killed => leader # "alive" /\ child # "group"
    /\ at = "over" =>
        \* a success is one, with all the output that the limit lets through
        /\ verdict = "success" =>
              /\ result = "nil"
              /\ kind # "http" => leader = "zero" /\ watch = "off" /\ unwritten = 0
        \* "不属于任务自身失败，不消耗重试次数": cancelled is neither failed nor repeated, and
        \* only what was cancelled is dropped
        /\ cancelled => verdict \in {"success", "interrupted"}
        /\ verdict = "interrupted" => cancelled
        \* what was killed does not fail for good: "它退出时的状态是 killing 的结果"
        /\ verdict = "failed" => leader # "killed"
        \* a program that reported success while nobody killed it has succeeded, unless its
        \* output stays open, or could not be written
        /\ leader = "zero" /\ ~blamed =>
              verdict = "success" \/ result \in {"wait delay", "copy"}
        \* "进程从未运行": what "cannot be started" has not run; but a success whose output
        \* could not be written is called that, too
        /\ answer = "unavailable" => leader = "none" \/ (leader = "zero" /\ unwritten # 0)
        \* "摘要说会重试、实际不再重试"
        /\ verdict = "retry" => ~permanent
        /\ verdict = "failed" => permanent

\* "绝不出现"无限等待"", and "Handler 会一直不返回" without processWaitDelay: every
\* execution ends, whatever the program ignores, forks or keeps open, however long
\* others keep the permits.  (That handlers heed a cancelled context is what
\* Scheduler assumes of them for StopReturns.)
HandlerReturns == (at = "permit") ~> (at = "over")
=============================================================================
