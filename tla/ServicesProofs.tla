---------------------------- MODULE ServicesProofs ----------------------------
(***************************************************************************)
(* Proofs about what MCServices checks part by part: what the scheduler    *)
(* makes of an execution is true of it (VerdictIsTrue of Execution, for    *)
(* any number of permits), a failed job waits as long as it should         *)
(* (BackoffHolds of Retry, for any width of a Duration), no subscription   *)
(* of a client that listens to events is left behind (SubscriptionsAreOwned*)
(* of ClientStreams, for any clients), the tables of events and audits are *)
(* exact (TableIsExact of EventLog, for any queue and retention), and what *)
(* the API remembers of recent events is the end of them (HistoryIsTail of *)
(* EventHistory, for any limits).                                          *)
(***************************************************************************)
EXTENDS ClientStreams, Execution, Retry, EventLog, EventHistory, FiniteSetTheorems,
        SequenceTheorems, TLAPS

BeforeStart == {"idle", "permit", "queue", "output", "start", "sent"}
AtTheEnd == {"ended", "returned", "over"}

\* The type, in three parts.
PlaceOK ==
    /\ kind \in {"unix", "windows", "http"}
    /\ at \in BeforeStart \cup {"wait", "reaped", "copying"} \cup AtTheEnd
    /\ over \in {"no", "deadline", "canceled"}
    /\ leader \in {"none", "alive", "zero", "code", "listed", "killed"}
    /\ child \in {"none", "group", "away"}
    /\ watch \in {"off", "watching", "grace", "killed", "closed"}
    /\ unwritten \in 0..2

FlagsOK ==
    cancelled \in BOOLEAN /\ piped \in BOOLEAN /\ blamed \in BOOLEAN

OutcomeOK ==
    /\ result \in {"none", "nil", "exit", "context", "wait delay", "copy", "start",
                   "status", "passing status", "refused", "broken"}
    /\ answer \in {"none", "success", "cancelled"} \cup Final \cup Repeatable
    /\ verdict \in {"none", "success", "interrupted", "failed", "retry"}

\* The first reason stays: a context that has been cancelled is over, and one that
\* says "canceled" has been.
ReasonIsKept ==
    /\ cancelled => over # "no"
    /\ over = "canceled" => cancelled

\* The watching goroutine lives from Start to Wait, and Wait goes on only when the
\* program has ended.
WatchIsJoined ==
    /\ watch # "off" <=> at \in {"wait", "reaped"}
    /\ at \in BeforeStart \/ kind = "http" => leader = "none"
    /\ at = "sent" => kind = "http"
    /\ at \in {"wait", "reaped", "copying"} => leader # "none" /\ kind # "http"
    /\ at \in {"reaped", "copying"} \cup AtTheEnd => leader # "alive"

\* Only a context that is over kills, and who has seen the killing through says so.
KillIsBlamed ==
    /\ watch \in {"watching", "grace"} => ~blamed
    /\ watch \in {"killed", "closed"} => blamed
    /\ blamed \/ leader = "killed" \/ watch = "grace" => over # "no"
    /\ leader = "none" => ~blamed
    /\ Killed => leader # "alive" /\ child # "group"

\* What Run has come to agrees with how the program ended.
ResultFits ==
    /\ at \in {"copying", "ended", "returned", "over"} /\ kind # "http" =>
        /\ result = "exit" => leader \notin {"none", "zero"}
        /\ result \in {"nil", "wait delay", "copy"} => leader = "zero" /\ ~blamed
        /\ result = "copy" => unwritten # 0
        /\ result = "nil" => at = "copying" \/ unwritten = 0
        /\ result = "context" => over # "no" /\ (leader = "zero" => blamed)
        /\ result = "start" => leader = "none"
    /\ at \in BeforeStart \cup {"wait", "reaped"} => result = "none"
    /\ at = "copying" => result \in {"nil", "exit", "context"}
    /\ at = "ended" /\ kind = "http" =>
        result \in {"nil", "status", "passing status", "refused", "broken"}
    /\ at = "ended" /\ kind # "http" =>
        result \in {"nil", "exit", "context", "wait delay", "copy", "start"}

\* What the handler answers agrees with that.
AnswerFits ==
    at \in {"returned", "over"} =>
        /\ answer # "none" /\ (permanent <=> answer \in Final)
        /\ answer = "success" => result = "nil"
        /\ answer = "cancelled" => cancelled
        /\ answer \in Final => leader # "killed"
        /\ leader = "zero" /\ ~blamed =>
              answer = "success" \/ result \in {"wait delay", "copy"}
        /\ answer = "unavailable" => leader = "none" \/ (leader = "zero" /\ unwritten # 0)

ExecutionInv ==
    /\ PlaceOK /\ FlagsOK /\ OutcomeOK
    /\ ReasonIsKept /\ WatchIsJoined /\ KillIsBlamed /\ ResultFits /\ AnswerFits
    /\ VerdictIsTrue
-----------------------------------------------------------------------------
LEMMA ExecutionInvInit == ExecutionInit => ExecutionInv
<1>1. ExecutionInit => PlaceOK
  BY DEF ExecutionInit, PlaceOK, BeforeStart
<1> QED
  BY <1>1 DEF ExecutionInit, ExecutionInv, FlagsOK, OutcomeOK, ReasonIsKept,
       WatchIsJoined, KillIsBlamed, ResultFits, AnswerFits, VerdictIsTrue, Killed,
       BeforeStart, AtTheEnd

\* The handler goes on without touching anything else.
LEMMA HandlerGoesOn ==
    ASSUME ExecutionInv,
           CallHandler \/ AcquirePermit \/ AwaitPermit \/ OpenOutput
                    \/ SendRequest \/ Reap
    PROVE  ExecutionInv'
<1> USE DEF ExecutionInv
<1>a. UNCHANGED <<kind, over, cancelled, leader, child, piped, unwritten, watch, blamed, result,
                  answer, permanent, verdict>>
  BY DEF CallHandler, AcquirePermit, AwaitPermit, OpenOutput, SendRequest, Reap,
         Goes, processVars, answerVars
<1>b. \/ at \in BeforeStart /\ at' \in BeforeStart
      \/ at = "wait" /\ at' = "reaped" /\ leader # "alive"
  BY DEF CallHandler, AcquirePermit, AwaitPermit, OpenOutput, SendRequest, Reap,
         Goes, BeforeStart
<1>c. at' = "sent" => at = "start" /\ kind = "http"
  BY DEF CallHandler, AcquirePermit, AwaitPermit, OpenOutput, SendRequest, Reap, Goes
<1>1. PlaceOK'
  BY <1>a, <1>b DEF PlaceOK, BeforeStart, AtTheEnd
<1>2. FlagsOK'
  BY <1>a, <1>b DEF FlagsOK
<1>3. OutcomeOK'
  BY <1>a, <1>b DEF OutcomeOK, PlaceOK, Final, Repeatable, ResultFits,
         AnswerFits
<1>4. ReasonIsKept'
  BY <1>a, <1>b DEF ReasonIsKept
<1>5. WatchIsJoined'
  BY <1>a, <1>b, <1>c DEF WatchIsJoined, BeforeStart, AtTheEnd
<1>6. KillIsBlamed'
  BY <1>a, <1>b DEF KillIsBlamed, Killed, WatchIsJoined, BeforeStart,
         AtTheEnd
<1>7. ResultFits'
  BY <1>a, <1>b DEF ResultFits, WatchIsJoined, KillIsBlamed, PlaceOK,
         BeforeStart, AtTheEnd
<1>8. AnswerFits'
  BY <1>a, <1>b DEF AnswerFits, Final, ResultFits, KillIsBlamed,
         WatchIsJoined, PlaceOK, ReasonIsKept, BeforeStart, AtTheEnd
<1>9. VerdictIsTrue'
  BY <1>a, <1>b, <1>6, <1>8 DEF VerdictIsTrue, Killed, AnswerFits,
         KillIsBlamed, ResultFits, WatchIsJoined, PlaceOK, FlagsOK, OutcomeOK,
         AtTheEnd, Final, Repeatable, BeforeStart
<1> QED
  BY <1>1, <1>2, <1>3, <1>4, <1>5, <1>6, <1>7, <1>8, <1>9 DEF ExecutionInv

\* The handler returns.
LEMMA HandlerAnswers ==
    ASSUME ExecutionInv,
           InvalidSubmission \/ PermitFailure \/ OutputRefused \/
                    Classify
    PROVE  ExecutionInv'
<1> USE DEF ExecutionInv
<1>a. /\ at' = "returned" /\ at \in BeforeStart \cup {"ended"}
      /\ UNCHANGED <<kind, over, cancelled, leader, child, piped, unwritten, watch, blamed, result,
                     verdict>>
  BY DEF InvalidSubmission, PermitFailure, OutputRefused, Classify, Return, processVars,
         BeforeStart
<1>b. permanent' <=> answer' \in Final
  BY DEF InvalidSubmission, PermitFailure, OutputRefused, Classify, Return
<1>c. \/ /\ at \in BeforeStart
         /\ answer' \in {"invalid", "not allowed", "concurrency limit"}
      \/ at \in BeforeStart /\ over # "no" /\ answer' = ByContext
      \/ at = "ended" /\ kind = "http" /\ answer' = ClassifyHTTPError
      \/ at = "ended" /\ kind # "http" /\ answer' = ClassifyFailure
  BY DEF InvalidSubmission, PermitFailure, OutputRefused, Classify, Return, BeforeStart
<1>1. PlaceOK'
  BY <1>a DEF PlaceOK, BeforeStart, AtTheEnd
<1>2. FlagsOK'
  BY <1>a DEF FlagsOK
<1>3. OutcomeOK'
  BY <1>a, <1>c DEF OutcomeOK, PlaceOK, Final, Repeatable, ResultFits,
         AnswerFits, ClassifyHTTPError, ClassifyFailure, ByContext
<1>4. ReasonIsKept'
  BY <1>a DEF ReasonIsKept
<1>5. WatchIsJoined'
  BY <1>a DEF WatchIsJoined, BeforeStart, AtTheEnd
<1>6. KillIsBlamed'
  BY <1>a DEF KillIsBlamed, Killed, WatchIsJoined, BeforeStart,
         AtTheEnd
<1>7. ResultFits'
  BY <1>a DEF ResultFits, WatchIsJoined, KillIsBlamed, PlaceOK,
         BeforeStart, AtTheEnd
<1>8. AnswerFits'
  <2> USE <1>a, <1>b DEF AnswerFits, Final, WatchIsJoined, BeforeStart, ByContext, PlaceOK,
                        ReasonIsKept
  <2>1. CASE at \in BeforeStart
    BY <2>1, <1>c
  <2>2. CASE at = "ended" /\ kind = "http" /\ answer' = ClassifyHTTPError
    BY <2>2 DEF ClassifyHTTPError, ResultFits
  <2>3. CASE at = "ended" /\ kind # "http" /\ answer' = ClassifyFailure
    BY <2>3 DEF ClassifyFailure, ResultFits, KillIsBlamed, AtTheEnd
  <2> QED
    BY <2>1, <2>2, <2>3, <1>c
<1>9. VerdictIsTrue'
  BY <1>a, <1>6, <1>8 DEF VerdictIsTrue, Killed, AnswerFits,
         KillIsBlamed, ResultFits, WatchIsJoined, PlaceOK, FlagsOK, OutcomeOK,
         AtTheEnd, Final, Repeatable
<1> QED
  BY <1>1, <1>2, <1>3, <1>4, <1>5, <1>6, <1>7, <1>8, <1>9 DEF ExecutionInv

\* The program is started and reaped.
LEMMA ProgramIsRun ==
    ASSUME ExecutionInv,
           StartProcess \/ WaitReturns
    PROVE  ExecutionInv'
<1> USE DEF ExecutionInv, StartProcess, WaitReturns, processVars, answerVars
<1>1. PlaceOK'
  BY DEF PlaceOK, BeforeStart, AtTheEnd
<1>2. FlagsOK'
  BY DEF FlagsOK
<1>3. OutcomeOK'
  BY DEF OutcomeOK, PlaceOK, Final, Repeatable, ResultFits, AnswerFits
<1>4. ReasonIsKept'
  BY DEF ReasonIsKept
<1>5. WatchIsJoined'
  BY DEF WatchIsJoined, BeforeStart, AtTheEnd
<1>6. KillIsBlamed'
  BY DEF KillIsBlamed, Killed, WatchIsJoined, BeforeStart, AtTheEnd
<1>7. ResultFits'
  <2>1. CASE StartProcess
    BY <2>1 DEF ResultFits, WatchIsJoined, KillIsBlamed, PlaceOK,
           BeforeStart, AtTheEnd, processVars, answerVars, StartProcess
  <2>2. CASE WaitReturns
    BY <2>2 DEF ResultFits, WatchIsJoined, KillIsBlamed, PlaceOK,
           BeforeStart, AtTheEnd, processVars, answerVars, WaitReturns
  <2> QED
    BY <2>1, <2>2
<1>8. AnswerFits'
  BY DEF AnswerFits, Final, ResultFits, KillIsBlamed, WatchIsJoined,
         PlaceOK, ReasonIsKept, BeforeStart, AtTheEnd
<1>9. VerdictIsTrue'
  BY <1>6, <1>8 DEF VerdictIsTrue, Killed, AnswerFits, KillIsBlamed,
         ResultFits, WatchIsJoined, PlaceOK, FlagsOK, OutcomeOK, AtTheEnd,
         Final, Repeatable
<1> QED
  BY <1>1, <1>2, <1>3, <1>4, <1>5, <1>6, <1>7, <1>8, <1>9 DEF ExecutionInv

\* The program does not start, the request ends, the output is cut off.
LEMMA RunIsOver ==
    ASSUME ExecutionInv,
           StartFails \/ OutputEnds \/ OutputIsCut
             \/ \E r \in {"nil", "status", "passing status", "refused", "broken"} : RequestEnds(r)
    PROVE  ExecutionInv'
<1> USE DEF ExecutionInv
<1>a. /\ at' = "ended" /\ at \in {"start", "sent", "copying"}
      /\ UNCHANGED <<kind, over, cancelled, leader, child, piped, unwritten, watch, blamed,
                     answer, permanent, verdict>>
  BY DEF StartFails, OutputEnds, OutputIsCut, RequestEnds, processVars, answerVars
<1>b. \/ result' \in {"nil", "status", "passing status", "refused", "broken"} /\ at = "sent"
      \/ result' = "start" /\ at = "start" /\ kind # "http"
      \/ result' = "context" /\ at = "start" /\ kind # "http" /\ over # "no"
      \/ /\ at = "copying"
         /\ \/ result' = result /\ (result = "nil" => unwritten = 0)
            \/ result = "nil" /\ result' = "wait delay"
            \/ result = "nil" /\ result' = "copy" /\ unwritten # 0
  <2>1. CASE StartFails
    BY <2>1 DEF StartFails
  <2>2. CASE OutputEnds
    BY <2>2 DEF OutputEnds
  <2>4. CASE OutputIsCut
    BY <2>4 DEF OutputIsCut
  <2>3. CASE \E r \in {"nil", "status", "passing status", "refused", "broken"} : RequestEnds(r)
    BY <2>3 DEF RequestEnds
  <2> QED
    BY <2>1, <2>2, <2>3, <2>4
<1>c. at = "sent" => kind = "http"
  BY DEF StartFails, OutputEnds, OutputIsCut, RequestEnds, WatchIsJoined
<1>1. PlaceOK'
  BY <1>a DEF PlaceOK, BeforeStart, AtTheEnd
<1>2. FlagsOK'
  BY <1>a DEF FlagsOK
<1>3. OutcomeOK'
  BY <1>a, <1>b DEF OutcomeOK, PlaceOK, Final, Repeatable, ResultFits,
         AnswerFits
<1>4. ReasonIsKept'
  BY <1>a DEF ReasonIsKept
<1>5. WatchIsJoined'
  BY <1>a DEF WatchIsJoined, BeforeStart, AtTheEnd
<1>6. KillIsBlamed'
  BY <1>a DEF KillIsBlamed, Killed, WatchIsJoined, BeforeStart,
         AtTheEnd
<1>7. ResultFits'
  BY <1>a, <1>b DEF ResultFits, WatchIsJoined, KillIsBlamed, PlaceOK,
         BeforeStart, AtTheEnd
<1>8. AnswerFits'
  BY <1>a DEF AnswerFits, Final, ResultFits, KillIsBlamed,
         WatchIsJoined, PlaceOK, ReasonIsKept, BeforeStart, AtTheEnd
<1>9. VerdictIsTrue'
  BY <1>a, <1>6, <1>8 DEF VerdictIsTrue, Killed, AnswerFits,
         KillIsBlamed, ResultFits, WatchIsJoined, PlaceOK, FlagsOK, OutcomeOK,
         AtTheEnd, Final, Repeatable
<1> QED
  BY <1>1, <1>2, <1>3, <1>4, <1>5, <1>6, <1>7, <1>8, <1>9 DEF ExecutionInv

\* The watching goroutine kills.
LEMMA TreeIsKilled ==
    ASSUME ExecutionInv,
           KillTree \/ KillTreeFinally \/ ForceEnd
    PROVE  ExecutionInv'
<1> USE DEF ExecutionInv, KillTree, KillTreeFinally, ForceEnd, GroupIsGone,
            ProcessWaitDelay, processVars, answerVars
<1>1. PlaceOK'
  BY DEF PlaceOK, BeforeStart, AtTheEnd
<1>2. FlagsOK'
  BY DEF FlagsOK
<1>3. OutcomeOK'
  BY DEF OutcomeOK, PlaceOK, Final, Repeatable, ResultFits, AnswerFits
<1>4. ReasonIsKept'
  BY DEF ReasonIsKept
<1>5. WatchIsJoined'
  BY DEF WatchIsJoined, BeforeStart, AtTheEnd
<1>6. KillIsBlamed'
  BY DEF KillIsBlamed, Killed, WatchIsJoined, BeforeStart, AtTheEnd
<1>7. ResultFits'
  BY DEF ResultFits, WatchIsJoined, KillIsBlamed, PlaceOK, BeforeStart,
         AtTheEnd
<1>8. AnswerFits'
  BY DEF AnswerFits, Final, ResultFits, KillIsBlamed, WatchIsJoined,
         PlaceOK, ReasonIsKept, BeforeStart, AtTheEnd
<1>9. VerdictIsTrue'
  BY <1>6, <1>8 DEF VerdictIsTrue, Killed, AnswerFits, KillIsBlamed,
         ResultFits, WatchIsJoined, PlaceOK, FlagsOK, OutcomeOK, AtTheEnd,
         Final, Repeatable
<1> QED
  BY <1>1, <1>2, <1>3, <1>4, <1>5, <1>6, <1>7, <1>8, <1>9 DEF ExecutionInv

\* The context is over.
LEMMA ContextEnds ==
    ASSUME ExecutionInv,
           CancelExecution \/ Deadline
    PROVE  ExecutionInv'
<1> USE DEF ExecutionInv, CancelExecution, Deadline, processVars, answerVars
<1>1. PlaceOK'
  BY DEF PlaceOK, BeforeStart, AtTheEnd
<1>2. FlagsOK'
  BY DEF FlagsOK
<1>3. OutcomeOK'
  BY DEF OutcomeOK, PlaceOK, Final, Repeatable, ResultFits, AnswerFits
<1>4. ReasonIsKept'
  BY DEF ReasonIsKept
<1>5. WatchIsJoined'
  BY DEF WatchIsJoined, BeforeStart, AtTheEnd
<1>6. KillIsBlamed'
  BY DEF KillIsBlamed, Killed, WatchIsJoined, BeforeStart, AtTheEnd
<1>7. ResultFits'
  <2>1. CASE CancelExecution
    BY <2>1 DEF ResultFits, WatchIsJoined, KillIsBlamed, PlaceOK,
           BeforeStart, AtTheEnd, processVars, answerVars, CancelExecution
  <2>2. CASE Deadline
    BY <2>2 DEF ResultFits, WatchIsJoined, KillIsBlamed, PlaceOK,
           BeforeStart, AtTheEnd, processVars, answerVars, Deadline
  <2> QED
    BY <2>1, <2>2
<1>8. AnswerFits'
  BY DEF AnswerFits, Final, ResultFits, KillIsBlamed, WatchIsJoined,
         PlaceOK, ReasonIsKept, BeforeStart, AtTheEnd
<1>9. VerdictIsTrue'
  BY <1>6, <1>8 DEF VerdictIsTrue, Killed, AnswerFits, KillIsBlamed,
         ResultFits, WatchIsJoined, PlaceOK, FlagsOK, OutcomeOK, AtTheEnd,
         Final, Repeatable
<1> QED
  BY <1>1, <1>2, <1>3, <1>4, <1>5, <1>6, <1>7, <1>8, <1>9 DEF ExecutionInv

\* The program, what it forks, and the others.
LEMMA WorldMoves ==
    ASSUME ExecutionInv,
           OthersMove \/ Exits \/ Forks \/ ChildEnds \/ WriteFails
                      \/ UNCHANGED executionVars
    PROVE  ExecutionInv'
<1> USE DEF ExecutionInv, OthersMove, Exits, Forks, ChildEnds, WriteFails,
            executionVars, processVars, answerVars
<1>a. (cancelled' = cancelled) /\ (over' = over) /\ (blamed' = blamed) /\ (watch' = watch)
  OBVIOUS
<1>b. kind' = kind /\ at' = at
  OBVIOUS
<1>1. PlaceOK'
  <2>1. leader' \in {leader, "zero", "code", "listed"} /\ child' \in {child, "none", "group", "away"}
    OBVIOUS
  <2>2. unwritten' = unwritten \/ (unwritten < 2 /\ unwritten' = unwritten + 1)
    OBVIOUS
  <2>3. unwritten' \in 0..2
    BY <2>2 DEF PlaceOK
  <2> QED
    BY <1>a, <1>b, <2>1, <2>3, Zenon DEF PlaceOK
<1>c. piped' \in BOOLEAN
  <2>1. CASE WriteFails
    BY <2>1, Zenon DEF FlagsOK
  <2> QED
    BY <2>1 DEF FlagsOK
<1>2. FlagsOK'
  BY <1>a, <1>c, Zenon DEF FlagsOK
<1>3. OutcomeOK'
  BY DEF OutcomeOK, PlaceOK, Final, Repeatable, ResultFits, AnswerFits
<1>4. ReasonIsKept'
  BY <1>a, Zenon DEF ReasonIsKept
<1>5. WatchIsJoined'
  BY DEF WatchIsJoined, BeforeStart, AtTheEnd
<1>6. KillIsBlamed'
  <2>1. CASE WriteFails
    BY <2>1, Zenon DEF KillIsBlamed, Killed
  <2> QED
    BY <1>a, <1>b, <2>1 DEF KillIsBlamed, Killed, WatchIsJoined, BeforeStart, AtTheEnd
<1>7. ResultFits'
  <2>1. CASE OthersMove
    BY <2>1 DEF ResultFits, WatchIsJoined, KillIsBlamed, PlaceOK,
           BeforeStart, AtTheEnd, processVars, answerVars, OthersMove
  <2>2. CASE Exits
    BY <2>2 DEF ResultFits, WatchIsJoined, KillIsBlamed, PlaceOK,
           BeforeStart, AtTheEnd, processVars, answerVars, Exits
  <2>3. CASE Forks
    BY <2>3 DEF ResultFits, WatchIsJoined, KillIsBlamed, PlaceOK,
           BeforeStart, AtTheEnd, processVars, answerVars, Forks
  <2>4. CASE ChildEnds
    BY <2>4 DEF ResultFits, WatchIsJoined, KillIsBlamed, PlaceOK,
           BeforeStart, AtTheEnd, processVars, answerVars, ChildEnds
  <2>5. CASE UNCHANGED executionVars
    BY <2>5 DEF ResultFits, WatchIsJoined, KillIsBlamed, PlaceOK,
           BeforeStart, AtTheEnd, executionVars
  <2>6. CASE WriteFails
    BY <2>6 DEF ResultFits, WatchIsJoined, KillIsBlamed, PlaceOK, FlagsOK,
           BeforeStart, AtTheEnd, answerVars, WriteFails
  <2> QED
    BY <2>1, <2>2, <2>3, <2>4, <2>5, <2>6
<1>8. AnswerFits'
  BY DEF AnswerFits, Final, ResultFits, KillIsBlamed, WatchIsJoined,
         PlaceOK, ReasonIsKept, BeforeStart, AtTheEnd
<1>9. VerdictIsTrue'
  <2>1. CASE OthersMove
    BY <1>6, <1>8, <2>1 DEF VerdictIsTrue, Killed, AnswerFits,
           KillIsBlamed, ResultFits, WatchIsJoined, PlaceOK, FlagsOK,
           OutcomeOK, AtTheEnd, Final, Repeatable, processVars, answerVars,
           OthersMove
  <2>2. CASE Exits
    BY <1>6, <1>8, <2>2 DEF VerdictIsTrue, Killed, AnswerFits,
           KillIsBlamed, ResultFits, WatchIsJoined, PlaceOK, FlagsOK,
           OutcomeOK, AtTheEnd, Final, Repeatable, processVars, answerVars,
           Exits
  <2>3. CASE Forks
    BY <1>6, <1>8, <2>3 DEF VerdictIsTrue, Killed, AnswerFits,
           KillIsBlamed, ResultFits, WatchIsJoined, PlaceOK, FlagsOK,
           OutcomeOK, AtTheEnd, Final, Repeatable, processVars, answerVars,
           Forks
  <2>4. CASE ChildEnds
    BY <1>6, <1>8, <2>4 DEF VerdictIsTrue, Killed, AnswerFits,
           KillIsBlamed, ResultFits, WatchIsJoined, PlaceOK, FlagsOK,
           OutcomeOK, AtTheEnd, Final, Repeatable, processVars, answerVars,
           ChildEnds
  <2>5. CASE UNCHANGED executionVars
    BY <1>6, <1>8, <2>5 DEF VerdictIsTrue, Killed, AnswerFits,
           KillIsBlamed, ResultFits, WatchIsJoined, PlaceOK, FlagsOK,
           OutcomeOK, AtTheEnd, Final, Repeatable, executionVars
  <2>6. CASE WriteFails
    BY <1>6, <1>8, <2>6 DEF VerdictIsTrue, Killed, AnswerFits,
           KillIsBlamed, ResultFits, WatchIsJoined, PlaceOK, FlagsOK,
           OutcomeOK, AtTheEnd, Final, Repeatable, answerVars, WriteFails
  <2> QED
    BY <2>1, <2>2, <2>3, <2>4, <2>5, <2>6
<1> QED
  BY <1>1, <1>2, <1>3, <1>4, <1>5, <1>6, <1>7, <1>8, <1>9 DEF ExecutionInv

\* The scheduler decides.
LEMMA SchedulerConcludes ==
    ASSUME ExecutionInv,
           Conclude
    PROVE  ExecutionInv'
<1> USE DEF  ExecutionInv, Conclude, processVars
<1>1. PlaceOK'
  BY DEF PlaceOK, BeforeStart, AtTheEnd
<1>2. FlagsOK'
  BY DEF FlagsOK
<1>3. OutcomeOK'
  BY DEF OutcomeOK, PlaceOK, Final, Repeatable, ResultFits, AnswerFits
<1>4. ReasonIsKept'
  BY DEF ReasonIsKept
<1>5. WatchIsJoined'
  BY DEF WatchIsJoined, BeforeStart, AtTheEnd
<1>6. KillIsBlamed'
  BY DEF KillIsBlamed, Killed, WatchIsJoined, BeforeStart, AtTheEnd
<1>7. ResultFits'
  BY DEF ResultFits, WatchIsJoined, KillIsBlamed, PlaceOK, BeforeStart,
         AtTheEnd
<1>8. AnswerFits'
  BY DEF AnswerFits, Final, ResultFits, KillIsBlamed, WatchIsJoined,
         PlaceOK, ReasonIsKept, BeforeStart, AtTheEnd
<1>9. VerdictIsTrue'
  BY <1>6, <1>8 DEF VerdictIsTrue, Killed, AnswerFits, KillIsBlamed,
         ResultFits, WatchIsJoined, PlaceOK, FlagsOK, OutcomeOK, AtTheEnd,
         Final, Repeatable
<1> QED
  BY <1>1, <1>2, <1>3, <1>4, <1>5, <1>6, <1>7, <1>8, <1>9 DEF ExecutionInv

LEMMA ExecutionInvStep == ExecutionInv /\ [ExecutionNext]_executionVars => ExecutionInv'
BY HandlerGoesOn, HandlerAnswers, ProgramIsRun, RunIsOver, TreeIsKilled, ContextEnds, WorldMoves,
   SchedulerConcludes
   DEF ExecutionNext, HandlerStep

\* The verdict of an execution is true of it, and a tree that was killed is gone.
THEOREM VerdictsAreTrue == ExecutionSpec => []VerdictIsTrue
<1>1. ExecutionInv => VerdictIsTrue
  BY DEF ExecutionInv
<1> QED
  BY <1>1, ExecutionInvInit, ExecutionInvStep, PTL DEF ExecutionSpec
-----------------------------------------------------------------------------
(***************************************************************************)
(* Retry.  The arithmetic of powers comes first: the provers know nothing  *)
(* of 2^n, but the library knows that it counts subsets.                   *)
(***************************************************************************)

\* Powers of two are numbers of subsets, which is how the library knows them.
LEMMA Subsets ==
    ASSUME NEW n \in Nat, NEW S, IsFiniteSet(S), Cardinality(S) = n
    PROVE  IsFiniteSet(SUBSET S) /\ Cardinality(SUBSET S) = Pow2(n)
BY FS_SUBSET DEF Pow2

LEMMA Pow2Type == ASSUME NEW n \in Nat PROVE Pow2(n) \in Nat \ {0}
<1>1. IsFiniteSet(1..n) /\ Cardinality(1..n) = n
  BY FS_Interval
<1>2. IsFiniteSet(SUBSET (1..n)) /\ Cardinality(SUBSET (1..n)) = Pow2(n)
  BY <1>1, Subsets
<1>3. Pow2(n) \in Nat
  BY <1>2, FS_CardinalityType
<1>4. {} \in SUBSET (1..n)
  OBVIOUS
<1>5. Pow2(n) # 0
  BY <1>2, <1>4, FS_EmptySet
<1> QED
  BY <1>3, <1>5

LEMMA Pow2Sum ==
    ASSUME NEW a \in Nat, NEW b \in Nat
    PROVE  Pow2(a + b) = Pow2(a) * Pow2(b)
<1> DEFINE A == 1..a
           B == a + 1..a + b
           C == 1..a + b
           f == [s \in SUBSET C |-> <<s \cap A, s \cap B>>]
<1>1. A \cup B = C /\ A \cap B = {}
  OBVIOUS
<1>2. f \in Bijection(SUBSET C, (SUBSET A) \X (SUBSET B))
  <2>1. f \in [SUBSET C -> (SUBSET A) \X (SUBSET B)]
    BY <1>1
  <2>2. ASSUME NEW s \in SUBSET C, NEW t \in SUBSET C, f[s] = f[t] PROVE s = t
    BY <1>1, <2>2
  <2>3. ASSUME NEW p \in (SUBSET A) \X (SUBSET B) PROVE \E s \in SUBSET C : f[s] = p
    <3>1. p[1] \cup p[2] \in SUBSET C
      BY <1>1
    <3>2. (p[1] \cup p[2]) \cap A = p[1] /\ (p[1] \cup p[2]) \cap B = p[2]
      BY <1>1
    <3>3. f[p[1] \cup p[2]] = p
      BY <3>1, <3>2
    <3> QED
      BY <3>1, <3>3
  <2> QED
    BY <2>1, <2>2, <2>3 DEF Bijection, Injection, Surjection, IsInjective
<1>3. /\ IsFiniteSet(A) /\ Cardinality(A) = a
      /\ IsFiniteSet(B) /\ Cardinality(B) = b
      /\ IsFiniteSet(C) /\ Cardinality(C) = a + b
  <2>1. IsFiniteSet(A) /\ Cardinality(A) = a
    BY FS_Interval
  <2>2. a + b \in Nat /\ IsFiniteSet(C) /\ Cardinality(C) = a + b
    BY FS_Interval
  <2>3. /\ IsFiniteSet(B)
        /\ Cardinality(B) = IF a + 1 > a + b THEN 0 ELSE a + b - (a + 1) + 1
    BY FS_Interval
  <2> QED
    BY <2>1, <2>2, <2>3
<1>4. /\ IsFiniteSet(SUBSET A) /\ Cardinality(SUBSET A) = Pow2(a)
      /\ IsFiniteSet(SUBSET B) /\ Cardinality(SUBSET B) = Pow2(b)
      /\ IsFiniteSet(SUBSET C) /\ Cardinality(SUBSET C) = Pow2(a + b)
  <2> a + b \in Nat
    OBVIOUS
  <2> HIDE DEF A, B, C
  <2> QED
    BY <1>3, Subsets
<1>6. /\ IsFiniteSet((SUBSET A) \X (SUBSET B))
      /\ Cardinality((SUBSET A) \X (SUBSET B)) = Pow2(a) * Pow2(b)
  BY <1>4, FS_Product
<1>7. ExistsBijection(SUBSET C, (SUBSET A) \X (SUBSET B))
  BY <1>2 DEF ExistsBijection
<1> HIDE DEF A, B, C, f
<1> QED
  BY <1>4, <1>6, <1>7, FS_Bijection

LEMMA Pow2Double == ASSUME NEW n \in Nat PROVE Pow2(n + 1) = 2 * Pow2(n)
<1>1. Pow2(1) = 2
  BY DEF Pow2
<1> QED
  BY <1>1, Pow2Sum, Pow2Type

\* A power that fits bounds its exponent.
LEMMA Pow2Grows ==
    ASSUME NEW a \in Nat, NEW b \in Nat, a <= b
    PROVE  Pow2(a) <= Pow2(b)
<1>1. b - a \in Nat /\ b = a + (b - a)
  OBVIOUS
<1>2. Pow2(b) = Pow2(a) * Pow2(b - a)
  BY <1>1, Pow2Sum
<1>3. Pow2(a) \in Nat \ {0} /\ Pow2(b - a) \in Nat \ {0}
  BY <1>1, Pow2Type
<1>4. \A x \in Nat, y \in Nat \ {0} : x <= x * y
  OBVIOUS
<1> QED
  BY <1>2, <1>3, <1>4

LEMMA HalfType == Half \in Nat \ {0}
<1>1. Width - 1 \in Nat
  BY RetryAssumption
<1> QED
  BY <1>1, Pow2Type DEF Half

\* Wrapping yields a Duration, and leaves a Duration as it is.
LEMMA WrapFits ==
    ASSUME NEW x \in Int
    PROVE  /\ Wrap(x) \in -Half..Half - 1
           /\ x \in -Half..Half - 1 => Wrap(x) = x
<1> DEFINE h == Half
<1>1. h \in Nat \ {0}
  BY HalfType
<1> HIDE DEF h
<1>2. ((x + h) % (2 * h)) \in 0..2 * h - 1
  BY <1>1
<1>3. ASSUME x \in -h..h - 1 PROVE (x + h) % (2 * h) = x + h
  BY <1>1, <1>3
<1>4. Wrap(x) = ((x + h) % (2 * h)) - h
  BY DEF Wrap, h
<1>5. /\ Wrap(x) \in -h..h - 1
      /\ x \in -h..h - 1 => Wrap(x) = x
  BY <1>1, <1>2, <1>3, <1>4
<1> QED
  BY <1>5 DEF h

-----------------------------------------------------------------------------
RetryTypeOK ==
    /\ retried \in [delay : -Half..Half - 1, count : Nat, max : Nat, repeats : BOOLEAN,
                    status : {"pending", "failed", "success"}]
    /\ maxDelay \in MaxDelays
    /\ asked \in [base : Int, doublings : Nat]
    /\ waited \in [count : Nat, limit : Nat, fits : BOOLEAN, product : Int, wait : Int]

\* As long as the delay asked for fits, it is what the job has.
DelayIsExact ==
    asked.base >= 0 /\ asked.base * Pow2(asked.doublings) < Half =>
        retried.delay = asked.base * Pow2(asked.doublings)

\* A job that still repeats has not been retried.
RepeatsUntried == retried.repeats => ~waited.fits

RetryInv == RetryTypeOK /\ DelayIsExact /\ RepeatsUntried /\ BackoffHolds

\* The jitter on a product that is not almost the smallest does not wrap.
LEMMA JitterFits ==
    ASSUME NEW d \in -Half..Half - 1, -5 * Half <= 6 * d, d + d \div 5 < Half,
           NEW w \in Jittered(d)
    PROVE  /\ w \in Int
           /\ d >= 0 => w >= d /\ w <= d + d \div 5
           /\ d < 0 => w <= d
<1>1. PICK x \in IF d >= 0 THEN 0..(d \div 5) ELSE -((-d) \div 5)..0 : w = Wrap(d + x)
  BY DEF Jittered
<1>2. Half \in Nat \ {0}
  BY HalfType
<1>3. CASE d >= 0
  <2>1. x \in Int /\ 0 <= x /\ x <= d \div 5
    BY <1>1, <1>3
  <2>2. d + x \in -Half..Half - 1
    BY <1>2, <1>3, <2>1
  <2> QED
    BY <1>1, <1>3, <2>1, <2>2, WrapFits
<1>4. CASE d < 0
  <2>1. x \in Int /\ x <= 0 /\ -((-d) \div 5) <= x
    BY <1>1, <1>4
  <2>2. 5 * ((-d) \div 5) <= -d
    BY <1>4
  <2>3. d + x \in -Half..Half - 1
    BY <1>2, <1>4, <2>1, <2>2
  <2> QED
    BY <1>1, <1>4, <2>1, <2>3, WrapFits
<1> QED
  BY <1>3, <1>4, <1>2

LEMMA LimitType ==
    ASSUME RetryTypeOK
    PROVE  maxDelay \in Nat /\ maxDelay + maxDelay \div 5 < Half
BY RetryAssumption DEF RetryTypeOK

\* The first half of BackoffHolds for one wait: the limit is kept.
LEMMA LimitIsKept ==
    ASSUME RetryTypeOK, NEW p \in -Half..Half - 1, NEW w \in NextRetry(p)
    PROVE  /\ w \in Int
           /\ maxDelay > 0 /\ 6 * p >= -5 * Half => w <= maxDelay + maxDelay \div 5
<1> DEFINE d == Limited(p)
<1>0. Half \in Nat \ {0} /\ maxDelay \in Nat /\ maxDelay + maxDelay \div 5 < Half
  BY HalfType, LimitType
<1>1. w \in Jittered(d)
  BY DEF NextRetry
<1>2. d \in -Half..Half - 1
  BY <1>0 DEF Limited
<1>3. w \in Int
  <2>1. PICK x \in IF d >= 0 THEN 0..(d \div 5) ELSE -((-d) \div 5)..0 : w = Wrap(d + x)
    BY <1>1 DEF Jittered
  <2>2. d + x \in Int
    BY <1>2, <1>0
  <2>3. Wrap(d + x) \in -Half..Half - 1
    BY <2>2, WrapFits
  <2> QED
    BY <2>1, <2>3, <1>0
<1>4. ASSUME maxDelay > 0, 6 * p >= -5 * Half PROVE w <= maxDelay + maxDelay \div 5
  <2>1. d <= maxDelay /\ (d = p \/ d = maxDelay)
    BY <1>0, <1>4 DEF Limited
  <2>2. d + d \div 5 <= maxDelay + maxDelay \div 5
    BY <1>0, <1>2, <2>1
  <2>3. -5 * Half <= 6 * d
    BY <1>0, <1>4, <2>1
  <2>4. d + d \div 5 < Half
    BY <1>0, <1>2, <2>2
  <2>5. w \in Int /\ (d >= 0 => w <= d + d \div 5) /\ (d < 0 => w <= d)
    BY <1>1, <1>2, <2>3, <2>4, JitterFits
  <2> HIDE DEF d
  <2> QED
    BY <1>0, <1>2, <2>1, <2>2, <2>5
<1> QED
  BY <1>3, <1>4

\* The second half: what was asked for is kept.
LEMMA DelayIsKept ==
    ASSUME RetryTypeOK, DelayIsExact, ProductFits,
           NEW p \in Products, NEW w \in NextRetry(p)
    PROVE  \/ w >= asked.base * Pow2(retried.count)
           \/ maxDelay > 0 /\ w >= maxDelay
<1> DEFINE b == asked.base
           k == asked.doublings
           c == retried.count
<1>1. /\ b \in Nat /\ k \in Nat /\ c \in Nat /\ k + c \in Nat
      /\ Half \in Nat \ {0} /\ maxDelay \in Nat /\ maxDelay + maxDelay \div 5 < Half
  BY HalfType, LimitType DEF RetryTypeOK, ProductFits
<1>2. /\ Pow2(k) \in Nat \ {0} /\ Pow2(c) \in Nat \ {0}
      /\ Pow2(k + c) = Pow2(k) * Pow2(c)
  BY <1>1, Pow2Type, Pow2Sum
<1>3. 6 * (b * (Pow2(k) * Pow2(c))) < 5 * Half
  BY <1>2 DEF ProductFits
<1> DEFINE q == b * Pow2(k)
           r == q * Pow2(c)
<1>4. /\ q \in Nat /\ r \in Nat /\ q <= r /\ 6 * r < 5 * Half
      /\ b * Pow2(c) <= r
  <2>1. \A x \in Nat, y, z \in Nat \ {0} :
          /\ x * y \in Nat /\ (x * y) * z \in Nat
          /\ x * y <= (x * y) * z /\ x * z <= (x * y) * z
          /\ x * (y * z) = (x * y) * z
    <3> TAKE x \in Nat, y \in Nat \ {0}, z \in Nat \ {0}
    <3>1. \A m \in Nat, n \in Nat \ {0} : m * n \in Nat /\ m <= m * n
      OBVIOUS
    <3>2. x * y \in Nat /\ (x * y) * z \in Nat /\ x * y <= (x * y) * z
      BY <3>1
    <3>3. (x * y) * z = (x * z) * y /\ x * z \in Nat
      BY <3>1
    <3>4. x * z <= (x * y) * z
      BY <3>1, <3>3
    <3> QED
      BY <3>2, <3>4
  <2> QED
    BY <1>1, <1>2, <1>3, <2>1
<1>5. retried.delay = q
  BY <1>1, <1>4 DEF DelayIsExact
<1>6. p = r
  <2>1. PICK f \in Factor(c) : p = Wrap(q * f)
    BY <1>5 DEF Products
  <2>2. CASE c < Width - 1
    <3>1. f = Pow2(c)
      BY <2>1, <2>2 DEF Factor
    <3>2. r \in -Half..Half - 1
      BY <1>1, <1>4
    <3> QED
      BY <2>1, <3>1, <3>2, WrapFits
  <2>3. CASE ~(c < Width - 1)
    <3>1. Width - 1 \in Nat /\ Width - 1 <= c
      BY <1>1, <2>3, RetryAssumption
    <3>2. Half <= Pow2(c)
      BY <1>1, <3>1, Pow2Grows DEF Half
    <3>3. q = 0
      <4>1. SUFFICES ASSUME q # 0 PROVE FALSE
        OBVIOUS
      <4>2. q >= 1 /\ \A x, y \in Nat : x >= 1 => y <= x * y
        BY <1>4, <4>1
      <4>3. Pow2(c) <= r
        BY <1>2, <1>4, <4>2
      <4> QED
        BY <1>1, <1>2, <1>4, <3>2, <4>3
    <3>4. f \in Int
      BY <1>1, <2>1, <2>3 DEF Factor
    <3>5. q * f = 0 /\ r = 0
      BY <1>2, <3>3, <3>4
    <3>6. 0 \in -Half..Half - 1
      BY <1>1
    <3> QED
      BY <2>1, <3>5, <3>6, WrapFits
  <2> QED
    BY <2>2, <2>3
<1> DEFINE d == Limited(p)
<1> HIDE DEF q, r
<1>7. d = r \/ (maxDelay > 0 /\ d = maxDelay)
  BY <1>6 DEF Limited
<1>8. d \in -Half..Half - 1 /\ d >= 0 /\ -5 * Half <= 6 * d /\ d + d \div 5 < Half
  <2>1. r + r \div 5 < Half
    BY <1>1, <1>4
  <2> HIDE DEF d
  <2> QED
    BY <1>1, <1>4, <1>7, <2>1
<1>9. w \in Jittered(d)
  BY DEF NextRetry
<1>10. w \in Int /\ w >= d
  <2> HIDE DEF d
  <2> QED
    BY <1>8, <1>9, JitterFits
<1> HIDE DEF d
<1> QED
  BY <1>1, <1>2, <1>4, <1>7, <1>10

-----------------------------------------------------------------------------
LEMMA RetryInvInit == RetryInit => RetryInv
<1> SUFFICES ASSUME RetryInit PROVE RetryInv
  OBVIOUS
<1>1. Bases \subseteq -Half..Half - 1 /\ MaxRetries \in Nat /\ Half \in Nat \ {0}
  BY HalfType, RetryAssumption
<1>2. RetryTypeOK
  <2> DEFINE D == -Half..Half - 1
             N == 0..MaxRetries
  <2>1. Bases \subseteq D /\ N \subseteq Nat
    BY <1>1
  <2> HIDE DEF D, N
  <2>2. retried \in [delay : D, count : Nat, max : Nat, repeats : BOOLEAN,
                     status : {"pending", "failed", "success"}]
    <3>1. retried \in [delay : Bases, count : {0}, max : N, repeats : BOOLEAN,
                       status : {"pending"}]
      BY DEF RetryInit, N
    <3>2. /\ retried = [delay |-> retried.delay, count |-> retried.count,
                        max |-> retried.max, repeats |-> retried.repeats,
                        status |-> retried.status]
          /\ retried.delay \in Bases /\ retried.count = 0 /\ retried.max \in N
          /\ retried.repeats \in BOOLEAN /\ retried.status = "pending"
      BY <3>1
    <3>3. retried.delay \in D /\ retried.max \in Nat
      BY <2>1, <3>2
    <3> QED
      BY <3>2, <3>3
  <2>3. asked \in [base : Int, doublings : Nat]
    <3>1. retried.delay \in Int
      BY <1>1, <2>2 DEF D
    <3> QED
      BY <3>1 DEF RetryInit
  <2> QED
    BY <2>2, <2>3 DEF RetryInit, RetryTypeOK, D
<1>3. DelayIsExact
  <2>1. Pow2(0) = 1
    BY DEF Pow2
  <2>2. retried.delay \in Int /\ asked.base = retried.delay /\ asked.doublings = 0
    BY <1>1, <1>2 DEF RetryInit, RetryTypeOK
  <2> QED
    BY <2>1, <2>2 DEF DelayIsExact
<1>4. RepeatsUntried /\ BackoffHolds
  BY DEF RetryInit, RepeatsUntried, BackoffHolds
<1> QED
  BY <1>2, <1>3, <1>4 DEF RetryInv

LEMMA ProductType ==
    ASSUME RetryTypeOK, NEW p \in Products
    PROVE  p \in -Half..Half - 1
<1>1. PICK f \in Factor(retried.count) : p = Wrap(retried.delay * f)
  BY DEF Products
<1>2. retried.delay \in Int /\ retried.count \in Nat /\ Half \in Nat
  BY HalfType DEF RetryTypeOK
<1>3. f \in Int
  BY <1>1, <1>2, Pow2Type DEF Factor
<1> QED
  BY <1>1, <1>2, <1>3, WrapFits

LEMMA RetryInvStep == RetryInv /\ [RetryNext]_retryVars => RetryInv'
<1> SUFFICES ASSUME RetryInv, [RetryNext]_retryVars PROVE RetryInv'
  OBVIOUS
<1> USE DEF RetryInv
<1>1. CASE HandleFailure
  <2>1. PICK p \in Products : \E w \in NextRetry(p) :
          waited' = [count |-> retried.count, limit |-> maxDelay, fits |-> ProductFits,
                     product |-> p, wait |-> w]
    BY <1>1 DEF HandleFailure
  <2>2. PICK w \in NextRetry(p) :
          waited' = [count |-> retried.count, limit |-> maxDelay, fits |-> ProductFits,
                     product |-> p, wait |-> w]
    BY <2>1
  <2>3. p \in -Half..Half - 1
    BY ProductType
  <2>4. /\ w \in Int
        /\ maxDelay > 0 /\ 6 * p >= -5 * Half => w <= maxDelay + maxDelay \div 5
    BY <2>3, LimitIsKept
  <2>5. Half \in Nat \ {0} /\ maxDelay \in Nat
    BY HalfType, LimitType
  <2>6. /\ retried \in [delay : -Half..Half - 1, count : Nat, max : Nat, repeats : BOOLEAN,
                        status : {"pending", "failed", "success"}]
        /\ asked \in [base : Int, doublings : Nat]
    BY DEF RetryTypeOK
  <2>7. /\ retried' = CloneForRetry
        /\ asked' = [asked EXCEPT !.doublings = @ + 1] /\ maxDelay' = maxDelay
    BY <1>1 DEF HandleFailure
  <2>8. 2 * retried.delay \in Int /\ Wrap(2 * retried.delay) \in -Half..Half - 1
    BY <2>5, <2>6, WrapFits
  <2>9. RetryTypeOK'
    <3>1. retried' \in [delay : -Half..Half - 1, count : Nat, max : Nat, repeats : BOOLEAN,
                        status : {"pending", "failed", "success"}]
      <4> DEFINE D == -Half..Half - 1
      <4> HIDE DEF D
      <4>1. retried.count + 1 \in Nat /\ Wrap(2 * retried.delay) \in D
        BY <2>6, <2>8 DEF D
      <4>2. retried' = [[[retried EXCEPT !.count = retried.count + 1]
                            EXCEPT !.delay = Wrap(2 * retried.delay)] EXCEPT !.repeats = FALSE]
        BY <2>6, <2>7 DEF CloneForRetry
      <4> QED
        BY <2>6, <4>1, <4>2 DEF D
    <3>2. asked' \in [base : Int, doublings : Nat]
      BY <2>6, <2>7
    <3>3. maxDelay' \in MaxDelays
      BY <2>7 DEF RetryTypeOK
    <3>4. ProductFits \in BOOLEAN
      BY DEF ProductFits
    <3>5. waited' \in [count : Nat, limit : Nat, fits : BOOLEAN, product : Int, wait : Int]
      BY <2>2, <2>3, <2>4, <2>5, <2>6, <3>4
    <3> QED
      BY <3>1, <3>2, <3>3, <3>5 DEF RetryTypeOK
  <2>10. DelayIsExact'
    <3> DEFINE b == asked.base
               q == Pow2(asked.doublings)
    <3>1. /\ b \in Int /\ asked.doublings \in Nat /\ q \in Nat \ {0}
          /\ Pow2(asked.doublings + 1) = 2 * q
      BY <2>6, Pow2Type, Pow2Double
    <3>2. /\ asked'.base = b /\ Pow2(asked'.doublings) = 2 * q
          /\ retried'.delay = Wrap(2 * retried.delay)
      BY <2>6, <2>7, <3>1 DEF CloneForRetry
    <3> HIDE DEF q, b
    <3>3. ASSUME b >= 0, b * (2 * q) < Half PROVE Wrap(2 * retried.delay) = b * (2 * q)
      <4>1. b * q \in Nat /\ b * (2 * q) = 2 * (b * q)
        <5>1. \A m, n \in Nat : m * n \in Nat /\ m * (2 * n) = 2 * (m * n)
          OBVIOUS
        <5> QED
          BY <3>1, <3>3, <5>1
      <4>2. b * q < Half /\ b * (2 * q) \in -Half..Half - 1
        BY <2>5, <3>3, <4>1
      <4>3. retried.delay = b * q
        BY <3>3, <4>2 DEF DelayIsExact, b, q
      <4> QED
        BY <4>1, <4>2, <4>3, WrapFits
    <3> QED
      BY <3>2, <3>3 DEF DelayIsExact
  <2>11. RepeatsUntried'
    BY <2>6, <2>7 DEF RepeatsUntried, CloneForRetry
  <2>12. BackoffHolds'
    <3>1. Half' = Half /\ Pow2(waited'.count) = Pow2(retried.count)
      BY <2>2 DEF Half
    <3>2. /\ waited'.limit = maxDelay /\ waited'.product = p /\ waited'.wait = w
          /\ waited'.fits = ProductFits /\ waited'.count = retried.count
          /\ asked'.base = asked.base
      BY <2>2, <2>6, <2>7
    <3>3. ProductFits => \/ w >= asked.base * Pow2(retried.count)
                         \/ maxDelay > 0 /\ w >= maxDelay
      BY DelayIsKept
    <3> QED
      BY <2>4, <3>2, <3>3 DEF BackoffHolds
  <2> QED
    BY <2>9, <2>10, <2>11, <2>12
<1>2. CASE MarkFailed
  <2>1. /\ retried' = [retried EXCEPT !.status = "failed"]
        /\ UNCHANGED <<maxDelay, byHand, asked, waited>>
    BY <1>2 DEF MarkFailed
  <2> QED
    BY <2>1 DEF RetryTypeOK, DelayIsExact, RepeatsUntried, BackoffHolds
<1>3. CASE HandleSuccess
  <2>1. CASE retried.repeats
    <3>1. /\ retried' = [retried EXCEPT !.count = 0, !.delay = 0]
          /\ asked' = [base |-> 0, doublings |-> 0] /\ UNCHANGED <<maxDelay, waited>>
      BY <1>3, <2>1 DEF HandleSuccess
    <3>2. RetryTypeOK'
      <4> DEFINE D == -Half..Half - 1
      <4>1. 0 \in D
        BY HalfType
      <4> HIDE DEF D
      <4>2. retried \in [delay : D, count : Nat, max : Nat, repeats : BOOLEAN,
                         status : {"pending", "failed", "success"}]
        BY DEF RetryTypeOK, D
      <4>3. retried' \in [delay : D, count : Nat, max : Nat, repeats : BOOLEAN,
                          status : {"pending", "failed", "success"}]
        BY <3>1, <4>1, <4>2
      <4> QED
        BY <3>1, <4>3 DEF RetryTypeOK, D
    <3>3. ~waited.fits /\ Pow2(0) \in Nat
      BY <2>1, Pow2Type DEF RepeatsUntried
    <3> QED
      BY <3>1, <3>2, <3>3 DEF RetryTypeOK, DelayIsExact, RepeatsUntried, BackoffHolds
  <2>2. CASE ~retried.repeats
    <3>1. /\ retried' = [retried EXCEPT !.status = "success"]
          /\ UNCHANGED <<maxDelay, asked, waited>>
      BY <1>3, <2>2 DEF HandleSuccess
    <3> QED
      BY <3>1 DEF RetryTypeOK, DelayIsExact, RepeatsUntried, BackoffHolds
  <2> QED
    BY <2>1, <2>2
<1>4. CASE RetryJob
  <2>1. /\ retried' = [retried EXCEPT !.count = 0, !.status = "pending"]
        /\ UNCHANGED <<maxDelay, asked, waited>>
    BY <1>4 DEF RetryJob
  <2> QED
    BY <2>1 DEF RetryTypeOK, DelayIsExact, RepeatsUntried, BackoffHolds
<1>5. CASE SetRetryPolicy
  BY <1>5 DEF SetRetryPolicy, RetryTypeOK, DelayIsExact, RepeatsUntried, BackoffHolds
<1>6. CASE UNCHANGED retryVars
  BY <1>6 DEF retryVars, RetryTypeOK, DelayIsExact, RepeatsUntried, BackoffHolds
<1> QED
  BY <1>1, <1>2, <1>3, <1>4, <1>5, <1>6 DEF RetryNext

\* A wait is what was asked for, or the limit, for Durations of any width.
THEOREM WaitsAreBounded == RetrySpec => []BackoffHolds
<1>1. RetryInv => BackoffHolds
  BY DEF RetryInv
<1> QED
  BY <1>1, RetryInvInit, RetryInvStep, PTL DEF RetrySpec
-----------------------------------------------------------------------------
(* The streams: a subscription has an owner until it is given back.        *)

Upgrades == {"none", "upgrading", "registering"}

\* The handler of a WebSocket client ends with the upgrade or the registration; only
\* then is it in the registry and in Stop's copy of it, and only then, or when it is
\* refused, is there anybody to close it.
StreamStages ==
    /\ \A c \in WebSocket : handler[c] \in Upgrades \cup {"refused", "ended"}
    /\ \A c \in Sse : handler[c] \in {"none", "streaming", "stalled", "ended"}
    /\ clients \cup leaving \subseteq WebSocket
    /\ \A c \in WebSocket : handler[c] \in Upgrades =>
          once[c] = "open" /\ pumps[c] = {} /\ c \notin clients \cup leaving
    /\ \A c \in StreamClient : handler[c] = "none" => c \notin subs

StreamShape ==
    /\ handler \in [StreamClient -> {"none", "upgrading", "registering", "refused",
                                     "streaming", "stalled", "ended"}]
    /\ pumps \in [WebSocket -> SUBSET {"read", "write"}]
    /\ once \in [WebSocket -> {"open", "done", "unsubscribed", "hungup", "closed"}]
    /\ subs \subseteq StreamClient

StreamInv == StreamShape /\ StreamStages /\ SubscriptionsAreOwned

LEMMA StreamInvInit == StreamsInit => StreamInv
BY DEF StreamsInit, StreamInv, StreamShape, StreamStages, SubscriptionsAreOwned,
       StreamClient, Upgrades

LEMMA StartCloseKeeps ==
    ASSUME StreamInv, NEW c \in WebSocket, StartClose(c),
           handler[c] \notin Upgrades, UNCHANGED stopVars
    PROVE  StreamInv'
BY DEF StartClose, StreamInv, StreamShape, StreamStages, SubscriptionsAreOwned, InHandler,
       stopVars, Upgrades, StreamClient

\* The server's own steps.
LEMMA StreamInvStop == StreamInv /\ Stopping => StreamInv'
<1> SUFFICES ASSUME StreamInv, Stopping PROVE StreamInv'
  OBVIOUS
<1>1. CASE StopCloses
  <2> PICK c \in leaving : StartClose(c) BY <1>1 DEF StopCloses
  <2>1. c \in WebSocket /\ handler[c] \notin Upgrades
    BY DEF StreamInv, StreamStages
  <2> QED BY <2>1, StartCloseKeeps DEF StartClose
<1>2. CASE ~StopCloses
  <2>1. /\ UNCHANGED <<handler, wsVars, subs>>
        /\ leaving' \subseteq clients \cup leaving
    BY <1>2 DEF Stopping, BeginShutdown, Drained, TimeOver, CopyClients, StopMovesOn,
         WaitForPumps
  <2> QED
    BY <2>1 DEF wsVars, StreamInv, StreamShape, StreamStages, SubscriptionsAreOwned,
         InHandler
<1> QED BY <1>1, <1>2

\* A WebSocket client's: the upgrade, the registration, and the end.
LEMMA StreamInvSocket ==
    ASSUME StreamInv, NEW c \in WebSocket,
           \/ Upgraded(c) \/ UpgradeFails(c) \/ RegisterClient(c)
           \/ RefusedCloses(c) \/ PumpCloses(c) \/ CloseSteps(c) \/ RefusedEnds(c)
           \/ \E p \in {"read", "write"} : PumpEnds(c, p)
    PROVE  StreamInv'
<1> USE DEF StreamInv, StreamShape, StreamStages, SubscriptionsAreOwned, InHandler,
            Upgrades, wsVars, stopVars, StreamClient
<1>0. handler[c] \notin {"streaming", "stalled"} /\ c \notin Sse
  BY StreamsAssumption
<1>1. CASE Upgraded(c) BY <1>0, <1>1 DEF Upgraded
<1>2. CASE UpgradeFails(c) BY <1>0, <1>2 DEF UpgradeFails
<1>3. CASE RegisterClient(c)
  <2>1. CASE Refuses BY <1>0, <1>3, <2>1 DEF RegisterClient
  <2>2. CASE ~Refuses
    <3>1. /\ handler' = [handler EXCEPT ![c] = "ended"]
          /\ pumps' = [pumps EXCEPT ![c] = {"read", "write"}]
          /\ clients' = clients \cup {c}
          /\ UNCHANGED <<once, subs, leaving>>
      BY <1>3, <2>2 DEF RegisterClient
    <3> QED BY <1>0, <3>1
  <2> QED BY <2>1, <2>2
<1>4. CASE RefusedCloses(c) \/ PumpCloses(c)
  <2>1. StartClose(c) /\ handler[c] \notin Upgrades
    BY <1>4 DEF RefusedCloses, PumpCloses
  <2> QED BY <2>1, StartCloseKeeps DEF StartClose
<1>5. CASE CloseSteps(c)
  <2>1. CASE CloseUnsubscribes(c) BY <1>0, <2>1 DEF CloseUnsubscribes
  <2>2. CASE CloseSocket(c) \/ Unregister(c) BY <1>0, <2>2 DEF CloseSocket, Unregister
  <2> QED BY <1>5, <2>1, <2>2 DEF CloseSteps
<1>6. CASE RefusedEnds(c) BY <1>0, <1>6 DEF RefusedEnds
<1>7. CASE \E p \in {"read", "write"} : PumpEnds(c, p) BY <1>0, <1>7 DEF PumpEnds
<1> QED BY <1>1, <1>2, <1>3, <1>4, <1>5, <1>6, <1>7

LEMMA StreamInvStep == StreamInv /\ [StreamsNext]_streamVars => StreamInv'
<1> SUFFICES ASSUME StreamInv, [StreamsNext]_streamVars PROVE StreamInv'
  OBVIOUS
<1> USE DEF StreamShape, StreamStages, SubscriptionsAreOwned, InHandler, Upgrades, wsVars,
            stopVars, StreamClient
<1>1. CASE Stopping BY <1>1, StreamInvStop
<1>2. ASSUME NEW c \in StreamClient, Connect(c) PROVE StreamInv'
  <2>1. CASE c \in Sse BY <1>2, <2>1, StreamsAssumption DEF Connect, StreamInv
  <2>2. CASE c \in WebSocket BY <1>2, <2>2, StreamsAssumption DEF Connect, StreamInv
  <2> QED BY <2>1, <2>2
<1>3. ASSUME NEW c \in Sse, Stall(c) \/ StreamLeaves(c) PROVE StreamInv'
  BY <1>3, StreamsAssumption DEF Stall, StreamLeaves, StreamInv
<1>4. CASE \E c \in WebSocket :
        \/ Upgraded(c) \/ UpgradeFails(c) \/ RegisterClient(c)
        \/ RefusedCloses(c) \/ PumpCloses(c) \/ CloseSteps(c) \/ RefusedEnds(c)
        \/ \E p \in {"read", "write"} : PumpEnds(c, p)
  BY <1>4, StreamInvSocket
<1>5. CASE UNCHANGED streamVars BY <1>5 DEF streamVars, StreamInv
<1> QED BY <1>1, <1>2, <1>3, <1>4, <1>5 DEF StreamsNext

\* A subscription of any client, of either kind, has somebody who will give it back.
THEOREM EverySubscriptionIsOwned == StreamsSpec => []SubscriptionsAreOwned
<1>1. StreamInv => SubscriptionsAreOwned BY DEF StreamInv
<1> QED BY <1>1, StreamInvInit, StreamInvStep, PTL DEF StreamsSpec
-----------------------------------------------------------------------------
(* The tables of events and audits, EventLog with Batcher.  Records are    *)
(* numbered as they are published; all order is the order of the numbers.  *)

Ascending(s) == \A i, k \in 1..Len(s) : i < k => s[i] < s[k]

Before(S, T) == \A a \in S, b \in T : a < b

Rows == Range(table) \cup pruned

\* The queue is in the order of the appends, holds nothing twice and nothing given
\* up, and what has failed once stands before what has not.
QueueInOrder ==
    /\ \A i, k \in 1..Len(queue) : i < k => queue[i].item < queue[k].item
    /\ \A i, k \in 1..Len(queue) : i < k /\ queue[k].retried => queue[i].retried
    /\ Items(queue) \subseteq appended \ lost
    /\ closed => queue = <<>>

\* A round works on the front of the queue, until Close has emptied that.
RoundIsFront ==
    /\ ~closed /\ step # "free" =>
        Len(batch) <= Len(queue) /\ \A i \in 1..Len(batch) : batch[i] = queue[i].item
    /\ Ascending(batch) /\ Range(batch) \subseteq appended

\* Rows are older than all that may become a row.
RowsAreOlder ==
    /\ Ascending(table) /\ Before(pruned, Range(table))
    /\ Rows \subseteq appended
    /\ step # "written" => Before(Rows, Items(queue))
    /\ step = "sql" => Before(Rows, Range(batch))
    /\ step = "written" =>
        /\ Range(batch) \subseteq Rows
        /\ \A i \in 1..Len(queue) : i > Len(batch) => Before(Rows, {queue[i].item})

\* Every record appended is in one of the books.
BooksAgree ==
    /\ appended = rejected \cup lost \cup Items(queue) \cup Rows
    /\ dropped = Cardinality(rejected) + Cardinality(lost)

\* What is on its way to the batcher comes after what it has been given.
OnTheWay == IF feed = "bus" THEN Range(channel) \ Jobless ELSE Range(channel)

FeedInOrder ==
    /\ appended \subseteq 1..published
    /\ hand \subseteq 1..published /\ Range(channel) \subseteq 1..published
    /\ Before(appended, hand) /\ Before(appended, Range(channel))
    /\ Before(hand, Range(channel)) /\ Ascending(channel)
    /\ missed \subseteq 1..published
    /\ feed = "direct" => channel = <<>> /\ hand = {}
    /\ appended \cup hand \cup OnTheWay = Delivered
    /\ closing => LogDrained

BatchInv == BatcherTypeOK /\ QueueInOrder /\ RoundIsFront /\ RowsAreOlder /\ BooksAgree

LogInv == TypeOK /\ BatchInv /\ FeedInOrder

\* A sequence and the set of what is in it.
LEMMA RangeIs ==
    ASSUME NEW S, NEW s \in Seq(S)
    PROVE  /\ Len(s) \in Nat /\ DOMAIN s = 1..Len(s)
           /\ Range(s) = {s[i] : i \in 1..Len(s)}
           /\ \A x : x \in Range(s) <=> \E i \in 1..Len(s) : x = s[i]
           /\ \A i \in 1..Len(s) : s[i] \in S
    BY DEF Range

\* The invariant says what is to be shown, and holds at the start.
LEMMA LogExact == LogInv => TableIsExact
    <1> SUFFICES ASSUME LogInv PROVE TableIsExact OBVIOUS
    <1>1. /\ \A i, k \in 1..Len(table) : i < k => table[i] < table[k]
          /\ \A r \in pruned, i \in 1..Len(table) : r < table[i]
        BY RangeIs DEF LogInv, BatchInv, BatcherTypeOK, RowsAreOlder, Ascending, Before
    <1>2. closing => channel = <<>> /\ hand = {} /\ appended = Delivered
        <2> SUFFICES ASSUME closing PROVE channel = <<>> /\ hand = {} /\ appended = Delivered
            OBVIOUS
        <2>1. channel = <<>> /\ hand = {} BY DEF LogInv, FeedInOrder, LogDrained
        <2>2. OnTheWay = {} BY <2>1 DEF OnTheWay, Range
        <2> QED BY <2>1, <2>2 DEF LogInv, FeedInOrder
    <1> QED BY <1>1, <1>2 DEF LogInv, BatchInv, BooksAgree, Rows, TableIsExact

LEMMA LogStarts == Init => LogInv
    <1> SUFFICES ASSUME Init PROVE LogInv OBVIOUS
    <1> USE DEF Init, BatcherInit
    <1>1. Range(<<>>) = {} /\ Items(<<>>) = {} /\ Len(<<>>) = 0 BY DEF Range, Items
    <1>2. TypeOK
        <2>1. <<>> \in Seq(Slot) /\ <<>> \in Seq(Record) /\ Len(<<>>) = 0 OBVIOUS
        <2>2. BatcherTypeOK
            <3>1. queue \in Seq(Slot) /\ Len(queue) <= Capacity BY <2>1, BatcherAssumption
            <3>2. table \in Seq(Record) /\ batch \in Seq(Record) BY <2>1
            <3>3. pruned \subseteq Record /\ appended \subseteq Record
                    /\ rejected \subseteq Record /\ lost \subseteq Record OBVIOUS
            <3>4. keep \in Keeps /\ dropped \in Nat OBVIOUS
            <3>5. step = "free" <=> writer = None OBVIOUS
            <3>6. writer \in Caller \cup {Loop, None} OBVIOUS
            <3>7. step \in {"free", "sql", "written", "failed"} OBVIOUS
            <3>8. loop \in {"ticking", "last", "done"} OBVIOUS
            <3>9. closing \in BOOLEAN /\ closed \in BOOLEAN OBVIOUS
            <3> QED BY <3>1, <3>2, <3>3, <3>4, <3>5, <3>6, <3>7, <3>8, <3>9 DEF BatcherTypeOK
        <2>3. Cardinality({}) = 0 BY FS_EmptySet
        <2> QED BY <2>1, <2>2, <2>3, BatcherAssumption, EventLogAssumption DEF TypeOK
    <1>3. QueueInOrder /\ RoundIsFront BY <1>1 DEF QueueInOrder, RoundIsFront, Ascending
    <1>4. RowsAreOlder BY <1>1 DEF RowsAreOlder, Ascending, Before, Rows
    <1>5. BooksAgree BY <1>1, FS_EmptySet DEF BooksAgree, Rows
    <1>6. FeedInOrder
        <2>1. (1..0) = {} OBVIOUS
        <2> QED BY <1>1, <2>1 DEF FeedInOrder, Before, Ascending, OnTheWay, Delivered
    <1> QED BY <1>2, <1>3, <1>4, <1>5, <1>6 DEF LogInv, BatchInv, TypeOK
-----------------------------------------------------------------------------
\* The types of what is queued.
LEMMA ItemsAre ==
    ASSUME BatcherTypeOK
    PROVE  /\ queue \in Seq(Slot) /\ Len(queue) \in Nat
           /\ \A i \in 1..Len(queue) : queue[i] \in Slot /\ queue[i].item \in Record
                                        /\ queue[i].retried \in BOOLEAN
                                        /\ queue[i].item \in Items(queue)
    <1>1. queue \in Seq(Slot) /\ Len(queue) \in Nat BY DEF BatcherTypeOK
    <1>2. \A i \in 1..Len(queue) : queue[i] \in Slot BY <1>1
    <1> QED BY <1>1, <1>2 DEF Slot, Items

\* What is appended comes behind all, or is turned away and counted.
LEMMA AppendKeeps ==
    ASSUME BatchInv, NEW r \in Record, Before(appended, {r}), AppendRecord(r)
    PROVE  BatchInv'
    <1> USE DEF AppendRecord, tableVars, roundVars, closeVars
    <1> DEFINE slot == [item |-> r, retried |-> FALSE]
    <1>0. BatcherTypeOK BY DEF BatchInv
    <1>1. r \notin appended /\ r \in Nat /\ slot \in Slot
        BY BatcherAssumption DEF Before, Record, Slot
    <1>2. IsFiniteSet(rejected) /\ IsFiniteSet(Record)
        <2>1. IsFiniteSet(Record) BY FS_Interval, BatcherAssumption DEF Record
        <2>2. rejected \in SUBSET Record BY <1>0 DEF BatcherTypeOK
        <2> QED BY <2>1, <2>2, FS_Subset
    <1>3. CASE UNCHANGED queue /\ rejected' = rejected \cup {r} /\ dropped' = dropped + 1
        <2>1. rejected \subseteq appended BY DEF BatchInv, BooksAgree
        <2>2. Cardinality(rejected') = Cardinality(rejected) + 1
            BY <1>1, <1>2, <1>3, <2>1, FS_AddElement
        <2>3. Cardinality(rejected) \in Nat BY <1>2, FS_CardinalityType
        <2>4. Cardinality(lost) \in Nat
            BY <1>0, <1>2, FS_Subset, FS_CardinalityType DEF BatcherTypeOK
        <2>5. Items(queue)' = Items(queue) BY <1>3 DEF Items
        <2>6. Rows' = Rows BY DEF Rows
        <2>7. BatcherTypeOK' BY <1>0, <1>3 DEF BatcherTypeOK
        <2>8. QueueInOrder' BY <1>3, <2>5 DEF BatchInv, QueueInOrder
        <2>9. RoundIsFront' BY <1>3 DEF BatchInv, RoundIsFront, Ascending
        <2>10. RowsAreOlder' BY <1>3, <2>5, <2>6 DEF BatchInv, RowsAreOlder, Ascending
        <2>11. BooksAgree'
            BY <1>0, <1>3, <2>2, <2>3, <2>4, <2>5, <2>6
            DEF BatchInv, BooksAgree, BatcherTypeOK
        <2> QED BY <2>7, <2>8, <2>9, <2>10, <2>11 DEF BatchInv
    <1>4. CASE /\ ~closed /\ ~Full /\ queue' = Append(queue, slot)
               /\ UNCHANGED <<rejected, dropped>>
        <2>1. /\ queue' \in Seq(Slot) /\ Len(queue') = Len(queue) + 1
              /\ \A i \in 1..Len(queue) : queue'[i] = queue[i]
              /\ queue'[Len(queue) + 1] = slot
            BY <1>1, <1>4, <1>0, AppendProperties DEF BatcherTypeOK
        <2>2. Len(queue) \in Nat BY <1>0, ItemsAre
        <2>3. Items(queue)' = Items(queue) \cup {r}
            <3>1. 1..Len(queue') = (1..Len(queue)) \cup {Len(queue) + 1} BY <2>1, <2>2
            <3>2. queue'[Len(queue) + 1].item = r BY <2>1
            <3> QED BY <2>1, <3>1, <3>2 DEF Items
        <2>4. \A x \in Items(queue) : x < r BY DEF BatchInv, QueueInOrder, Before
        <2>5. Rows' = Rows BY DEF Rows
        <2>6. \A x \in Rows : x < r BY DEF BatchInv, RowsAreOlder, Before
        <2>7. BatcherTypeOK'
            <3>1. Len(queue') <= Capacity BY <1>4, <2>1, <2>2, BatcherAssumption DEF Full
            <3> QED BY <1>0, <1>4, <2>1, <3>1 DEF BatcherTypeOK
        <2>8. QueueInOrder'
            <3>1. \A i \in 1..Len(queue) : queue[i].item < r BY <2>4 DEF Items
            <3>2. \A i, k \in 1..Len(queue') : i < k => queue'[i].item < queue'[k].item
                BY <2>1, <2>2, <3>1 DEF BatchInv, QueueInOrder
            <3>3. \A i, k \in 1..Len(queue') : i < k /\ queue'[k].retried => queue'[i].retried
                BY <2>1, <2>2 DEF BatchInv, QueueInOrder
            <3>4. r \notin lost BY <1>1 DEF BatchInv, BooksAgree
            <3>5. Items(queue)' \subseteq appended' \ lost'
                BY <2>3, <3>4 DEF BatchInv, QueueInOrder
            <3> QED BY <1>4, <3>2, <3>3, <3>5 DEF QueueInOrder
        <2>9. RoundIsFront'
            <3>1. Len(batch) \in Nat BY <1>0 DEF BatcherTypeOK
            <3> QED BY <1>4, <2>1, <2>2, <3>1 DEF BatchInv, RoundIsFront, Ascending
        <2>10. RowsAreOlder'
            <3>1. step' # "written" => Before(Rows', Items(queue)')
                BY <2>3, <2>5, <2>6 DEF BatchInv, RowsAreOlder, Before
            <3>2. step' = "written" =>
                    \A i \in 1..Len(queue') : i > Len(batch) => Before(Rows', {queue'[i].item})
                BY <2>1, <2>2, <2>5, <2>6 DEF BatchInv, RowsAreOlder, Before
            <3> QED BY <2>5, <3>1, <3>2 DEF BatchInv, RowsAreOlder, Ascending
        <2>11. BooksAgree' BY <1>4, <2>3, <2>5 DEF BatchInv, BooksAgree
        <2> QED BY <2>7, <2>8, <2>9, <2>10, <2>11 DEF BatchInv
    <1> QED BY <1>3, <1>4

\* Rounds that find nothing, reloads and the beginning of Close change no record.
LEMMA NothingMoves ==
    ASSUME BatchInv, UNCHANGED <<queueVars, table, pruned, roundVars, closed>>,
           keep' \in Keeps, loop' \in {"ticking", "last", "done"}, closing' \in BOOLEAN
    PROVE  BatchInv'
    <1> USE DEF queueVars, roundVars
    <1>1. BatcherTypeOK' BY DEF BatchInv, BatcherTypeOK
    <1>2. Items(queue)' = Items(queue) /\ Rows' = Rows BY DEF Items, Rows
    <1>3. QueueInOrder' BY <1>2 DEF BatchInv, QueueInOrder
    <1>4. RoundIsFront' BY DEF BatchInv, RoundIsFront, Ascending
    <1>5. RowsAreOlder' BY <1>2 DEF BatchInv, RowsAreOlder, Ascending
    <1>6. BooksAgree' BY <1>2 DEF BatchInv, BooksAgree
    <1> QED BY <1>1, <1>3, <1>4, <1>5, <1>6 DEF BatchInv

\* A round begins with all that is queued.
LEMMA FlushTakeKeeps ==
    ASSUME BatchInv, NEW f \in Caller \cup {Loop}, FlushTake(f)
    PROVE  BatchInv'
    <1> USE DEF FlushTake, queueVars, tableVars, closeVars
    <1>0. BatcherTypeOK BY DEF BatchInv
    <1>1. /\ batch' \in Seq(Record) /\ Len(batch') = Len(queue)
          /\ \A i \in 1..Len(queue) : batch'[i] = queue[i].item
        <2>1. \A i \in 1..Len(queue) : queue[i].item \in Record BY <1>0, ItemsAre
        <2>2. Len(queue) \in Nat BY <1>0, ItemsAre
        <2> QED BY <2>1, <2>2
    <1>2. Range(batch') = Items(queue)
        <2> SUFFICES ASSUME NEW b \in Seq(Record), Len(b) = Len(queue),
                            \A i \in 1..Len(queue) : b[i] = queue[i].item
                     PROVE  Range(b) = Items(queue)
            BY <1>1
        <2>1. \A x : x \in Range(b) <=> \E i \in 1..Len(b) : x = b[i] BY RangeIs
        <2> QED BY <2>1 DEF Items
    <1>3. Items(queue)' = Items(queue) /\ Rows' = Rows BY DEF Items, Rows
    <1>4. BatcherTypeOK'
        <2>1. (step' = "free" <=> writer' = None) BY BatcherAssumption
        <2> QED BY <1>0, <1>1, <2>1 DEF BatcherTypeOK
    <1>5. step # "written"
        BY <1>0 DEF BatcherTypeOK, WriterFree
    <1>6. QueueInOrder' BY <1>3 DEF BatchInv, QueueInOrder
    <1>7. RoundIsFront'
        BY <1>0, <1>1, <1>2, ItemsAre DEF BatchInv, RoundIsFront, QueueInOrder, Ascending
    <1>8. RowsAreOlder' BY <1>2, <1>3, <1>5 DEF BatchInv, RowsAreOlder, Ascending
    <1>9. BooksAgree' BY <1>3 DEF BatchInv, BooksAgree
    <1> QED BY <1>4, <1>6, <1>7, <1>8, <1>9 DEF BatchInv

\* The table with the batch behind it, and what is kept of it.
LEMMA KeptIs ==
    ASSUME BatchInv, step = "sql"
    PROVE  /\ Kept \in Seq(Record) /\ Ascending(Kept)
           /\ Range(table \o batch) = Range(table) \cup Range(batch)
           /\ Range(Kept) \subseteq Range(table \o batch)
           /\ Before(Range(table \o batch) \ Range(Kept), Range(Kept))
    <1> DEFINE all == table \o batch
    <1> DEFINE cut == Len(all) - keep
    <1>1. table \in Seq(Record) /\ batch \in Seq(Record) /\ keep \in Nat \ {0}
        BY BatcherAssumption DEF BatchInv, BatcherTypeOK
    <1>2. /\ all \in Seq(Record) /\ Len(all) = Len(table) + Len(batch)
          /\ \A i \in 1..Len(table) + Len(batch) :
                all[i] = IF i <= Len(table) THEN table[i] ELSE batch[i - Len(table)]
        BY <1>1, ConcatProperties
    <1>3. Len(table) \in Nat /\ Len(batch) \in Nat BY <1>1
    <1>4. Range(all) = Range(table) \cup Range(batch) BY <1>1, RangeConcatenation
    <1>5. \A i \in 1..Len(table), k \in 1..Len(batch) : table[i] < batch[k]
        <2>1. \A i \in 1..Len(table) : table[i] \in Rows BY <1>1, RangeIs DEF Rows
        <2>2. \A i \in 1..Len(batch) : batch[i] \in Range(batch) BY <1>1, RangeIs
        <2>3. Before(Rows, Range(batch)) BY DEF BatchInv, RowsAreOlder
        <2> QED BY <2>1, <2>2, <2>3 DEF Before
    <1>6. Ascending(all)
        <2>1. Ascending(table) /\ Ascending(batch)
            BY DEF BatchInv, RowsAreOlder, RoundIsFront
        <2> SUFFICES ASSUME NEW i \in 1..Len(all), NEW k \in 1..Len(all), i < k
                     PROVE  all[i] < all[k]
            BY DEF Ascending
        <2>2. CASE k <= Len(table) BY <1>2, <1>3, <2>1, <2>2 DEF Ascending
        <2>3. CASE i > Len(table) /\ k > Len(table)
            <3>1. all[i] = batch[i - Len(table)] /\ all[k] = batch[k - Len(table)]
                BY <1>2, <1>3, <2>3
            <3>2. i - Len(table) \in 1..Len(batch) /\ k - Len(table) \in 1..Len(batch)
                    /\ i - Len(table) < k - Len(table)
                BY <1>2, <1>3, <2>3
            <3> QED BY <2>1, <3>1, <3>2 DEF Ascending
        <2>4. CASE i <= Len(table) /\ k > Len(table)
            <3>1. k - Len(table) \in 1..Len(batch) BY <1>2, <1>3, <2>4
            <3> QED BY <1>2, <1>3, <1>5, <2>4, <3>1
        <2> QED BY <1>3, <2>2, <2>3, <2>4
    <1>7. CASE Len(all) <= keep
        <2>1. Kept = all BY <1>7 DEF Kept
        <2> QED BY <1>2, <1>4, <1>6, <2>1 DEF Before
    <1>8. CASE ~(Len(all) <= keep)
        <2>1. cut \in Nat /\ cut < Len(all) /\ Len(all) \in Nat BY <1>1, <1>2, <1>3, <1>8
        <2>2. Kept = SubSeq(all, cut + 1, Len(all)) BY <1>8 DEF Kept
        <2>3. \A i \in (cut + 1)..Len(all) : all[i] \in Record BY <1>2, <2>1
        <2> HIDE DEF all, cut
        <2>4. /\ Kept \in Seq(Record)
              /\ Len(Kept) = IF cut + 1 <= Len(all) THEN Len(all) - (cut + 1) + 1 ELSE 0
              /\ \A i \in 1..Len(all) - (cut + 1) + 1 : Kept[i] = all[(cut + 1) + i - 1]
            BY <2>1, <2>2, <2>3, SubSeqProperties
        <2>5. /\ Len(Kept) = Len(all) - cut
              /\ \A i \in 1..Len(Kept) : Kept[i] = all[cut + i]
            BY <2>1, <2>4
        <2>6. Ascending(Kept)
            <3> SUFFICES ASSUME NEW i \in 1..Len(Kept), NEW k \in 1..Len(Kept), i < k
                         PROVE  Kept[i] < Kept[k]
                BY DEF Ascending
            <3>1. cut + i \in 1..Len(all) /\ cut + k \in 1..Len(all) /\ cut + i < cut + k
                BY <2>1, <2>5
            <3>2. all[cut + i] < all[cut + k] BY <3>1, <1>6 DEF Ascending
            <3> QED BY <2>5, <3>2
        <2>7. Range(Kept) = {all[cut + i] : i \in 1..Len(Kept)}
            <3>1. Range(Kept) = {Kept[i] : i \in 1..Len(Kept)} BY <2>4, RangeIs
            <3> QED BY <2>5, <3>1
        <2>8. Range(all) = {all[i] : i \in 1..Len(all)} BY <1>2, RangeIs
        <2>9. Range(Kept) \subseteq Range(all)
            <3> SUFFICES ASSUME NEW i \in 1..Len(Kept) PROVE all[cut + i] \in Range(all)
                BY <2>7
            <3>1. cut + i \in 1..Len(all) BY <2>1, <2>5
            <3> QED BY <3>1, <2>8
        <2>10. Before(Range(all) \ Range(Kept), Range(Kept))
            <3> SUFFICES ASSUME NEW i \in 1..Len(all), all[i] \notin Range(Kept),
                                NEW k \in 1..Len(Kept)
                         PROVE  all[i] < all[cut + k]
                BY <2>7, <2>8 DEF Before
            <3>1. i <= cut
                <4> SUFFICES ASSUME i > cut PROVE FALSE BY <2>1
                <4>1. i - cut \in 1..Len(Kept) /\ cut + (i - cut) = i BY <2>1, <2>5
                <4> QED BY <4>1, <2>7
            <3>2. cut + k \in 1..Len(all) /\ i < cut + k BY <2>1, <2>5, <3>1
            <3> QED BY <1>6, <3>2 DEF Ascending
        <2> QED BY <1>4, <2>4, <2>6, <2>9, <2>10 DEF all
    <1> QED BY <1>7, <1>8

\* A transaction puts the batch behind the rows, and prunes the oldest.
LEMMA TransactionKeeps ==
    ASSUME BatchInv, Transaction
    PROVE  BatchInv'
    <1> USE DEF Transaction, queueVars, closeVars
    <1>0. BatcherTypeOK BY DEF BatchInv
    <1>1. Items(queue)' = Items(queue) BY DEF Items
    <1>2. step = "sql" /\ writer # None BY <1>0 DEF BatcherTypeOK
    <1>3. QueueInOrder' BY <1>1 DEF BatchInv, QueueInOrder
    <1>4. RoundIsFront' BY <1>2 DEF BatchInv, RoundIsFront, Ascending
    <1>5. CASE step' = "failed" /\ UNCHANGED <<table, pruned>>
        <2>1. Rows' = Rows BY <1>5 DEF Rows
        <2>2. BatcherTypeOK' BY <1>0, <1>2, <1>5 DEF BatcherTypeOK
        <2>3. RowsAreOlder' BY <1>1, <1>2, <1>5, <2>1 DEF BatchInv, RowsAreOlder, Ascending
        <2>4. BooksAgree' BY <1>1, <2>1 DEF BatchInv, BooksAgree
        <2> QED BY <1>3, <1>4, <2>2, <2>3, <2>4 DEF BatchInv
    <1>6. CASE /\ step' = "written" /\ table' = Kept
               /\ pruned' = pruned \cup (Range(table \o batch) \ Range(Kept))
        <2>1. /\ Kept \in Seq(Record) /\ Ascending(Kept)
              /\ Range(table \o batch) = Range(table) \cup Range(batch)
              /\ Range(Kept) \subseteq Range(table \o batch)
              /\ Before(Range(table \o batch) \ Range(Kept), Range(Kept))
            BY <1>2, KeptIs
        <2>2. Rows' = Rows \cup Range(batch) BY <1>6, <2>1 DEF Rows
        <2>3. Range(batch) \subseteq Record /\ Range(table) \subseteq Record
            BY <1>0, RangeIs DEF BatcherTypeOK
        <2>4. BatcherTypeOK' BY <1>0, <1>2, <1>6, <2>1, <2>3 DEF BatcherTypeOK
        <2>5. Before(pruned', Range(table'))
            <3>1. Before(pruned, Range(table) \cup Range(batch))
                BY <1>2 DEF BatchInv, RowsAreOlder, Rows, Before
            <3> QED BY <1>6, <2>1, <3>1 DEF Before
        <2>6. Rows' \subseteq appended' BY <2>2 DEF BatchInv, RowsAreOlder, RoundIsFront
        <2>7. \A i \in 1..Len(queue') : i > Len(batch') => Before(Rows', {queue'[i].item})
            <3> SUFFICES ASSUME NEW i \in 1..Len(queue), i > Len(batch)
                         PROVE  Before(Rows \cup Range(batch), {queue[i].item})
                BY <2>2
            <3>1. Before(Rows, {queue[i].item})
                BY <1>0, <1>2, ItemsAre DEF BatchInv, RowsAreOlder, Before
            <3>2. ~closed BY <1>0 DEF BatchInv, QueueInOrder
            <3>3. \A k \in 1..Len(batch) : k \in 1..Len(queue) /\ k < i /\ batch[k] = queue[k].item
                BY <1>0, <1>2, <3>2 DEF BatchInv, RoundIsFront, BatcherTypeOK
            <3>4. \A k \in 1..Len(batch) : batch[k] < queue[i].item
                BY <3>3 DEF BatchInv, QueueInOrder
            <3>5. \A x \in Range(batch) : x < queue[i].item
                BY <1>0, <3>4, RangeIs DEF BatcherTypeOK
            <3> QED BY <3>1, <3>5 DEF Before
        <2>8. RowsAreOlder' BY <1>6, <2>1, <2>2, <2>5, <2>6, <2>7 DEF RowsAreOlder
        <2>9. BooksAgree'
            <3>1. Range(batch) \subseteq appended BY DEF BatchInv, RoundIsFront
            <3> QED BY <1>1, <2>2, <3>1 DEF BatchInv, BooksAgree
        <2> QED BY <1>3, <1>4, <2>4, <2>8, <2>9 DEF BatchInv
    <1> QED BY <1>5, <1>6

\* The queue without its first n places.
LEMMA RestIs ==
    ASSUME BatcherTypeOK, NEW n \in 0..Len(queue)
    PROVE  LET rest == SubSeq(queue, n + 1, Len(queue)) IN
           /\ rest \in Seq(Slot) /\ Len(rest) = Len(queue) - n
           /\ \A i \in 1..Len(queue) - n : rest[i] = queue[n + i]
    <1>1. queue \in Seq(Slot) /\ Len(queue) \in Nat /\ n + 1 \in Int /\ n \in Nat
        BY ItemsAre
    <1>2. \A i \in (n + 1)..Len(queue) : queue[i] \in Slot BY <1>1
    <1> DEFINE rest == SubSeq(queue, n + 1, Len(queue))
    <1>3. /\ rest \in Seq(Slot)
          /\ Len(rest) = IF n + 1 <= Len(queue) THEN Len(queue) - (n + 1) + 1 ELSE 0
          /\ \A i \in 1..Len(queue) - (n + 1) + 1 : rest[i] = queue[(n + 1) + i - 1]
        BY <1>1, <1>2, SubSeqProperties
    <1> HIDE DEF rest
    <1>4. Len(rest) = Len(queue) - n /\ \A i \in 1..Len(queue) - n : rest[i] = queue[n + i]
        BY <1>1, <1>3
    <1> QED BY <1>3, <1>4 DEF rest

\* What has become rows leaves the queue, unless Close has emptied it.
LEMMA TakeCommittedKeeps ==
    ASSUME BatchInv, TakeCommitted
    PROVE  BatchInv'
    <1> USE DEF TakeCommitted, EndRound, tableVars
    <1>0. BatcherTypeOK BY DEF BatchInv
    <1>1. Len(queue) \in Nat /\ Len(batch) \in Nat /\ queue \in Seq(Slot)
        BY <1>0 DEF BatcherTypeOK
    <1>2. PICK n \in 0..Len(queue) :
            /\ queue' \in Seq(Slot) /\ Len(queue') = Len(queue) - n
            /\ \A i \in 1..Len(queue) - n : queue'[i] = queue[n + i]
            /\ closed \/ n = Len(batch)
        <2>1. CASE Len(batch) <= Len(queue)
            <3>1. Len(batch) \in 0..Len(queue) /\ queue' = SubSeq(queue, Len(batch) + 1, Len(queue))
                BY <1>1, <2>1
            <3> QED BY <1>0, <3>1, RestIs
        <2>2. CASE ~(Len(batch) <= Len(queue))
            <3>1. closed BY <2>2 DEF BatchInv, RoundIsFront
            <3>2. queue = <<>> /\ queue' = <<>>
                BY <2>2, <3>1 DEF BatchInv, QueueInOrder
            <3>3. Len(<<>>) = 0 /\ <<>> \in Seq(Slot) OBVIOUS
            <3> QED BY <3>1, <3>2, <3>3
        <2> QED BY <2>1, <2>2
    <1>3. \A x : x \in Items(queue)' <=> \E i \in 1..Len(queue) - n : x = queue[n + i].item
        <2>1. Items(queue)' = {queue'[i].item : i \in 1..Len(queue')} BY DEF Items
        <2>2. Items(queue)' = {queue'[i].item : i \in 1..Len(queue) - n} BY <1>2, <2>1
        <2> QED BY <1>2, <2>2
    <1>4. \A i \in 1..Len(queue) - n : n + i \in 1..Len(queue) BY <1>1
    <1>5. Rows' = Rows BY DEF Rows
    <1>6. Items(queue)' \subseteq Items(queue) BY <1>3, <1>4 DEF Items
    <1>7. BatcherTypeOK'
        <2>1. <<>> \in Seq(Record) OBVIOUS
        <2>2. LoopAfter(writer) \in {"ticking", "last", "done"}
            BY <1>0 DEF LoopAfter, BatcherTypeOK
        <2>3. Len(queue') <= Capacity BY <1>0, <1>1, <1>2, BatcherAssumption DEF BatcherTypeOK
        <2> QED BY <1>0, <1>2, <2>1, <2>2, <2>3 DEF BatcherTypeOK
    <1>8. QueueInOrder'
        <2>1. \A i, k \in 1..Len(queue') : i < k => queue'[i].item < queue'[k].item
            <3> SUFFICES ASSUME NEW i \in 1..Len(queue'), NEW k \in 1..Len(queue'), i < k
                         PROVE  queue'[i].item < queue'[k].item
                OBVIOUS
            <3>1. n + i \in 1..Len(queue) /\ n + k \in 1..Len(queue) /\ n + i < n + k
                BY <1>1, <1>2
            <3> QED BY <1>2, <3>1 DEF BatchInv, QueueInOrder
        <2>2. \A i, k \in 1..Len(queue') : i < k /\ queue'[k].retried => queue'[i].retried
            <3> SUFFICES ASSUME NEW i \in 1..Len(queue'), NEW k \in 1..Len(queue'), i < k,
                                queue'[k].retried
                         PROVE  queue'[i].retried
                OBVIOUS
            <3>1. n + i \in 1..Len(queue) /\ n + k \in 1..Len(queue) /\ n + i < n + k
                BY <1>1, <1>2
            <3> QED BY <1>2, <3>1 DEF BatchInv, QueueInOrder
        <2>3. closed' => queue' = <<>>
            <3> SUFFICES ASSUME closed PROVE queue' = <<>> OBVIOUS
            <3>1. Len(queue) = 0 BY DEF BatchInv, QueueInOrder
            <3>2. Len(queue') = 0 BY <1>2, <3>1
            <3> QED BY <1>2, <3>2
        <2> QED BY <1>6, <2>1, <2>2, <2>3 DEF BatchInv, QueueInOrder
    <1>9. RoundIsFront' BY DEF RoundIsFront, Ascending, Range
    <1>10. Before(Rows', Items(queue)')
        <2> SUFFICES ASSUME NEW i \in 1..Len(queue) - n, NEW x \in Rows
                     PROVE  x < queue[n + i].item
            BY <1>3, <1>5 DEF Before
        <2>1. ~closed BY <1>1 DEF BatchInv, QueueInOrder
        <2>2. n + i > Len(batch) /\ n + i \in 1..Len(queue) BY <1>1, <1>2, <2>1
        <2> QED BY <2>2 DEF BatchInv, RowsAreOlder, Before
    <1>11. RowsAreOlder' BY <1>5, <1>10 DEF BatchInv, RowsAreOlder, Ascending
    <1>12. BooksAgree'
        <2>1. Items(queue) \subseteq Items(queue)' \cup Rows
            <3> SUFFICES ASSUME NEW k \in 1..Len(queue)
                         PROVE  queue[k].item \in Items(queue)' \cup Rows
                BY DEF Items
            <3>1. ~closed BY <1>1 DEF BatchInv, QueueInOrder
            <3>2. CASE k <= n
                <4>1. k \in 1..Len(batch) /\ batch[k] = queue[k].item
                    BY <1>0, <1>1, <1>2, <3>1, <3>2 DEF BatchInv, RoundIsFront
                <4>2. batch[k] \in Range(batch) BY <1>0, <4>1, RangeIs DEF BatcherTypeOK
                <4> QED BY <4>1, <4>2 DEF BatchInv, RowsAreOlder
            <3>3. CASE k > n
                <4>1. k - n \in 1..Len(queue) - n /\ n + (k - n) = k BY <1>1, <3>3
                <4> QED BY <1>3, <4>1
            <3> QED BY <1>1, <3>2, <3>3
        <2> QED BY <1>5, <1>6, <2>1 DEF BatchInv, BooksAgree
    <1> QED BY <1>7, <1>8, <1>9, <1>11, <1>12 DEF BatchInv

\* No two places of the queue hold the same record.
LEMMA ItemsCount ==
    ASSUME BatchInv, NEW P, P \subseteq 1..Len(queue)
    PROVE  LET S == {queue[i].item : i \in P} IN
           /\ IsFiniteSet(P) /\ IsFiniteSet(S) /\ Cardinality(P) \in Nat
           /\ Cardinality(lost \cup S) = Cardinality(lost) + Cardinality(P)
    <1> DEFINE S == {queue[i].item : i \in P}
    <1> DEFINE f == [i \in P |-> queue[i].item]
    <1>1. BatcherTypeOK BY DEF BatchInv
    <1>2. IsFiniteSet(P) /\ Cardinality(P) \in Nat
        <2>1. IsFiniteSet(1..Len(queue)) BY <1>1, ItemsAre, FS_Interval
        <2> QED BY <2>1, FS_Subset, FS_CardinalityType
    <1>3. f \in Bijection(P, S)
        <2>1. \A i, k \in P : queue[i].item = queue[k].item => i = k
            <3> SUFFICES ASSUME NEW i \in P, NEW k \in P, i < k
                         PROVE  queue[i].item < queue[k].item
                BY <1>1, ItemsAre, BatcherAssumption DEF Record
            <3> QED BY DEF BatchInv, QueueInOrder
        <2> QED BY <2>1 DEF Bijection, Injection, Surjection, IsInjective
    <1>4. IsFiniteSet(S) /\ Cardinality(S) = Cardinality(P)
        BY <1>2, <1>3, FS_Bijection DEF ExistsBijection
    <1>5. IsFiniteSet(lost) /\ Cardinality(lost) \in Nat
        <2>1. IsFiniteSet(Record) BY FS_Interval, BatcherAssumption DEF Record
        <2>2. lost \in SUBSET Record BY <1>1 DEF BatcherTypeOK
        <2> QED BY <2>1, <2>2, FS_Subset, FS_CardinalityType
    <1>6. lost \cap S = {}
        <2>1. S \subseteq Items(queue) BY DEF Items
        <2> QED BY <2>1 DEF BatchInv, QueueInOrder
    <1>7. Cardinality(lost \cup S) = Cardinality(lost) + Cardinality(S)
        <2>1. Cardinality(lost \cap S) = 0 BY <1>6, FS_EmptySet
        <2> HIDE DEF S
        <2>2. Cardinality(lost \cup S)
                = Cardinality(lost) + Cardinality(S) - Cardinality(lost \cap S)
            BY <1>4, <1>5, FS_Union
        <2> QED BY <1>2, <1>4, <1>5, <2>1, <2>2
    <1> QED BY <1>2, <1>4, <1>7

\* Close counts what it leaves.
LEMMA CloseSealKeeps ==
    ASSUME BatchInv, CloseSeal
    PROVE  BatchInv'
    <1> USE DEF CloseSeal, tableVars, roundVars
    <1>0. BatcherTypeOK BY DEF BatchInv
    <1>1. Items(queue)' = {} /\ Len(queue') = 0 /\ queue' \in Seq(Slot) BY DEF Items
    <1>2. Rows' = Rows BY DEF Rows
    <1>3. Len(queue) \in Nat /\ Items(queue) \subseteq Record BY <1>0, ItemsAre DEF Items
    <1>4. BatcherTypeOK' BY <1>0, <1>1, <1>3, BatcherAssumption DEF BatcherTypeOK
    <1>5. QueueInOrder' BY <1>1 DEF QueueInOrder
    <1>6. RoundIsFront' BY DEF BatchInv, RoundIsFront, Ascending
    <1>7. RowsAreOlder' BY <1>1, <1>2 DEF BatchInv, RowsAreOlder, Ascending, Before
    <1>8. BooksAgree'
        <2>1. Cardinality(lost') = Cardinality(lost) + Cardinality(1..Len(queue))
            BY ItemsCount DEF Items
        <2>2. Cardinality(1..Len(queue)) = Len(queue) BY <1>3, FS_Interval
        <2>3. Cardinality(lost) \in Nat /\ Cardinality(rejected) \in Nat
            <3>1. IsFiniteSet(Record) BY FS_Interval, BatcherAssumption DEF Record
            <3>2. lost \in SUBSET Record /\ rejected \in SUBSET Record
                BY <1>0 DEF BatcherTypeOK
            <3> QED BY <3>1, <3>2, FS_Subset, FS_CardinalityType
        <2>4. appended' = (rejected \cup lost \cup Items(queue) \cup Rows)'
            BY <1>1, <1>2 DEF BatchInv, BooksAgree
        <2> QED BY <1>3, <2>1, <2>2, <2>3, <2>4 DEF BatchInv, BooksAgree
    <1> QED BY <1>4, <1>5, <1>6, <1>7, <1>8 DEF BatchInv

\* An interval in ascending order.
LEMMA InOrderIs ==
    ASSUME NEW n \in Nat, NEW k \in 0..n
    PROVE  LET P == (k + 1)..n IN
           /\ Cardinality(P) = n - k
           /\ InOrder(P) \in [1..n - k -> P] /\ Range(InOrder(P)) = P
           /\ \A i, l \in 1..n - k : i < l => InOrder(P)[i] < InOrder(P)[l]
    <1> DEFINE P == (k + 1)..n
    <1> DEFINE Fits(f) == Range(f) = P /\ \A i, l \in DOMAIN f : i < l => f[i] < f[l]
    <1>1. Cardinality(P) = n - k
        <2>1. Cardinality(P) = IF k + 1 > n THEN 0 ELSE n - (k + 1) + 1 BY FS_Interval
        <2> QED BY <2>1
    <1>2. \E f \in [1..n - k -> P] : Fits(f)
        <2> DEFINE g == [i \in 1..n - k |-> k + i]
        <2>1. g \in [1..n - k -> P] OBVIOUS
        <2>2. P \subseteq Range(g)
            <3> SUFFICES ASSUME NEW j \in P PROVE j \in Range(g) OBVIOUS
            <3>1. j - k \in 1..n - k /\ g[j - k] = j OBVIOUS
            <3> QED BY <3>1 DEF Range
        <2>3. Range(g) \subseteq P BY <2>1 DEF Range
        <2>4. \A i, l \in DOMAIN g : i < l => g[i] < g[l] OBVIOUS
        <2> QED BY <2>1, <2>2, <2>3, <2>4
    <1>3. InOrder(P) = CHOOSE f \in [1..n - k -> P] : Fits(f) BY <1>1 DEF InOrder
    <1> HIDE DEF P, Fits
    <1>4. InOrder(P) \in [1..n - k -> P] /\ Fits(InOrder(P)) BY <1>2, <1>3
    <1> QED BY <1>1, <1>4 DEF Fits, P

\* The marks of a failed batch: a front of it is given up.
LEMMA GoneIs ==
    ASSUME BatchInv
    PROVE  \E n \in 0..Len(queue), k \in 0..Len(queue) :
              k <= n /\ Attempted = 1..n /\ Gone = 1..k
                /\ Cardinality(Attempted) = n /\ Cardinality(Gone) = k
    <1> DEFINE n == IF Len(batch) <= Len(queue) THEN Len(batch) ELSE Len(queue)
    <1> DEFINE k == Cardinality(Gone)
    <1>1. n \in 0..Len(queue) /\ Attempted = 1..n /\ Len(queue) \in Nat
        BY DEF Attempted, BatchInv, BatcherTypeOK
    <1> HIDE DEF n
    <1>2. Cardinality(Attempted) = n /\ IsFiniteSet(Attempted) BY <1>1, FS_Interval
    <1>3. Gone \subseteq 1..n BY <1>1 DEF Gone
    <1>4. IsFiniteSet(Gone) /\ k \in Nat /\ k <= n
        BY <1>1, <1>2, <1>3, FS_Subset, FS_CardinalityType
    <1>5. Gone \subseteq 1..k
        <2> SUFFICES ASSUME NEW i \in Gone PROVE i <= k BY <1>1, <1>3, <1>4
        <2>1. 1..i \subseteq Gone
            BY <1>1, <1>3 DEF Gone, BatchInv, QueueInOrder
        <2>2. Cardinality(1..i) = i BY <1>1, <1>3, FS_Interval
        <2>3. Cardinality(1..i) <= k BY <1>4, <2>1, FS_Subset
        <2> QED BY <2>2, <2>3
    <1>6. Gone = 1..k
        <2>1. IsFiniteSet(1..k) /\ Cardinality(1..k) = k BY <1>4, FS_Interval
        <2> QED BY <1>5, <2>1, FS_Subset
    <1> QED BY <1>1, <1>2, <1>4, <1>6

\* What is queued after a failure: the places behind the first k, in their order,
\* of which the first n - k have been marked.
LEMMA MarkedIs ==
    ASSUME BatchInv, NEW n \in 0..Len(queue), NEW k \in 0..Len(queue), k <= n,
           Attempted = 1..n, Gone = 1..k, Cardinality(Attempted) = n
    PROVE  \E place \in [1..Len(queue) - k -> (k + 1)..Len(queue)] :
              /\ Marked \o Untried \in Seq(Slot)
              /\ Len(Marked \o Untried) = Len(queue) - k
              /\ Range(place) = (k + 1)..Len(queue)
              /\ \A i, l \in 1..Len(queue) - k : i < l => place[i] < place[l]
              /\ \A i \in 1..Len(queue) - k :
                    /\ (Marked \o Untried)[i].item = queue[place[i]].item
                    /\ (Marked \o Untried)[i].retried =
                            IF i <= n - k THEN TRUE ELSE queue[i + k].retried
    <1> DEFINE L == Len(queue)
    <1> DEFINE g == InOrder((k + 1)..n)
    <1> DEFINE place == [i \in 1..L - k |-> IF i <= n - k THEN g[i] ELSE i + k]
    <1>0. BatcherTypeOK /\ L \in Nat /\ n \in Nat /\ k \in Nat
        BY DEF BatchInv, BatcherTypeOK
    <1>1. Attempted \ Gone = (k + 1)..n BY <1>0
    <1>2. /\ Cardinality((k + 1)..n) = n - k
          /\ g \in [1..n - k -> (k + 1)..n] /\ Range(g) = (k + 1)..n
          /\ \A i, l \in 1..n - k : i < l => g[i] < g[l]
        BY <1>0, InOrderIs
    <1>3. Marked = [i \in 1..n - k |-> [queue[g[i]] EXCEPT !.retried = TRUE]]
        BY <1>1, <1>2 DEF Marked
    <1> HIDE DEF g
    <1>4. /\ Marked \in Seq(Slot) /\ Len(Marked) = n - k
          /\ \A i \in 1..n - k : Marked[i].item = queue[g[i]].item /\ Marked[i].retried = TRUE
        <2>1. \A i \in 1..n - k : g[i] \in 1..L BY <1>0, <1>2
        <2>2. \A i \in 1..n - k : queue[g[i]] \in Slot BY <1>0, <2>1, ItemsAre
        <2>3. \A s \in Slot : /\ [s EXCEPT !.retried = TRUE] \in Slot
                               /\ [s EXCEPT !.retried = TRUE].item = s.item
                               /\ [s EXCEPT !.retried = TRUE].retried = TRUE
            BY DEF Slot
        <2>4. n - k \in Nat BY <1>0
        <2>5. Marked \in [1..n - k -> Slot] BY <1>3, <2>2, <2>3
        <2>6. \A i \in 1..n - k : Marked[i] = [queue[g[i]] EXCEPT !.retried = TRUE]
            BY <1>3
        <2> HIDE DEF Marked
        <2>7. Marked \in Seq(Slot) /\ Len(Marked) = n - k BY <2>4, <2>5
        <2> QED BY <2>2, <2>3, <2>6, <2>7
    <1>5. /\ Untried \in Seq(Slot) /\ Len(Untried) = L - n
          /\ \A i \in 1..L - n : Untried[i] = queue[n + i]
        BY <1>0, RestIs DEF Untried
    <1>6. /\ Marked \o Untried \in Seq(Slot)
          /\ Len(Marked \o Untried) = (n - k) + (L - n)
          /\ \A i \in 1..(n - k) + (L - n) : (Marked \o Untried)[i] =
                IF i <= n - k THEN Marked[i] ELSE Untried[i - (n - k)]
        <2>1. /\ Marked \o Untried \in Seq(Slot)
              /\ Len(Marked \o Untried) = Len(Marked) + Len(Untried)
              /\ \A i \in 1..Len(Marked) + Len(Untried) : (Marked \o Untried)[i] =
                    IF i <= Len(Marked) THEN Marked[i] ELSE Untried[i - Len(Marked)]
            BY <1>4, <1>5, ConcatProperties
        <2> HIDE DEF Marked, Untried
        <2>2. Len(Marked) = n - k /\ Len(Untried) = L - n BY <1>4, <1>5
        <2> QED BY <2>1, <2>2
    <1>7. place \in [1..L - k -> (k + 1)..L]
        <2> SUFFICES ASSUME NEW i \in 1..L - k
                     PROVE  (IF i <= n - k THEN g[i] ELSE i + k) \in (k + 1)..L
            OBVIOUS
        <2>1. CASE i <= n - k BY <1>0, <1>2, <2>1
        <2>2. CASE ~(i <= n - k) BY <1>0, <2>2
        <2> QED BY <2>1, <2>2
    <1>8. \A j \in (k + 1)..L : \E i \in 1..L - k : place[i] = j
        <2> SUFFICES ASSUME NEW j \in (k + 1)..L PROVE \E i \in 1..L - k : place[i] = j
            OBVIOUS
        <2>1. CASE j <= n
            <3>1. j \in Range(g) BY <1>0, <1>2, <2>1
            <3>2. PICK i \in 1..n - k : g[i] = j BY <1>2, <3>1 DEF Range
            <3>3. i \in 1..L - k /\ place[i] = j BY <1>0, <3>2
            <3> QED BY <3>3
        <2>2. CASE j > n
            <3>1. j - k \in 1..L - k /\ ~(j - k <= n - k) /\ (j - k) + k = j BY <1>0, <2>2
            <3>2. place[j - k] = j BY <3>1
            <3> QED BY <3>1, <3>2
        <2> QED BY <1>0, <2>1, <2>2
    <1>9. Range(place) = (k + 1)..L
        <2>1. Range(place) \subseteq (k + 1)..L BY <1>7 DEF Range
        <2>2. (k + 1)..L \subseteq Range(place) BY <1>7, <1>8 DEF Range
        <2> QED BY <2>1, <2>2
    <1>10. \A i, l \in 1..L - k : i < l => place[i] < place[l]
        <2> SUFFICES ASSUME NEW i \in 1..L - k, NEW l \in 1..L - k, i < l
                     PROVE  place[i] < place[l]
            OBVIOUS
        <2>1. CASE l <= n - k BY <1>0, <1>2, <2>1
        <2>2. CASE i <= n - k /\ ~(l <= n - k)
            <3>1. g[i] \in (k + 1)..n BY <1>0, <1>2, <2>2
            <3> QED BY <1>0, <2>2, <3>1
        <2>3. CASE ~(i <= n - k) /\ ~(l <= n - k) BY <1>0, <2>3
        <2> QED BY <1>0, <2>1, <2>2, <2>3
    <1>11. \A i \in 1..L - k :
              /\ (Marked \o Untried)[i].item = queue[place[i]].item
              /\ (Marked \o Untried)[i].retried =
                    IF i <= n - k THEN TRUE ELSE queue[i + k].retried
        <2> SUFFICES ASSUME NEW i \in 1..L - k
                     PROVE  /\ (Marked \o Untried)[i].item = queue[place[i]].item
                            /\ (Marked \o Untried)[i].retried =
                                    IF i <= n - k THEN TRUE ELSE queue[i + k].retried
            OBVIOUS
        <2>1. i \in 1..(n - k) + (L - n) BY <1>0
        <2>2. CASE i <= n - k
            <3>1. i \in 1..n - k /\ place[i] = g[i] BY <1>0, <2>2
            <3>2. (Marked \o Untried)[i] = Marked[i] BY <1>6, <2>1, <2>2
            <3> QED BY <1>4, <2>2, <3>1, <3>2
        <2>3. CASE ~(i <= n - k)
            <3>1. i - (n - k) \in 1..L - n /\ n + (i - (n - k)) = i + k BY <1>0, <2>3
            <3>2. place[i] = i + k BY <2>3
            <3>3. (Marked \o Untried)[i] = Untried[i - (n - k)] BY <1>6, <2>1, <2>3
            <3>4. Untried[i - (n - k)] = queue[i + k] BY <1>5, <3>1
            <3> QED BY <2>3, <3>2, <3>3, <3>4
        <2> QED BY <2>2, <2>3
    <1>12. Len(Marked \o Untried) = L - k BY <1>0, <1>6
    <1> HIDE DEF place
    <1> QED BY <1>6, <1>7, <1>9, <1>10, <1>11, <1>12

\* A failed round keeps the order, and counts what it gives up.
LEMMA RecordFailureKeeps ==
    ASSUME BatchInv, RecordFailure
    PROVE  BatchInv'
    <1> USE DEF RecordFailure, EndRound, tableVars
    <1>0. BatcherTypeOK BY DEF BatchInv
    <1>1. PICK n \in 0..Len(queue), k \in 0..Len(queue) :
            k <= n /\ Attempted = 1..n /\ Gone = 1..k
              /\ Cardinality(Attempted) = n /\ Cardinality(Gone) = k
        BY GoneIs
    <1>2. PICK place \in [1..Len(queue) - k -> (k + 1)..Len(queue)] :
              /\ queue' \in Seq(Slot) /\ Len(queue') = Len(queue) - k
              /\ Range(place) = (k + 1)..Len(queue)
              /\ \A i, l \in 1..Len(queue) - k : i < l => place[i] < place[l]
              /\ \A i \in 1..Len(queue) - k :
                    /\ queue'[i].item = queue[place[i]].item
                    /\ queue'[i].retried = IF i <= n - k THEN TRUE ELSE queue[i + k].retried
        BY <1>1, MarkedIs
    <1>3. Len(queue) \in Nat /\ n \in Nat /\ k \in Nat BY <1>0 DEF BatcherTypeOK
    <1> DEFINE given == {queue[i].item : i \in Gone}
    <1>4. given \subseteq Items(queue) /\ Items(queue) \subseteq Record
        <2>1. Gone \subseteq 1..Len(queue) BY <1>1, <1>3
        <2>2. \A i \in 1..Len(queue) : queue[i].item \in Record BY <1>0, ItemsAre
        <2> QED BY <2>1, <2>2 DEF Items
    <1>5. /\ Items(queue)' \subseteq Items(queue) \ given
          /\ Items(queue) \subseteq Items(queue)' \cup given
        <2>1. Items(queue)' = {queue'[i].item : i \in 1..Len(queue')} BY DEF Items
        <2>2. \A i \in 1..Len(queue') :
                queue'[i].item \in Items(queue) /\ queue'[i].item \notin given
            <3> SUFFICES ASSUME NEW i \in 1..Len(queue')
                         PROVE  /\ queue'[i].item \in Items(queue)
                                /\ \A l \in Gone : queue[l].item # queue'[i].item
                OBVIOUS
            <3>1. place[i] \in (k + 1)..Len(queue) /\ queue'[i].item = queue[place[i]].item
                BY <1>2
            <3>2. place[i] \in 1..Len(queue) BY <1>3, <3>1
            <3>3. \A l \in Gone : l \in 1..Len(queue) /\ l < place[i] BY <1>1, <1>3, <3>1
            <3>4. \A l \in Gone : queue[l].item < queue[place[i]].item
                BY <3>2, <3>3 DEF BatchInv, QueueInOrder
            <3>5. \A l \in Gone : queue[l].item \in Nat
                BY <1>0, <3>3, ItemsAre DEF Record
            <3>6. queue[place[i]].item \in Nat BY <1>0, <3>2, ItemsAre DEF Record
            <3>7. queue'[i].item \in Items(queue) BY <1>0, <3>1, <3>2, ItemsAre
            <3> QED BY <3>1, <3>4, <3>5, <3>6, <3>7
        <2>3. \A j \in 1..Len(queue) : queue[j].item \in Items(queue)' \cup given
            <3> SUFFICES ASSUME NEW j \in 1..Len(queue), j \notin Gone
                         PROVE  queue[j].item \in Items(queue)'
                OBVIOUS
            <3>1. j \in Range(place) BY <1>1, <1>2, <1>3
            <3>2. PICK i \in 1..Len(queue) - k : place[i] = j BY <1>2, <3>1 DEF Range
            <3>3. i \in 1..Len(queue') /\ queue'[i].item = queue[j].item BY <1>2, <3>2
            <3> QED BY <2>1, <3>3
        <2> HIDE DEF given
        <2>4. Items(queue)' \subseteq Items(queue) \ given BY <2>1, <2>2
        <2>5. Items(queue) \subseteq Items(queue)' \cup given BY <2>3 DEF Items
        <2> QED BY <2>4, <2>5
    <1>6. IsFiniteSet(Gone) /\ Cardinality(lost') = Cardinality(lost) + k
        <2>1. Gone \subseteq 1..Len(queue) BY <1>1, <1>3
        <2> QED BY <1>1, <2>1, ItemsCount
    <1>7. Rows' = Rows BY DEF Rows
    <1>8. BatcherTypeOK'
        <2>1. <<>> \in Seq(Record) OBVIOUS
        <2>2. LoopAfter(writer) \in {"ticking", "last", "done"}
            BY <1>0 DEF LoopAfter, BatcherTypeOK
        <2>3. Len(queue') <= Capacity BY <1>0, <1>2, <1>3, BatcherAssumption DEF BatcherTypeOK
        <2>4. dropped' \in Nat BY <1>0, <1>1, <1>3 DEF BatcherTypeOK
        <2>5. lost' \subseteq Record BY <1>0, <1>4 DEF BatcherTypeOK
        <2> QED BY <1>0, <1>2, <2>1, <2>2, <2>3, <2>4, <2>5 DEF BatcherTypeOK
    <1>9. QueueInOrder'
        <2>1. \A i, l \in 1..Len(queue') : i < l => queue'[i].item < queue'[l].item
            <3> SUFFICES ASSUME NEW i \in 1..Len(queue'), NEW l \in 1..Len(queue'), i < l
                         PROVE  queue'[i].item < queue'[l].item
                OBVIOUS
            <3>0. i \in 1..Len(queue) - k /\ l \in 1..Len(queue) - k BY <1>2
            <3>1. place[i] \in 1..Len(queue) /\ place[l] \in 1..Len(queue)
                BY <1>3, <3>0
            <3>2. place[i] < place[l] BY <1>2
            <3>3. queue[place[i]].item < queue[place[l]].item
                BY <3>1, <3>2 DEF BatchInv, QueueInOrder
            <3> QED BY <1>2, <3>3
        <2>2. \A i, l \in 1..Len(queue') : i < l /\ queue'[l].retried => queue'[i].retried
            <3> SUFFICES ASSUME NEW i \in 1..Len(queue'), NEW l \in 1..Len(queue'), i < l,
                                queue'[l].retried, ~(i <= n - k)
                         PROVE  queue'[i].retried
                BY <1>2
            <3>1. ~(l <= n - k) BY <1>2, <1>3
            <3>2. i + k \in 1..Len(queue) /\ l + k \in 1..Len(queue) /\ i + k < l + k
                BY <1>2, <1>3
            <3>3. queue[l + k].retried BY <1>2, <3>1
            <3>4. queue[i + k].retried BY <3>2, <3>3 DEF BatchInv, QueueInOrder
            <3> QED BY <1>2, <3>4
        <2>3. closed' => queue' = <<>>
            <3> SUFFICES ASSUME closed PROVE queue' = <<>> OBVIOUS
            <3>1. queue = <<>> BY DEF BatchInv, QueueInOrder
            <3>2. Items(queue) = {} BY <3>1 DEF Items
            <3>3. Items(queue)' = {} BY <1>5, <3>2
            <3>4. Items(queue)' = {queue'[i].item : i \in 1..Len(queue')} BY DEF Items
            <3>5. 1..Len(queue') = {} BY <3>3, <3>4
            <3>6. Len(queue') \in Nat BY <1>2
            <3>7. Len(queue') = 0 BY <3>5, <3>6
            <3> QED BY <1>2, <3>7
        <2>4. Items(queue)' \subseteq appended' \ lost'
            BY <1>5 DEF BatchInv, QueueInOrder
        <2> QED BY <2>1, <2>2, <2>3, <2>4 DEF QueueInOrder
    <1>10. RoundIsFront' BY DEF RoundIsFront, Ascending, Range
    <1>11. RowsAreOlder'
        <2>1. Before(Rows', Items(queue)') BY <1>5, <1>7 DEF BatchInv, RowsAreOlder, Before
        <2> QED BY <1>7, <2>1 DEF BatchInv, RowsAreOlder, Ascending
    <1>12. BooksAgree'
        <2>1. Cardinality(lost) \in Nat /\ Cardinality(rejected) \in Nat
            <3>1. IsFiniteSet(Record) BY FS_Interval, BatcherAssumption DEF Record
            <3>2. lost \in SUBSET Record /\ rejected \in SUBSET Record
                BY <1>0 DEF BatcherTypeOK
            <3> QED BY <3>1, <3>2, FS_Subset, FS_CardinalityType
        <2>2. dropped' = Cardinality(rejected') + Cardinality(lost')
            BY <1>1, <1>3, <1>6, <2>1 DEF BatchInv, BooksAgree
        <2>3. appended' = rejected' \cup lost' \cup Items(queue)' \cup Rows'
            BY <1>4, <1>5, <1>7 DEF BatchInv, BooksAgree
        <2> QED BY <2>2, <2>3 DEF BooksAgree
    <1> QED BY <1>8, <1>9, <1>10, <1>11, <1>12 DEF BatchInv
-----------------------------------------------------------------------------
\* The feed: the steps of the writer leave it alone, the others one by one.
LEMMA WriterKeeps ==
    ASSUME LogInv, Writer, UNCHANGED logVars
    PROVE  LogInv'
    <1> USE DEF logVars, queueVars, closeVars, tableVars, roundVars
    <1>0. BatchInv /\ BatcherTypeOK BY DEF LogInv, BatchInv
    <1>1. BatchInv' /\ appended' = appended /\ closing' = closing
        <2>1. CASE \E f \in Caller \cup {Loop} : FlushNothing(f)
            BY <1>0, <2>1, NothingMoves DEF FlushNothing, LoopAfter, BatcherTypeOK
        <2>2. CASE \E f \in Caller \cup {Loop} : FlushTake(f)
            BY <1>0, <2>2, FlushTakeKeeps DEF FlushTake
        <2>3. CASE Transaction BY <1>0, <2>3, TransactionKeeps DEF Transaction
        <2>4. CASE TakeCommitted BY <1>0, <2>4, TakeCommittedKeeps DEF TakeCommitted
        <2>5. CASE RecordFailure BY <1>0, <2>5, RecordFailureKeeps DEF RecordFailure
        <2>6. CASE SetRetention BY <1>0, <2>6, NothingMoves DEF SetRetention, BatcherTypeOK
        <2>7. CASE LoopStops BY <1>0, <2>7, NothingMoves DEF LoopStops, BatcherTypeOK
        <2>8. CASE CloseSeal BY <1>0, <2>8, CloseSealKeeps DEF CloseSeal
        <2> QED BY <2>1, <2>2, <2>3, <2>4, <2>5, <2>6, <2>7, <2>8 DEF Writer, Round
    <1>2. TypeOK' BY <1>1 DEF LogInv, BatchInv, TypeOK
    <1>3. FeedInOrder'
        BY <1>1 DEF LogInv, FeedInOrder, Ascending, OnTheWay, Delivered, LogDrained
    <1> QED BY <1>1, <1>2, <1>3 DEF LogInv

\* The batcher and what it holds stay as they are.
LEMMA BatchRests ==
    ASSUME BatchInv, UNCHANGED <<queueVars, tableVars, roundVars, loop, closed>>,
           closing' \in BOOLEAN
    PROVE  BatchInv' /\ BatcherTypeOK'
    <1>1. keep \in Keeps /\ loop \in {"ticking", "last", "done"}
        BY DEF BatchInv, BatcherTypeOK
    <1>2. BatchInv' BY <1>1, NothingMoves DEF tableVars
    <1> QED BY <1>2 DEF BatchInv

LEMMA PublishKeeps ==
    ASSUME LogInv, Publish
    PROVE  LogInv'
    <1> USE DEF Publish, batchVars, closeVars, queueVars
    <1> DEFINE e == published + 1
    <1>0. TypeOK /\ BatchInv /\ FeedInOrder BY DEF LogInv
    <1>1. BatchInv' /\ BatcherTypeOK'
        BY <1>0, BatchRests DEF BatchInv, BatcherTypeOK
    <1>2. e \in Record /\ e \in Nat /\ published \in Nat
            /\ 1..e = (1..published) \cup {e} /\ e \notin 1..published
        BY <1>0, BatcherAssumption DEF TypeOK, Record
    <1>3. channel \in Seq(Record) /\ Len(channel) \in Nat BY <1>0 DEF TypeOK
    <1>4. \A x \in Range(channel) : x \in Nat /\ x < e
        BY <1>0, <1>2 DEF FeedInOrder
    <1>5. appended \subseteq 1..published /\ hand \subseteq 1..published
            /\ \A x \in appended \cup hand : x < e
        BY <1>0, <1>2 DEF FeedInOrder
    <1>6. CASE open /\ Len(channel) < Buffer
        <2>1. /\ channel' \in Seq(Record) /\ Len(channel') = Len(channel) + 1
              /\ \A i \in 1..Len(channel) : channel'[i] = channel[i]
              /\ channel'[Len(channel) + 1] = e
            BY <1>2, <1>3, <1>6, AppendProperties
        <2>2. Range(channel') = Range(channel) \cup {e}
            <3>1. 1..Len(channel) + 1 = (1..Len(channel)) \cup {Len(channel) + 1} BY <1>3
            <3>2. DOMAIN channel' = 1..Len(channel) + 1 /\ DOMAIN channel = 1..Len(channel)
                BY <1>3, <2>1
            <3> QED BY <2>1, <3>1, <3>2 DEF Range
        <2>3. Ascending(channel')
            <3>1. \A i \in 1..Len(channel) : channel[i] < e BY <1>3, <1>4, RangeIs
            <3> QED BY <1>0, <1>3, <2>1, <3>1 DEF FeedInOrder, Ascending
        <2>4. Len(channel') <= Buffer BY <1>3, <1>6, <2>1, EventLogAssumption
        <2>5. TypeOK'
            <3>1. published' \in 0..MaxItems BY <1>0, <1>2, BatcherAssumption DEF TypeOK
            <3> QED BY <1>0, <1>1, <1>6, <2>1, <2>4, <3>1 DEF TypeOK
        <2>6. ~closing BY <1>0, <1>6 DEF FeedInOrder, LogDrained
        <2>7. appended' \cup hand' \cup OnTheWay' = Delivered'
            <3>1. e \notin missed BY <1>0, <1>2 DEF FeedInOrder
            <3>2. OnTheWay' = OnTheWay \cup ({e} \ Jobless) BY <2>2 DEF OnTheWay
            <3>3. Delivered' = Delivered \cup ({e} \ Jobless)
                BY <1>2, <1>6, <3>1 DEF Delivered
            <3> QED BY <1>0, <3>2, <3>3 DEF FeedInOrder
        <2>8. FeedInOrder'
            <3>1. /\ appended' \subseteq 1..published' /\ hand' \subseteq 1..published'
                  /\ Range(channel') \subseteq 1..published' /\ missed' \subseteq 1..published'
                BY <1>0, <1>2, <1>5, <1>6, <2>2 DEF FeedInOrder
            <3>2. /\ Before(appended', hand') /\ Before(appended', Range(channel'))
                  /\ Before(hand', Range(channel'))
                BY <1>0, <1>5, <2>2 DEF FeedInOrder, Before
            <3> QED BY <2>3, <2>6, <2>7, <3>1, <3>2 DEF FeedInOrder
        <2> QED BY <1>1, <2>5, <2>8 DEF LogInv
    <1>7. CASE ~(open /\ Len(channel) < Buffer)
        <2>1. missed' = missed \cup {e} /\ channel' = channel BY <1>7
        <2>2. TypeOK'
            BY <1>0, <1>1, <1>2, <2>1, BatcherAssumption DEF TypeOK, Record
        <2>3. Delivered' = Delivered BY <1>2, <2>1 DEF Delivered
        <2>4. OnTheWay' = OnTheWay BY <2>1 DEF OnTheWay
        <2>5. FeedInOrder'
            <3>1. /\ appended' \subseteq 1..published' /\ hand' \subseteq 1..published'
                  /\ Range(channel') \subseteq 1..published' /\ missed' \subseteq 1..published'
                BY <1>0, <1>2, <1>5, <2>1 DEF FeedInOrder
            <3> QED BY <1>0, <2>1, <2>3, <2>4, <3>1 DEF FeedInOrder, Ascending, LogDrained
        <2> QED BY <1>1, <2>2, <2>5 DEF LogInv
    <1> QED BY <1>6, <1>7

LEMMA TakeKeeps ==
    ASSUME LogInv, Take
    PROVE  LogInv'
    <1> USE DEF Take, batchVars, closeVars, queueVars
    <1> DEFINE e == Head(channel)
    <1>0. TypeOK /\ BatchInv /\ FeedInOrder BY DEF LogInv
    <1>1. BatchInv' /\ BatcherTypeOK'
        BY <1>0, BatchRests DEF BatchInv, BatcherTypeOK
    <1>2. channel \in Seq(Record) /\ Len(channel) \in Nat /\ Len(channel) >= 1
        BY <1>0 DEF TypeOK
    <1>3. /\ channel' \in Seq(Record) /\ Len(channel') = Len(channel) - 1
          /\ \A i \in 1..Len(channel) - 1 : channel'[i] = channel[i + 1]
          /\ e \in Record /\ e = channel[1]
        BY <1>2, HeadTailProperties
    <1>4. Range(channel) = {e} \cup Range(channel')
        <2>1. DOMAIN channel' = 1..Len(channel) - 1 /\ DOMAIN channel = 1..Len(channel)
            BY <1>2, <1>3
        <2>2. Range(channel') = {channel[i + 1] : i \in 1..Len(channel) - 1}
            BY <1>3, <2>1 DEF Range
        <2>3. \A k \in 1..Len(channel) : k = 1 \/ \E i \in 1..Len(channel) - 1 : k = i + 1
            <3> SUFFICES ASSUME NEW k \in 1..Len(channel), k # 1
                         PROVE  k - 1 \in 1..Len(channel) - 1 /\ k = (k - 1) + 1
                OBVIOUS
            <3> QED BY <1>2
        <2>4. \A i \in 1..Len(channel) - 1 : i + 1 \in 1..Len(channel) BY <1>2
        <2>5. 1 \in 1..Len(channel) BY <1>2
        <2>6. Range(channel) = {channel[i] : i \in 1..Len(channel)} BY <2>1 DEF Range
        <2>7. \A i \in 1..Len(channel) : channel[i] \in {e} \cup Range(channel')
            BY <1>3, <2>2, <2>3
        <2>8. Range(channel') \subseteq Range(channel) BY <2>2, <2>4, <2>6
        <2>9. e \in Range(channel) BY <1>3, <2>5, <2>6
        <2>10. Range(channel) \subseteq {e} \cup Range(channel') BY <2>6, <2>7
        <2> QED BY <2>8, <2>9, <2>10
    <1>5. \A x \in Range(channel') : e < x
        <2> SUFFICES ASSUME NEW i \in 1..Len(channel) - 1 PROVE e < channel[i + 1]
            BY <1>3 DEF Range
        <2>1. 1 \in 1..Len(channel) /\ i + 1 \in 1..Len(channel) /\ 1 < i + 1 BY <1>2
        <2> QED BY <1>0, <1>3, <2>1 DEF FeedInOrder, Ascending
    <1>6. Ascending(channel')
        <2> SUFFICES ASSUME NEW i \in 1..Len(channel'), NEW k \in 1..Len(channel'), i < k
                     PROVE  channel'[i] < channel'[k]
            BY DEF Ascending
        <2>1. i + 1 \in 1..Len(channel) /\ k + 1 \in 1..Len(channel) /\ i + 1 < k + 1
            BY <1>2, <1>3
        <2>2. channel[i + 1] < channel[k + 1] BY <1>0, <2>1 DEF FeedInOrder, Ascending
        <2> QED BY <1>2, <1>3, <2>2
    <1>7. ~closing BY <1>0 DEF FeedInOrder, LogDrained
    <1>8. feed = "bus" BY <1>0 DEF FeedInOrder, TypeOK
    <1>9. TypeOK'
        <2>1. hand' \subseteq {e} /\ hand' \subseteq Record BY <1>3
        <2>2. Cardinality(hand') <= 1
            <3>1. IsFiniteSet({e}) /\ Cardinality({e}) = 1 BY FS_Singleton
            <3>2. Cardinality(hand') <= Cardinality({e}) BY <2>1, <3>1, FS_Subset
            <3> QED BY <3>1, <3>2
        <2>3. Len(channel') <= Buffer BY <1>0, <1>2, <1>3, EventLogAssumption DEF TypeOK
        <2> QED BY <1>0, <1>1, <1>3, <2>1, <2>2, <2>3 DEF TypeOK
    <1>10. FeedInOrder'
        <2>1. appended' \cup hand' \cup OnTheWay' = Delivered'
            <3>1. OnTheWay = hand' \cup OnTheWay' BY <1>4, <1>8 DEF OnTheWay
            <3>2. Delivered' = Delivered BY DEF Delivered
            <3> QED BY <1>0, <3>1, <3>2 DEF FeedInOrder
        <2>2. /\ hand' \subseteq Range(channel) /\ hand' \subseteq {e}
              /\ Range(channel') \subseteq Range(channel)
            BY <1>4
        <2>3. /\ Before(appended', hand') /\ Before(appended', Range(channel'))
              /\ Before(hand', Range(channel'))
            BY <1>0, <1>5, <2>2 DEF FeedInOrder, Before
        <2>4. /\ appended' \subseteq 1..published' /\ hand' \subseteq 1..published'
              /\ Range(channel') \subseteq 1..published' /\ missed' \subseteq 1..published'
            BY <1>0, <2>2 DEF FeedInOrder
        <2> QED BY <1>6, <1>7, <1>8, <2>1, <2>3, <2>4 DEF FeedInOrder
    <1> QED BY <1>1, <1>9, <1>10 DEF LogInv

LEMMA HandOverKeeps ==
    ASSUME LogInv, HandOver
    PROVE  LogInv'
    <1> USE DEF HandOver, closeVars
    <1>0. TypeOK /\ BatchInv /\ FeedInOrder BY DEF LogInv
    <1>1. PICK e \in hand : AppendRecord(e) OBVIOUS
    <1>2. e \in Record /\ hand = {e}
        <2>1. hand \subseteq Record /\ Cardinality(hand) <= 1 BY <1>0 DEF TypeOK
        <2>2. IsFiniteSet(hand)
            <3>1. IsFiniteSet(Record) BY FS_Interval, BatcherAssumption DEF Record
            <3> QED BY <2>1, <3>1, FS_Subset
        <2>3. IsFiniteSet({e}) /\ Cardinality({e}) = 1 /\ {e} \in SUBSET hand
            BY FS_Singleton
        <2>4. Cardinality(hand) \in Nat /\ 1 <= Cardinality(hand)
            BY <2>2, <2>3, FS_Subset, FS_CardinalityType
        <2>5. Cardinality(hand) = Cardinality({e}) BY <2>1, <2>3, <2>4
        <2> QED BY <2>1, <2>2, <2>3, <2>5, FS_Subset
    <1>3. BatchInv' BY <1>0, <1>1, <1>2, AppendKeeps DEF FeedInOrder, Before
    <1>4. appended' = appended \cup {e} /\ closing' = closing BY <1>1 DEF AppendRecord, closeVars
    <1>5. TypeOK' BY <1>0, <1>3, FS_EmptySet DEF TypeOK, BatchInv
    <1>6. FeedInOrder'
        <2>1. ~closing BY <1>0 DEF FeedInOrder, LogDrained
        <2>2. OnTheWay' = OnTheWay /\ Delivered' = Delivered BY DEF OnTheWay, Delivered
        <2>3. appended' \cup hand' \cup OnTheWay' = Delivered'
            BY <1>0, <1>2, <1>4, <2>2 DEF FeedInOrder
        <2>4. Before(appended', Range(channel')) BY <1>0, <1>2, <1>4 DEF FeedInOrder, Before
        <2>5. appended' \subseteq 1..published' BY <1>0, <1>4 DEF FeedInOrder
        <2>6. Before(appended', hand') /\ Before(hand', Range(channel')) BY DEF Before
        <2> QED BY <1>0, <1>4, <2>1, <2>3, <2>4, <2>5, <2>6 DEF FeedInOrder, Ascending
    <1> QED BY <1>3, <1>5, <1>6 DEF LogInv

LEMMA AuditAppendKeeps ==
    ASSUME LogInv, AuditAppend
    PROVE  LogInv'
    <1> USE DEF AuditAppend
    <1> DEFINE e == published + 1
    <1>0. TypeOK /\ BatchInv /\ FeedInOrder BY DEF LogInv
    <1>2. e \in Record /\ e \in Nat /\ published \in Nat
            /\ 1..e = (1..published) \cup {e} /\ e \notin 1..published
        BY <1>0, BatcherAssumption DEF TypeOK, Record
    <1>3. channel = <<>> /\ hand = {} /\ Range(channel) = {} /\ OnTheWay = {}
        BY <1>0 DEF FeedInOrder, OnTheWay, Range
    <1>4. Delivered = appended BY <1>0, <1>3 DEF FeedInOrder
    <1>5. Range(channel') = {} /\ OnTheWay' = {} BY <1>3 DEF OnTheWay, Range
    <1>6. CASE open /\ AppendRecord(e) /\ UNCHANGED missed
        <2>1. BatchInv' BY <1>0, <1>2, <1>6, AppendKeeps DEF FeedInOrder, Before
        <2>2. appended' = appended \cup {e} /\ closing' = closing
            BY <1>6 DEF AppendRecord, closeVars
        <2>3. TypeOK'
            BY <1>0, <1>2, <1>6, <2>1, BatcherAssumption DEF TypeOK, BatchInv, Record
        <2>4. e \notin missed BY <1>0, <1>2 DEF FeedInOrder
        <2>5. Delivered' = Delivered \cup {e} BY <1>2, <1>6, <2>4 DEF Delivered
        <2>6. ~closing BY <1>0, <1>6 DEF FeedInOrder, LogDrained
        <2>7. appended' \subseteq 1..published' /\ missed' \subseteq 1..published'
            BY <1>0, <1>2, <1>6, <2>2 DEF FeedInOrder
        <2>8. FeedInOrder'
            BY <1>0, <1>3, <1>4, <1>5, <2>2, <2>5, <2>6, <2>7
            DEF FeedInOrder, Before, Ascending
        <2> QED BY <2>1, <2>3, <2>8 DEF LogInv
    <1>7. CASE ~open /\ missed' = missed \cup {e} /\ UNCHANGED batchVars
        <2>1. BatchInv' /\ BatcherTypeOK'
            BY <1>0, <1>7, BatchRests DEF BatchInv, BatcherTypeOK, batchVars, closeVars
        <2>2. appended' = appended /\ closing' = closing
            BY <1>7 DEF batchVars, queueVars, closeVars
        <2>3. TypeOK'
            BY <1>0, <1>2, <1>7, <2>1, BatcherAssumption DEF TypeOK, Record
        <2>4. Delivered' = Delivered BY <1>2, <1>7 DEF Delivered
        <2>5. appended' \subseteq 1..published' /\ missed' \subseteq 1..published'
            BY <1>0, <1>2, <1>7, <2>2 DEF FeedInOrder
        <2>6. FeedInOrder'
            BY <1>0, <1>3, <1>4, <1>5, <1>7, <2>2, <2>4, <2>5
            DEF FeedInOrder, Before, Ascending, LogDrained
        <2> QED BY <2>1, <2>3, <2>6 DEF LogInv
    <1> QED BY <1>6, <1>7

LEMMA LeavingKeeps ==
    ASSUME LogInv, LeaveBus \/ CloseBatcher
    PROVE  LogInv'
    <1>0. TypeOK /\ BatchInv /\ FeedInOrder BY DEF LogInv
    <1>1. CASE LeaveBus
        <2> USE <1>1 DEF LeaveBus, batchVars, closeVars, queueVars
        <2>1. BatchInv' /\ BatcherTypeOK'
            BY <1>0, BatchRests DEF BatchInv, BatcherTypeOK
        <2>2. TypeOK' BY <1>0, <2>1 DEF TypeOK
        <2>3. FeedInOrder'
            BY <1>0 DEF FeedInOrder, Ascending, OnTheWay, Delivered, LogDrained
        <2> QED BY <2>1, <2>2, <2>3 DEF LogInv
    <1>2. CASE CloseBatcher
        <2> USE <1>2 DEF CloseBatcher, CloseBegin, logVars, queueVars
        <2>1. BatchInv' /\ BatcherTypeOK' BY <1>0, BatchRests
        <2>2. TypeOK' BY <1>0, <2>1 DEF TypeOK
        <2>3. FeedInOrder'
            BY <1>0 DEF FeedInOrder, Ascending, OnTheWay, Delivered, LogDrained
        <2> QED BY <2>1, <2>2, <2>3 DEF LogInv
    <1> QED BY <1>1, <1>2

LEMMA LogStep == LogInv /\ [Next]_vars => LogInv'
    <1> SUFFICES ASSUME LogInv, [Next]_vars PROVE LogInv' OBVIOUS
    <1>1. CASE UNCHANGED vars
        <2> USE <1>1 DEF vars, logVars, batchVars, closeVars, queueVars
        <2>0. TypeOK /\ BatchInv /\ FeedInOrder BY DEF LogInv
        <2>1. BatchInv' /\ BatcherTypeOK'
            BY <2>0, BatchRests DEF BatchInv, BatcherTypeOK
        <2>2. TypeOK' BY <2>0, <2>1 DEF TypeOK
        <2>3. FeedInOrder'
            BY <2>0 DEF FeedInOrder, Ascending, OnTheWay, Delivered, LogDrained
        <2> QED BY <2>1, <2>2, <2>3 DEF LogInv
    <1> QED BY <1>1, WriterKeeps, PublishKeeps, TakeKeeps, HandOverKeeps, AuditAppendKeeps,
               LeavingKeeps DEF Next

\* Rows of the tables of events and audits (store/sqlite/batch.go): in order, none
\* twice, every gap counted, and all that was delivered appended before Close.
THEOREM LogIsExact == Spec => []TableIsExact
    <1>1. LogInv => TableIsExact BY LogExact
    <1>2. Init => LogInv BY LogStarts
    <1>3. LogInv /\ [Next]_vars => LogInv' BY LogStep
    <1> QED BY <1>1, <1>2, <1>3, PTL DEF Spec

-----------------------------------------------------------------------------
(* EventHistory: s are the jobs of the events, l the list of windows.       *)

Own(s, j) == {e \in 1..Len(s) : s[e] = j}

Seen(s) == {j \in EventJob : Own(s, j) # {}}

JobsIn(l) == {l[i].job : i \in 1..Len(l)}

HeldIn(l) == UNION {InWindow(l[i].items) : i \in 1..Len(l)}

Newest(l, i) == l[i].items[Len(l[i].items)]

WindowList == Seq([job : EventJob, items : Seq(Nat)])

EachTail(s, l) ==
    \A i \in 1..Len(l) :
        l[i].items # <<>> /\ IsTail(l[i].items, Own(s, l[i].job), PerJobLimit)

\* Windows of different jobs, in the order of their last events.
NewestFirst(l) ==
    \A i, k \in 1..Len(l) : i < k => l[i].job # l[k].job /\ Newest(l, k) < Newest(l, i)

\* A job without a window has been quiet for longer than every job with one.
OthersAreOlder(s, l) ==
    \A j \in EventJob \ JobsIn(l) : \A e \in Own(s, j), i \in 1..Len(l) : e < Newest(l, i)

RoomIsUsed(s, l) ==
    Len(l) = IF Cardinality(Seen(s)) < MaxJobs THEN Cardinality(Seen(s)) ELSE MaxJobs

NoneEvicted(s, l) ==
    Cardinality(Seen(s)) <= MaxJobs =>
        \A i \in 1..Len(l) : IsWholeTail(l[i].items, Own(s, l[i].job), PerJobLimit)

ListInv(s, l) ==
    /\ EachTail(s, l) /\ NewestFirst(l) /\ OthersAreOlder(s, l)
    /\ RoomIsUsed(s, l) /\ NoneEvicted(s, l)

\* The window r is s after the event e.
Grown(s, own, n, e, r) ==
    /\ r \in Seq(Nat) /\ r # <<>> /\ r[Len(r)] = e
    /\ IsTail(r, own \cup {e}, n)
    /\ IsWholeTail(s, own, n) => IsWholeTail(r, own \cup {e}, n)
    /\ Len(s) = n => InWindow(r) = (InWindow(s) \ {s[1]}) \cup {e}
    /\ Len(s) # n => InWindow(r) = InWindow(s) \cup {e}

\* Behind its front m has the windows of l of jobs other than j, in their order,
\* but for the last perhaps.
Behind(m, l, p, j) ==
    /\ Len(m) >= 1 /\ p \in [2..Len(m) -> 1..Len(l)]
    /\ \A i \in 2..Len(m) : m[i] = l[p[i]] /\ l[p[i]].job # j
    /\ \A i, k \in 2..Len(m) : i < k => p[i] < p[k]
    /\ \A k \in 1..Len(l) : l[k].job = j \/ k = Len(l) \/ \E i \in 2..Len(m) : p[i] = k

\* The front of m is the window of j, with the last event of t.
InFront(s, t, m, j) ==
    /\ m[1].job = j /\ m[1].items # <<>> /\ Newest(m, 1) = Len(s) + 1
    /\ IsTail(m[1].items, Own(t, j), PerJobLimit)
    /\ Cardinality(Seen(t)) <= MaxJobs =>
          /\ Cardinality(Seen(s)) <= MaxJobs
          /\ IsWholeTail(m[1].items, Own(t, j), PerJobLimit)

\* The list m is l after the new event of t, with gone events less.
Written(t, l, m, gone) ==
    /\ m \in WindowList /\ ListInv(t, m)
    /\ Cardinality(HeldIn(m)) = Cardinality(HeldIn(l)) + 1 - gone

HistoryInv ==
    /\ seen \in Seq(EventJob \cup {NoJob}) /\ lru \in WindowList /\ global \in Seq(Nat)
    /\ ListInv(seen, lru)
    /\ IsWholeTail(global, EventsOf(EventJob), GlobalLimit)
    /\ total = Cardinality(HeldIn(lru))

-----------------------------------------------------------------------------
LEMMA OwnIs ==
    ASSUME NEW s \in Seq(EventJob \cup {NoJob}), NEW j \in EventJob \cup {NoJob}
    PROVE  LET e == Len(s) + 1 IN
           /\ Append(s, j) \in Seq(EventJob \cup {NoJob}) /\ Len(Append(s, j)) = e
           /\ e \in Nat
           /\ \A x \in EventJob : \A f \in Own(s, x) : f \in Nat /\ f < e
           /\ \A x \in EventJob :
                Own(Append(s, j), x) = IF x = j THEN Own(s, x) \cup {e} ELSE Own(s, x)
    <1> DEFINE e == Len(s) + 1  t == Append(s, j)
    <1>1. /\ t \in Seq(EventJob \cup {NoJob}) /\ Len(t) = e /\ e \in Nat /\ t[e] = j
          /\ \A f \in 1..Len(s) : t[f] = s[f] /\ f \in Nat /\ f < e
          /\ 1..e = (1..Len(s)) \cup {e} /\ e \notin 1..Len(s)
        OBVIOUS
    <1> HIDE DEF t, e
    <1>2. \A x \in EventJob : Own(t, x) = IF x = j THEN Own(s, x) \cup {e} ELSE Own(s, x)
        BY <1>1 DEF Own
    <1> QED BY <1>1, <1>2 DEF t, e, Own

LEMMA FunctionIsSeq ==
    ASSUME NEW S, NEW n \in Nat, NEW f \in [1..n -> S]
    PROVE  f \in Seq(S) /\ Len(f) = n
    OBVIOUS

\* A sequence without repetition has as many members as it is long.
LEMMA MembersCount ==
    ASSUME NEW S, NEW s \in Seq(S), \A k, l \in 1..Len(s) : k # l => s[k] # s[l]
    PROVE  IsFiniteSet(InWindow(s)) /\ Cardinality(InWindow(s)) = Len(s)
    <1> DEFINE f == [k \in 1..Len(s) |-> s[k]]
    <1>1. Len(s) \in Nat OBVIOUS
    <1>2. f \in Bijection(1..Len(s), InWindow(s))
        BY DEF Bijection, Injection, Surjection, InWindow, IsInjective
    <1>3. ExistsBijection(1..Len(s), InWindow(s)) BY <1>2 DEF ExistsBijection
    <1>4. IsFiniteSet(1..Len(s)) /\ Cardinality(1..Len(s)) = IF 1 > Len(s) THEN 0 ELSE Len(s) - 1 + 1
        BY <1>1, FS_Interval
    <1>5. Cardinality(1..Len(s)) = Len(s) BY <1>1, <1>4
    <1> QED BY <1>3, <1>4, <1>5, FS_Bijection

\* The last of a tail is the last of what it is a tail of.
LEMMA LastIsLatest ==
    ASSUME NEW s \in Seq(Nat), s # <<>>, NEW own \in SUBSET Nat, NEW n, IsTail(s, own, n)
    PROVE  /\ Len(s) \in 1..Len(s) /\ s[Len(s)] \in Nat /\ s[Len(s)] \in own
           /\ s[1] \in InWindow(s)
           /\ \A f \in own : f <= s[Len(s)]
    <1>1. Len(s) \in Nat /\ Len(s) >= 1 /\ \A k \in 1..Len(s) : s[k] \in Nat OBVIOUS
    <1>2. Len(s) \in 1..Len(s) /\ 1 \in 1..Len(s) BY <1>1
    <1>3. s[Len(s)] \in InWindow(s) /\ s[1] \in InWindow(s) BY <1>2 DEF InWindow
    <1>4. \A f \in own : f <= s[Len(s)]
        <2> SUFFICES ASSUME NEW f \in own PROVE f <= s[Len(s)] OBVIOUS
        <2>1. CASE f \in InWindow(s)
            <3>1. PICK k \in 1..Len(s) : f = s[k] BY <2>1 DEF InWindow
            <3>2. k < Len(s) => s[k] < s[Len(s)] BY <1>2, <3>1 DEF IsTail
            <3> QED BY <1>1, <1>2, <3>1, <3>2
        <2>2. CASE f \notin InWindow(s)
            <3>1. f < s[Len(s)] BY <1>3, <2>2 DEF IsTail
            <3> QED BY <1>1, <1>2, <3>1
        <2> QED BY <2>1, <2>2
    <1> QED BY <1>1, <1>2, <1>3, <1>4 DEF IsTail

\* A window that takes in a new event stays the tail of its job's events.
LEMMA TailGrows ==
    ASSUME NEW s \in Seq(Nat), NEW own \in SUBSET Nat, NEW n \in Nat \ {0}, IsTail(s, own, n),
           NEW e \in Nat, \A f \in own : f < e,
           NEW r, r = LastOf(Append(s, e), n)
    PROVE  Grown(s, own, n, e, r)
    <1> DEFINE a == Append(s, e)
    <1>0. r = LastOf(a, n) OBVIOUS
    <1>1. /\ Len(s) \in Nat /\ a \in Seq(Nat) /\ Len(a) = Len(s) + 1 /\ a[Len(s) + 1] = e
          /\ \A k \in 1..Len(s) : a[k] = s[k] /\ s[k] \in Nat
        OBVIOUS
    <1>2. Len(s) <= n /\ InWindow(s) \subseteq own BY DEF IsTail
    <1>3. \A k, l \in 1..Len(s) : k < l => s[k] < s[l] BY DEF IsTail
    <1>4. \A k \in 1..Len(s) : s[k] \in own /\ s[k] < e BY <1>2 DEF InWindow
    <1> HIDE DEF a
    <1>5. CASE Len(s) < n
        <2>1. r = a BY <1>0, <1>1, <1>5 DEF LastOf
        <2>2. \A k, l \in 1..Len(a) : k < l => a[k] < a[l]
            <3> SUFFICES ASSUME NEW k \in 1..Len(s) + 1, NEW l \in 1..Len(s) + 1, k < l
                         PROVE  a[k] < a[l]
                BY <1>1
            <3>1. k \in 1..Len(s) BY <1>1
            <3>2. CASE l = Len(s) + 1 BY <1>1, <1>4, <3>1, <3>2
            <3>3. CASE l # Len(s) + 1
                <4>0. Len(s) \in Nat OBVIOUS
                <4>1. l \in 1..Len(s) BY <3>3, <4>0
                <4>2. s[k] < s[l] BY <1>3, <3>1, <4>1
                <4> QED BY <1>1, <3>1, <4>1, <4>2
            <3> QED BY <3>2, <3>3
        <2>3. InWindow(a) = InWindow(s) \cup {e}
            <3>1. 1..Len(a) = (1..Len(s)) \cup {Len(s) + 1} BY <1>1
            <3> QED BY <1>1, <3>1 DEF InWindow
        <2>4. \A x \in (own \cup {e}) \ InWindow(a), f \in InWindow(a) : x < f
            BY <1>2, <2>3 DEF IsTail
        <2>5. IsTail(a, own \cup {e}, n) BY <1>1, <1>2, <1>5, <2>2, <2>3, <2>4 DEF IsTail
        <2>6. IsWholeTail(s, own, n) => InWindow(a) = own \cup {e}
            BY <1>5, <2>3 DEF IsWholeTail
        <2>7. a # <<>> /\ a[Len(a)] = e BY <1>1
        <2>8. Len(s) # n /\ InWindow(r) = InWindow(s) \cup {e}
            BY <1>1, <1>5, <2>1, <2>3
        <2>9. IsWholeTail(s, own, n) => IsWholeTail(r, own \cup {e}, n)
            BY <2>1, <2>5, <2>6 DEF IsWholeTail
        <2> QED BY <1>1, <2>1, <2>5, <2>7, <2>8, <2>9 DEF Grown
    <1>6. CASE Len(s) = n
        <2>1. r = SubSeq(a, 2, n + 1)
            <3>1. Len(a) - n + 1 = 2 /\ Len(a) = n + 1 /\ ~(Len(a) <= n) BY <1>1, <1>6
            <3> QED BY <1>0, <3>1 DEF LastOf
        <2>2. r \in Seq(Nat) /\ Len(r) = n /\ \A k \in 1..n : r[k] = a[k + 1]
            BY <1>1, <1>6, <2>1
        <2>3. r # <<>> /\ r[n] = e BY <1>1, <1>6, <2>2
        <2>4. \A k \in 1..n : k < n => k + 1 \in 1..n /\ r[k] = s[k + 1]
            BY <1>1, <1>6, <2>2
        <2>5. \A k, l \in 1..n : k < l => r[k] < r[l]
            <3> SUFFICES ASSUME NEW k \in 1..n, NEW l \in 1..n, k < l PROVE r[k] < r[l]
                OBVIOUS
            <3>1. k < n BY <1>6
            <3>2. CASE l = n BY <1>4, <1>6, <2>3, <2>4, <3>1, <3>2
            <3>3. CASE l # n
                <4>1. l < n /\ k + 1 < l + 1 BY <3>3
                <4>2. k + 1 \in 1..Len(s) /\ l + 1 \in 1..Len(s) BY <1>6, <2>4, <3>1, <4>1
                <4> QED BY <1>3, <2>4, <3>1, <4>1, <4>2
            <3> QED BY <3>2, <3>3
        <2>6. InWindow(r) = (InWindow(s) \ {s[1]}) \cup {e}
            <3>1. ASSUME NEW k \in 1..n PROVE r[k] \in (InWindow(s) \ {s[1]}) \cup {e}
                <4>1. CASE k = n BY <2>3, <4>1
                <4>2. CASE k # n
                    <5>1. k < n /\ 1 \in 1..Len(s) /\ k + 1 \in 1..Len(s) /\ 1 < k + 1
                        BY <1>6, <2>4, <4>2
                    <5>2. s[1] < s[k + 1] BY <1>3, <5>1
                    <5>3. s[1] \in Nat /\ s[k + 1] \in Nat BY <1>1, <5>1
                    <5>4. s[k + 1] \in InWindow(s) /\ s[k + 1] # s[1]
                        BY <5>1, <5>2, <5>3 DEF InWindow
                    <5>5. r[k] = s[k + 1] BY <2>4, <5>1
                    <5> QED BY <5>4, <5>5
                <4> QED BY <4>1, <4>2
            <3>2. ASSUME NEW k \in 1..n, s[k] # s[1] PROVE s[k] \in InWindow(r)
                <4>1. k - 1 \in 1..n /\ k - 1 < n /\ (k - 1) + 1 = k BY <3>2
                <4>2. r[k - 1] = s[k] BY <2>4, <4>1
                <4> QED BY <2>2, <4>1, <4>2 DEF InWindow
            <3>3. e \in InWindow(r) BY <2>2, <2>3 DEF InWindow
            <3>4. InWindow(r) \subseteq (InWindow(s) \ {s[1]}) \cup {e} BY <2>2, <3>1 DEF InWindow
            <3>5. (InWindow(s) \ {s[1]}) \subseteq InWindow(r) BY <1>6, <3>2 DEF InWindow
            <3> QED BY <3>3, <3>4, <3>5
        <2>7. \A x \in (own \cup {e}) \ InWindow(r), f \in InWindow(r) : x < f
            <3> SUFFICES ASSUME NEW x \in own, x \notin InWindow(r), NEW f \in InWindow(r)
                         PROVE  x < f
                BY <2>6
            <3>1. CASE f = e BY <3>1
            <3>2. CASE f # e
                <4>1. f \in InWindow(s) /\ f # s[1] BY <2>6, <3>2
                <4>2. CASE x = s[1]
                    <5>1. PICK k \in 1..Len(s) : f = s[k] BY <4>1 DEF InWindow
                    <5>2. 1 \in 1..Len(s) /\ 1 < k BY <1>6, <4>1, <5>1
                    <5> QED BY <1>3, <4>2, <5>1, <5>2
                <4>3. CASE x # s[1]
                    <5>1. x \notin InWindow(s) BY <2>6, <4>3
                    <5> QED BY <4>1, <5>1 DEF IsTail
                <4> QED BY <4>2, <4>3
            <3> QED BY <3>1, <3>2
        <2>8. InWindow(r) \subseteq own \cup {e} BY <1>2, <2>6
        <2>9. IsTail(r, own \cup {e}, n) BY <2>2, <2>5, <2>7, <2>8 DEF IsTail
        <2>10. IsWholeTail(r, own \cup {e}, n) BY <2>2, <2>9 DEF IsWholeTail
        <2>12. r[Len(r)] = e BY <2>2, <2>3
        <2> QED BY <2>2, <2>3, <2>9, <2>10, <2>12, <2>6, <1>6 DEF Grown
    <1> QED BY <1>1, <1>2, <1>5, <1>6

\* What the list gives of its windows.
LEMMA ListIs ==
    ASSUME NEW s \in Seq(EventJob \cup {NoJob}), NEW l \in WindowList, ListInv(s, l)
    PROVE  /\ Len(l) \in Nat
           /\ \A i \in 1..Len(l) :
                /\ l[i].job \in EventJob /\ l[i].items \in Seq(Nat) /\ l[i].items # <<>>
                /\ l[i].job \in JobsIn(l) /\ Newest(l, i) \in Nat
                /\ IsTail(l[i].items, Own(s, l[i].job), PerJobLimit)
                /\ \A f \in Own(s, l[i].job) : f \in Nat /\ f <= Newest(l, i)
                /\ Newest(l, i) \in Own(s, l[i].job)
                /\ \A k \in 1..Len(l) : k # i => l[i].job # l[k].job
    <1>1. Len(l) \in Nat /\ \A i \in 1..Len(l) : l[i] \in [job : EventJob, items : Seq(Nat)]
        <2> DEFINE R == [job : EventJob, items : Seq(Nat)]
        <2>1. l \in Seq(R) BY DEF WindowList
        <2> HIDE DEF R
        <2>2. Len(l) \in Nat /\ \A i \in 1..Len(l) : l[i] \in R BY <2>1
        <2> QED BY <2>2 DEF R
    <1>2. ASSUME NEW i \in 1..Len(l)
          PROVE  /\ l[i].job \in EventJob /\ l[i].items \in Seq(Nat) /\ l[i].items # <<>>
                 /\ l[i].job \in JobsIn(l) /\ Newest(l, i) \in Nat
                 /\ IsTail(l[i].items, Own(s, l[i].job), PerJobLimit)
                 /\ \A f \in Own(s, l[i].job) : f \in Nat /\ f <= Newest(l, i)
                 /\ Newest(l, i) \in Own(s, l[i].job)
        <2>1. l[i].job \in EventJob /\ l[i].items \in Seq(Nat) /\ l[i].job \in JobsIn(l)
            BY <1>1 DEF JobsIn
        <2>2. l[i].items # <<>> /\ IsTail(l[i].items, Own(s, l[i].job), PerJobLimit)
            BY DEF ListInv, EachTail
        <2>3. Own(s, l[i].job) \in SUBSET Nat BY DEF Own
        <2> QED BY <2>1, <2>2, <2>3, LastIsLatest DEF Newest
    <1>3. \A i, k \in 1..Len(l) : k # i => l[i].job # l[k].job
        <2> SUFFICES ASSUME NEW i \in 1..Len(l), NEW k \in 1..Len(l), k # i
                     PROVE  l[i].job # l[k].job
            OBVIOUS
        <2>1. i < k \/ k < i OBVIOUS
        <2> QED BY <2>1 DEF ListInv, NewestFirst
    <1> QED BY <1>1, <1>2, <1>3

\* A list whose front window has the new event and whose others are those that
\* were there, in their order, but for the last perhaps, is again in order.
LEMMA ListGrows ==
    ASSUME NEW s \in Seq(EventJob \cup {NoJob}), NEW l \in WindowList, ListInv(s, l),
           NEW j \in EventJob, NEW m \in WindowList, NEW p, NEW t, t = Append(s, j),
           Behind(m, l, p, j), InFront(s, t, m, j)
    PROVE  EachTail(t, m) /\ NewestFirst(m) /\ OthersAreOlder(t, m) /\ NoneEvicted(t, m)
    <1> DEFINE e == Len(s) + 1
    <1> USE DEF Behind, InFront
    <1>1. /\ e \in Nat
          /\ \A x \in EventJob : \A f \in Own(s, x) : f \in Nat /\ f < e
          /\ \A x \in EventJob :
                Own(t, x) = IF x = j THEN Own(s, x) \cup {e} ELSE Own(s, x)
        BY OwnIs
    <1> HIDE DEF e
    <1>2. /\ Len(m) \in Nat /\ Len(l) \in Nat /\ 1 \in 1..Len(m)
          /\ \A i \in 1..Len(m) : i = 1 \/ i \in 2..Len(m)
          /\ \A i \in 2..Len(m) : i \in 1..Len(m)
        BY ListIs DEF WindowList
    <1>3. \A i \in 2..Len(m) : /\ p[i] \in 1..Len(l) /\ Newest(m, i) = Newest(l, p[i])
                               /\ Own(t, m[i].job) = Own(s, m[i].job)
                               /\ Newest(m, i) \in Nat /\ Newest(m, i) < e
        <2> SUFFICES ASSUME NEW i \in 2..Len(m)
                     PROVE  /\ p[i] \in 1..Len(l) /\ Newest(m, i) = Newest(l, p[i])
                            /\ Own(t, m[i].job) = Own(s, m[i].job)
                            /\ Newest(m, i) \in Nat /\ Newest(m, i) < e
            OBVIOUS
        <2>1. p[i] \in 1..Len(l) /\ m[i] = l[p[i]] /\ m[i].job # j OBVIOUS
        <2>2. Newest(m, i) = Newest(l, p[i]) BY <2>1 DEF Newest
        <2>3. l[p[i]].job \in EventJob /\ Newest(l, p[i]) \in Own(s, l[p[i]].job)
            BY <2>1, ListIs
        <2> QED BY <1>1, <2>1, <2>2, <2>3
    <1>4. EachTail(t, m)
        <2> SUFFICES ASSUME NEW i \in 1..Len(m)
                     PROVE  m[i].items # <<>> /\ IsTail(m[i].items, Own(t, m[i].job), PerJobLimit)
            BY DEF EachTail
        <2>1. CASE i = 1 BY <2>1
        <2>2. CASE i \in 2..Len(m)
            <3>1. p[i] \in 1..Len(l) /\ m[i] = l[p[i]] /\ Own(t, m[i].job) = Own(s, m[i].job)
                BY <1>3, <2>2
            <3>2. /\ l[p[i]].items # <<>>
                  /\ IsTail(l[p[i]].items, Own(s, l[p[i]].job), PerJobLimit)
                BY <3>1, ListIs
            <3> QED BY <3>1, <3>2
        <2> QED BY <1>2, <2>1, <2>2
    <1>5. NewestFirst(m)
        <2> SUFFICES ASSUME NEW i \in 1..Len(m), NEW k \in 1..Len(m), i < k
                     PROVE  m[i].job # m[k].job /\ Newest(m, k) < Newest(m, i)
            BY DEF NewestFirst
        <2>1. k \in 2..Len(m) BY <1>2
        <2>2. CASE i = 1 BY <1>3, <2>1, <2>2 DEF e
        <2>3. CASE i \in 2..Len(m)
            <3>1. p[i] < p[k] BY <2>1, <2>3
            <3>2. l[p[i]].job # l[p[k]].job /\ Newest(l, p[k]) < Newest(l, p[i])
                BY <1>3, <2>1, <2>3, <3>1 DEF ListInv, NewestFirst
            <3> QED BY <1>3, <2>1, <2>3, <3>2
        <2> QED BY <1>2, <2>2, <2>3
    <1>6. OthersAreOlder(t, m)
        <2> SUFFICES ASSUME NEW x \in EventJob \ JobsIn(m), NEW f \in Own(t, x), NEW i \in 1..Len(m)
                     PROVE  f < Newest(m, i)
            BY DEF OthersAreOlder
        <2>1. \A k \in 1..Len(m) : x # m[k].job BY DEF JobsIn
        <2>2. x # j /\ f \in Own(s, x) /\ f \in Nat /\ f < e BY <1>1, <1>2, <2>1
        <2>3. CASE i = 1 BY <2>2, <2>3 DEF e
        <2>4. CASE i \in 2..Len(m) /\ x \notin JobsIn(l)
            <3>1. f < Newest(l, p[i]) BY <1>3, <2>2, <2>4 DEF ListInv, OthersAreOlder
            <3> QED BY <1>3, <2>4, <3>1
        <2>5. CASE i \in 2..Len(m) /\ x \in JobsIn(l)
            <3>1. PICK k \in 1..Len(l) : x = l[k].job BY <2>5 DEF JobsIn
            <3>2. k = Len(l) /\ p[i] # k
                <4>1. ASSUME NEW h \in 2..Len(m), p[h] = k PROVE FALSE
                    <5>1. m[h] = l[k] /\ h \in 1..Len(m) BY <1>2, <4>1
                    <5> QED BY <2>1, <3>1, <5>1
                <4> QED BY <2>2, <2>5, <3>1, <4>1
            <3>3. p[i] < k BY <1>2, <1>3, <2>5, <3>2
            <3>4. Newest(l, k) < Newest(l, p[i]) BY <1>3, <2>5, <3>3 DEF ListInv, NewestFirst
            <3>5. f <= Newest(l, k) /\ Newest(l, k) \in Nat BY <2>2, <3>1, ListIs
            <3> QED BY <1>3, <2>2, <2>5, <3>4, <3>5
        <2> QED BY <1>2, <2>3, <2>4, <2>5
    <1>7. NoneEvicted(t, m)
        <2> SUFFICES ASSUME Cardinality(Seen(t)) <= MaxJobs, NEW i \in 1..Len(m)
                     PROVE  IsWholeTail(m[i].items, Own(t, m[i].job), PerJobLimit)
            BY DEF NoneEvicted
        <2>1. CASE i = 1 BY <2>1
        <2>2. CASE i \in 2..Len(m)
            <3>1. Cardinality(Seen(s)) <= MaxJobs OBVIOUS
            <3>2. IsWholeTail(l[p[i]].items, Own(s, l[p[i]].job), PerJobLimit)
                BY <1>3, <2>2, <3>1 DEF ListInv, NoneEvicted
            <3> QED BY <1>3, <2>2, <3>2
        <2> QED BY <1>2, <2>1, <2>2
    <1> QED BY <1>4, <1>5, <1>6, <1>7

\* As many jobs have a window as there are windows, and all of them are known.
LEMMA JobsCount ==
    ASSUME NEW s \in Seq(EventJob \cup {NoJob}), NEW l \in WindowList, ListInv(s, l)
    PROVE  /\ IsFiniteSet(JobsIn(l)) /\ Cardinality(JobsIn(l)) = Len(l)
           /\ JobsIn(l) \subseteq Seen(s)
    <1> DEFINE q == [i \in 1..Len(l) |-> l[i].job]
    <1>1. Len(l) \in Nat /\ \A i \in 1..Len(l) : l[i].job \in EventJob BY ListIs
    <1>2. q \in Seq(EventJob) /\ Len(q) = Len(l) BY <1>1
    <1>3. \A i, k \in 1..Len(q) : i # k => q[i] # q[k] BY <1>2, ListIs
    <1>4. InWindow(q) = JobsIn(l) BY <1>2 DEF InWindow, JobsIn
    <1>5. JobsIn(l) \subseteq Seen(s)
        <2> SUFFICES ASSUME NEW i \in 1..Len(l) PROVE l[i].job \in Seen(s) BY DEF JobsIn
        <2> QED BY ListIs DEF Seen
    <1> HIDE DEF q
    <1> QED BY <1>2, <1>3, <1>4, <1>5, MembersCount

LEMMA SeenIs ==
    ASSUME NEW s \in Seq(EventJob \cup {NoJob}), NEW j \in EventJob
    PROVE  /\ IsFiniteSet(Seen(s)) /\ Cardinality(Seen(s)) \in Nat
           /\ Seen(Append(s, j)) = Seen(s) \cup {j}
           /\ Cardinality(Seen(Append(s, j)))
                = IF j \in Seen(s) THEN Cardinality(Seen(s)) ELSE Cardinality(Seen(s)) + 1
    <1>1. IsFiniteSet(Seen(s))
        <2> DEFINE last == [x \in Seen(s) |-> CHOOSE e \in Own(s, x) : TRUE]
        <2>1. \A x \in Seen(s) : last[x] \in 1..Len(s) /\ s[last[x]] = x BY DEF Seen, Own
        <2> HIDE DEF last
        <2>2. IsFiniteSet(1..Len(s)) BY FS_Interval
        <2>3. last \in [Seen(s) -> 1..Len(s)] BY <2>1 DEF last
        <2>4. last \in Injection(Seen(s), 1..Len(s))
            BY <2>1, <2>3 DEF Injection, IsInjective
        <2> QED BY <2>2, <2>4, FS_Injection
    <1>2. Seen(Append(s, j)) = Seen(s) \cup {j} BY OwnIs DEF Seen
    <1> QED BY <1>1, <1>2, FS_CardinalityType, FS_AddElement

\* The events in the windows: each in one of them.
LEMMA HeldIs ==
    ASSUME NEW s \in Seq(EventJob \cup {NoJob}), NEW l \in WindowList, ListInv(s, l)
    PROVE  /\ IsFiniteSet(HeldIn(l)) /\ Cardinality(HeldIn(l)) \in Nat
           /\ \A f \in HeldIn(l) : f \in Nat /\ f < Len(s) + 1
           /\ \A i \in 1..Len(l) : InWindow(l[i].items) \subseteq HeldIn(l)
           /\ \A i, k \in 1..Len(l) : i # k =>
                InWindow(l[i].items) \cap InWindow(l[k].items) = {}
           /\ \A i \in 1..Len(l) : Cardinality(InWindow(l[i].items)) = Len(l[i].items)
    <1>0. Len(s) \in Nat OBVIOUS
    <1>1. \A i \in 1..Len(l) : InWindow(l[i].items) \subseteq Own(s, l[i].job)
        BY ListIs DEF IsTail
    <1>2. HeldIn(l) \subseteq 1..Len(s) BY <1>1 DEF HeldIn, Own
    <1>3. IsFiniteSet(HeldIn(l)) /\ Cardinality(HeldIn(l)) \in Nat
        <2>1. IsFiniteSet(1..Len(s)) BY <1>0, FS_Interval
        <2> QED BY <1>2, <2>1, FS_Subset, FS_CardinalityType
    <1>4. \A i, k \in 1..Len(l) : i # k =>
                InWindow(l[i].items) \cap InWindow(l[k].items) = {}
        <2> SUFFICES ASSUME NEW i \in 1..Len(l), NEW k \in 1..Len(l), i # k,
                            NEW f \in InWindow(l[i].items), f \in InWindow(l[k].items)
                     PROVE  FALSE
            OBVIOUS
        <2>1. l[i].job # l[k].job BY ListIs
        <2> QED BY <1>1, <2>1 DEF Own
    <1>5. ASSUME NEW i \in 1..Len(l)
          PROVE  Cardinality(InWindow(l[i].items)) = Len(l[i].items)
        <2> DEFINE q == l[i].items
        <2>1. q \in Seq(Nat) /\ IsTail(q, Own(s, l[i].job), PerJobLimit) BY ListIs
        <2> HIDE DEF q
        <2>2. \A a, b \in 1..Len(q) : a < b => q[a] < q[b] BY <2>1 DEF IsTail
        <2>3. \A a, b \in 1..Len(q) : a # b => q[a] # q[b]
            <3> SUFFICES ASSUME NEW a \in 1..Len(q), NEW b \in 1..Len(q), a # b PROVE q[a] # q[b]
                OBVIOUS
            <3>1. q[a] \in Nat /\ q[b] \in Nat /\ (a < b \/ b < a) BY <2>1
            <3> QED BY <2>2, <3>1
        <2>4. Cardinality(InWindow(q)) = Len(q) BY <2>1, <2>3, MembersCount
        <2> QED BY <2>4 DEF q
    <1>6. \A f \in HeldIn(l) : f \in Nat /\ f < Len(s) + 1
        <2>1. \A f \in 1..Len(s) : f \in Nat /\ f < Len(s) + 1 BY <1>0
        <2> QED BY <1>2, <2>1
    <1>7. \A i \in 1..Len(l) : InWindow(l[i].items) \subseteq HeldIn(l) BY DEF HeldIn
    <1> QED BY <1>3, <1>4, <1>5, <1>6, <1>7

LEMMA KnownJobWrites ==
    ASSUME NEW s \in Seq(EventJob \cup {NoJob}), NEW l \in WindowList, ListInv(s, l),
           NEW k \in 1..Len(l), NEW w, NEW m,
           w = [l[k] EXCEPT !.items = LastOf(Append(@, Len(s) + 1), PerJobLimit)],
           m = [i \in 1..Len(l) |-> IF i = 1 THEN w ELSE IF i <= k THEN l[i - 1] ELSE l[i]],
           NEW gone, gone = IF Len(l[k].items) = PerJobLimit THEN 1 ELSE 0
    PROVE  Written(Append(s, l[k].job), l, m, gone)
    <1> DEFINE j == l[k].job  e == Len(s) + 1  t == Append(s, j)  q == l[k].items
               r == LastOf(Append(q, e), PerJobLimit)
               p == [i \in 2..Len(m) |-> IF i <= k THEN i - 1 ELSE i]
    <1>1. /\ Len(l) \in Nat /\ k \in 1..Len(l) /\ j \in EventJob /\ q \in Seq(Nat) /\ q # <<>>
          /\ IsTail(q, Own(s, j), PerJobLimit) /\ j \in JobsIn(l)
          /\ \A i \in 1..Len(l) : i # k => l[i].job # j
        BY ListIs
    <1>2. /\ t \in Seq(EventJob \cup {NoJob}) /\ e \in Nat
          /\ \A f \in Own(s, j) : f \in Nat /\ f < e
          /\ Own(t, j) = Own(s, j) \cup {e}
        BY <1>1, OwnIs
    <1>3. PerJobLimit \in Nat \ {0} /\ MaxJobs \in Nat BY HistoryAssumption
    <1>4. /\ r \in Seq(Nat) /\ r # <<>> /\ r[Len(r)] = e
          /\ IsTail(r, Own(t, j), PerJobLimit)
          /\ IsWholeTail(q, Own(s, j), PerJobLimit) => IsWholeTail(r, Own(t, j), PerJobLimit)
          /\ Len(q) = PerJobLimit => InWindow(r) = (InWindow(q) \ {q[1]}) \cup {e}
          /\ Len(q) # PerJobLimit => InWindow(r) = InWindow(q) \cup {e}
        <2> HIDE DEF t, e, q, j
        <2>1. Own(s, j) \in SUBSET Nat BY <1>2
        <2> DEFINE own == Own(s, j)
        <2>0. r = LastOf(Append(q, e), PerJobLimit) OBVIOUS
        <2> HIDE DEF r
        <2>2. \A f \in own : f < e BY <1>2
        <2> HIDE DEF own
        <2>3. own \in SUBSET Nat /\ IsTail(q, own, PerJobLimit) /\ e \in Nat
            BY <1>1, <1>2, <2>1 DEF own
        <2>4. Grown(q, own, PerJobLimit, e, r) BY <1>1, <1>3, <2>0, <2>2, <2>3, TailGrows
        <2>6. own \cup {e} = Own(t, j) BY <1>2 DEF own
        <2> QED BY <2>4, <2>6 DEF own, Grown
    <1>5. w.job = j /\ w.items = r /\ w \in [job : EventJob, items : Seq(Nat)]
        <2>1. l[k] \in [job : EventJob, items : Seq(Nat)]
            <3> DEFINE R == [job : EventJob, items : Seq(Nat)]
            <3>1. l \in Seq(R) BY DEF WindowList
            <3> HIDE DEF R
            <3>2. l[k] \in R BY <3>1
            <3> QED BY <3>2 DEF R
        <2>2. w = [l[k] EXCEPT !.items = r] OBVIOUS
        <2> HIDE DEF r
        <2> QED BY <1>4, <2>1, <2>2
    <1> HIDE DEF r, t, e, q, j
    <1>6. /\ m \in WindowList /\ Len(m) = Len(l) /\ m[1] = w
          /\ \A i \in 2..Len(m) : /\ p[i] \in 1..Len(l) /\ p[i] # k /\ m[i] = l[p[i]]
          /\ \A i, h \in 2..Len(m) : i < h => p[i] < p[h]
          /\ \A h \in 1..Len(l) : h # k => \E i \in 2..Len(m) : p[i] = h
        <2> DEFINE R == [job : EventJob, items : Seq(Nat)]
        <2>1. l \in Seq(R) /\ w \in R BY <1>5 DEF WindowList
        <2> HIDE DEF R
        <2>2. \A i \in 1..Len(l) : l[i] \in R BY <2>1
        <2>3. \A i \in 1..Len(l) : i # 1 /\ i <= k => i - 1 \in 1..Len(l) BY <1>1
        <2>4. m \in [1..Len(l) -> R] BY <2>1, <2>2, <2>3
        <2>5. m \in Seq(R) /\ Len(m) = Len(l) BY <1>1, <2>4, FunctionIsSeq
        <2>6. m[1] = w BY <1>1
        <2>7. \A i \in 2..Len(l) : /\ i \in 1..Len(l) /\ i # 1
                                   /\ i <= k => i - 1 \in 1..Len(l) /\ i - 1 # k
                                   /\ ~(i <= k) => i # k
            BY <1>1
        <2>8. \A i \in 2..Len(m) : p[i] \in 1..Len(l) /\ p[i] # k /\ m[i] = l[p[i]]
            <3> SUFFICES ASSUME NEW i \in 2..Len(l)
                         PROVE  p[i] \in 1..Len(l) /\ p[i] # k /\ m[i] = l[p[i]]
                BY <2>5
            <3>1. p[i] = IF i <= k THEN i - 1 ELSE i BY <2>5
            <3>2. m[i] = IF i <= k THEN l[i - 1] ELSE l[i] BY <2>7
            <3> HIDE DEF p
            <3> QED BY <2>7, <3>1, <3>2
        <2>9. \A i, h \in 2..Len(m) : i < h => p[i] < p[h] BY <1>1
        <2>10. \A h \in 1..Len(l) : h # k => \E i \in 2..Len(m) : p[i] = h
            <3> SUFFICES ASSUME NEW h \in 1..Len(l), h # k PROVE \E i \in 2..Len(m) : p[i] = h
                OBVIOUS
            <3>1. CASE h < k
                <4>1. h + 1 \in 2..Len(m) /\ h + 1 <= k BY <1>1, <2>5, <3>1
                <4>2. p[h + 1] = h BY <1>1, <4>1
                <4> QED BY <4>1, <4>2
            <3>2. CASE h > k
                <4>1. h \in 2..Len(m) /\ ~(h <= k) BY <1>1, <2>5, <3>2
                <4>2. p[h] = h BY <4>1
                <4> QED BY <4>1, <4>2
            <3> QED BY <1>1, <3>1, <3>2
        <2> QED BY <2>1, <2>5, <2>6, <2>8, <2>9, <2>10 DEF WindowList, R
    <1>7. p \in [2..Len(m) -> 1..Len(l)]
        <2>1. p = [i \in 2..Len(m) |-> p[i]] OBVIOUS
        <2> HIDE DEF p
        <2> QED BY <1>6, <2>1
    <1> HIDE DEF p
    <1>8. Newest(m, 1) = e BY <1>4, <1>5, <1>6 DEF Newest
    <1>9. j \in Seen(s) /\ Seen(t) = Seen(s) /\ Cardinality(Seen(t)) = Cardinality(Seen(s))
        <2>1. j \in Seen(s) BY <1>1, JobsCount
        <2>2. Seen(t) = Seen(s) \cup {j} BY <1>1, SeenIs DEF t
        <2>3. Seen(t) = Seen(s) BY <2>1, <2>2
        <2> QED BY <2>1, <2>3
    <1>10. Cardinality(Seen(t)) <= MaxJobs =>
              /\ Cardinality(Seen(s)) <= MaxJobs
              /\ IsWholeTail(m[1].items, Own(t, j), PerJobLimit)
        <2> SUFFICES ASSUME Cardinality(Seen(s)) <= MaxJobs
                     PROVE  IsWholeTail(r, Own(t, j), PerJobLimit)
            BY <1>5, <1>6, <1>9
        <2>1. IsWholeTail(q, Own(s, j), PerJobLimit) BY DEF ListInv, NoneEvicted, q, j
        <2> QED BY <1>4, <2>1
    <1>11. EachTail(t, m) /\ NewestFirst(m) /\ OthersAreOlder(t, m) /\ NoneEvicted(t, m)
        <2>1. \A i \in 2..Len(m) : m[i] = l[p[i]] /\ l[p[i]].job # j BY <1>1, <1>6
        <2>2. \A h \in 1..Len(l) : l[h].job = j \/ h = Len(l) \/ \E i \in 2..Len(m) : p[i] = h
            BY <1>6 DEF j
        <2>3. Len(m) >= 1 BY <1>1, <1>6
        <2>4. m[1].job = j /\ m[1].items = r /\ m[1].items # <<>> BY <1>4, <1>5, <1>6
        <2>5. \A i, h \in 2..Len(m) : i < h => p[i] < p[h] BY <1>6
        <2>6. m \in WindowList /\ p \in [2..Len(m) -> 1..Len(l)] /\ j \in EventJob
            BY <1>1, <1>6, <1>7
        <2>7. IsTail(m[1].items, Own(Append(s, j), j), PerJobLimit) BY <1>4, <2>4 DEF t
        <2>8. Newest(m, 1) = Len(s) + 1 BY <1>8 DEF e
        <2>9. Cardinality(Seen(Append(s, j))) <= MaxJobs =>
                 /\ Cardinality(Seen(s)) <= MaxJobs
                 /\ IsWholeTail(m[1].items, Own(Append(s, j), j), PerJobLimit)
            BY <1>10 DEF t
        <2>10. Behind(m, l, p, j) BY <2>1, <2>2, <2>3, <2>5, <2>6 DEF Behind
        <2>11. t = Append(s, j) BY DEF t
        <2>12. InFront(s, t, m, j) BY <2>4, <2>7, <2>8, <2>9, <2>11 DEF InFront
        <2> QED BY <2>6, <2>10, <2>11, <2>12, ListGrows
    <1>12. RoomIsUsed(t, m) BY <1>6, <1>9 DEF ListInv, RoomIsUsed
    <1>13. ListInv(t, m) BY <1>11, <1>12 DEF ListInv
    <1>14. Cardinality(HeldIn(m)) = Cardinality(HeldIn(l)) + 1 - (IF Len(q) = PerJobLimit THEN 1 ELSE 0)
        <2> DEFINE A == InWindow(q)
        <2>0. A \subseteq HeldIn(l) /\ q[1] \in A /\ e \notin HeldIn(l)
              /\ IsFiniteSet(HeldIn(l)) /\ Cardinality(HeldIn(l)) \in Nat
              /\ \A h \in 1..Len(l) : h # k => q[1] \notin InWindow(l[h].items)
            <3>1. q[1] \in A BY <1>1 DEF InWindow
            <3>2. A \subseteq HeldIn(l) BY HeldIs DEF q
            <3>3. \A h \in 1..Len(l) : h # k => InWindow(l[h].items) \cap A = {}
                BY HeldIs DEF q
            <3>4. e \notin HeldIn(l) BY <1>2, HeldIs DEF e
            <3> QED BY <3>1, <3>2, <3>3, <3>4, HeldIs
        <2>1. \A f : f \in HeldIn(l) <=> f \in A \/ \E h \in 1..Len(l) : h # k /\ f \in InWindow(l[h].items)
            BY DEF HeldIn, q
        <2>2. \A f : f \in HeldIn(m) <=>
                f \in InWindow(r) \/ \E h \in 1..Len(l) : h # k /\ f \in InWindow(l[h].items)
            <3> SUFFICES ASSUME NEW f
                         PROVE  f \in HeldIn(m) <=>
                            f \in InWindow(r) \/ \E h \in 1..Len(l) : h # k /\ f \in InWindow(l[h].items)
                OBVIOUS
            <3>1. f \in HeldIn(m) <=> \E i \in 1..Len(m) : f \in InWindow(m[i].items) BY DEF HeldIn
            <3>2. \A i \in 1..Len(m) : i = 1 \/ i \in 2..Len(m) BY <1>1, <1>6
            <3>3. 1 \in 1..Len(m) /\ \A i \in 2..Len(m) : i \in 1..Len(m) BY <1>1, <1>6
            <3>4. m[1].items = r BY <1>5, <1>6
            <3>5. ASSUME NEW h \in 1..Len(l), h # k, f \in InWindow(l[h].items)
                  PROVE  \E i \in 1..Len(m) : f \in InWindow(m[i].items)
                <4>1. PICK i \in 2..Len(m) : p[i] = h BY <1>6, <3>5
                <4>2. m[i] = l[h] /\ i \in 1..Len(m) BY <1>6, <3>3, <4>1
                <4> QED BY <3>5, <4>2
            <3>6. ASSUME NEW i \in 2..Len(m), f \in InWindow(m[i].items)
                  PROVE  \E h \in 1..Len(l) : h # k /\ f \in InWindow(l[h].items)
                <4>1. p[i] \in 1..Len(l) /\ p[i] # k /\ m[i] = l[p[i]] BY <1>6
                <4> QED BY <3>6, <4>1
            <3> QED BY <3>1, <3>2, <3>3, <3>4, <3>5, <3>6
        <2>3. CASE Len(q) = PerJobLimit
            <3>1. HeldIn(m) = (HeldIn(l) \ {q[1]}) \cup {e}
                <4>1. InWindow(r) = (A \ {q[1]}) \cup {e} BY <1>4, <2>3
                <4> HIDE DEF A
                <4> QED BY <2>0, <2>1, <2>2, <4>1
            <3>2. IsFiniteSet(HeldIn(l) \ {q[1]})
                  /\ Cardinality(HeldIn(l) \ {q[1]}) = Cardinality(HeldIn(l)) - 1
                BY <2>0, FS_RemoveElement
            <3>3. Cardinality(HeldIn(m)) = Cardinality(HeldIn(l)) - 1 + 1
                <4> DEFINE B == HeldIn(l) \ {q[1]}
                <4>1. IsFiniteSet(B) /\ e \notin B BY <2>0, <3>2
                <4>2. Cardinality(B) = Cardinality(HeldIn(l)) - 1 /\ HeldIn(m) = B \cup {e}
                    BY <3>1, <3>2
                <4> HIDE DEF B
                <4>3. Cardinality(B \cup {e}) = IF e \in B THEN Cardinality(B) ELSE Cardinality(B) + 1
                    BY <4>1, FS_AddElement
                <4> QED BY <4>1, <4>2, <4>3
            <3> QED BY <2>0, <2>3, <3>3
        <2>4. CASE Len(q) # PerJobLimit
            <3>1. HeldIn(m) = HeldIn(l) \cup {e}
                <4>1. InWindow(r) = A \cup {e} BY <1>4, <2>4
                <4> HIDE DEF A
                <4> QED BY <2>0, <2>1, <2>2, <4>1
            <3>2. Cardinality(HeldIn(m)) = Cardinality(HeldIn(l)) + 1
                <4> DEFINE B == HeldIn(l)
                <4>1. IsFiniteSet(B) /\ e \notin B /\ HeldIn(m) = B \cup {e} BY <2>0, <3>1
                <4> HIDE DEF B
                <4>2. Cardinality(B \cup {e}) = IF e \in B THEN Cardinality(B) ELSE Cardinality(B) + 1
                    BY <4>1, FS_AddElement
                <4> QED BY <4>1, <4>2 DEF B
            <3> QED BY <2>0, <2>4, <3>2
        <2> QED BY <2>3, <2>4
    <1> QED BY <1>6, <1>13, <1>14 DEF t, j, q, Written

LEMMA NewJobWrites ==
    ASSUME NEW s \in Seq(EventJob \cup {NoJob}), NEW l \in WindowList, ListInv(s, l),
           NEW j \in EventJob, j \notin JobsIn(l), NEW full \in BOOLEAN, NEW w, NEW m,
           w = [job |-> j, items |-> <<Len(s) + 1>>],
           full <=> Len(l) >= MaxJobs,
           m = [i \in 1..(IF full THEN Len(l) ELSE Len(l) + 1) |-> IF i = 1 THEN w ELSE l[i - 1]],
           NEW gone, gone = IF full THEN Len(l[Len(l)].items) ELSE 0
    PROVE  Written(Append(s, j), l, m, gone)
    <1> DEFINE e == Len(s) + 1  t == Append(s, j)  z == IF full THEN Len(l) ELSE Len(l) + 1
               p == [i \in 2..Len(m) |-> i - 1]
    <1>0. \A k \in 1..Len(l) : l[k].job # j BY DEF JobsIn
    <1>1. Len(l) \in Nat /\ MaxJobs \in Nat \ {0} /\ PerJobLimit \in Nat \ {0}
        BY ListIs, HistoryAssumption
    <1>2. /\ t \in Seq(EventJob \cup {NoJob}) /\ e \in Nat
          /\ \A f \in Own(s, j) : f \in Nat /\ f < e
          /\ Own(t, j) = Own(s, j) \cup {e}
        BY OwnIs
    <1>3. z \in Nat /\ z >= 1 /\ z - 1 <= Len(l) /\ (full => z = Len(l)) /\ (~full => z = Len(l) + 1)
        BY <1>1
    <1>4. w \in [job : EventJob, items : Seq(Nat)] /\ w.job = j /\ w.items = <<e>>
        BY <1>2
    <1>5. m = [i \in 1..z |-> IF i = 1 THEN w ELSE l[i - 1]] OBVIOUS
    <1> HIDE DEF e, t, z
    <1>6. m \in WindowList /\ Len(m) = z /\ m[1] = w /\ \A i \in 2..z : m[i] = l[i - 1]
        <2> DEFINE R == [job : EventJob, items : Seq(Nat)]
        <2>1. l \in Seq(R) /\ w \in R BY <1>4 DEF WindowList
        <2> HIDE DEF R
        <2>2. \A i \in 1..Len(l) : l[i] \in R BY <2>1
        <2>3. \A i \in 1..z : i # 1 => i - 1 \in 1..Len(l) BY <1>1, <1>3
        <2>4. m \in [1..z -> R] BY <1>5, <2>1, <2>2, <2>3
        <2>5. m \in Seq(R) /\ Len(m) = z BY <1>3, <2>4, FunctionIsSeq
        <2>6. m[1] = w BY <1>3, <1>5
        <2>7. \A i \in 2..z : m[i] = l[i - 1] BY <1>3, <1>5
        <2> QED BY <2>5, <2>6, <2>7 DEF WindowList, R
    <1>7. /\ \A i \in 2..Len(m) : p[i] = i - 1 /\ p[i] \in 1..Len(l) /\ m[i] = l[p[i]]
          /\ \A i, h \in 2..Len(m) : i < h => p[i] < p[h]
          /\ \A h \in 1..Len(l) : h = Len(l) \/ \E i \in 2..Len(m) : p[i] = h
          /\ p \in [2..Len(m) -> 1..Len(l)]
        <2>1. \A i \in 2..z : i - 1 \in 1..Len(l) BY <1>1, <1>3
        <2>2. \A h \in 1..Len(l) : h # Len(l) => h + 1 \in 2..z /\ (h + 1) - 1 = h BY <1>1, <1>3
        <2>3. \A i \in 2..z : p[i] = i - 1 BY <1>6
        <2>4. p \in [2..Len(m) -> 1..Len(l)] BY <1>6, <2>1
        <2> HIDE DEF p
        <2>5. \A i, h \in 2..z : i < h => p[i] < p[h] BY <1>3, <2>3
        <2>6. \A h \in 1..Len(l) : h = Len(l) \/ \E i \in 2..z : p[i] = h BY <2>2, <2>3
        <2> QED BY <1>6, <2>1, <2>3, <2>4, <2>5, <2>6
    <1> HIDE DEF p
    <1>8. m[1].job = j /\ m[1].items = <<e>> /\ m[1].items # <<>> /\ Newest(m, 1) = e
        <2>1. m[1].job = j /\ m[1].items = <<e>> BY <1>4, <1>6
        <2>2. <<e>> # <<>> /\ <<e>>[Len(<<e>>)] = e OBVIOUS
        <2> QED BY <2>1, <2>2 DEF Newest
    <1>9. IsTail(<<e>>, Own(t, j), PerJobLimit)
        <2>1. InWindow(<<e>>) = {e} BY DEF InWindow
        <2> QED BY <1>1, <1>2, <2>1 DEF IsTail
    <1>10. /\ IsFiniteSet(JobsIn(l)) /\ Cardinality(JobsIn(l)) = Len(l)
           /\ JobsIn(l) \subseteq Seen(s) /\ j \notin JobsIn(l)
        BY JobsCount DEF JobsIn
    <1>11. /\ IsFiniteSet(Seen(s)) /\ Cardinality(Seen(s)) \in Nat
           /\ Cardinality(Seen(t)) = IF j \in Seen(s) THEN Cardinality(Seen(s))
                                                      ELSE Cardinality(Seen(s)) + 1
        BY SeenIs DEF t
    <1>12. j \in Seen(s) => Len(l) < Cardinality(Seen(s))
        <2> SUFFICES ASSUME j \in Seen(s) PROVE Len(l) < Cardinality(Seen(s)) OBVIOUS
        <2>1. Cardinality(JobsIn(l)) <= Cardinality(Seen(s))
              /\ (Cardinality(Seen(s)) = Cardinality(JobsIn(l)) => Seen(s) = JobsIn(l))
            BY <1>10, <1>11, FS_Subset
        <2> QED BY <1>1, <1>10, <1>11, <2>1
    <1>13. RoomIsUsed(t, m)
        BY <1>1, <1>3, <1>6, <1>11, <1>12 DEF ListInv, RoomIsUsed
    <1>14. Cardinality(Seen(t)) <= MaxJobs =>
              /\ Cardinality(Seen(s)) <= MaxJobs
              /\ IsWholeTail(m[1].items, Own(t, j), PerJobLimit)
        <2> SUFFICES ASSUME Cardinality(Seen(t)) <= MaxJobs
                     PROVE  /\ Cardinality(Seen(s)) <= MaxJobs
                            /\ IsWholeTail(m[1].items, Own(t, j), PerJobLimit)
            OBVIOUS
        <2>1. Cardinality(Seen(s)) <= MaxJobs BY <1>1, <1>11
        <2>2. Len(l) = Cardinality(Seen(s)) BY <1>1, <1>11, <2>1 DEF ListInv, RoomIsUsed
        <2>3. j \notin Seen(s) BY <1>1, <1>12, <2>2
        <2>4. Own(t, j) = {e} BY <1>2, <2>3 DEF Seen
        <2>5. InWindow(<<e>>) = {e} BY DEF InWindow
        <2> QED BY <1>8, <1>9, <2>1, <2>4, <2>5 DEF IsWholeTail
    <1>15. EachTail(t, m) /\ NewestFirst(m) /\ OthersAreOlder(t, m) /\ NoneEvicted(t, m)
        <2>1. \A i \in 2..Len(m) : m[i] = l[p[i]] /\ l[p[i]].job # j BY <1>0, <1>7
        <2>2. \A h \in 1..Len(l) : l[h].job = j \/ h = Len(l) \/ \E i \in 2..Len(m) : p[i] = h
            BY <1>0, <1>7
        <2>3. Len(m) >= 1 BY <1>3, <1>6
        <2>5. \A i, h \in 2..Len(m) : i < h => p[i] < p[h] BY <1>0, <1>7
        <2>6. m \in WindowList /\ p \in [2..Len(m) -> 1..Len(l)] /\ j \in EventJob
            BY <1>6, <1>7
        <2>7. IsTail(m[1].items, Own(Append(s, j), j), PerJobLimit) BY <1>8, <1>9 DEF t
        <2>8. Newest(m, 1) = Len(s) + 1 BY <1>8 DEF e
        <2>9. Cardinality(Seen(Append(s, j))) <= MaxJobs =>
                 /\ Cardinality(Seen(s)) <= MaxJobs
                 /\ IsWholeTail(m[1].items, Own(Append(s, j), j), PerJobLimit)
            BY <1>14 DEF t
        <2>10. Behind(m, l, p, j) BY <2>1, <2>2, <2>3, <2>5, <2>6 DEF Behind
        <2>11. t = Append(s, j) BY DEF t
        <2>12. InFront(s, t, m, j) BY <1>8, <2>7, <2>8, <2>9, <2>11 DEF InFront
        <2> QED BY <2>6, <2>10, <2>11, <2>12, ListGrows
    <1>16. ListInv(t, m) BY <1>13, <1>15 DEF ListInv
    <1>17. Cardinality(HeldIn(m)) = Cardinality(HeldIn(l)) + 1 - (IF full THEN Len(l[Len(l)].items) ELSE 0)
        <2>0. /\ IsFiniteSet(HeldIn(l)) /\ Cardinality(HeldIn(l)) \in Nat /\ e \notin HeldIn(l)
            <3>1. \A f \in HeldIn(l) : f \in Nat /\ f < e BY HeldIs DEF e
            <3>2. IsFiniteSet(HeldIn(l)) /\ Cardinality(HeldIn(l)) \in Nat BY HeldIs
            <3> QED BY <1>2, <3>1, <3>2
        <2>1. \A f : f \in HeldIn(l) <=> \E h \in 1..Len(l) : f \in InWindow(l[h].items)
            BY DEF HeldIn
        <2>2. \A f : f \in HeldIn(m) <=> f = e \/ \E h \in 1..z - 1 : f \in InWindow(l[h].items)
            <3> SUFFICES ASSUME NEW f
                         PROVE  f \in HeldIn(m) <=> f = e \/ \E h \in 1..z - 1 : f \in InWindow(l[h].items)
                OBVIOUS
            <3>1. f \in HeldIn(m) <=> \E i \in 1..z : f \in InWindow(m[i].items)
                <4>1. f \in HeldIn(m) <=> \E i \in 1..Len(m) : f \in InWindow(m[i].items)
                    BY DEF HeldIn
                <4>2. Len(m) = z BY <1>6
                <4> QED BY <4>1, <4>2
            <3>2. 1 \in 1..z /\ \A i \in 1..z : i = 1 \/ (i \in 2..z /\ i - 1 \in 1..z - 1) BY <1>3
            <3>3. \A h \in 1..z - 1 : h + 1 \in 1..z /\ h + 1 \in 2..z /\ (h + 1) - 1 = h BY <1>3
            <3>4. InWindow(m[1].items) = {e}
                <4>1. InWindow(<<e>>) = {e} BY DEF InWindow
                <4> QED BY <1>8, <4>1
            <3>5. \A i \in 2..z : m[i] = l[i - 1] BY <1>6
            <3>6. \A h \in 1..z - 1 : m[h + 1] = l[h] BY <3>3, <3>5
            <3> QED BY <3>1, <3>2, <3>3, <3>4, <3>5, <3>6
        <2>3. CASE ~full
            <3>1. z - 1 = Len(l) BY <1>1, <1>3, <2>3
            <3>2. HeldIn(m) = HeldIn(l) \cup {e} BY <2>1, <2>2, <3>1
            <3>3. Cardinality(HeldIn(m)) = Cardinality(HeldIn(l)) + 1 BY <2>0, <3>2, FS_AddElement
            <3> QED BY <2>0, <2>3, <3>3
        <2>4. CASE full
            <3> DEFINE n == Len(l)  A == InWindow(l[n].items)
            <3>1. z = n /\ n \in 1..Len(l) /\ \A h \in 1..Len(l) : h = n \/ h \in 1..n - 1
                BY <1>1, <1>3, <2>4
            <3>2. \A h \in 1..n - 1 : h \in 1..Len(l) /\ h # n BY <1>1
            <3>3. /\ A \subseteq HeldIn(l) /\ Cardinality(A) = Len(l[n].items)
                  /\ \A h \in 1..n - 1 : InWindow(l[h].items) \cap A = {}
                BY <3>1, <3>2, HeldIs
            <3>4. Len(l[n].items) \in Nat BY <3>1, ListIs
            <3> HIDE DEF n
            <3>5. HeldIn(m) = (HeldIn(l) \ A) \cup {e}
                <4>1. \A f : f \in HeldIn(l) <=> f \in A \/ \E h \in 1..n - 1 : f \in InWindow(l[h].items)
                    BY <2>1, <3>1, <3>2
                <4>2. \A f : f \in HeldIn(m) <=> f = e \/ \E h \in 1..n - 1 : f \in InWindow(l[h].items)
                    BY <2>2, <3>1
                <4> HIDE DEF A
                <4> QED BY <2>0, <3>3, <4>1, <4>2
            <3> HIDE DEF A
            <3>6. IsFiniteSet(HeldIn(l) \ A)
                  /\ Cardinality(HeldIn(l) \ A) = Cardinality(HeldIn(l)) - Cardinality(A)
                <4>1. HeldIn(l) \cap A = A BY <3>3
                <4>2. IsFiniteSet(HeldIn(l) \ A)
                      /\ Cardinality(HeldIn(l) \ A)
                            = Cardinality(HeldIn(l)) - Cardinality(HeldIn(l) \cap A)
                    BY <2>0, FS_Difference
                <4> QED BY <4>1, <4>2
            <3>7. Cardinality(HeldIn(m)) = Cardinality(HeldIn(l) \ A) + 1
                BY <2>0, <3>5, <3>6, FS_AddElement
            <3>8. Cardinality(HeldIn(m)) = Cardinality(HeldIn(l)) - Len(l[n].items) + 1
                BY <3>3, <3>6, <3>7
            <3> QED BY <2>0, <2>4, <3>4, <3>8 DEF n
        <2> QED BY <2>3, <2>4
    <1> QED BY <1>6, <1>16, <1>17 DEF t, Written

-----------------------------------------------------------------------------
\* What HistoryIsTail says is in the invariant.
LEMMA HistoryInvMeans == HistoryInv => HistoryIsTail
    <1> SUFFICES ASSUME HistoryInv PROVE HistoryIsTail OBVIOUS
    <1> DEFINE own(i) == EventsOf({lru[i].job})
    <1>1. /\ seen \in Seq(EventJob \cup {NoJob}) /\ lru \in WindowList /\ ListInv(seen, lru)
          /\ total = Cardinality(HeldIn(lru)) /\ IsWholeTail(global, EventsOf(EventJob), GlobalLimit)
        BY DEF HistoryInv
    <1>2. \A j : EventsOf({j}) = Own(seen, j) BY DEF EventsOf, Own
    <1>3. Known = Seen(seen) /\ Remembered = JobsIn(lru) BY <1>2 DEF Known, Seen, Remembered, JobsIn
    <1>4. IsFiniteSet(JobsIn(lru)) /\ Cardinality(JobsIn(lru)) = Len(lru) /\ JobsIn(lru) \subseteq Seen(seen)
        BY <1>1, JobsCount
    <1>5. Remembered \subseteq Known /\ Cardinality(Remembered) = Len(lru) BY <1>3, <1>4
    <1>6. Len(lru) = IF Cardinality(Known) < MaxJobs THEN Cardinality(Known) ELSE MaxJobs
        BY <1>1, <1>3 DEF ListInv, RoomIsUsed
    <1>7. ASSUME NEW j \in Remembered, NEW k \in Known \ Remembered
          PROVE  \E e \in EventsOf({j}) : \A f \in EventsOf({k}) : f < e
        <2>1. PICK i \in 1..Len(lru) : j = lru[i].job BY DEF Remembered
        <2>2. Newest(lru, i) \in Own(seen, j) BY <1>1, <2>1, ListIs
        <2>3. k \in EventJob \ JobsIn(lru) BY <1>3 DEF Seen
        <2>4. \A f \in Own(seen, k) : f < Newest(lru, i)
            BY <1>1, <2>1, <2>3 DEF ListInv, OthersAreOlder
        <2> QED BY <1>2, <2>2, <2>4
    <1>8. ASSUME NEW i \in 1..Len(lru)
          PROVE  /\ lru[i].items # <<>> /\ IsTail(lru[i].items, own(i), PerJobLimit)
                 /\ Cardinality(Known) <= MaxJobs => IsWholeTail(lru[i].items, own(i), PerJobLimit)
        BY <1>1, <1>2, <1>3 DEF ListInv, EachTail, NoneEvicted
    <1>9. total = Cardinality(UNION {InWindow(lru[i].items) : i \in 1..Len(lru)})
        BY <1>1 DEF HeldIn
    <1> QED BY <1>1, <1>5, <1>6, <1>7, <1>8, <1>9 DEF HistoryIsTail

\* Nothing recorded, nothing kept.
LEMMA NothingKept ==
    ASSUME NEW s, \A j \in EventJob : Own(s, j) = {}
    PROVE  /\ <<>> \in WindowList /\ ListInv(s, <<>>)
           /\ 0 = Cardinality(HeldIn(<<>>)) /\ IsWholeTail(<<>>, {}, GlobalLimit)
    <1>1. Len(<<>>) = 0 /\ <<>> \in WindowList /\ 1..Len(<<>>) = {} BY DEF WindowList
    <1>2. Seen(s) = {} BY DEF Seen
    <1>3. Cardinality({}) = 0 BY FS_EmptySet
    <1>4. EachTail(s, <<>>) /\ NewestFirst(<<>>) /\ OthersAreOlder(s, <<>>) /\ NoneEvicted(s, <<>>)
        BY <1>1 DEF EachTail, NewestFirst, OthersAreOlder, NoneEvicted
    <1>5. RoomIsUsed(s, <<>>)
        <2>1. MaxJobs \in Nat /\ 0 < MaxJobs BY HistoryAssumption
        <2> QED BY <1>1, <1>2, <1>3, <2>1 DEF RoomIsUsed
    <1>6. HeldIn(<<>>) = {} BY <1>1 DEF HeldIn
    <1>7. InWindow(<<>>) = {} BY <1>1 DEF InWindow
    <1>8. IsWholeTail(<<>>, {}, GlobalLimit)
        <2>1. GlobalLimit \in Nat BY HistoryAssumption
        <2> QED BY <1>1, <1>7, <2>1 DEF IsWholeTail, IsTail
    <1> QED BY <1>1, <1>3, <1>4, <1>5, <1>6, <1>8 DEF ListInv

LEMMA HistoryStarts == HistoryInit => HistoryInv
    <1> SUFFICES ASSUME HistoryInit PROVE HistoryInv OBVIOUS
    <1>1. seen = <<>> /\ lru = <<>> /\ global = <<>> /\ total = 0 BY DEF HistoryInit
    <1>2. Len(seen) = 0 /\ 1..Len(seen) = {} BY <1>1
    <1>3. (\A j \in EventJob : Own(seen, j) = {}) /\ EventsOf(EventJob) = {}
        BY <1>2 DEF Own, EventsOf
    <1>4. /\ <<>> \in WindowList /\ ListInv(seen, <<>>)
          /\ 0 = Cardinality(HeldIn(<<>>)) /\ IsWholeTail(<<>>, {}, GlobalLimit)
        BY <1>3, NothingKept
    <1>5. seen \in Seq(EventJob \cup {NoJob}) /\ global \in Seq(Nat) BY <1>1
    <1> QED BY <1>1, <1>3, <1>4, <1>5 DEF HistoryInv

LEMMA HistoryClears ==
    ASSUME HistoryInv, Clear
    PROVE  HistoryInv'
    <1>1. /\ global' = <<>> /\ lru' = <<>> /\ total' = 0
          /\ seen' = [i \in 1..Len(seen) |-> NoJob]
        BY DEF Clear
    <1>2. seen \in Seq(EventJob \cup {NoJob}) BY DEF HistoryInv
    <1>3. Len(seen) \in Nat BY <1>2
    <1>4. seen' \in [1..Len(seen) -> EventJob \cup {NoJob}] BY <1>1
    <1>5. seen' \in Seq(EventJob \cup {NoJob}) /\ Len(seen') = Len(seen)
        BY <1>3, <1>4, FunctionIsSeq
    <1>6. \A i \in 1..Len(seen') : seen'[i] = NoJob /\ NoJob \notin EventJob
        BY <1>1, <1>5, HistoryAssumption
    <1>7. (\A j \in EventJob : Own(seen', j) = {}) /\ EventsOf(EventJob)' = {}
        BY <1>6 DEF Own, EventsOf
    <1>8. /\ <<>> \in WindowList /\ ListInv(seen', <<>>)
          /\ 0 = Cardinality(HeldIn(<<>>)) /\ IsWholeTail(<<>>, {}, GlobalLimit)
        BY <1>7, NothingKept
    <1>9. global' \in Seq(Nat) BY <1>1
    <1> QED BY <1>1, <1>5, <1>7, <1>8, <1>9 DEF HistoryInv

\* An event of no job is nobody's.
LEMMA NobodysEvent ==
    ASSUME HistoryInv, RecordEvent(NoJob)
    PROVE  HistoryInv'
    <1>1. seen' = Append(seen, NoJob) /\ UNCHANGED <<global, lru, total>> BY DEF RecordEvent
    <1>2. /\ seen \in Seq(EventJob \cup {NoJob}) /\ lru \in WindowList /\ global \in Seq(Nat)
          /\ ListInv(seen, lru) /\ IsWholeTail(global, EventsOf(EventJob), GlobalLimit)
          /\ total = Cardinality(HeldIn(lru))
        BY DEF HistoryInv
    <1>3. NoJob \in EventJob \cup {NoJob} /\ NoJob \notin EventJob BY HistoryAssumption
    <1>4. /\ seen' \in Seq(EventJob \cup {NoJob})
          /\ \A x \in EventJob : Own(seen', x) = Own(seen, x)
        BY <1>1, <1>2, <1>3, OwnIs
    <1>5. Seen(seen') = Seen(seen) BY <1>4 DEF Seen
    <1>6. EventsOf(EventJob)' = EventsOf(EventJob)
        <2>1. EventsOf(EventJob) = UNION {Own(seen, x) : x \in EventJob} BY DEF EventsOf, Own
        <2>2. EventsOf(EventJob)' = UNION {Own(seen', x) : x \in EventJob} BY DEF EventsOf, Own
        <2> QED BY <1>4, <2>1, <2>2
    <1>7. \A i \in 1..Len(lru) : lru[i].job \in EventJob BY <1>2, ListIs
    <1>8. ListInv(seen', lru)
        BY <1>2, <1>4, <1>5, <1>7
        DEF ListInv, EachTail, OthersAreOlder, RoomIsUsed, NoneEvicted
    <1> QED BY <1>1, <1>2, <1>4, <1>6, <1>8 DEF HistoryInv

LEMMA SomebodysEvent ==
    ASSUME HistoryInv, NEW j \in EventJob, RecordEvent(j)
    PROVE  HistoryInv'
    <1> DEFINE e == Len(seen) + 1
    <1>1. /\ seen \in Seq(EventJob \cup {NoJob}) /\ lru \in WindowList /\ global \in Seq(Nat)
          /\ ListInv(seen, lru) /\ IsWholeTail(global, EventsOf(EventJob), GlobalLimit)
          /\ total = Cardinality(HeldIn(lru))
        BY DEF HistoryInv
    <1>2. j # NoJob BY HistoryAssumption
    <1>3. seen' = Append(seen, j) /\ ToWindow(j, e) /\ global' = LastOf(Append(global, e), GlobalLimit)
        BY <1>2 DEF RecordEvent
    <1>4. /\ seen' \in Seq(EventJob \cup {NoJob}) /\ Len(seen') = e /\ e \in Nat
          /\ \A x \in EventJob : \A f \in Own(seen, x) : f \in Nat /\ f < e
          /\ \A x \in EventJob :
                Own(seen', x) = IF x = j THEN Own(seen, x) \cup {e} ELSE Own(seen, x)
        BY <1>1, <1>3, OwnIs
    <1> HIDE DEF e
    <1>5. global' \in Seq(Nat) /\ IsWholeTail(global', EventsOf(EventJob)', GlobalLimit)
        <2> DEFINE own == EventsOf(EventJob)
        <2>1. own = UNION {Own(seen, x) : x \in EventJob} BY DEF EventsOf, Own
        <2>2. EventsOf(EventJob)' = UNION {Own(seen', x) : x \in EventJob} BY DEF EventsOf, Own
        <2>3. EventsOf(EventJob)' = own \cup {e} BY <1>4, <2>1, <2>2
        <2>4. own \in SUBSET Nat /\ \A f \in own : f < e BY <1>4, <2>1
        <2>5. GlobalLimit \in Nat \ {0} BY HistoryAssumption
        <2>6. IsWholeTail(global, own, GlobalLimit) /\ IsTail(global, own, GlobalLimit)
            BY <1>1 DEF IsWholeTail
        <2> HIDE DEF own
        <2>7. Grown(global, own, GlobalLimit, e, global')
            BY <1>1, <1>3, <1>4, <2>4, <2>5, <2>6, TailGrows
        <2> QED BY <2>3, <2>6, <2>7 DEF Grown
    <1>6. lru' \in WindowList /\ ListInv(seen', lru') /\ total' = Cardinality(HeldIn(lru'))
        <2>1. ASSUME NEW k \in 1..Len(lru), lru[k].job = j,
                     lru' = MovedToFront(k, [lru[k] EXCEPT !.items = LastOf(Append(@, e), PerJobLimit)]),
                     total' = total + 1 - (IF Len(lru[k].items) = PerJobLimit THEN 1 ELSE 0)
              PROVE  lru' \in WindowList /\ ListInv(seen', lru') /\ total' = Cardinality(HeldIn(lru'))
            <3>1. PICK w : w = [lru[k] EXCEPT !.items = LastOf(Append(@, Len(seen) + 1), PerJobLimit)]
                OBVIOUS
            <3>2. lru' = [i \in 1..Len(lru) |-> IF i = 1 THEN w ELSE IF i <= k THEN lru[i - 1] ELSE lru[i]]
                BY <2>1, <3>1 DEF MovedToFront, e
            <3>3. PICK gone : gone = IF Len(lru[k].items) = PerJobLimit THEN 1 ELSE 0 OBVIOUS
            <3>4. Written(Append(seen, lru[k].job), lru, lru', gone)
                BY <1>1, <3>1, <3>2, <3>3, KnownJobWrites
            <3> QED BY <1>1, <1>3, <2>1, <3>3, <3>4 DEF Written
        <2>2. ASSUME \A k \in 1..Len(lru) : lru[k].job # j,
                     lru' = PushedFront([job |-> j, items |-> <<e>>]),
                     total' = total + 1 - (IF NoRoom THEN Len(lru[Len(lru)].items) ELSE 0)
              PROVE  lru' \in WindowList /\ ListInv(seen', lru') /\ total' = Cardinality(HeldIn(lru'))
            <3>1. PICK w : w = [job |-> j, items |-> <<Len(seen) + 1>>] OBVIOUS
            <3>2. PICK full \in BOOLEAN : full <=> Len(lru) >= MaxJobs OBVIOUS
            <3>3. lru' = [i \in 1..(IF full THEN Len(lru) ELSE Len(lru) + 1) |-> IF i = 1 THEN w ELSE lru[i - 1]]
                BY <2>2, <3>1, <3>2 DEF PushedFront, NoRoom, e
            <3>4. PICK gone : gone = IF full THEN Len(lru[Len(lru)].items) ELSE 0 OBVIOUS
            <3>5. Written(Append(seen, j), lru, lru', gone)
                <4>1. j \notin JobsIn(lru) BY <2>2 DEF JobsIn
                <4> QED BY <1>1, <3>1, <3>2, <3>3, <3>4, <4>1, NewJobWrites
            <3>6. total' = total + 1 - gone BY <2>2, <3>2, <3>4 DEF NoRoom
            <3> QED BY <1>1, <1>3, <3>5, <3>6 DEF Written
        <2> QED BY <1>3, <2>1, <2>2 DEF ToWindow
    <1> QED BY <1>4, <1>5, <1>6 DEF HistoryInv

\* The API remembers the last events of the jobs that had events last, unbroken,
\* and counts what it remembers (api/history.go, record and Clear): HistoryIsTail
\* for windows and lists of every size.
THEOREM HistoryIsKept == HistorySpec => []HistoryIsTail
    <1>1. HistoryInit => HistoryInv BY HistoryStarts
    <1>2. HistoryInv /\ [HistoryNext]_historyVars => HistoryInv'
        <2> SUFFICES ASSUME HistoryInv, [HistoryNext]_historyVars PROVE HistoryInv' OBVIOUS
        <2>1. CASE Clear BY <2>1, HistoryClears
        <2>2. ASSUME NEW j \in EventJob \cup {NoJob}, RecordEvent(j) PROVE HistoryInv'
            <3>1. CASE j = NoJob BY <2>2, <3>1, NobodysEvent
            <3>2. CASE j \in EventJob BY <2>2, <3>2, SomebodysEvent
            <3> QED BY <3>1, <3>2
        <2>3. CASE UNCHANGED historyVars
            BY <2>3 DEF historyVars, HistoryInv, EventsOf
        <2> QED BY <2>1, <2>2, <2>3 DEF HistoryNext
    <1>3. HistoryInv => HistoryIsTail BY HistoryInvMeans
    <1> QED BY <1>1, <1>2, <1>3, PTL DEF HistorySpec
=============================================================================
