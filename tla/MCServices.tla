----------------------------- MODULE MCServices -----------------------------
(***************************************************************************)
(* What listens to the event bus, the loader, and two matters of one job,  *)
(* its execution and its retries; one of them in each behaviour.  They     *)
(* share nothing but the bus, of which each listener has its end.          *)
(***************************************************************************)
EXTENDS EventLog, ClientStreams, EventHistory, DirectoryLoader, Retry, Execution

CONSTANTS caller, ws1, ws2, sse1, j1, j2, j3, p1, t1, t2, t3

VARIABLE part

OneCaller == {caller}

OneOrThree == {1, 3}

RetryBases == {-1, 0, 3}

RetryLimits == {0, 10}

Third == {3}

TwoSockets == {ws1, ws2}

OneStream == {sse1}

ThreeJobs == {j1, j2, j3}

OnePath == {p1}

ThreeThreads == {t1, t2, t3}

OneRetried == [delay |-> 0, count |-> 0, max |-> 0, repeats |-> FALSE, status |-> "pending"]

ServicesInit ==
    /\ part \in {"log", "streams", "history", "loader", "retry", "execution"}
    /\ Init /\ StreamsInit /\ HistoryInit /\ LoaderInit /\ RetryInit /\ ExecutionInit
    /\ part # "log" => feed = "bus" /\ keep = 1
    /\ part # "loader" => /\ options = [post |-> "keep", errorDir |-> FALSE]
                          /\ content = [p \in Path |-> "job"]
                          /\ file = [p \in Path |-> "unborn"]
    /\ part # "retry" => retried = OneRetried /\ maxDelay = 0
    /\ part # "execution" => kind = "http" /\ others = 0

LogStep ==
    /\ part = "log" /\ Next
    /\ UNCHANGED <<streamVars, historyVars, loaderVars, retryVars, executionVars>>

StreamsStep ==
    /\ part = "streams" /\ StreamsNext
    /\ UNCHANGED <<vars, historyVars, loaderVars, retryVars, executionVars>>

HistoryStep ==
    /\ part = "history" /\ HistoryNext
    /\ UNCHANGED <<vars, streamVars, loaderVars, retryVars, executionVars>>

LoaderStep ==
    /\ part = "loader" /\ LoaderNext
    /\ UNCHANGED <<vars, streamVars, historyVars, retryVars, executionVars>>

RetryStep ==
    /\ part = "retry" /\ RetryNext
    /\ UNCHANGED <<vars, streamVars, historyVars, loaderVars, executionVars>>

ExecutionStep ==
    /\ part = "execution" /\ ExecutionNext
    /\ UNCHANGED <<vars, streamVars, historyVars, loaderVars, retryVars>>

ServicesNext ==
    /\ LogStep \/ StreamsStep \/ HistoryStep \/ LoaderStep \/ RetryStep \/ ExecutionStep
    /\ UNCHANGED part

ServicesSpec ==
    /\ ServicesInit
    /\ [][ServicesNext]_<<part, vars, streamVars, historyVars, loaderVars, retryVars,
                         executionVars>>
    /\ LogFairness /\ StreamsFairness /\ LoaderFairness /\ ExecutionFairness
=============================================================================
