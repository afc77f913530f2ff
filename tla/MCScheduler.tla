----------------------------- MODULE MCScheduler -----------------------------
(* Instances of Scheduler for TLC: one or two jobs, one of which may repeat.*)
EXTENDS Scheduler, TLC

CONSTANTS once, cron, w1, w2, c1

OneJob == {cron}
TwoJobs == {once, cron}
OneCron == {cron}
NoJob == {}
TwoWorkers == {w1, w2}
OneWorker == {w1}
OneClient == {c1}

\* Workers are interchangeable: nothing names one.
Interchangeable == Permutations(TwoWorkers)
==============================================================================
