---------------------------- MODULE MCWorkerPool ----------------------------
(* Instances of WorkerPool for TLC: one or two jobs of each class.         *)
EXTENDS WorkerPool, TLC

CONSTANTS d1, e1, e2, e3, w1, w2, w3, x1, u1, u2

OneDefault == {d1}
OneExec == {e1}
ThreeExec == {e1, e2, e3}
OneWorker == {w1}
ThreeWorkers == {w1, w2, w3}
OneExecWorker == {x1}
TwoSwitchers == {u1, u2}

\* Executor jobs are due at once; default jobs at once or later.
ExecAtOnce == [j \in Job |-> IF j \in ExecJob THEN {0} ELSE Time]

\* Goroutines of the default pool are interchangeable, and so are the callers.
Interchangeable == Permutations(ThreeWorkers) \cup Permutations(TwoSwitchers)
=============================================================================
