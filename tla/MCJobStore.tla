----------------------------- MODULE MCJobStore -----------------------------
(* Two jobs, of which one may be retained, or both until the limit is      *)
(* lowered: enough for one to push the other out, to be too old itself, or *)
(* to be trimmed while unfinished.                                         *)
EXTENDS JobStore, TLC

CONSTANTS j1, j2

TwoJobs == {j1, j2}

\* Keep none; keep both; keep one for a tick.
ThreePolicies == {<<-1, 0>>, <<2, 0>>, <<1, 1>>}
=============================================================================
