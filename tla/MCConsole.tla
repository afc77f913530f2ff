------------------------------ MODULE MCConsole ------------------------------
(***************************************************************************)
(* What users of the console come for, the outputs of jobs, and with, a    *)
(* session; one of the two in each behaviour.                              *)
(*                                                                         *)
(* Outputs, in two parts: a job with a retry by itself; and two jobs, one  *)
(* attempt of each and one fault, under a profile that runs one at a time. *)
(* Sessions, in three parts: logins from one address, to one account under *)
(* two names and to no account; what becomes of the tokens that come from  *)
(* one login; and tickets, with the tokens of one session.                 *)
(***************************************************************************)
EXTENDS Artifacts, Sessions, TLC

CONSTANTS j1, j2, n1, n2, n3

VARIABLE part

TwoJobs == {j1, j2}

RetryOfOne == (j1 :> 2) @@ (j2 :> 1)

ThreeNames == {n1, n2, n3}

\* The second with a blank in front, and one that is not configured.
TwoOfOne == (n1 :> n1) @@ (n2 :> n1) @@ (n3 :> n3)

ConsoleInit ==
    /\ part \in {"retry", "two jobs", "logins", "tokens", "tickets"}
    /\ ArtifactInit /\ SessionsInit

RetryStep ==
    /\ part = "retry" /\ ArtifactNext /\ attempt'[j2] = 0
    /\ UNCHANGED sessionVars

TwoJobsStep ==
    /\ part = "two jobs" /\ ArtifactNext /\ attempt'[j1] <= 1 /\ faults' <= 1
    /\ UNCHANGED sessionVars

LoginsStep == part = "logins" /\ LoginNext /\ UNCHANGED artifactVars

OneLogin == attempts' <= 1 /\ wrong' = <<>>

TokensStep ==
    /\ part = "tokens" /\ SessionsNext /\ OneLogin /\ issued' = <<>>
    /\ UNCHANGED artifactVars

TicketsStep ==
    /\ part = "tickets" /\ SessionsNext /\ OneLogin /\ Len(sessions') <= 1
    /\ UNCHANGED artifactVars

ConsoleNext ==
    /\ RetryStep \/ TwoJobsStep \/ LoginsStep \/ TokensStep \/ TicketsStep
    /\ UNCHANGED part

ConsoleSpec == ConsoleInit /\ [][ConsoleNext]_<<part, artifactVars, sessionVars>>
=============================================================================
