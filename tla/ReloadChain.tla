------------------------------ MODULE ReloadChain ------------------------------
(***************************************************************************)
(* The chain that turns a saved configuration file into settings in force  *)
(* (cmd/server/reload.go): read, compare, refuse, apply the hot keys in a  *)
(* fixed order, undo in the reverse order.  The chain's mutex is held from *)
(* Begin to the step that returns a result; each setter takes effect in a  *)
(* step of its own.                                                        *)
(*                                                                         *)
(* A configuration gives every key a value, or leaves it unset.  Keys with *)
(* the same target are one key here, as they are one step in the code.     *)
(***************************************************************************)
EXTENDS Naturals, Sequences, SequencesExt

CONSTANTS
    Config,               \* what a file can say: functions from Key to Nat
    Defaults,             \* DefaultConfig, a value for every key
    Environ,              \* the keys that GODELAYQ_ variables give, with their values
    Refused,              \* the values that Validate refuses, for every key
    Startup,              \* the file the process was started with
    Available,            \* the steps whose target this deployment has
    MaxHotReloadWorkers,
    Permits,              \* what the entries of a list of commands may run, by name
    BadCommands           \* lists of commands that the limits of the start refuse

StepTable == <<"level", "debounce", "retry", "retention", "events", "audit",
               "workers", "commands">>
Hot == ToSet(StepTable)
\* The class that waits for a restart, and the one that voids the reload.
Key == Hot \cup {"restart", "secret"}

Unset  == 0
Silent == [k \in Key |-> Unset]

\* A file that gives values, one that gives none (read as the defaults), and one that
\* cannot be read as a configuration.
Values(c) == [kind |-> "values", cfg |-> c]
Blank     == [kind |-> "blank", cfg |-> Silent]
Broken    == [kind |-> "broken", cfg |-> Silent]
Content   == {Values(c) : c \in Config} \cup {Blank, Broken}

\* LoadConfig: the file under the variables of the environment, if Validate takes it.
Merged(c) == [k \in Key |-> IF k \in DOMAIN Environ THEN Environ[k] ELSE c[k]]
Valid(c) == \A k \in Key : c[k] \notin Refused[k]
\* Mutant: a key that Normalized does not know.
NormalizedButOne(c) ==
    [k \in Key |-> IF c[k] = Unset /\ k # "retry" THEN Defaults[k] ELSE c[k]]

Normalized(c) == [k \in Key |-> IF c[k] = Unset THEN Defaults[k] ELSE c[k]]

Settings(c) == Normalized(Merged(c))

ASSUME ChainAssumption ==
    /\ Config \subseteq [Key -> Nat]
    /\ Startup \in Config /\ Valid(Merged(Startup))
    /\ Defaults \in [Key -> Nat \ {Unset}]
    /\ DOMAIN Environ \subseteq Key /\ \A k \in DOMAIN Environ : Environ[k] \in Nat
    /\ Refused \in [Key -> SUBSET Nat]
    /\ Available \subseteq Hot
    /\ MaxHotReloadWorkers \in Nat
    /\ DOMAIN Permits \subseteq Nat /\ BadCommands \subseteq DOMAIN Permits
    /\ \A c \in Config : Settings(c)["commands"] \in DOMAIN Permits
    \* the start itself registers the commands under the same limits
    /\ Settings(Startup)["commands"] \notin BadCommands
    \* an absent target is a disabled section; the others are always there
    /\ Hot \ Available \subseteq {"debounce", "events", "audit", "commands"}

Results == {"none", "ok", "unchanged", "rejected", "failed", "degraded"}

VARIABLES
    file,      \* what the configuration file says
    version,   \* how often it has been written
    applied,   \* reloader.applied
    live,      \* what is in force, per hot key
    stopped,   \* reloader.stopped
    chain,     \* the reload in progress: its step and what it has in hand
    degraded   \* a result "degraded" has been given (history)

chainVars == <<applied, live, stopped, chain, degraded>>

\* No reload holds the mutex.
Free == [pc |-> "free", cand |-> Defaults, plan |-> {}, done |-> <<>>,
         clean |-> TRUE, seen |-> 0, result |-> "none"]

ChainStep == {"free", "load", "apply", "undo", "return"}

ChainTypeOK ==
    /\ applied \in [Key -> Nat \ {Unset}]
    /\ live \in [Hot -> Nat \ {Unset}]
    /\ stopped \in BOOLEAN /\ degraded \in BOOLEAN
    /\ chain \in [pc : ChainStep, cand : [Key -> Nat \ {Unset}], plan : SUBSET Hot, done : Seq(Hot),
                  clean : BOOLEAN, seen : Nat, result : Results]

ChainInit ==
    /\ applied = Settings(Startup)
    /\ live = [k \in Hot |-> Settings(Startup)[k]]
    /\ stopped = FALSE
    /\ chain = Free
    /\ degraded = FALSE
-------------------------------------------------------------------------------
Changed(c) == {k \in Key : applied[k] # c[k]}

\* What voids the reload: other credentials, or an entry that stays under its name and
\* may run something else.  An entry that comes or goes is a hot change.
Rejected(c) ==
    \/ "secret" \in Changed(c)
    \/ LET old == Permits[applied["commands"]]
           new == Permits[c["commands"]]
       IN  \E n \in DOMAIN old \cap DOMAIN new : old[n] # new[n]

\* The steps a change needs, and the one of them that comes first in the table.
Plan(c) == Hot \cap Changed(c)

IsNext(k, plan) ==
    \E i \in DOMAIN StepTable :
        /\ k = StepTable[i] /\ k \in plan
        /\ \A j \in 1..i - 1 : StepTable[j] \notin plan

\* checkWorkerBound and Applier.ApplyConfig are the setters that can refuse.
Accepts(k, c) ==
    /\ k = "workers" => c[k] <= MaxHotReloadWorkers
    /\ k = "commands" => c[k] \notin BadCommands

Return(result, seen) == [Free EXCEPT !.pc = "return", !.result = result, !.seen = seen]

\* Mutant: a reload that comes after Stop is run like any other.
BeginAfterStop ==
    /\ chain.pc = "free"
    /\ chain' = IF file = Blank THEN Return("rejected", version)
                ELSE [Free EXCEPT !.pc = "load"]
    /\ UNCHANGED <<applied, live, stopped, degraded>>

\* The mutex is taken.  After Stop the answer is empty.  A file without a value is
\* refused before it is read as a configuration; this is the first of two reads.
Begin ==
    /\ chain.pc = "free"
    /\ chain' = IF stopped THEN Return("none", 0)
                ELSE IF file = Blank THEN Return("rejected", version)
                ELSE [Free EXCEPT !.pc = "load"]
    /\ UNCHANGED <<applied, live, stopped, degraded>>

\* The second read: load, normalise, compare, refuse a change of credentials, leave when
\* nothing has changed.
LoadAndDiff ==
    /\ chain.pc = "load"
    /\ LET read == Settings(file.cfg)
       IN  chain' = IF file = Broken \/ ~Valid(Merged(file.cfg)) \/ Rejected(read)
                        THEN Return("rejected", version)
                    ELSE IF Changed(read) = {} THEN Return("unchanged", version)
                    ELSE [Free EXCEPT !.pc = "apply", !.cand = read, !.plan = Plan(read),
                                      !.seen = version]
    /\ UNCHANGED <<applied, live, stopped, degraded>>

\* One step of the plan: skipped when its section is disabled, else the setter.
ApplyStep ==
    /\ chain.pc = "apply"
    /\ \E k \in chain.plan :
       LET rest == [chain EXCEPT !.plan = @ \ {k}]
       IN  /\ IsNext(k, chain.plan)
           /\ IF k \notin Available THEN chain' = rest /\ UNCHANGED live
              ELSE IF Accepts(k, chain.cand)
              THEN /\ live' = [live EXCEPT ![k] = chain.cand[k]]
                   /\ chain' = [rest EXCEPT !.done = Append(@, k)]
              ELSE chain' = [chain EXCEPT !.pc = "undo"] /\ UNCHANGED live
    /\ UNCHANGED <<applied, stopped, degraded>>

\* Only when every step has succeeded is the candidate what the next file is
\* compared with.
Commit ==
    /\ chain.pc = "apply" /\ chain.plan = {}
    /\ applied' = chain.cand
    /\ chain' = Return("ok", chain.seen)
    /\ UNCHANGED <<live, stopped, degraded>>

\* Mutant: the failed step's key is written back, the steps done before it are not.
UndoStepLeavesDone ==
    /\ chain.pc = "undo" /\ chain.done # <<>>
    /\ \E k \in chain.plan :
        IsNext(k, chain.plan) /\ live' = [live EXCEPT ![k] = applied[k]]
    /\ chain' = [chain EXCEPT !.done = Front(@)]
    /\ UNCHANGED <<applied, stopped, degraded>>

\* The same setter with the value of applied, which it may refuse as well.
UndoStep ==
    /\ chain.pc = "undo" /\ chain.done # <<>>
    /\ LET k == Last(chain.done)
           back == Accepts(k, applied)
       IN  /\ live' = IF back THEN [live EXCEPT ![k] = applied[k]] ELSE live
           /\ chain' = [chain EXCEPT !.done = Front(@), !.clean = @ /\ back]
    /\ UNCHANGED <<applied, stopped, degraded>>

GiveUp ==
    /\ chain.pc = "undo" /\ chain.done = <<>>
    /\ chain' = Return(IF chain.clean THEN "failed" ELSE "degraded", chain.seen)
    /\ degraded' = (degraded \/ ~chain.clean)
    /\ UNCHANGED <<applied, live, stopped>>

ChainNext == LoadAndDiff \/ ApplyStep \/ Commit \/ UndoStep \/ GiveUp

\* The result is handed over and the mutex released.
Leave == chain' = Free /\ UNCHANGED <<applied, live, stopped, degraded>>

\* reloader.Stop waits for the mutex.
StopChain ==
    /\ chain.pc = "free"
    /\ stopped' = TRUE
    /\ UNCHANGED <<applied, live, chain, degraded>>
-------------------------------------------------------------------------------
\* Outside a reload the settings in force are those of applied, for every section
\* that is enabled, unless a reload has said that they are not.  (The order of
\* apply and undo, and what is undone with which value: applyChange.)
MixIsReported ==
    chain.pc = "free" /\ ~degraded => \A k \in Available : live[k] = applied[k]

\* Once Stop has returned nothing is set any more, whichever call was on its way.
NoWriteAfterStop == [][stopped => UNCHANGED <<applied, live>>]_<<stopped, applied, live>>
===============================================================================
