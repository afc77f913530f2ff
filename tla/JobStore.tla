------------------------------ MODULE JobStore ------------------------------
(***************************************************************************)
(* The JSON file store, core/store.go: a map in memory that every write    *)
(* changes under a lock, a loop that writes it to the file now and then,   *)
(* and the retention of finished jobs.  Scheduler uses it as the pair      *)
(* `store', `disk'; here are the flush, its failures and the trimming.     *)
(***************************************************************************)
EXTENDS Integers, FiniteSets

CONSTANTS
    Id,           \* job identifiers
    Policies,     \* <<history_limit, history_ttl>> pairs a configuration may have
    MaxTime,      \* the clock's last tick: bounds the clock
    MaxFailures,  \* failed writes of the file: a bound
    None          \* no snapshot; no history_ttl waiting to be stored

Time == 0..MaxTime

\* Only the UpdatedAt of finished jobs is ever looked at: others have 0.
Snapshot == [status : {"pending", "paused"}, at : {0}]
            \cup [status : {"success"}, at : Time]

ASSUME StoreAssumption ==
    /\ Policies \subseteq Int \X Nat /\ Policies # {}
    /\ MaxTime \in Nat /\ MaxFailures \in Nat
    /\ None \notin Snapshot

VARIABLES
    phase,       \* "off": no process; "open"; "stopping": Close has closed
                 \* stopCh; "last": the flush loop has left, Close flushes;
                 \* "closed": Close has returned
    data,        \* the map in memory
    dirty,       \* the map has changed since the last flush
    tmp,         \* what a flush, which holds the lock, has written to .tmp
    file,        \* the file's contents
    limit, ttl,  \* historyLimit, historyTTL
    newTTL,      \* SetHistoryRetention has stored the limit and not yet this
    clock,       \* the wall clock
    failures     \* failed writes so far

memVars == <<data, dirty>>
policyVars == <<limit, ttl, newTTL>>
vars == <<phase, memVars, tmp, file, policyVars, clock, failures>>

TypeOK ==
    /\ phase \in {"off", "open", "stopping", "last", "closed"}
    /\ data \in [Id -> Snapshot \cup {None}]
    /\ dirty \in BOOLEAN
    /\ tmp \in [Id -> Snapshot \cup {None}] \cup {None}
    /\ tmp # None => dirty
    /\ file \in [Id -> Snapshot \cup {None}]
    /\ limit \in Int /\ ttl \in Nat /\ newTTL \in Nat \cup {None}
    /\ clock \in Time /\ failures \in 0..MaxFailures
-----------------------------------------------------------------------------
Empty == [i \in Id |-> None]

Init ==
    /\ phase = "off" /\ data = Empty /\ dirty = FALSE /\ tmp = None
    /\ file = Empty
    /\ limit = 0 /\ ttl = 0 /\ newTTL = None
    /\ clock = 0 /\ failures = 0

\* A process opens the store: the file is read as it is, and nothing trimmed.
Open ==
    /\ phase = "off" /\ phase' = "open"
    /\ data' = file /\ dirty' = FALSE
    /\ \E p \in Policies : limit' = p[1] /\ ttl' = p[2]
    /\ UNCHANGED <<tmp, file, newTTL, clock, failures>>

\* The process ends, with or without Close; a .tmp file is read by nobody.
End ==
    /\ phase # "off" /\ phase' = "off"
    /\ data' = Empty /\ dirty' = FALSE /\ tmp' = None
    /\ limit' = 0 /\ ttl' = 0 /\ newTTL' = None
    /\ UNCHANGED <<file, clock, failures>>

\* SetHistoryRetention: two stores, and no lock.
SetLimit ==
    /\ phase # "off" /\ newTTL = None
    /\ \E p \in Policies : limit' = p[1] /\ newTTL' = p[2]
    /\ UNCHANGED <<phase, memVars, tmp, file, ttl, clock, failures>>

SetTTL ==
    /\ newTTL # None
    /\ ttl' = newTTL /\ newTTL' = None
    /\ UNCHANGED <<phase, memVars, tmp, file, limit, clock, failures>>

Tick ==
    /\ clock < MaxTime /\ clock' = clock + 1
    /\ UNCHANGED <<phase, memVars, tmp, file, policyVars, failures>>
-----------------------------------------------------------------------------
(* Writes: each holds the lock, so none falls into a flush.                *)

\* Mutant of Locked: a flush does not keep writers out.
LockedLoosely == phase # "off"

\* The lock can be had.
Locked == phase # "off" /\ tmp = None

\* IsTerminal; a paused job is not finished.
Finished(d) == {i \in Id : d[i] # None /\ d[i].status = "success"}

Expired(d) ==
    {i \in Finished(d) : limit < 0 \/ (ttl > 0 /\ clock - d[i].at > ttl)}

\* Mutant of Retained: the oldest stay.
RetainedOldest(d, keep) ==
    LET rest == Finished(d) \ Expired(d) IN
    /\ keep \subseteq rest
    /\ Cardinality(keep) <= limit /\ (Cardinality(keep) < limit => keep = rest)
    /\ \A i \in keep, j \in rest \ keep : d[i].at <= d[j].at

\* Does trimTerminalLocked keep the finished jobs `keep' of the map d?  The
\* newest ones, as many as the limit allows; any of several with the same time.
Retained(d, keep) ==
    LET rest == Finished(d) \ Expired(d) IN
    /\ keep \subseteq rest
    /\ \/ limit < 0
       \/ Cardinality(keep) <= limit /\ (Cardinality(keep) < limit => keep = rest)
    /\ \A i \in keep, j \in rest \ keep : d[i].at >= d[j].at

\* Save and Update.  A finished snapshot, stamped before the lock was taken,
\* sets off the trimming.
Write(i, s) ==
    LET d == [data EXCEPT ![i] = s] IN
    /\ Locked /\ s.at <= clock
    /\ IF s.status # "success" THEN data' = d
       ELSE \E keep \in SUBSET Id :
               /\ Retained(d, keep)
               /\ data' = [k \in Id |-> IF k \in Finished(d) \ keep THEN None ELSE d[k]]
    /\ dirty' = TRUE
    /\ UNCHANGED <<phase, tmp, file, policyVars, clock, failures>>

Delete(i) ==
    /\ Locked
    /\ data' = [data EXCEPT ![i] = None] /\ dirty' = TRUE
    /\ UNCHANGED <<phase, tmp, file, policyVars, clock, failures>>
-----------------------------------------------------------------------------
(* Flushing: by the loop while it lives, and once more by Close.           *)

\* Mutant of Flusher: Close leaves the last flush out.
FlusherUntilClose == phase = "open"

Flusher == phase \in {"open", "stopping", "last"}

\* os.WriteFile of the .tmp file, under the lock.
FlushWrite ==
    /\ Flusher /\ tmp = None /\ dirty
    /\ tmp' = data
    /\ UNCHANGED <<phase, memVars, file, policyVars, clock, failures>>

\* os.WriteFile or os.Rename fails: the map stays dirty.  Close returns the error.
FlushFails ==
    /\ Flusher /\ dirty /\ failures < MaxFailures
    /\ failures' = failures + 1 /\ tmp' = None
    /\ phase' = IF phase = "last" THEN "closed" ELSE phase
    /\ UNCHANGED <<memVars, file, policyVars, clock>>

\* os.Rename.
FlushRename ==
    /\ tmp # None /\ tmp' = None
    /\ file' = tmp /\ dirty' = FALSE
    /\ phase' = IF phase = "last" THEN "closed" ELSE phase
    /\ UNCHANGED <<data, policyVars, clock, failures>>

Close ==
    /\ phase = "open" /\ phase' = "stopping"
    /\ UNCHANGED <<memVars, tmp, file, policyVars, clock, failures>>

\* The flush loop leaves between two flushes, and Close goes on to its own.
LoopLeaves ==
    /\ phase = "stopping" /\ tmp = None /\ phase' = "last"
    /\ UNCHANGED <<memVars, tmp, file, policyVars, clock, failures>>

\* Close's flush finds nothing to write.
CloseClean ==
    /\ phase = "last" /\ tmp = None /\ ~dirty /\ phase' = "closed"
    /\ UNCHANGED <<memVars, tmp, file, policyVars, clock, failures>>

Flush == FlushWrite \/ FlushRename \/ LoopLeaves \/ CloseClean
-----------------------------------------------------------------------------
Next ==
    \/ Open \/ End \/ SetLimit \/ SetTTL \/ Tick
    \/ \E i \in Id : Delete(i) \/ \E s \in Snapshot : Write(i, s)
    \/ Flush \/ FlushFails \/ Close

Spec == Init /\ [][Next]_vars

\* The ticker ticks, and failures, which MaxFailures bounds, come to an end.
FairSpec == Spec /\ WF_vars(Flush)
-----------------------------------------------------------------------------
\* flushLocked: a map that is not marked dirty is in the file, whatever failed
\* on the way, so that a flush that does nothing loses nothing.
CleanIsDurable == phase # "off" /\ ~dirty => file = data

\* trimTerminalLocked: "Pending/Running 永不淘汰", and paused jobs neither: while a
\* process lives, a snapshot disappears by Delete or by the write of a finished one, only
\* if it is finished itself once that is written, and never while an older one stays, in
\* whichever order the snapshots arrived and the policy changed.
OldestGoFirst ==
    [][phase' # "off" =>
         \A i \in Id : data[i] # None /\ data'[i] = None =>
            \/ Delete(i)
            \/ \E k \in Id, s \in Snapshot :
                  LET written == [data EXCEPT ![k] = s] IN
                  /\ Write(k, s) /\ i \in Finished(written)
                  /\ \A j \in Finished(data') : data'[j].at >= written[i].at]_vars

\* flushLoop: what is written reaches the file, or is deleted or overwritten
\* first, unless the process ends or has closed the store.
EventuallyDurable ==
    dirty ~> (~dirty \/ phase \in {"off", "closed"})
=============================================================================
