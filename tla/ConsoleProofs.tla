--------------------------- MODULE ConsoleProofs ---------------------------
(***************************************************************************)
(* What users of the console rely on, for any jobs, any visitors and any   *)
(* limits: the index tells the truth about the stored outputs (Artifacts), *)
(* the throttle of logins holds, and what was spent stays spent            *)
(* (Sessions).                                                             *)
(***************************************************************************)
EXTENDS Artifacts, Sessions, FiniteSetTheorems, TLAPS
-----------------------------------------------------------------------------
(* Outputs.                                                                *)

RowState == {"none", "available", "purged"}
RunState == {"idle", "waiting", "opening", "writing", "recorded"}

SweepStep == {"list", "doomed", "removing", "removed"}

ArtifactShape ==
    /\ DOMAIN snap = Job /\ attempt \in [Job -> Nat] /\ run \in [Job -> RunState]
    /\ files \in [Job -> SUBSET Attempt]
    /\ row \in [Job -> [Attempt -> RowState]]
    /\ present \subseteq Job
    /\ cleaner \in [todo : SUBSET Job, at : Job \cup {None},
                    step : SweepStep, left : SUBSET Attempt, more : BOOLEAN]

\* Attempts are counted from 1 when an execution begins, and no further than allowed,
\* also in a snapshot that a reader has in hand.
Counted(s, j) == s.attempts \in 0..MaxAttempts[j]

AttemptsAreCounted ==
    /\ \A j \in Job : /\ Counted(snap[j], j)
                      /\ attempt[j] \in 0..MaxAttempts[j]
                      /\ run[j] # "idle" => attempt[j] \in 1..MaxAttempts[j]
    /\ \A r \in reader : /\ r.job \in Job /\ r.attempt \in Attempt
                         /\ Counted(r.seen, r.job)

\* Before the process serves nothing runs, and a process that is down sweeps nothing.
StartsAlone ==
    /\ phase # "serving" => \A j \in Job : run[j] = "idle"
    /\ phase = "down" => cleaner = AtRest

\* Who writes has its files, unless they were removed under it.
WritesToFiles ==
    \A j \in Job : run[j] = "writing" =>
        attempt[j] \in files[j] \/ <<j, attempt[j]>> \in excused

\* Files are in a directory, and what is in one that is being removed is known to who
\* removes it, or has kept it from being empty.
FilesAreIn ==
    \A j \in Job :
        /\ files[j] # {} => j \in present
        /\ cleaner.at = j /\ cleaner.step = "removing" =>
              cleaner.more \/ files[j] \subseteq cleaner.left

\* Whatever is there while the rows of a job are about to go has come since.
RemovedIsEmpty ==
    \A j \in Job : cleaner.at = j /\ cleaner.step = "removed" =>
        \A a \in files[j] : <<j, a>> \in raced

\* The two halves of IndexIsTrue, the second in every phase.
FilesHaveRows ==
    \A j \in Job : \A a \in files[j] :
        <<j, a>> \in registered =>
            \/ row[j][a] = "available"
            \/ row[j][a] = "none" /\ <<j, a>> \in raced
            \/ row[j][a] = "purged" /\ <<j, a>> \in misread

RowsHaveFiles ==
    \A j \in Job : \A a \in Attempt : row[j][a] = "available" =>
        \/ a \in files[j]
        \/ cleaner.at = j /\ cleaner.step \in {"removing", "removed"}
        \/ <<j, a>> \in excused

IndexInv ==
    /\ ArtifactShape /\ AttemptsAreCounted /\ StartsAlone
    /\ WritesToFiles /\ FilesAreIn /\ RemovedIsEmpty /\ FilesHaveRows /\ RowsHaveFiles

\* The sweep goes on where it is; a file may have come.
SweepStays ==
    \A j \in Job :
        /\ cleaner'.at = j /\ cleaner'.step = "removed" <=>
              cleaner.at = j /\ cleaner.step = "removed"
        /\ cleaner'.at = j /\ cleaner'.step = "removing" <=>
              cleaner.at = j /\ cleaner.step = "removing"
        /\ cleaner.at = j /\ cleaner.step = "removing" =>
              cleaner'.left = cleaner.left /\ (cleaner.more => cleaner'.more)

LEMMA AttemptRange ==
    ASSUME NEW j \in Job
    PROVE  1..MaxAttempts[j] \subseteq Attempt /\ MaxAttempts[j] \in Nat
BY ArtifactsAssumption DEF Attempt

LEMMA IndexInvInit == ArtifactInit => IndexInv
<1> SUFFICES ASSUME ArtifactInit PROVE IndexInv
  OBVIOUS
<1> USE DEF ArtifactInit, AtRest
<1>1. ArtifactShape BY DEF ArtifactShape, RowState, RunState, SweepStep
<1>2. AttemptsAreCounted BY AttemptRange DEF AttemptsAreCounted, Counted
<1>3. StartsAlone /\ WritesToFiles BY DEF StartsAlone, WritesToFiles
<1>4. FilesAreIn /\ RemovedIsEmpty /\ FilesHaveRows /\ RowsHaveFiles
  BY DEF FilesAreIn, RemovedIsEmpty, FilesHaveRows, RowsHaveFiles
<1> QED BY <1>1, <1>2, <1>3, <1>4 DEF IndexInv

\* Steps that touch neither files, nor rows, nor what excuses them, nor what the cleaner
\* has removed, and of the executions only the beginning and the end.
LEMMA IndexUntouched ==
    ASSUME IndexInv, ArtifactShape', AttemptsAreCounted', StartsAlone',
           UNCHANGED <<files, row, excused, raced, misread, registered>>,
           present \subseteq present', SweepStays,
           \A j \in Job : run'[j] = "writing" => run[j] = "writing" /\ attempt'[j] = attempt[j]
    PROVE  IndexInv'
<1>1. WritesToFiles' BY DEF IndexInv, WritesToFiles
<1>2. FilesAreIn' BY DEF IndexInv, FilesAreIn, SweepStays
<1>3. RemovedIsEmpty' BY DEF IndexInv, RemovedIsEmpty, SweepStays
<1>4. FilesHaveRows' BY DEF IndexInv, FilesHaveRows
<1>5. RowsHaveFiles' BY DEF IndexInv, RowsHaveFiles, SweepStays
<1> QED BY <1>1, <1>2, <1>3, <1>4, <1>5 DEF IndexInv

LEMMA NewFileStays ==
    ASSUME IndexInv, NEW j \in Job, NewFile(j)
    PROVE  /\ SweepStays
           /\ cleaner' \in [todo : SUBSET Job, at : Job \cup {None},
                            step : SweepStep, left : SUBSET Attempt, more : BOOLEAN]
           /\ cleaner.at = j /\ cleaner.step = "removing" /\ j \in present => cleaner'.more
<1>2. cleaner \in [todo : SUBSET Job, at : Job \cup {None},
                  step : SweepStep, left : SUBSET Attempt, more : BOOLEAN]
  BY DEF IndexInv, ArtifactShape
<1> DEFINE m == cleaner.more \/ (cleaner.at = j /\ cleaner.step = "removing" /\ j \in present)
<1>3. m \in BOOLEAN /\ cleaner' = [cleaner EXCEPT !.more = m] /\ (cleaner.more => m)
  BY <1>2 DEF NewFile
<1>5. cleaner.at = j /\ cleaner.step = "removing" /\ j \in present => m
  OBVIOUS
<1> HIDE DEF m
<1>7. SweepStays BY <1>2, <1>3 DEF SweepStays
<1> QED BY <1>2, <1>3, <1>5, <1>7

\* The end of an execution.
LEMMA ReturnKeepsCount ==
    ASSUME IndexInv, NEW j \in Job, NEW exec, Return(j, exec), UNCHANGED reader
    PROVE  /\ DOMAIN snap' = Job /\ attempt' = attempt /\ run' = [run EXCEPT ![j] = "idle"]
           /\ AttemptsAreCounted'
<1>1. PICK s : /\ run' = [run EXCEPT ![j] = "idle"] /\ UNCHANGED attempt
               /\ snap' = [snap EXCEPT ![j] =
                             [status |-> s, attempts |-> attempt[j], exec |-> exec]]
  BY DEF Return
<1>2. DOMAIN snap = Job BY DEF IndexInv, ArtifactShape
<1>3. \A i \in Job : Counted(snap'[i], i)
  BY <1>1, <1>2 DEF IndexInv, AttemptsAreCounted, Counted
<1> QED BY <1>1, <1>2, <1>3 DEF IndexInv, ArtifactShape, AttemptsAreCounted, Counted

LEMMA IndexRunner ==
    ASSUME IndexInv, NEW j \in Job, Runner(j)
    PROVE  IndexInv'
<1> USE DEF dirVars, history, runVars
<1>0. /\ DOMAIN snap = Job /\ attempt \in [Job -> Nat] /\ run \in [Job -> RunState]
      /\ row \in [Job -> [Attempt -> RowState]] /\ files \in [Job -> SUBSET Attempt]
  BY DEF IndexInv, ArtifactShape
<1>1. CASE Begin(j)
  <2>1. /\ run' = [run EXCEPT ![j] = "waiting"] /\ attempt' = [attempt EXCEPT ![j] = @ + 1]
        /\ snap' = [snap EXCEPT ![j].status = "running", ![j].attempts = attempt[j] + 1]
        /\ attempt[j] < MaxAttempts[j] /\ phase = "serving"
        /\ UNCHANGED <<phase, files, present, row, cleaner, reader, registered, raced,
                      misread, excused>>
    BY <1>1, <1>0 DEF Begin
  <2>2. ArtifactShape' BY <1>0, <2>1 DEF IndexInv, ArtifactShape, RunState
  <2>3. AttemptsAreCounted'
    <3>1. \A i \in Job : Counted(snap[i], i) /\ attempt[i] \in 0..MaxAttempts[i]
      BY DEF IndexInv, AttemptsAreCounted
    <3>2. attempt[j] + 1 \in 1..MaxAttempts[j] BY <1>0, <2>1, AttemptRange
    <3>3. \A i \in Job : snap'[i].attempts = IF i = j THEN attempt[j] + 1 ELSE snap[i].attempts
      BY <1>0, <2>1
    <3> QED
      BY <1>0, <2>1, <3>1, <3>2, <3>3 DEF IndexInv, AttemptsAreCounted, Counted
  <2>4. StartsAlone' BY <2>1 DEF IndexInv, StartsAlone
  <2> QED BY <1>0, <2>1, <2>2, <2>3, <2>4, IndexUntouched DEF SweepStays
<1>2. CASE GiveUp(j) \/ OpenFails(j) \/ WriteMeta(j)
  <2> PICK exec : Return(j, exec)
    BY <1>2 DEF GiveUp, OpenFails, WriteMeta
  <2>1. UNCHANGED <<phase, files, present, row, reader, registered, raced, misread, excused>>
    BY <1>2 DEF GiveUp, OpenFails, WriteMeta
  <2>a. /\ SweepStays
        /\ cleaner' \in [todo : SUBSET Job, at : Job \cup {None},
                         step : SweepStep, left : SUBSET Attempt, more : BOOLEAN]
    <3>1. CASE WriteMeta(j)
      <4>1. NewFile(j) BY <3>1 DEF WriteMeta
      <4> QED BY <4>1, NewFileStays
    <3>2. CASE cleaner' = cleaner
      BY <3>2 DEF SweepStays, IndexInv, ArtifactShape
    <3> QED BY <1>2, <3>1, <3>2 DEF GiveUp, OpenFails
  <2>2. /\ DOMAIN snap' = Job /\ attempt' = attempt /\ run' = [run EXCEPT ![j] = "idle"]
        /\ AttemptsAreCounted'
    BY <2>1, ReturnKeepsCount
  <2>3. ArtifactShape' BY <1>0, <2>1, <2>a, <2>2 DEF IndexInv, ArtifactShape, RunState
  <2>b. run[j] # "idle" BY <1>2 DEF GiveUp, OpenFails, WriteMeta
  <2>4. StartsAlone' BY <1>0, <2>1, <2>2, <2>b DEF IndexInv, StartsAlone
  <2> QED BY <1>0, <2>1, <2>a, <2>2, <2>3, <2>4, IndexUntouched
<1>3. CASE OpenDir(j)
  <2>1. /\ run[j] = "waiting" /\ run' = [run EXCEPT ![j] = "opening"] /\ present' = present \cup {j}
        /\ UNCHANGED <<phase, snap, attempt, files, row, cleaner, reader, registered, raced,
                      misread, excused>>
    BY <1>3 DEF OpenDir
  <2>2. ArtifactShape' BY <1>0, <2>1 DEF IndexInv, ArtifactShape, RunState
  <2>3. AttemptsAreCounted' BY <1>0, <2>1 DEF IndexInv, AttemptsAreCounted, Counted
  <2>4. StartsAlone' BY <1>0, <2>1 DEF IndexInv, StartsAlone
  <2> QED BY <1>0, <2>1, <2>2, <2>3, <2>4, IndexUntouched DEF SweepStays
<1>4. CASE OpenFiles(j)
  <2> DEFINE a == attempt[j]
  <2>1. /\ run[j] = "opening" /\ run' = [run EXCEPT ![j] = "writing"]
        /\ files' = [files EXCEPT ![j] = @ \cup {a}]
        /\ raced' = IF cleaner.at = j /\ cleaner.step = "removed"
                    THEN raced \cup {<<j, a>>} ELSE raced
        /\ registered' = registered \ {<<j, a>>}
        /\ NewFile(j) /\ j \in present
        /\ UNCHANGED <<phase, snap, attempt, present, row, reader, misread, excused>>
    BY <1>4 DEF OpenFiles
  <2>a. /\ SweepStays
        /\ cleaner' \in [todo : SUBSET Job, at : Job \cup {None},
                         step : SweepStep, left : SUBSET Attempt, more : BOOLEAN]
        /\ cleaner.at = j /\ cleaner.step = "removing" => cleaner'.more
    BY <2>1, NewFileStays
  <2>2. a \in Attempt BY <2>1, AttemptRange DEF IndexInv, AttemptsAreCounted
  <2>3. ArtifactShape' BY <1>0, <2>1, <2>a, <2>2 DEF IndexInv, ArtifactShape, RunState
  <2>4. AttemptsAreCounted' BY <1>0, <2>1 DEF IndexInv, AttemptsAreCounted, Counted
  <2>5. StartsAlone' BY <1>0, <2>1, <2>a DEF IndexInv, StartsAlone
  <2>6. WritesToFiles' BY <1>0, <2>1 DEF IndexInv, WritesToFiles
  <2>10. FilesAreIn' BY <1>0, <2>1, <2>a DEF IndexInv, FilesAreIn, SweepStays
  <2>7. RemovedIsEmpty' BY <1>0, <2>1, <2>a DEF IndexInv, RemovedIsEmpty, SweepStays
  <2>8. FilesHaveRows' BY <1>0, <2>1 DEF IndexInv, FilesHaveRows
  <2>9. RowsHaveFiles' BY <1>0, <2>1, <2>a DEF IndexInv, RowsHaveFiles, SweepStays
  <2> QED BY <2>10, <2>3, <2>4, <2>5, <2>6, <2>7, <2>8, <2>9 DEF IndexInv
<1>5. CASE CloseAndRecord(j)
  <2> DEFINE a == attempt[j]
  <2>1. /\ run[j] = "writing" /\ run' = [run EXCEPT ![j] = "recorded"]
        /\ UNCHANGED <<phase, snap, attempt, files, present, cleaner, reader, raced,
                      misread, excused>>
    BY <1>5 DEF CloseAndRecord
  <2>2. a \in Attempt BY <2>1, AttemptRange DEF IndexInv, AttemptsAreCounted
  <2>3. \/ row' = [row EXCEPT ![j][a] = "available"] /\ registered' = registered \cup {<<j, a>>}
        \/ UNCHANGED <<row, registered>>
    BY <1>5 DEF CloseAndRecord
  <2>4. ArtifactShape'
    <3>1. row' \in [Job -> [Attempt -> RowState]]
      <4>1. "available" \in RowState BY DEF RowState
      <4>2. [row[j] EXCEPT ![a] = "available"] \in [Attempt -> RowState] BY <1>0, <4>1
      <4>3. CASE row' = [row EXCEPT ![j][a] = "available"] BY <1>0, <4>2, <4>3
      <4> QED BY <1>0, <2>3, <4>3
    <3>2. run' \in [Job -> RunState] BY <1>0, <2>1 DEF RunState
    <3> QED BY <1>0, <2>1, <3>1, <3>2 DEF IndexInv, ArtifactShape
  <2>5. AttemptsAreCounted' BY <1>0, <2>1 DEF IndexInv, AttemptsAreCounted, Counted
  <2>6. StartsAlone' BY <1>0, <2>1 DEF IndexInv, StartsAlone
  <2>7. WritesToFiles' BY <1>0, <2>1 DEF IndexInv, WritesToFiles
  <2>8. FilesAreIn' /\ RemovedIsEmpty' BY <2>1 DEF IndexInv, FilesAreIn, RemovedIsEmpty
  <2>9. \A i \in Job : \A b \in Attempt : row'[i][b] = row[i][b]
              \/ (i = j /\ b = a /\ row'[i][b] = "available")
    BY <1>0, <2>2, <2>3
  <2>10. FilesHaveRows'
    BY <1>0, <2>1, <2>2, <2>3, <2>9 DEF IndexInv, FilesHaveRows
  <2>11. a \in files[j] \/ <<j, a>> \in excused
    BY <2>1 DEF IndexInv, WritesToFiles
  <2>12. RowsHaveFiles'
    BY <2>1, <2>9, <2>11 DEF IndexInv, RowsHaveFiles
  <2> QED BY <2>4, <2>5, <2>6, <2>7, <2>8, <2>10, <2>12 DEF IndexInv
<1> QED BY <1>1, <1>2, <1>3, <1>4, <1>5 DEF Runner

\* The rows of a job go, or are all excused.
LEMMA RowsGo ==
    ASSUME IndexInv, NEW j \in Job, DropRows(j)
    PROVE  /\ row' \in [Job -> [Attempt -> RowState]]
           /\ \A i \in Job, a \in Attempt : row'[i][a] = "available" =>
                 row[i][a] = "available" /\ (i = j => <<i, a>> \in excused')
           /\ \A i \in Job, a \in Attempt : i # j => row'[i][a] = row[i][a]
           /\ \A a \in Attempt : row'[j][a] = row[j][a] \/ row'[j][a] = "none"
           /\ \A i \in Job, a \in Attempt : <<i, a>> \in excused =>
                 \/ <<i, a>> \in excused'
                 \/ i = j /\ ~(run[j] = "writing" /\ a = attempt[j])
<1>1. row \in [Job -> [Attempt -> RowState]]
  BY DEF IndexInv, ArtifactShape
<1>2. CASE /\ row' = [row EXCEPT ![j] = [a \in Attempt |-> "none"]]
           /\ excused' = {e \in excused : e[1] = j => run[j] = "writing" /\ e[2] = attempt[j]}
  <2>1. row' \in [Job -> [Attempt -> RowState]] BY <1>1, <1>2 DEF RowState
  <2>2. \A a \in Attempt : row'[j][a] = "none" BY <1>1, <1>2
  <2>3. \A i \in Job : i # j => row'[i] = row[i] BY <1>1, <1>2
  <2> QED BY <1>2, <2>1, <2>2, <2>3
<1>3. CASE row' = row /\ excused' = excused \cup {<<j, a>> : a \in Row(j)}
  BY <1>1, <1>3 DEF Row
<1> QED BY <1>2, <1>3 DEF DropRows

LEMMA IndexCleaner == IndexInv /\ Cleaner => IndexInv'
<1> SUFFICES ASSUME IndexInv, Cleaner PROVE IndexInv'
  OBVIOUS
<1> USE DEF dirVars, history, runVars
<1>0. /\ DOMAIN snap = Job /\ attempt \in [Job -> Nat] /\ run \in [Job -> RunState]
      /\ row \in [Job -> [Attempt -> RowState]] /\ files \in [Job -> SUBSET Attempt]
      /\ present \subseteq Job
      /\ cleaner \in [todo : SUBSET Job, at : Job \cup {None},
                      step : SweepStep, left : SUBSET Attempt, more : BOOLEAN]
  BY DEF IndexInv, ArtifactShape
<1>1. UNCHANGED <<phase, snap, run, attempt, reader>>
  BY DEF Cleaner, RemoveFails, Inspect, ReadNames, UnlinkFiles, RemoveDir, DeleteRows
<1>2. AttemptsAreCounted'
  BY <1>1 DEF IndexInv, AttemptsAreCounted, Counted
<1>a. None \notin Job BY ArtifactsAssumption
<1>3. ASSUME NEW j \in Job, RemoveFails(j) PROVE IndexInv'
  <2>1. /\ cleaner.at = j /\ cleaner' = AtRest
        /\ excused' = excused \cup Astray(j)
        /\ UNCHANGED <<files, present, row, raced, misread, registered>>
    BY <1>3 DEF RemoveFails
  <2>2. AtRest = [todo |-> {}, at |-> None, step |-> "list", left |-> {}, more |-> FALSE]
    BY DEF AtRest
  <2>3. ArtifactShape' BY <1>0, <1>1, <2>1, <2>2 DEF IndexInv, ArtifactShape, SweepStep
  <2>4. StartsAlone' BY <1>1, <2>1 DEF IndexInv, StartsAlone
  <2>5. WritesToFiles' BY <1>1, <2>1 DEF IndexInv, WritesToFiles
  <2>6. FilesAreIn' BY <1>a, <2>1, <2>2 DEF IndexInv, FilesAreIn
  <2>7. RemovedIsEmpty' BY <1>a, <2>1, <2>2 DEF RemovedIsEmpty
  <2>8. FilesHaveRows' BY <2>1 DEF IndexInv, FilesHaveRows
  <2>9. RowsHaveFiles' BY <2>1 DEF IndexInv, RowsHaveFiles, Astray, Row
  <2> QED BY <1>2, <2>3, <2>4, <2>5, <2>6, <2>7, <2>8, <2>9 DEF IndexInv
<1>4. ASSUME NEW j \in Job, Inspect(j) PROVE IndexInv'
  <2>1. /\ cleaner.at = None /\ j \in cleaner.todo
        /\ \/ cleaner' = [cleaner EXCEPT !.todo = @ \ {j}, !.at = j, !.step = "doomed"]
           \/ cleaner' = [cleaner EXCEPT !.todo = @ \ {j}]
        /\ UNCHANGED <<files, present, row, excused, raced, misread, registered>>
    BY <1>0, <1>4 DEF Inspect
  <2>3. phase # "down" BY <2>1 DEF IndexInv, StartsAlone, AtRest
  <2>4. ArtifactShape'
    <3>1. cleaner' \in [todo : SUBSET Job, at : Job \cup {None},
                       step : SweepStep, left : SUBSET Attempt, more : BOOLEAN]
      BY <1>0, <2>1 DEF SweepStep
    <3> QED BY <1>0, <1>1, <2>1, <3>1 DEF IndexInv, ArtifactShape
  <2>5. StartsAlone' BY <1>1, <2>3 DEF IndexInv, StartsAlone
  <2>6. SweepStays BY <1>0, <1>a, <2>1 DEF SweepStays
  <2> QED
    BY <1>1, <1>2, <2>1, <2>4, <2>5, <2>6, IndexUntouched
<1>5. ASSUME NEW j \in Job, ReadNames(j) PROVE IndexInv'
  <2>1. /\ cleaner.at = j /\ cleaner.step = "doomed"
        /\ cleaner' = [cleaner EXCEPT !.step = "removing", !.left = files[j], !.more = FALSE]
        /\ UNCHANGED <<files, present, row, excused, raced, misread, registered>>
    BY <1>5 DEF ReadNames
  <2>2. /\ cleaner'.at = j /\ cleaner'.step = "removing" /\ cleaner'.left = files[j]
        /\ cleaner' \in [todo : SUBSET Job, at : Job \cup {None},
                         step : SweepStep, left : SUBSET Attempt, more : BOOLEAN]
    BY <1>0, <2>1 DEF SweepStep
  <2>3. ArtifactShape' BY <1>0, <1>1, <2>1, <2>2 DEF IndexInv, ArtifactShape
  <2>4. StartsAlone' BY <1>1, <1>a, <2>1 DEF IndexInv, StartsAlone, AtRest
  <2>5. WritesToFiles' BY <1>1, <2>1 DEF IndexInv, WritesToFiles
  <2>6. FilesAreIn' BY <2>1, <2>2 DEF IndexInv, FilesAreIn
  <2>7. RemovedIsEmpty' BY <2>1, <2>2 DEF RemovedIsEmpty
  <2>8. FilesHaveRows' BY <2>1 DEF IndexInv, FilesHaveRows
  <2>9. RowsHaveFiles' BY <2>1 DEF IndexInv, RowsHaveFiles
  <2> QED BY <1>2, <2>3, <2>4, <2>5, <2>6, <2>7, <2>8, <2>9 DEF IndexInv
<1>6. ASSUME NEW j \in Job, UnlinkFiles(j) PROVE IndexInv'
  <2> PICK a \in cleaner.left :
        /\ cleaner' = [cleaner EXCEPT !.left = @ \ {a}]
        /\ files' = [files EXCEPT ![j] = @ \ {a}]
        /\ excused' = excused \cup {e \in {<<j, a>>} : run[j] = "writing" /\ attempt[j] = a}
    BY <1>6 DEF UnlinkFiles
  <2>1. /\ cleaner.at = j /\ cleaner.step = "removing"
        /\ UNCHANGED <<present, row, raced, misread, registered>>
    BY <1>6 DEF UnlinkFiles
  <2>2. /\ cleaner'.at = j /\ cleaner'.step = "removing"
        /\ cleaner'.left = cleaner.left \ {a} /\ cleaner'.more = cleaner.more
        /\ cleaner' \in [todo : SUBSET Job, at : Job \cup {None},
                         step : SweepStep, left : SUBSET Attempt, more : BOOLEAN]
    BY <1>0, <2>1
  <2>a. \A i \in Job : files'[i] = IF i = j THEN files[i] \ {a} ELSE files[i]
    BY <1>0
  <2>3. ArtifactShape' BY <1>0, <1>1, <2>1, <2>2 DEF IndexInv, ArtifactShape
  <2>4. StartsAlone' BY <1>1, <1>a, <2>1 DEF IndexInv, StartsAlone, AtRest
  <2>5. WritesToFiles' BY <1>1, <2>1, <2>a DEF IndexInv, WritesToFiles
  <2>6. FilesAreIn' BY <2>1, <2>2, <2>a DEF IndexInv, FilesAreIn
  <2>7. RemovedIsEmpty' BY <2>1, <2>2 DEF RemovedIsEmpty
  <2>8. FilesHaveRows' BY <2>1, <2>a DEF IndexInv, FilesHaveRows
  <2>9. RowsHaveFiles' BY <2>1, <2>2, <2>a DEF IndexInv, RowsHaveFiles
  <2> QED BY <1>2, <2>3, <2>4, <2>5, <2>6, <2>7, <2>8, <2>9 DEF IndexInv
<1>7. ASSUME NEW j \in Job, RemoveDir(j) PROVE IndexInv'
  <2>1. /\ cleaner.at = j /\ cleaner.step = "removing"
        /\ cleaner.left = {} /\ (j \in present => ~cleaner.more)
        /\ cleaner' = [cleaner EXCEPT !.step = "removed"] /\ present' = present \ {j}
        /\ UNCHANGED <<files, row, excused, raced, misread, registered>>
    BY <1>7 DEF RemoveDir
  <2>2. files[j] = {}
    BY <1>0, <2>1 DEF IndexInv, FilesAreIn
  <2>a. /\ cleaner'.at = j /\ cleaner'.step = "removed"
        /\ cleaner' \in [todo : SUBSET Job, at : Job \cup {None},
                         step : SweepStep, left : SUBSET Attempt, more : BOOLEAN]
    BY <1>0, <2>1 DEF SweepStep
  <2>3. ArtifactShape' BY <1>0, <1>1, <2>1, <2>a DEF IndexInv, ArtifactShape
  <2>4. StartsAlone' BY <1>1, <1>a, <2>1 DEF IndexInv, StartsAlone, AtRest
  <2>5. WritesToFiles' BY <1>1, <2>1 DEF IndexInv, WritesToFiles
  <2>6. FilesAreIn' BY <2>1, <2>2, <2>a DEF IndexInv, FilesAreIn
  <2>7. RemovedIsEmpty' BY <2>1, <2>2, <2>a DEF RemovedIsEmpty
  <2>8. FilesHaveRows' BY <2>1 DEF IndexInv, FilesHaveRows
  <2>9. RowsHaveFiles' BY <2>1, <2>a DEF IndexInv, RowsHaveFiles
  <2> QED BY <1>2, <2>3, <2>4, <2>5, <2>6, <2>7, <2>8, <2>9 DEF IndexInv
<1>8. ASSUME NEW j \in Job, DeleteRows(j) PROVE IndexInv'
  <2>1. /\ cleaner.at = j /\ cleaner.step = "removed" /\ DropRows(j)
        /\ cleaner' = [cleaner EXCEPT !.at = None, !.step = "list"]
        /\ UNCHANGED <<files, present, raced, misread, registered>>
    BY <1>8 DEF DeleteRows
  <2>2. /\ row' \in [Job -> [Attempt -> RowState]]
        /\ \A i \in Job, a \in Attempt : row'[i][a] = "available" =>
              row[i][a] = "available" /\ (i = j => <<i, a>> \in excused')
        /\ \A i \in Job, a \in Attempt : i # j => row'[i][a] = row[i][a]
        /\ \A a \in Attempt : row'[j][a] = row[j][a] \/ row'[j][a] = "none"
        /\ \A i \in Job, a \in Attempt : <<i, a>> \in excused =>
              \/ <<i, a>> \in excused'
              \/ i = j /\ ~(run[j] = "writing" /\ a = attempt[j])
    BY <2>1, RowsGo
  <2>a. /\ cleaner'.at = None /\ cleaner'.step = "list"
        /\ cleaner' \in [todo : SUBSET Job, at : Job \cup {None},
                         step : SweepStep, left : SUBSET Attempt, more : BOOLEAN]
    BY <1>0, <2>1 DEF SweepStep
  <2>3. ArtifactShape' BY <1>0, <1>1, <2>1, <2>2, <2>a DEF IndexInv, ArtifactShape
  <2>4. StartsAlone' BY <1>1, <1>a, <2>1 DEF IndexInv, StartsAlone, AtRest
  <2>5. WritesToFiles'
    <3>1. \A i \in Job : run[i] = "writing" => attempt[i] \in Attempt
      BY AttemptRange DEF IndexInv, AttemptsAreCounted
    <3> QED BY <1>1, <2>1, <2>2, <3>1 DEF IndexInv, WritesToFiles
  <2>6. FilesAreIn' BY <1>a, <2>1, <2>a DEF IndexInv, FilesAreIn
  <2>7. RemovedIsEmpty' BY <1>a, <2>a DEF RemovedIsEmpty
  <2>8. FilesHaveRows'
    <3> SUFFICES ASSUME NEW i \in Job, NEW a \in files[i], <<i, a>> \in registered
                 PROVE  \/ row'[i][a] = "available"
                        \/ row'[i][a] = "none" /\ <<i, a>> \in raced
                        \/ row'[i][a] = "purged" /\ <<i, a>> \in misread
      BY <2>1 DEF FilesHaveRows
    <3>0. a \in Attempt BY <1>0
    <3>3. \/ row[i][a] = "available"
          \/ row[i][a] = "none" /\ <<i, a>> \in raced
          \/ row[i][a] = "purged" /\ <<i, a>> \in misread
      BY DEF IndexInv, FilesHaveRows
    <3>1. CASE i = j
      <4>1. <<i, a>> \in raced BY <2>1, <3>1 DEF IndexInv, RemovedIsEmpty
      <4>2. row'[i][a] = row[i][a] \/ row'[i][a] = "none" BY <2>2, <3>0, <3>1
      <4> QED BY <3>3, <4>1, <4>2
    <3>2. CASE i # j BY <2>2, <3>0, <3>2, <3>3
    <3> QED BY <3>1, <3>2
  <2>9. RowsHaveFiles'
    <3> SUFFICES ASSUME NEW i \in Job, NEW a \in Attempt, row'[i][a] = "available"
                 PROVE  a \in files[i] \/ <<i, a>> \in excused'
      BY <2>1 DEF RowsHaveFiles
    <3>1. row[i][a] = "available" /\ (i = j => <<i, a>> \in excused') BY <2>2
    <3>2. i # j => a \in files[i] \/ <<i, a>> \in excused
      BY <2>1, <3>1 DEF IndexInv, RowsHaveFiles
    <3> QED BY <2>2, <3>1, <3>2
  <2> QED BY <1>2, <2>3, <2>4, <2>5, <2>6, <2>7, <2>8, <2>9 DEF IndexInv
<1> QED BY <1>3, <1>4, <1>5, <1>6, <1>7, <1>8 DEF Cleaner

\* What else happens while the process serves, and what its readers do.
LEMMA IndexServing ==
    ASSUME IndexInv,
           \/ \E j \in Job : Age(j) \/ RemoveByHand(j) \/ Forget(j) \/ ReadMissing(j)
           \/ Tick \/ MarkPurged
    PROVE  IndexInv'
<1> USE DEF dirVars, history, runVars
<1>0. /\ DOMAIN snap = Job /\ attempt \in [Job -> Nat] /\ run \in [Job -> RunState]
      /\ row \in [Job -> [Attempt -> RowState]] /\ files \in [Job -> SUBSET Attempt]
      /\ present \subseteq Job
      /\ cleaner \in [todo : SUBSET Job, at : Job \cup {None},
                      step : SweepStep, left : SUBSET Attempt, more : BOOLEAN]
  BY DEF IndexInv, ArtifactShape
<1>1. CASE Tick \/ \E j \in Job : Age(j)
  <2>1. /\ UNCHANGED <<phase, snap, run, attempt, reader, files, present, row, excused, raced,
                      misread, registered>>
        /\ \/ cleaner' = cleaner
           \/ /\ cleaner = AtRest /\ phase = "serving"
              /\ cleaner' = [AtRest EXCEPT !.todo = present]
    BY <1>1 DEF Tick, Age
  <2>2. ArtifactShape' BY <1>0, <2>1 DEF IndexInv, ArtifactShape, AtRest, SweepStep
  <2>3. AttemptsAreCounted' BY <2>1 DEF IndexInv, AttemptsAreCounted, Counted
  <2>4. StartsAlone' BY <2>1 DEF IndexInv, StartsAlone
  <2>5. SweepStays BY <2>1, ArtifactsAssumption DEF AtRest, SweepStays
  <2> QED BY <2>1, <2>2, <2>3, <2>4, <2>5, IndexUntouched
<1>2. ASSUME NEW j \in Job, Forget(j) PROVE IndexInv'
  <2>1. /\ snap' = [snap EXCEPT ![j].status = "absent"]
        /\ UNCHANGED <<phase, run, attempt, reader, files, present, row, cleaner, excused,
                      raced, misread, registered>>
    BY <1>2 DEF Forget
  <2>2. ArtifactShape' BY <1>0, <2>1 DEF IndexInv, ArtifactShape
  <2>3. \A i \in Job : snap'[i].attempts = snap[i].attempts BY <1>0, <2>1
  <2>4. AttemptsAreCounted' BY <2>1, <2>3 DEF IndexInv, AttemptsAreCounted, Counted
  <2>5. StartsAlone' BY <2>1 DEF IndexInv, StartsAlone
  <2> QED BY <2>1, <2>2, <2>4, <2>5, IndexUntouched DEF SweepStays
<1>3. ASSUME NEW j \in Job, ReadMissing(j) PROVE IndexInv'
  <2> PICK a \in 1..snap[j].attempts :
              reader' = {[job |-> j, attempt |-> a, seen |-> snap[j]]}
    BY <1>3 DEF ReadMissing
  <2>1. UNCHANGED <<phase, snap, run, attempt, files, present, row, cleaner, excused, raced,
                    misread, registered>>
    BY <1>3 DEF ReadMissing
  <2>2. Counted(snap[j], j) /\ a \in Attempt
    BY AttemptRange DEF IndexInv, AttemptsAreCounted, Counted
  <2>3. ArtifactShape' BY <2>1 DEF IndexInv, ArtifactShape
  <2>4. AttemptsAreCounted' BY <2>1, <2>2 DEF IndexInv, AttemptsAreCounted, Counted
  <2>5. StartsAlone' BY <2>1 DEF IndexInv, StartsAlone
  <2> QED BY <2>1, <2>3, <2>4, <2>5, IndexUntouched DEF SweepStays
<1>4. CASE MarkPurged
  <2> PICK r \in reader :
        /\ snap' = IF r.seen.exec = "purged" \/ snap[r.job].status = "absent" THEN snap
                   ELSE [snap EXCEPT ![r.job] = [r.seen EXCEPT !.exec = "purged"]]
        /\ row' = IF row[r.job][r.attempt] = "available"
                  THEN [row EXCEPT ![r.job][r.attempt] = "purged"] ELSE row
        /\ misread' = misread \cup {e \in {<<r.job, r.attempt>>} : r.attempt \in files[r.job]}
    BY <1>4 DEF MarkPurged
  <2>1. /\ reader' = {}
        /\ UNCHANGED <<phase, run, attempt, files, present, cleaner, excused, raced, registered>>
    BY <1>4 DEF MarkPurged
  <2>2. r.job \in Job /\ r.attempt \in Attempt /\ Counted(r.seen, r.job)
    BY DEF IndexInv, AttemptsAreCounted
  <2>3. \A i \in Job, a \in Attempt :
            \/ row'[i][a] = row[i][a]
            \/ /\ row[i][a] = "available" /\ row'[i][a] = "purged"
               /\ a \in files[i] => <<i, a>> \in misread'
    BY <1>0, <2>2
  <2>4. row' \in [Job -> [Attempt -> RowState]] BY <1>0, <2>2 DEF RowState
  <2>5. DOMAIN snap' = Job BY <1>0
  <2>6. ArtifactShape' BY <1>0, <2>1, <2>4, <2>5 DEF IndexInv, ArtifactShape
  <2>7. \A i \in Job : Counted(snap'[i], i)
    <3>1. \A s, i : Counted(s, i) => Counted([s EXCEPT !.exec = "purged"], i)
      BY DEF Counted
    <3> QED BY <1>0, <2>2, <3>1 DEF IndexInv, AttemptsAreCounted
  <2>8. AttemptsAreCounted' BY <2>1, <2>7 DEF IndexInv, AttemptsAreCounted, Counted
  <2>9. StartsAlone' BY <2>1 DEF IndexInv, StartsAlone
  <2>10. WritesToFiles' /\ FilesAreIn' /\ RemovedIsEmpty'
    BY <2>1 DEF IndexInv, WritesToFiles, FilesAreIn, RemovedIsEmpty
  <2>11. FilesHaveRows'
    <3>1. misread \subseteq misread' OBVIOUS
    <3> QED BY <1>0, <2>1, <2>3, <3>1 DEF IndexInv, FilesHaveRows
  <2>12. RowsHaveFiles' BY <2>1, <2>3 DEF IndexInv, RowsHaveFiles
  <2> QED BY <2>6, <2>8, <2>9, <2>10, <2>11, <2>12 DEF IndexInv
<1>5. ASSUME NEW j \in Job, RemoveByHand(j) PROVE IndexInv'
  <2>1. /\ present' = present \ {j} /\ files' = [files EXCEPT ![j] = {}]
        /\ excused' = excused \cup {<<j, a>> : a \in Row(j)}
                        \cup (IF run[j] = "writing" THEN {<<j, attempt[j]>>} ELSE {})
        /\ UNCHANGED <<phase, snap, run, attempt, row, cleaner, reader, registered, raced, misread>>
    BY <1>5 DEF RemoveByHand
  <2>2. ArtifactShape' BY <1>0, <2>1 DEF IndexInv, ArtifactShape
  <2>3. AttemptsAreCounted' BY <2>1 DEF IndexInv, AttemptsAreCounted, Counted
  <2>4. StartsAlone' BY <2>1 DEF IndexInv, StartsAlone
  <2>5. WritesToFiles' BY <1>0, <2>1 DEF IndexInv, WritesToFiles
  <2>9. FilesAreIn' BY <1>0, <2>1 DEF IndexInv, FilesAreIn
  <2>6. RemovedIsEmpty' BY <1>0, <2>1 DEF IndexInv, RemovedIsEmpty
  <2>7. FilesHaveRows' BY <1>0, <2>1 DEF IndexInv, FilesHaveRows
  <2>8. RowsHaveFiles' BY <1>0, <2>1 DEF IndexInv, RowsHaveFiles, Row
  <2> QED BY <2>2, <2>3, <2>4, <2>5, <2>6, <2>7, <2>8, <2>9 DEF IndexInv
<1> QED BY <1>1, <1>2, <1>3, <1>4, <1>5

\* A crash, and the startup after it.
LEMMA IndexStart ==
    ASSUME IndexInv, Crash \/ Boot \/ ThenExpired \/ ThenReconcile
    PROVE  IndexInv'
<1> USE DEF dirVars, history, runVars
<1>0. /\ DOMAIN snap = Job /\ attempt \in [Job -> Nat] /\ run \in [Job -> RunState]
      /\ row \in [Job -> [Attempt -> RowState]] /\ files \in [Job -> SUBSET Attempt]
      /\ present \subseteq Job
      /\ cleaner \in [todo : SUBSET Job, at : Job \cup {None},
                      step : SweepStep, left : SUBSET Attempt, more : BOOLEAN]
  BY DEF IndexInv, ArtifactShape
<1>a. None \notin Job BY ArtifactsAssumption
<1>1. CASE Crash
  <2>1. /\ phase' = "down" /\ cleaner' = AtRest /\ reader' = {}
        /\ run' = [j \in Job |-> "idle"]
        /\ excused' = excused \cup (IF cleaner.step \in {"removing", "removed"}
                                    THEN Astray(cleaner.at) ELSE {})
        /\ UNCHANGED <<snap, attempt, files, present, row, registered, raced, misread>>
    BY <1>1 DEF Crash
  <2>2. ArtifactShape' BY <1>0, <2>1 DEF IndexInv, ArtifactShape, AtRest, RunState, SweepStep
  <2>3. AttemptsAreCounted' BY <2>1 DEF IndexInv, AttemptsAreCounted, Counted
  <2>4. StartsAlone' BY <2>1 DEF StartsAlone
  <2>5. WritesToFiles' BY <2>1 DEF WritesToFiles
  <2>6. RemovedIsEmpty' BY <2>1 DEF RemovedIsEmpty, AtRest
  <2>9. FilesAreIn' BY <2>1 DEF IndexInv, FilesAreIn, AtRest
  <2>7. FilesHaveRows' BY <2>1 DEF IndexInv, FilesHaveRows
  <2>8. RowsHaveFiles'
    <3> SUFFICES ASSUME NEW j \in Job, NEW a \in Attempt, row[j][a] = "available"
                 PROVE  a \in files[j] \/ <<j, a>> \in excused'
      BY <2>1 DEF RowsHaveFiles
    <3> QED BY <2>1 DEF IndexInv, RowsHaveFiles, Astray, Row
  <2> QED BY <2>2, <2>3, <2>4, <2>5, <2>6, <2>7, <2>8, <2>9 DEF IndexInv
<1>2. CASE Boot \/ ThenExpired
  <2>1. /\ phase # "serving" /\ phase' \notin {"down", "serving"} /\ cleaner.at = None
        /\ cleaner' \in [todo : SUBSET Job, at : {None}, step : {"list"},
                         left : SUBSET Attempt, more : BOOLEAN]
        /\ UNCHANGED <<snap, run, files, present, row, reader, registered, raced, misread,
                      excused>>
        /\ \/ attempt' = attempt
           \/ attempt' = [j \in Job |-> snap[j].attempts]
    <3>1. CASE Boot
      <4>1. /\ phase = "down" /\ phase' = "orphans"
            /\ cleaner' = [AtRest EXCEPT !.todo = {j \in present : Orphan(j)}]
            /\ UNCHANGED <<snap, run, files, present, row, reader, registered, raced, misread,
                          excused>>
            /\ attempt' = [j \in Job |-> snap[j].attempts]
        BY <3>1 DEF Boot
      <4>2. cleaner = AtRest BY <4>1 DEF IndexInv, StartsAlone
      <4>3. {j \in present : Orphan(j)} \in SUBSET Job BY <1>0
      <4> QED BY <4>1, <4>2, <4>3 DEF AtRest
    <3>2. CASE ThenExpired
      BY <1>0, <3>2 DEF ThenExpired, ScanDone, AtRest
    <3> QED BY <1>2, <3>1, <3>2
  <2>2. \A j \in Job : run[j] = "idle" BY <2>1 DEF IndexInv, StartsAlone
  <2>3. AttemptsAreCounted' BY <2>1, <2>2 DEF IndexInv, AttemptsAreCounted, Counted
  <2>4. attempt' \in [Job -> Nat]
    BY <1>0, <2>1, AttemptRange DEF IndexInv, AttemptsAreCounted, Counted
  <2>5. ArtifactShape' BY <1>0, <2>1, <2>4 DEF IndexInv, ArtifactShape, SweepStep
  <2>6. StartsAlone' BY <2>1, <2>2 DEF StartsAlone
  <2>7. SweepStays BY <1>a, <2>1 DEF SweepStays
  <2> QED BY <2>1, <2>2, <2>3, <2>5, <2>6, <2>7, IndexUntouched
<1>3. CASE ThenReconcile
  <2>1. /\ phase = "expired" /\ phase' = "serving" /\ cleaner.at = None
        /\ UNCHANGED <<snap, run, attempt, files, present, cleaner, reader, registered, raced,
                      misread>>
    BY <1>3 DEF ThenReconcile, ScanDone
  <2>2. \A j \in Job : run[j] = "idle" BY <2>1 DEF IndexInv, StartsAlone
  <2>3. \/ row' = Reconciled /\ excused' = {e \in excused : e[1] \in present}
        \/ row' = row /\ excused \subseteq excused'
    BY <1>3 DEF ThenReconcile
  <2>4. /\ row' \in [Job -> [Attempt -> RowState]]
        /\ \A j \in Job, a \in Attempt :
              \/ row'[j][a] = row[j][a]
              \/ row[j][a] = "available" /\ row'[j][a] = "purged" /\ j \notin present
    BY <1>0, <2>3 DEF Reconciled, RowState
  <2>5. ArtifactShape' BY <1>0, <2>1, <2>4 DEF IndexInv, ArtifactShape
  <2>6. AttemptsAreCounted' BY <2>1 DEF IndexInv, AttemptsAreCounted, Counted
  <2>7. StartsAlone' BY <2>1 DEF StartsAlone
  <2>8. WritesToFiles' BY <2>1, <2>2 DEF WritesToFiles
  <2>9. FilesAreIn' /\ RemovedIsEmpty'
    BY <1>a, <2>1 DEF IndexInv, FilesAreIn, RemovedIsEmpty
  <2>10. FilesHaveRows'
    <3>1. \A j \in Job : j \notin present => files[j] = {}
      BY DEF IndexInv, FilesAreIn
    <3> QED BY <1>0, <2>1, <2>4, <3>1 DEF IndexInv, FilesHaveRows
  <2>11. RowsHaveFiles'
    <3> SUFFICES ASSUME NEW j \in Job, NEW a \in Attempt, row'[j][a] = "available"
                 PROVE  a \in files[j] \/ <<j, a>> \in excused'
      BY <2>1 DEF RowsHaveFiles
    <3>1. a \in files[j] \/ <<j, a>> \in excused
      BY <1>a, <2>1, <2>4 DEF IndexInv, RowsHaveFiles
    <3>2. CASE row' = row /\ excused \subseteq excused' BY <3>1, <3>2
    <3>3. CASE row' = Reconciled /\ excused' = {e \in excused : e[1] \in present}
      <4>1. j \in present BY <3>3 DEF Reconciled
      <4> QED BY <3>1, <3>3, <4>1
    <3> QED BY <2>3, <3>2, <3>3
  <2> QED BY <2>5, <2>6, <2>7, <2>8, <2>9, <2>10, <2>11 DEF IndexInv
<1> QED BY <1>1, <1>2, <1>3

LEMMA IndexInvStep == IndexInv /\ [ArtifactNext]_artifactVars => IndexInv'
<1> SUFFICES ASSUME IndexInv, [ArtifactNext]_artifactVars PROVE IndexInv'
  OBVIOUS
<1>1. CASE \E j \in Job : Runner(j) BY <1>1, IndexRunner
<1>2. CASE Cleaner BY <1>2, IndexCleaner
<1>3. CASE \/ \E j \in Job : Age(j) \/ RemoveByHand(j) \/ Forget(j) \/ ReadMissing(j)
           \/ Tick \/ MarkPurged
  BY <1>3, IndexServing
<1>4. CASE Crash \/ Boot \/ ThenExpired \/ ThenReconcile BY <1>4, IndexStart
<1>5. CASE UNCHANGED artifactVars
  BY <1>5 DEF artifactVars, runVars, dirVars, history, IndexInv, ArtifactShape,
       AttemptsAreCounted, Counted, StartsAlone, WritesToFiles, RemovedIsEmpty,
       FilesAreIn, FilesHaveRows, RowsHaveFiles
<1> QED BY <1>1, <1>2, <1>3, <1>4, <1>5 DEF ArtifactNext

\* The index of the outputs is true of the files, for any jobs and numbers of attempts,
\* any number of crashes, and faults of the disk and the database wherever they fall.
THEOREM TheIndexIsTrue == ArtifactSpec => []IndexIsTrue
<1>1. IndexInv => IndexIsTrue
  <2> SUFFICES ASSUME IndexInv PROVE IndexIsTrue
    OBVIOUS
  <2>1. \A j \in Job : Row(j) \subseteq Attempt /\ DOMAIN row[j] = Attempt
    BY DEF IndexInv, ArtifactShape, Row
  <2> QED BY <2>1 DEF IndexInv, FilesHaveRows, RowsHaveFiles, Row, IndexIsTrue
<1> QED BY <1>1, IndexInvInit, IndexInvStep, PTL DEF ArtifactSpec
-----------------------------------------------------------------------------
(* Logins.                                                                 *)

Request ==
    [at : {"idle"}] \cup [at : {"password"}, name : Name]
      \cup [at : {"welcome"}, parent : SUBSET Nat]
      \cup [at : {"parsed", "known", "leaving"}, token : Nat]

Failure == [name : Name, time : Nat, reset : BOOLEAN]

Counter == Name \cup {Address}

ThrottleShape ==
    /\ now \in Nat /\ wrong \in Seq(Failure)
    /\ failures \in [Counter -> SUBSET Nat]
    /\ request \in [Visitor -> Request]

\* The throttle has the failures of the window, and knows no others.
FailuresAreKept ==
    \A k \in Counter : Within(k) \subseteq failures[k] /\ failures[k] \subseteq 1..Len(wrong)

\* The logins let in whose password is still looked at.
Guests(k) ==
    {v \in Visitor : request[v].at = "password" /\ (k # Address => request[v].name = k)}

\* Who is let in may fail: that is where the limit is exceeded, and by how much.
RoomForGuests ==
    \A k \in Counter :
        Cardinality(Within(k)) + Cardinality(Guests(k)) <= Limit(k) - 1 + Cardinality(Visitor)

ThrottleInv == ThrottleShape /\ FailuresAreKept /\ RoomForGuests

LEMMA LimitIsPositive == ASSUME NEW k \in Counter PROVE Limit(k) \in Nat \ {0}
BY SessionsAssumption DEF Limit, Counter

\* Both sets that are counted are finite.
LEMMA ThrottleFinite ==
    ASSUME NEW k \in Counter, wrong \in Seq(Failure)
    PROVE  /\ IsFiniteSet(Within(k)) /\ Cardinality(Within(k)) \in Nat
           /\ IsFiniteSet(Guests(k)) /\ Cardinality(Guests(k)) \in Nat
           /\ Cardinality(Guests(k)) <= Cardinality(Visitor)
           /\ Cardinality(Visitor) \in Nat
<1>1. IsFiniteSet(1..Len(wrong)) BY FS_Interval
<1>2. Within(k) \subseteq 1..Len(wrong) BY DEF Within
<1>3. Guests(k) \subseteq Visitor BY DEF Guests
<1>4. IsFiniteSet(Within(k)) BY <1>1, <1>2, FS_Subset
<1>5. IsFiniteSet(Visitor) BY SessionsAssumption
<1>6. /\ IsFiniteSet(Guests(k)) /\ Cardinality(Guests(k)) <= Cardinality(Visitor)
  BY <1>3, <1>5, FS_Subset
<1> QED BY <1>4, <1>5, <1>6, FS_CardinalityType

LEMMA ThrottleInvInit == SessionsInit => ThrottleInv
<1> SUFFICES ASSUME SessionsInit PROVE ThrottleInv
  OBVIOUS
<1> USE DEF SessionsInit
<1>1. ThrottleShape BY DEF ThrottleShape, Counter, Idle, Request
<1>2. \A k \in Counter : Within(k) = {} /\ failures[k] = {}
  BY DEF Within, Counter
<1>3. FailuresAreKept BY <1>2 DEF FailuresAreKept
<1>4. \A k \in Counter : Guests(k) = {} BY DEF Guests, Idle
<1>5. RoomForGuests
  BY <1>1, <1>2, <1>4, FS_EmptySet, LimitIsPositive, ThrottleFinite
     DEF RoomForGuests, ThrottleShape
<1> QED BY <1>1, <1>3, <1>5 DEF ThrottleInv

\* Time passes, or a request that is at no password goes on to what is no password.
LEMMA ThrottleAside ==
    ASSUME ThrottleInv, now' \in Nat, now' >= now, UNCHANGED <<wrong, failures>>,
           request' \in [Visitor -> Request],
           \A v \in Visitor : request'[v] = request[v] \/
               (request[v].at # "password" /\ request'[v].at # "password")
    PROVE  ThrottleInv'
<1>1. ThrottleShape' BY DEF ThrottleInv, ThrottleShape
<1>2. ASSUME NEW k \in Counter
      PROVE  /\ Within(k)' \subseteq Within(k) /\ Guests(k)' = Guests(k)
             /\ Cardinality(Within(k)') <= Cardinality(Within(k))
  <2>1. wrong \in Seq(Failure) BY DEF ThrottleInv, ThrottleShape
  <2>2. Within(k)' \subseteq Within(k)
    <3> SUFFICES ASSUME NEW i \in 1..Len(wrong), 2 * (now' - wrong[i].time) <= Window
                 PROVE  2 * (now - wrong[i].time) <= Window
      BY DEF Within, InWindow
    <3>1. wrong[i] \in Failure BY <2>1
    <3>2. wrong[i].time \in Nat BY <3>1 DEF Failure
    <3>3. now \in Nat /\ Window \in Nat
      BY SessionsAssumption DEF ThrottleInv, ThrottleShape
    <3> QED BY <3>2, <3>3
  <2>4. Guests(k)' = Guests(k) BY DEF Guests
  <2> QED BY <2>1, <2>2, <2>4, ThrottleFinite, FS_Subset
<1>3. FailuresAreKept' BY <1>2 DEF ThrottleInv, FailuresAreKept
<1>4. RoomForGuests'
  <2> SUFFICES ASSUME NEW k \in Counter
               PROVE  Cardinality(Within(k)') + Cardinality(Guests(k)') <=
                         Limit(k) - 1 + Cardinality(Visitor)
    BY DEF RoomForGuests, Limit
  <2>1. Cardinality(Within(k)) + Cardinality(Guests(k)) <= Limit(k) - 1 + Cardinality(Visitor)
    BY DEF ThrottleInv, RoomForGuests
  <2>2. wrong' \in Seq(Failure) /\ wrong \in Seq(Failure)
    BY DEF ThrottleInv, ThrottleShape
  <2>3. Cardinality(Within(k)') \in Nat
    <3> IsFiniteSet(Within(k)')
      BY <1>2, <2>2, ThrottleFinite, FS_Subset
    <3> QED BY FS_CardinalityType
  <2> QED
    BY <1>2, <2>1, <2>2, <2>3, ThrottleFinite, LimitIsPositive
<1> QED BY <1>1, <1>3, <1>4 DEF ThrottleInv

LEMMA ThrottleLogin ==
    ASSUME ThrottleInv, NEW v \in Visitor, NEW a \in Name, Login(v, a)
    PROVE  ThrottleInv'
<1>0. /\ now \in Nat /\ wrong \in Seq(Failure) /\ failures \in [Counter -> SUBSET Nat]
      /\ request \in [Visitor -> Request]
  BY DEF ThrottleInv, ThrottleShape
<1>1. /\ UNCHANGED <<now, wrong>> /\ request[v].at = "idle"
      /\ failures' = [k \in DOMAIN failures |->
                        IF k \in {a, Address} THEN Recent(k) ELSE failures[k]]
      /\ \/ request' = request
         \/ /\ request' = [request EXCEPT ![v] = [at |-> "password", name |-> a]]
            /\ \A k \in {a, Address} : Cardinality(Recent(k)) < Limit(k)
  BY DEF Login, Becomes, Idle
<1>2. ThrottleShape'
  <2>1. failures' \in [Counter -> SUBSET Nat] BY <1>0, <1>1 DEF Recent
  <2>2. request' \in [Visitor -> Request] BY <1>0, <1>1 DEF Request
  <2> QED BY <1>0, <1>1, <2>1, <2>2 DEF ThrottleShape
<1>3. \A k \in Counter : Within(k)' = Within(k) BY <1>1 DEF Within, InWindow
<1>4. FailuresAreKept'
  <2> SUFFICES ASSUME NEW k \in Counter
               PROVE  Within(k) \subseteq failures'[k] /\ failures'[k] \subseteq 1..Len(wrong)
    BY <1>1, <1>3 DEF FailuresAreKept
  <2>1. Within(k) \subseteq failures[k] /\ failures[k] \subseteq 1..Len(wrong)
    BY DEF ThrottleInv, FailuresAreKept
  <2>2. failures'[k] = Recent(k) \/ failures'[k] = failures[k] BY <1>0, <1>1
  <2> QED BY <2>1, <2>2 DEF Recent, Within
<1>5. RoomForGuests'
  <2> SUFFICES ASSUME NEW k \in Counter
               PROVE  Cardinality(Within(k)) + Cardinality(Guests(k)') <=
                         Limit(k) - 1 + Cardinality(Visitor)
    BY <1>3 DEF RoomForGuests, Limit
  <2>1. Cardinality(Within(k)) + Cardinality(Guests(k)) <= Limit(k) - 1 + Cardinality(Visitor)
    BY DEF ThrottleInv, RoomForGuests
  <2>2. CASE Guests(k)' = Guests(k) BY <2>1, <2>2
  <2>3. CASE Guests(k)' # Guests(k)
    <3>1. k \in {a, Address} /\ Cardinality(Recent(k)) < Limit(k)
      BY <1>0, <1>1, <2>3 DEF Guests, Counter
    <3>2. Within(k) \subseteq Recent(k)
      BY DEF ThrottleInv, FailuresAreKept, Recent, Within
    <3>3. Recent(k) \subseteq 1..Len(wrong)
      BY DEF ThrottleInv, FailuresAreKept, Recent
    <3>4. IsFiniteSet(Recent(k)) BY <1>0, <3>3, FS_Interval, FS_Subset
    <3>5. Cardinality(Within(k)) <= Cardinality(Recent(k)) /\ Cardinality(Recent(k)) \in Nat
      BY <3>2, <3>4, FS_Subset, FS_CardinalityType
    <3>6. Guests(k)' \subseteq Visitor BY DEF Guests
    <3>7. /\ Cardinality(Guests(k)') <= Cardinality(Visitor)
          /\ Cardinality(Guests(k)') \in Nat /\ Cardinality(Visitor) \in Nat
      BY <3>6, SessionsAssumption, FS_Subset, FS_CardinalityType
    <3> QED
      BY <1>0, <3>1, <3>5, <3>7, ThrottleFinite, LimitIsPositive
  <2> QED BY <2>2, <2>3
<1> QED BY <1>2, <1>4, <1>5 DEF ThrottleInv

LEMMA ThrottleReject == ThrottleInv /\ (\E v \in Visitor : Reject(v)) => ThrottleInv'
<1> SUFFICES ASSUME ThrottleInv, NEW v \in Visitor, Reject(v) PROVE ThrottleInv'
  OBVIOUS
<1> DEFINE a == request[v].name
           n == Len(wrong) + 1
           entry == [name |-> a, time |-> now, reset |-> FALSE]
<1>0. /\ now \in Nat /\ wrong \in Seq(Failure) /\ failures \in [Counter -> SUBSET Nat]
      /\ request \in [Visitor -> Request]
  BY DEF ThrottleInv, ThrottleShape
<1>1. /\ now' = now /\ request[v].at = "password" /\ wrong' = Append(wrong, entry)
      /\ request' = [request EXCEPT ![v] = [at |-> "idle"]]
      /\ failures' = [k \in DOMAIN failures |->
                        IF k \in {a, Address} THEN Recent(k) \cup {n} ELSE failures[k]]
  BY DEF Reject, Becomes, Idle
<1>2. a \in Name
  <2> request[v] \in [at : {"password"}, name : Name] BY <1>0, <1>1 DEF Request
  <2> QED OBVIOUS
<1>3. entry \in Failure BY <1>0, <1>2 DEF Failure
<1>4. a \in Counter /\ Address \in Counter /\ a # Address
  BY <1>2, SessionsAssumption DEF Counter
<1> HIDE DEF a, entry
<1>5. /\ wrong' \in Seq(Failure) /\ Len(wrong') = n /\ n \in Nat /\ n \notin 1..Len(wrong)
      /\ wrong'[n] = entry /\ \A i \in 1..Len(wrong) : wrong'[i] = wrong[i]
      /\ 1..Len(wrong') = (1..Len(wrong)) \cup {n}
  BY <1>0, <1>1, <1>3
<1> HIDE DEF n
<1>6. ThrottleShape'
  <2>1. failures' \in [Counter -> SUBSET Nat] BY <1>0, <1>1, <1>5 DEF Recent
  <2>2. request' \in [Visitor -> Request] BY <1>0, <1>1 DEF Request
  <2> QED BY <1>0, <1>1, <1>5, <2>1, <2>2 DEF ThrottleShape
<1>7. \A k \in Counter : Within(k)' = IF k \in {a, Address} THEN Within(k) \cup {n}
                                      ELSE Within(k)
  <2> SUFFICES ASSUME NEW k \in Counter, NEW i \in (1..Len(wrong)) \cup {n}
               PROVE  i \in Within(k)' <=> i \in Within(k) \/ (k \in {a, Address} /\ i = n)
    BY <1>5 DEF Within
  <2>1. CASE i = n
    <3>1. wrong'[i] = entry BY <1>5, <2>1
    <3>2. wrong'[i].name = a /\ wrong'[i].time = now /\ wrong'[i].reset = FALSE
      BY <3>1 DEF entry
    <3>3. 2 * (now' - wrong'[i].time) <= Window
      BY <1>0, <1>1, <3>2, SessionsAssumption
    <3>4. i \in 1..Len(wrong') BY <1>5, <2>1
    <3>5. i \in Within(k)' <=> (k # Address => k = a)
      BY <3>2, <3>3, <3>4 DEF Within, InWindow
    <3>6. i \notin Within(k) BY <1>5, <2>1 DEF Within
    <3> QED BY <2>1, <3>5, <3>6
  <2>2. CASE i # n BY <1>1, <1>5, <2>2 DEF Within, InWindow
  <2> QED BY <2>1, <2>2
<1>8. FailuresAreKept'
  <2> SUFFICES ASSUME NEW k \in Counter
               PROVE  Within(k)' \subseteq failures'[k] /\ failures'[k] \subseteq 1..Len(wrong')
    BY DEF FailuresAreKept
  <2>1. Within(k) \subseteq failures[k] /\ failures[k] \subseteq 1..Len(wrong)
    BY DEF ThrottleInv, FailuresAreKept
  <2>2. Within(k) \subseteq Recent(k) /\ Recent(k) \subseteq failures[k]
    BY <2>1 DEF Recent, Within
  <2>3. failures'[k] = IF k \in {a, Address} THEN Recent(k) \cup {n} ELSE failures[k]
    BY <1>0, <1>1
  <2> QED BY <1>5, <1>7, <2>1, <2>2, <2>3
<1>9. \A k \in Counter : Guests(k)' = IF k \in {a, Address} THEN Guests(k) \ {v} ELSE Guests(k)
  BY <1>0, <1>1 DEF Guests, a
<1>10. \A k \in {a, Address} : v \in Guests(k) BY <1>1 DEF Guests, a
<1>11. RoomForGuests'
  <2> SUFFICES ASSUME NEW k \in Counter
               PROVE  Cardinality(Within(k)') + Cardinality(Guests(k)') <=
                         Limit(k) - 1 + Cardinality(Visitor)
    BY DEF RoomForGuests, Limit
  <2>1. Cardinality(Within(k)) + Cardinality(Guests(k)) <= Limit(k) - 1 + Cardinality(Visitor)
    BY DEF ThrottleInv, RoomForGuests
  <2>2. CASE k \notin {a, Address} BY <1>7, <1>9, <2>1, <2>2
  <2>3. CASE k \in {a, Address}
    <3>1. n \notin Within(k) BY <1>5 DEF Within
    <3>2. Cardinality(Within(k)') = Cardinality(Within(k)) + 1
      BY <1>0, <1>7, <2>3, <3>1, ThrottleFinite, FS_AddElement
    <3>3. Cardinality(Guests(k)') = Cardinality(Guests(k)) - 1
      BY <1>0, <1>9, <1>10, <2>3, ThrottleFinite, FS_RemoveElement
    <3> QED BY <1>0, <2>1, <3>2, <3>3, ThrottleFinite, LimitIsPositive
  <2> QED BY <2>2, <2>3
<1> QED BY <1>6, <1>8, <1>11 DEF ThrottleInv

LEMMA ThrottleReset == ThrottleInv /\ (\E v \in Visitor : Reset(v)) => ThrottleInv'
<1> SUFFICES ASSUME ThrottleInv, NEW v \in Visitor, Reset(v) PROVE ThrottleInv'
  OBVIOUS
<1> DEFINE a == request[v].name
<1>0. /\ now \in Nat /\ wrong \in Seq(Failure) /\ failures \in [Counter -> SUBSET Nat]
      /\ request \in [Visitor -> Request]
  BY DEF ThrottleInv, ThrottleShape
<1>1. /\ now' = now /\ request[v].at = "password"
      /\ request' = [request EXCEPT ![v] = [at |-> "welcome", parent |-> {}]]
      /\ failures' = [k \in DOMAIN failures |-> IF k = a THEN {} ELSE failures[k]]
      /\ wrong' = [i \in DOMAIN wrong |-> IF wrong[i].name = a
                                          THEN [wrong[i] EXCEPT !.reset = TRUE] ELSE wrong[i]]
  BY DEF Reset, Becomes, Cleared
<1>2. a \in Name
  <2> request[v] \in [at : {"password"}, name : Name] BY <1>0, <1>1 DEF Request
  <2> QED OBVIOUS
<1> HIDE DEF a
<1>3. DOMAIN wrong = 1..Len(wrong) /\ Len(wrong) \in Nat BY <1>0
<1>4. ASSUME NEW i \in 1..Len(wrong)
      PROVE  /\ wrong'[i] \in Failure /\ wrong'[i].name = wrong[i].name
             /\ wrong'[i].time = wrong[i].time
             /\ wrong'[i].reset = IF wrong[i].name = a THEN TRUE ELSE wrong[i].reset
  <2>1. wrong[i] \in Failure BY <1>0
  <2> QED BY <1>1, <1>3, <2>1 DEF Failure
<1>5. wrong' \in Seq(Failure) /\ Len(wrong') = Len(wrong)
  BY <1>1, <1>3, <1>4
<1>6. ThrottleShape'
  <2>1. failures' \in [Counter -> SUBSET Nat] BY <1>0, <1>1
  <2>2. request' \in [Visitor -> Request] BY <1>0, <1>1 DEF Request
  <2> QED BY <1>0, <1>1, <1>5, <2>1, <2>2 DEF ThrottleShape
<1>7. \A k \in Counter : Within(k)' = IF k = a THEN {} ELSE Within(k)
  <2>1. a # Address BY <1>2, SessionsAssumption
  <2>2. \A i \in 1..Len(wrong) : InWindow(i)' = InWindow(i) BY <1>1, <1>4 DEF InWindow
  <2>3. ASSUME NEW k \in Counter, NEW i \in 1..Len(wrong)
        PROVE  i \in Within(k)' <=> k # a /\ i \in Within(k)
    BY <1>4, <1>5, <2>1, <2>2 DEF Within
  <2> QED BY <1>5, <2>3 DEF Within
<1>8. FailuresAreKept'
  <2> SUFFICES ASSUME NEW k \in Counter
               PROVE  Within(k)' \subseteq failures'[k] /\ failures'[k] \subseteq 1..Len(wrong)
    BY <1>5 DEF FailuresAreKept
  <2> QED BY <1>0, <1>1, <1>7 DEF ThrottleInv, FailuresAreKept
<1>9. \A k \in Counter : Guests(k)' \subseteq Guests(k)
  BY <1>0, <1>1 DEF Guests
<1>10. RoomForGuests'
  <2> SUFFICES ASSUME NEW k \in Counter
               PROVE  Cardinality(Within(k)') + Cardinality(Guests(k)') <=
                         Limit(k) - 1 + Cardinality(Visitor)
    BY DEF RoomForGuests, Limit
  <2>1. Cardinality(Within(k)) + Cardinality(Guests(k)) <= Limit(k) - 1 + Cardinality(Visitor)
    BY DEF ThrottleInv, RoomForGuests
  <2>2. /\ Cardinality(Guests(k)') <= Cardinality(Guests(k))
        /\ Cardinality(Guests(k)') \in Nat
    BY <1>0, <1>9, ThrottleFinite, FS_Subset, FS_CardinalityType
  <2>3. CASE k = a
    <3>1. Cardinality(Within(k)') = 0 BY <1>7, <2>3, FS_EmptySet
    <3> QED BY <1>0, <2>2, <3>1, ThrottleFinite, LimitIsPositive
  <2>4. CASE k # a
    <3>1. Within(k)' = Within(k) BY <1>7, <2>4
    <3> QED BY <1>0, <2>1, <2>2, <3>1, ThrottleFinite, LimitIsPositive
  <2> QED BY <2>3, <2>4
<1> QED BY <1>6, <1>8, <1>10 DEF ThrottleInv

\* What no request for a token does is to enter or to leave the password.
LEMMA TokenRequests ==
    ASSUME request \in [Visitor -> Request],
           TokenNext \/ \E v \in Visitor : IssueFails(v)
    PROVE  /\ request' \in [Visitor -> Request] /\ now' = now
           /\ UNCHANGED throttleVars
           /\ \A v \in Visitor : request'[v] = request[v] \/
               (request[v].at # "password" /\ request'[v].at # "password")
<1> USE DEF throttleVars
<1>1. ASSUME NEW v \in Visitor, NEW r \in Request, r.at # "password",
             request[v].at # "password", request' \in {request, [request EXCEPT ![v] = r]}
      PROVE  /\ request' \in [Visitor -> Request]
             /\ \A w \in Visitor : request'[w] = request[w] \/
                 (request[w].at # "password" /\ request'[w].at # "password")
  BY <1>1
<1>2. ASSUME NEW v \in Visitor,
             \/ IssueSession(v) \/ IssueFails(v) \/ Serve(v) \/ WsTicket(v) \/ Revoke(v)
      PROVE  request[v].at # "password" /\ request' = [request EXCEPT ![v] = [at |-> "idle"]]
  BY <1>2 DEF IssueSession, IssueFails, Serve, WsTicket, Revoke, Becomes, Idle
<1>3. [at |-> "idle"] \in Request BY DEF Request
<1>4. ASSUME NEW v \in Visitor, NEW s \in 1..Len(sessions), TakeRefresh(v, s) \/ Parse(v, s)
      PROVE  \E r \in Request : /\ request[v].at # "password" /\ r.at # "password"
                                /\ request' \in {request, [request EXCEPT ![v] = r]}
  <2>1. request[v].at = "idle" BY <1>4 DEF TakeRefresh, Parse, Idle
  <2>2. CASE TakeRefresh(v, s)
    <3>1. [at |-> "welcome", parent |-> {s}] \in Request BY DEF Request
    <3> QED BY <2>1, <2>2, <3>1 DEF TakeRefresh, Becomes
  <2>3. CASE Parse(v, s)
    <3>1. [at |-> "parsed", token |-> s] \in Request BY DEF Request
    <3> QED BY <2>1, <2>3, <3>1 DEF Parse, Becomes
  <2> QED BY <1>4, <2>2, <2>3
<1>5. ASSUME NEW v \in Visitor, Lookup(v) \/ DropRefresh(v)
      PROVE  \E r \in Request : /\ request[v].at # "password" /\ r.at # "password"
                                /\ request' \in {request, [request EXCEPT ![v] = r]}
  <2>1. request[v].at \in {"parsed", "known"} BY <1>5 DEF Lookup, DropRefresh
  <2>2. request[v] \in [at : {"parsed", "known", "leaving"}, token : Nat]
    BY <2>1 DEF Request
  <2>3. /\ [request[v] EXCEPT !.at = "known"] \in Request
        /\ [request[v] EXCEPT !.at = "leaving"] \in Request
    BY <2>2 DEF Request
  <2>4. /\ [request[v] EXCEPT !.at = "known"].at = "known"
        /\ [request[v] EXCEPT !.at = "leaving"].at = "leaving"
    BY <2>2
  <2>5. request' \in {[request EXCEPT ![v] = [at |-> "idle"]],
                      [request EXCEPT ![v] = [request[v] EXCEPT !.at = "known"]],
                      [request EXCEPT ![v] = [request[v] EXCEPT !.at = "leaving"]]}
    BY <1>5 DEF Lookup, DropRefresh, Becomes, Idle
  <2> QED BY <1>3, <2>1, <2>3, <2>4, <2>5
<1>6. UNCHANGED <<now, throttleVars>>
  BY DEF TokenNext, IssueFails, IssueSession, Serve, WsTicket, Revoke, TakeRefresh, Parse,
         Lookup, DropRefresh, ConsumeTicket
<1>7. CASE \E k \in 1..Len(issued) : ConsumeTicket(k) BY <1>6, <1>7 DEF ConsumeTicket
<1>8. CASE \E v \in Visitor :
             \/ IssueSession(v) \/ IssueFails(v) \/ Serve(v) \/ WsTicket(v) \/ Revoke(v)
  BY <1>1, <1>2, <1>3, <1>6, <1>8
<1>9. CASE \E v \in Visitor, s \in 1..Len(sessions) : TakeRefresh(v, s) \/ Parse(v, s)
  BY <1>1, <1>4, <1>6, <1>9
<1>10. CASE \E v \in Visitor : Lookup(v) \/ DropRefresh(v)
  BY <1>1, <1>5, <1>6, <1>10
<1> QED BY <1>7, <1>8, <1>9, <1>10 DEF TokenNext

LEMMA ThrottleStep == ThrottleInv /\ [SessionsNext]_sessionVars => ThrottleInv'
<1> SUFFICES ASSUME ThrottleInv, [SessionsNext]_sessionVars PROVE ThrottleInv'
  OBVIOUS
<1>0. now \in Nat /\ request \in [Visitor -> Request] BY DEF ThrottleInv, ThrottleShape
<1>1. CASE \E v \in Visitor, a \in Name : Login(v, a) BY <1>1, ThrottleLogin
<1>2. CASE \E v \in Visitor : Reject(v) BY <1>2, ThrottleReject
<1>3. CASE \E v \in Visitor : Reset(v) BY <1>3, ThrottleReset
<1>4. CASE TokenNext \/ \E v \in Visitor : IssueFails(v)
  BY <1>0, <1>4, TokenRequests, ThrottleAside DEF throttleVars
<1>5. CASE Pass \/ UNCHANGED sessionVars
  <2>1. now' \in Nat /\ now' >= now /\ UNCHANGED <<wrong, failures, request>>
    BY <1>0, <1>5 DEF Pass, sessionVars, throttleVars
  <2> QED BY <1>0, <2>1, ThrottleAside
<1> QED BY <1>1, <1>2, <1>3, <1>4, <1>5 DEF SessionsNext, LoginNext

\* The throttle holds for any names, accounts, limits, window and number of requests at a time.
THEOREM TheThrottleHolds == SessionsSpec => []ThrottleHolds
<1>1. ThrottleInv => ThrottleHolds
  <2> SUFFICES ASSUME ThrottleInv, NEW k \in Counter
               PROVE  Cardinality(Within(k)) <= Limit(k) - 1 + Cardinality(Visitor)
    BY DEF ThrottleHolds, Counter
  <2>1. wrong \in Seq(Failure) BY DEF ThrottleInv, ThrottleShape
  <2>2. Cardinality(Within(k)) + Cardinality(Guests(k)) <= Limit(k) - 1 + Cardinality(Visitor)
    BY DEF ThrottleInv, RoomForGuests
  <2> QED BY <2>1, <2>2, ThrottleFinite, LimitIsPositive
<1> QED BY <1>1, ThrottleInvInit, ThrottleStep, PTL DEF SessionsSpec
-----------------------------------------------------------------------------
(* Tokens: a refresh token is spent once, a ticket lets in once, and a     *)
(* logout holds.                                                           *)

Session == [at : Nat, parent : SUBSET Nat]

\* Whatever is in a table, given up, or in the hands of a request, was issued.
TokensAreIssued ==
    /\ now \in Nat /\ request \in [Visitor -> Request] /\ sessions \in Seq(Session)
    /\ refresh \cup dropped \cup out \subseteq Number /\ revoked \subseteq out
    /\ \A s \in Number : sessions[s].parent \subseteq Number
    /\ \A v \in Visitor :
          /\ request[v].at = "welcome" => request[v].parent \subseteq Number
          /\ request[v].at \in {"parsed", "known", "leaving"} => request[v].token \in Number

LEMMA TokensInit == SessionsInit => TokensAreIssued
BY DEF SessionsInit, TokensAreIssued, Number, Idle, Request

LEMMA TokensStep == TokensAreIssued /\ [SessionsNext]_sessionVars => TokensAreIssued'
<1> SUFFICES ASSUME TokensAreIssued, [SessionsNext]_sessionVars PROVE TokensAreIssued'
  OBVIOUS
<1> USE DEF TokensAreIssued, Number, tableVars, throttleVars
<1>0. request \in [Visitor -> Request] /\ now \in Nat OBVIOUS
<1>1. ASSUME NEW v \in Visitor,
             (\E a \in Name : Login(v, a)) \/ Reject(v) \/ Reset(v) \/ IssueFails(v)
      PROVE  TokensAreIssued'
  <2>1. /\ UNCHANGED <<now, sessions, refresh, out, revoked>>
        /\ \/ request' = request
           \/ \E a \in Name : request' = [request EXCEPT ![v] = [at |-> "password", name |-> a]]
           \/ request' = [request EXCEPT ![v] = [at |-> "idle"]]
           \/ request' = [request EXCEPT ![v] = [at |-> "welcome", parent |-> {}]]
        /\ dropped' = dropped \/
              (request[v].at = "welcome" /\ dropped' = dropped \cup request[v].parent)
    BY <1>1 DEF Login, Reject, Reset, IssueFails, Becomes, Idle
  <2>2. request' \in [Visitor -> Request]
    BY <1>0, <2>1 DEF Request
  <2>3. dropped' \subseteq Number BY <2>1
  <2>4. \A w \in Visitor :
          /\ request'[w].at = "welcome" => request'[w].parent \subseteq Number
          /\ request'[w].at \in {"parsed", "known", "leaving"} => request'[w].token \in Number
    BY <1>0, <2>1
  <2> QED BY <2>1, <2>2, <2>3, <2>4
<1>2. ASSUME NEW v \in Visitor, IssueSession(v) PROVE TokensAreIssued'
  <2> DEFINE n == Len(sessions) + 1
             one == [at |-> now, parent |-> request[v].parent]
  <2>1. /\ request[v].at = "welcome" /\ request' = [request EXCEPT ![v] = [at |-> "idle"]]
        /\ sessions' = Append(sessions, one) /\ refresh' \subseteq refresh \cup {n}
        /\ revoked' \subseteq revoked
        /\ UNCHANGED <<now, out, dropped>>
    BY <1>2 DEF IssueSession, Becomes, Idle, Sweep, SweptRefresh
  <2>2. one \in Session
    <3>1. request[v] \in [at : {"welcome"}, parent : SUBSET Nat] BY <2>1 DEF Request
    <3> QED BY <3>1 DEF Session
  <2>3. one.parent \subseteq Number BY <2>1
  <2> HIDE DEF one
  <2>4. /\ sessions' \in Seq(Session) /\ Len(sessions') = n /\ 1..Len(sessions') = Number \cup {n}
        /\ sessions'[n] = one /\ \A s \in Number : sessions'[s] = sessions[s]
    BY <2>1, <2>2
  <2>5. request' \in [Visitor -> Request] BY <1>0, <2>1 DEF Request
  <2>6. \A w \in Visitor :
          /\ request'[w].at = "welcome" => request'[w].parent \subseteq Number
          /\ request'[w].at \in {"parsed", "known", "leaving"} => request'[w].token \in Number
    BY <1>0, <2>1
  <2> HIDE DEF n
  <2> QED BY <2>1, <2>3, <2>4, <2>5, <2>6
<1>3. ASSUME NEW v \in Visitor, NEW s \in Number, TakeRefresh(v, s) \/ Parse(v, s)
      PROVE  TokensAreIssued'
  <2>1. /\ UNCHANGED <<now, sessions, dropped, out>>
        /\ refresh' \subseteq refresh /\ revoked' \subseteq revoked
        /\ request' \in {request, [request EXCEPT ![v] = [at |-> "welcome", parent |-> {s}]],
                         [request EXCEPT ![v] = [at |-> "parsed", token |-> s]]}
    BY <1>3 DEF TakeRefresh, Parse, Becomes, Sweep, SweptRefresh
  <2>2. request' \in [Visitor -> Request] BY <1>0, <2>1 DEF Request
  <2>3. \A w \in Visitor :
          /\ request'[w].at = "welcome" => request'[w].parent \subseteq Number
          /\ request'[w].at \in {"parsed", "known", "leaving"} => request'[w].token \in Number
    BY <1>0, <2>1
  <2> QED BY <2>1, <2>2, <2>3
<1>4. ASSUME NEW v \in Visitor, Lookup(v) \/ DropRefresh(v) PROVE TokensAreIssued'
  <2>1. request[v].at \in {"parsed", "known"} BY <1>4 DEF Lookup, DropRefresh
  <2>2. request[v] \in [at : {"parsed", "known", "leaving"}, token : Nat] /\ request[v].token \in Number
    BY <2>1 DEF Request
  <2>3. /\ UNCHANGED <<now, sessions, out>>
        /\ refresh' \subseteq refresh /\ revoked' \subseteq revoked
        /\ request' \in {[request EXCEPT ![v] = [at |-> "idle"]],
                         [request EXCEPT ![v] = [request[v] EXCEPT !.at = "known"]],
                         [request EXCEPT ![v] = [request[v] EXCEPT !.at = "leaving"]]}
        /\ dropped' \subseteq dropped \cup Number
    BY <1>4 DEF Lookup, DropRefresh, Becomes, Idle
  <2>4. \A x \in {"known", "leaving"} :
           /\ [request[v] EXCEPT !.at = x] \in Request
           /\ [request[v] EXCEPT !.at = x].at = x
           /\ [request[v] EXCEPT !.at = x].token \in Number
    BY <2>2 DEF Request
  <2>5. PICK r \in Request :
           /\ request' = [request EXCEPT ![v] = r]
           /\ r.at = "idle" \/ (r.at \in {"known", "leaving"} /\ r.token \in Number)
    <3>1. [at |-> "idle"] \in Request BY DEF Request
    <3> QED BY <2>3, <2>4, <3>1
  <2>6. \A w \in Visitor :
          /\ request'[w].at = "welcome" => request'[w].parent \subseteq Number
          /\ request'[w].at \in {"parsed", "known", "leaving"} => request'[w].token \in Number
    BY <1>0, <2>5
  <2> QED BY <2>3, <2>5, <2>6
<1>5. ASSUME NEW v \in Visitor, Serve(v) \/ WsTicket(v) \/ Revoke(v) PROVE TokensAreIssued'
  <2>1. /\ UNCHANGED <<now, sessions, dropped>>
        /\ refresh' \subseteq refresh
        /\ request' = [request EXCEPT ![v] = [at |-> "idle"]]
        /\ \/ out' = out /\ revoked' \subseteq revoked
           \/ /\ request[v].at = "leaving"
              /\ out' = out \cup {request[v].token}
              /\ revoked' \subseteq revoked \cup {request[v].token}
    BY <1>5 DEF Serve, WsTicket, Revoke, Becomes, Idle, Sweep, SweptRefresh
  <2>2. request' \in [Visitor -> Request] BY <1>0, <2>1 DEF Request
  <2>3. \A w \in Visitor :
          /\ request'[w].at = "welcome" => request'[w].parent \subseteq Number
          /\ request'[w].at \in {"parsed", "known", "leaving"} => request'[w].token \in Number
    BY <1>0, <2>1
  <2>4. out' \subseteq Number /\ revoked' \subseteq out' BY <2>1
  <2> QED BY <2>1, <2>2, <2>3, <2>4
<1>6. CASE (\E k \in 1..Len(issued) : ConsumeTicket(k)) \/ Pass \/ UNCHANGED sessionVars
  <2>1. /\ now' \in Nat /\ UNCHANGED <<sessions, refresh, dropped, out, revoked, request>>
    BY <1>0, <1>6 DEF ConsumeTicket, Pass, sessionVars
  <2> QED BY <2>1
<1> QED BY <1>1, <1>2, <1>3, <1>4, <1>5, <1>6 DEF SessionsNext, LoginNext, TokenNext

\* Tickets.
TicketInv ==
    /\ admitted \in Seq(Nat) /\ Len(admitted) = Len(issued) /\ Len(issued) \in Nat
    /\ issued \in Seq(Nat) /\ tickets \subseteq 1..Len(issued)
    /\ \A k \in 1..Len(issued) : admitted[k] <= 1 /\ (k \in tickets => admitted[k] = 0)

LEMMA TicketInvStep ==
    TokensAreIssued /\ TicketInv /\ [SessionsNext]_sessionVars => TicketInv'
<1> SUFFICES ASSUME TokensAreIssued, TicketInv, [SessionsNext]_sessionVars PROVE TicketInv'
  OBVIOUS
<1> USE DEF tableVars, throttleVars
<1>0. now \in Nat BY DEF TokensAreIssued
<1>1. CASE UNCHANGED <<issued, admitted>> /\ tickets' \subseteq tickets
  BY <1>1 DEF TicketInv
<1>2. ASSUME NEW v \in Visitor, WsTicket(v) PROVE TicketInv'
  <2>1. /\ issued' = Append(issued, now) /\ admitted' = Append(admitted, 0)
        /\ tickets' \subseteq tickets \cup {Len(issued) + 1}
    BY <1>2 DEF WsTicket, SweptTickets
  <2> QED BY <1>0, <2>1 DEF TicketInv
<1>3. ASSUME NEW k \in 1..Len(issued), ConsumeTicket(k) PROVE TicketInv'
  <2>1. /\ issued' = issued /\ tickets' = tickets \ {k}
        /\ admitted' = admitted \/ (k \in tickets /\ admitted' = [admitted EXCEPT ![k] = @ + 1])
    BY <1>3 DEF ConsumeTicket
  <2> QED BY <2>1 DEF TicketInv
<1>4. CASE ~(\E v \in Visitor : WsTicket(v)) /\ ~\E k \in 1..Len(issued) : ConsumeTicket(k)
  <2>1. UNCHANGED <<issued, admitted>> /\ tickets' \subseteq tickets
    BY <1>4 DEF SessionsNext, LoginNext, TokenNext, Login, Reject, Reset, IssueFails, Pass,
         TakeRefresh, Parse, IssueSession, Lookup, Serve, DropRefresh, Revoke, SweptTickets,
         sessionVars
  <2> QED BY <1>1, <2>1
<1> QED BY <1>2, <1>3, <1>4

\* What has become of a refresh token: a session came from it, or a request has it.
InHand(v, r) == request[v].at = "welcome" /\ r \in request[v].parent

Made(s, r) == r \in sessions[s].parent

ExchangedOnce ==
    \A r \in Number :
        /\ \A s, t \in Number : Made(s, r) /\ Made(t, r) => s = t
        /\ \A v, w \in Visitor : InHand(v, r) /\ InHand(w, r) => v = w
        /\ \A s \in Number, v \in Visitor : ~(Made(s, r) /\ InHand(v, r))

Spent(r) == (\E s \in Number : Made(s, r)) \/ \E v \in Visitor : InHand(v, r)

RefreshIsTrue ==
    \A r \in Number :
        /\ r \in refresh => r \notin dropped /\ ~Spent(r)
        /\ RefreshEnd(r) >= now /\ r \notin dropped /\ ~Spent(r) => r \in refresh

RefreshInv == TokensAreIssued /\ ExchangedOnce /\ RefreshIsTrue

\* Steps that leave the sessions, and what requests have taken, as they are, and the
\* table but for what has expired, or was given up.
LEMMA RefreshAside ==
    ASSUME RefreshInv, TokensAreIssued', now' >= now, sessions' = sessions,
           \A v \in Visitor, r \in Number : InHand(v, r)' <=> InHand(v, r),
           \A r \in Number : r \in dropped => r \in dropped',
           \A r \in Number : r \in refresh' => r \in refresh /\ r \notin dropped',
           \A r \in Number : r \in refresh /\ RefreshEnd(r) >= now /\ r \notin dropped'
                             => r \in refresh'
    PROVE  RefreshInv'
<1>1. Number' = Number /\ \A s, r \in Number : Made(s, r)' <=> Made(s, r)
  BY DEF Number, Made
<1>2. \A r \in Number : Spent(r)' <=> Spent(r) BY <1>1 DEF Spent
<1>3. ExchangedOnce' BY <1>1 DEF RefreshInv, ExchangedOnce
<1>4. \A r \in Number : RefreshEnd(r)' = RefreshEnd(r) /\ RefreshEnd(r) \in Int
  <2> SUFFICES ASSUME NEW r \in Number
               PROVE  sessions[r].at + RefreshTTL \in Int
    BY DEF RefreshEnd
  <2>1. sessions[r] \in Session BY DEF RefreshInv, TokensAreIssued, Number
  <2> QED BY <2>1, SessionsAssumption DEF Session
<1>5. RefreshIsTrue'
  <2> SUFFICES ASSUME NEW r \in Number
               PROVE  /\ r \in refresh' => r \notin dropped' /\ ~Spent(r)
                      /\ RefreshEnd(r) >= now' /\ r \notin dropped' /\ ~Spent(r) => r \in refresh'
    BY <1>1, <1>2, <1>4 DEF RefreshIsTrue
  <2>1. now \in Nat /\ now' \in Nat BY DEF RefreshInv, TokensAreIssued
  <2>2. RefreshEnd(r) >= now' => RefreshEnd(r) >= now BY <1>4, <2>1
  <2> QED BY <2>2 DEF RefreshInv, RefreshIsTrue
<1> QED BY <1>3, <1>5 DEF RefreshInv

LEMMA SweepKeepsGood ==
    /\ SweptRefresh \subseteq refresh
    /\ \A r \in refresh : RefreshEnd(r) >= now => r \in SweptRefresh
BY DEF SweptRefresh

LEMMA HandsAside ==
    ASSUME request \in [Visitor -> Request], NEW v \in Visitor, NEW e,
           request' = [request EXCEPT ![v] = e],
           request[v].at # "welcome", e.at = "welcome" => e.parent = {}
    PROVE  \A w \in Visitor, r \in Number : InHand(w, r)' <=> InHand(w, r)
BY DEF InHand

LEMMA RefreshAsideSteps ==
    ASSUME RefreshInv, TokensAreIssued',
           \/ \E v \in Visitor :
                 \/ (\E a \in Name : Login(v, a)) \/ Reject(v) \/ Reset(v)
                 \/ (\E t \in Number : Parse(v, t)) \/ Lookup(v) \/ Serve(v) \/ WsTicket(v)
                 \/ DropRefresh(v) \/ Revoke(v)
           \/ \E k \in 1..Len(issued) : ConsumeTicket(k)
           \/ Pass \/ UNCHANGED sessionVars
    PROVE  RefreshInv'
<1> USE DEF tableVars, throttleVars
<1>0. request \in [Visitor -> Request] /\ now \in Nat /\ refresh \subseteq Number
  BY DEF RefreshInv, TokensAreIssued
<1>1. sessions' = sessions /\ now' >= now
  <2>1. CASE Pass \/ UNCHANGED sessionVars
    <3>1. sessions' = sessions /\ (now' = now \/ now' = now + 1) BY <2>1 DEF Pass, sessionVars
    <3> QED BY <1>0, <3>1
  <2>2. CASE ~(Pass \/ UNCHANGED sessionVars)
    <3>1. sessions' = sessions /\ now' = now
      BY <2>2 DEF Login, Reject, Reset, Parse, Lookup, Serve, WsTicket, DropRefresh, Revoke,
           ConsumeTicket
    <3> QED BY <1>0, <3>1
  <2> QED BY <2>1, <2>2
<1>2. \A v \in Visitor, r \in Number : InHand(v, r)' <=> InHand(v, r)
  <2>1. CASE request' = request BY <2>1 DEF InHand
  <2>2. CASE \E v \in Visitor : \E e : /\ request' = [request EXCEPT ![v] = e]
                                       /\ request[v].at # "welcome"
                                       /\ e.at = "welcome" => e.parent = {}
    BY <1>0, <2>2, HandsAside
  <2>3. ASSUME NEW v \in Visitor, NEW a \in Name, Login(v, a)
        PROVE  request' = request
               \/ (/\ request' = [request EXCEPT ![v] = [at |-> "password", name |-> a]]
                   /\ request[v].at # "welcome")
    BY <2>3 DEF Login, Becomes, Idle
  <2>4. ASSUME NEW v \in Visitor, Reject(v) \/ Serve(v) \/ WsTicket(v) \/ Revoke(v)
        PROVE  request' = [request EXCEPT ![v] = [at |-> "idle"]] /\ request[v].at # "welcome"
    BY <2>4 DEF Reject, Serve, WsTicket, Revoke, Becomes, Idle
  <2>5. ASSUME NEW v \in Visitor, Reset(v)
        PROVE  /\ request' = [request EXCEPT ![v] = [at |-> "welcome", parent |-> {}]]
               /\ request[v].at # "welcome"
    BY <2>5 DEF Reset, Becomes
  <2>6. ASSUME NEW v \in Visitor, NEW t \in Number, Parse(v, t)
        PROVE  /\ request' = [request EXCEPT ![v] = [at |-> "parsed", token |-> t]]
               /\ request[v].at # "welcome"
    BY <2>6 DEF Parse, Becomes, Idle
  <2>7. ASSUME NEW v \in Visitor, Lookup(v) \/ DropRefresh(v)
        PROVE  \E e : /\ request' = [request EXCEPT ![v] = e]
                      /\ request[v].at # "welcome" /\ e.at # "welcome"
    <3>1. request[v].at \in {"parsed", "known"} BY <2>7 DEF Lookup, DropRefresh
    <3>2. request[v] \in [at : {"parsed", "known", "leaving"}, token : Nat]
      BY <1>0, <3>1 DEF Request
    <3>3. /\ [request[v] EXCEPT !.at = "known"].at = "known"
          /\ [request[v] EXCEPT !.at = "leaving"].at = "leaving"
          /\ Idle.at = "idle"
      BY <3>2 DEF Idle
    <3>4. \/ request' = [request EXCEPT ![v] = Idle]
          \/ request' = [request EXCEPT ![v] = [request[v] EXCEPT !.at = "known"]]
          \/ request' = [request EXCEPT ![v] = [request[v] EXCEPT !.at = "leaving"]]
      BY <2>7 DEF Lookup, DropRefresh, Becomes
    <3> QED BY <3>1, <3>3, <3>4
  <2>8. CASE (\E k \in 1..Len(issued) : ConsumeTicket(k)) \/ Pass \/ UNCHANGED sessionVars
    <3> request' = request BY <2>8 DEF ConsumeTicket, Pass, sessionVars
    <3> QED BY <2>1
  <2>9. CASE \E v \in Visitor, a \in Name : Login(v, a)
    BY <1>0, <2>1, <2>3, <2>9, HandsAside
  <2>10. CASE \E v \in Visitor : Reject(v) \/ Serve(v) \/ WsTicket(v) \/ Revoke(v)
    BY <1>0, <2>4, <2>10, HandsAside
  <2>11. CASE \E v \in Visitor : Reset(v) BY <1>0, <2>5, <2>11, HandsAside
  <2>12. CASE \E v \in Visitor, t \in Number : Parse(v, t) BY <1>0, <2>6, <2>12, HandsAside
  <2>13. CASE \E v \in Visitor : Lookup(v) \/ DropRefresh(v) BY <2>2, <2>7, <2>13
  <2> QED BY <2>8, <2>9, <2>10, <2>11, <2>12, <2>13
<1>3. \/ refresh' = refresh /\ dropped' = dropped
      \/ refresh' = SweptRefresh /\ dropped' = dropped
      \/ \E R \in SUBSET Number : refresh' = refresh \ R /\ dropped' = dropped \cup R
  <2>1. ASSUME NEW v \in Visitor, DropRefresh(v)
        PROVE  \E R \in SUBSET Number : refresh' = refresh \ R /\ dropped' = dropped \cup R
    <3>1. PICK R \in {{}} \cup {{r} : r \in 1..Len(sessions)} :
             refresh' = refresh \ R /\ dropped' = dropped \cup R
      BY <2>1 DEF DropRefresh
    <3> QED BY <3>1 DEF Number
  <2>2. CASE ~\E v \in Visitor : DropRefresh(v)
    BY <2>2 DEF Login, Reject, Reset, Parse, Lookup, Serve, WsTicket, Revoke, ConsumeTicket,
         Pass, sessionVars
  <2> QED BY <2>1, <2>2
<1>4. \A r \in refresh : r \notin dropped BY <1>0 DEF RefreshInv, RefreshIsTrue
<1>5. /\ \A r \in Number : r \in dropped => r \in dropped'
      /\ \A r \in Number : r \in refresh' => r \in refresh /\ r \notin dropped'
      /\ \A r \in Number : r \in refresh /\ RefreshEnd(r) >= now /\ r \notin dropped'
                           => r \in refresh'
  <2>1. CASE refresh' = refresh /\ dropped' = dropped BY <1>4, <2>1
  <2>2. CASE refresh' = SweptRefresh /\ dropped' = dropped BY <1>4, <2>2, SweepKeepsGood
  <2>3. CASE \E R \in SUBSET Number : refresh' = refresh \ R /\ dropped' = dropped \cup R
    BY <1>4, <2>3
  <2> QED BY <1>3, <2>1, <2>2, <2>3
<1> QED BY <1>1, <1>2, <1>5, RefreshAside

LEMMA RefreshIssues ==
    ASSUME RefreshInv, TokensAreIssued', NEW v \in Visitor, IssueSession(v)
    PROVE  RefreshInv'
<1> DEFINE n == Len(sessions) + 1
           one == [at |-> now, parent |-> request[v].parent]
<1>0. /\ request \in [Visitor -> Request] /\ now \in Nat /\ sessions \in Seq(Session)
      /\ refresh \subseteq Number /\ dropped \subseteq Number /\ Len(sessions) \in Nat
      /\ request[v].parent \subseteq Number
      /\ \A s \in Number : sessions[s].parent \subseteq Number
      /\ \A w \in Visitor : request[w].at = "welcome" => request[w].parent \subseteq Number
  BY DEF RefreshInv, TokensAreIssued, IssueSession
<1>1. /\ request[v].at = "welcome" /\ request' = [request EXCEPT ![v] = [at |-> "idle"]]
      /\ sessions' = Append(sessions, one) /\ refresh' = SweptRefresh \cup {n}
      /\ UNCHANGED <<now, dropped>>
  BY DEF IssueSession, Becomes, Idle, tableVars, throttleVars
<1>2. one \in Session
  <2>1. request[v] \in [at : {"welcome"}, parent : SUBSET Nat] BY <1>0, <1>1 DEF Request
  <2> QED BY <1>0, <2>1 DEF Session
<1>3. one.parent = request[v].parent /\ one.at = now OBVIOUS
<1> HIDE DEF one
<1>4. /\ Len(sessions') = n /\ Number' = Number \cup {n} /\ n \notin Number /\ n \in Nat
      /\ sessions'[n] = one /\ \A s \in Number : sessions'[s] = sessions[s]
  BY <1>0, <1>1, <1>2 DEF Number
<1> HIDE DEF n
<1>5. \A s \in Number : \A r : Made(s, r)' <=> Made(s, r) BY <1>4 DEF Made
<1>6. \A r : r \in sessions'[n].parent <=> InHand(v, r) BY <1>1, <1>3, <1>4 DEF InHand
<1>7. \A w \in Visitor : \A r : InHand(w, r)' <=> InHand(w, r) /\ w # v
  BY <1>0, <1>1 DEF InHand
<1>8. (\A s \in Number : ~Made(s, n)) /\ \A w \in Visitor : ~InHand(w, n)
  BY <1>0, <1>4 DEF Made, InHand
<1>9. ASSUME NEW s \in Number', NEW r
      PROVE  Made(s, r)' <=> IF s = n THEN InHand(v, r) ELSE Made(s, r)
  <2>1. CASE s = n BY <1>6, <2>1 DEF Made
  <2>2. CASE s # n BY <1>4, <1>5, <2>2
  <2> QED BY <2>1, <2>2
<1>10. ExchangedOnce'
  <2> SUFFICES ASSUME NEW r \in Number'
               PROVE  /\ \A s, t \in Number' : Made(s, r)' /\ Made(t, r)' => s = t
                      /\ \A w, u \in Visitor : InHand(w, r)' /\ InHand(u, r)' => w = u
                      /\ \A s \in Number', w \in Visitor : ~(Made(s, r)' /\ InHand(w, r)')
    BY DEF ExchangedOnce
  <2>1. CASE r = n BY <1>4, <1>7, <1>8, <1>9, <2>1
  <2>2. CASE r \in Number
    BY <1>4, <1>7, <1>9, <2>2 DEF RefreshInv, ExchangedOnce
  <2> QED BY <1>4, <2>1, <2>2
<1>11. \A r \in Number : Spent(r)' <=> Spent(r)
  BY <1>4, <1>7, <1>9 DEF Spent
<1>12. \A r \in Number' : r \notin Number => ~Spent(r)'
  <2> SUFFICES ASSUME NEW r \in Number', r \notin Number PROVE ~Spent(r)' OBVIOUS
  <2>1. r = n BY <1>4
  <2>2. \A s \in Number' : ~Made(s, r)' BY <1>4, <1>8, <1>9, <2>1
  <2>3. \A w \in Visitor : ~InHand(w, r)' BY <1>7, <1>8, <2>1
  <2> QED BY <2>2, <2>3 DEF Spent
<1>13. \A r \in Number : RefreshEnd(r)' = RefreshEnd(r) BY <1>4 DEF RefreshEnd
<1>14. RefreshIsTrue'
  <2> SUFFICES ASSUME NEW r \in Number'
               PROVE  /\ r \in refresh' => r \notin dropped' /\ ~Spent(r)'
                      /\ RefreshEnd(r)' >= now' /\ r \notin dropped' /\ ~Spent(r)' => r \in refresh'
    BY DEF RefreshIsTrue
  <2>1. CASE r \in Number
    <3>1. r # n /\ (r \in refresh' <=> r \in SweptRefresh) BY <1>1, <1>4, <2>1
    <3>2. /\ r \in refresh => r \notin dropped /\ ~Spent(r)
          /\ RefreshEnd(r) >= now /\ r \notin dropped /\ ~Spent(r) => r \in refresh
      BY <2>1 DEF RefreshInv, RefreshIsTrue
    <3> QED BY <1>1, <1>11, <1>13, <2>1, <3>1, <3>2, SweepKeepsGood
  <2>2. CASE r \notin Number
    <3>1. r = n BY <1>4, <2>2
    <3>2. r \in refresh' /\ r \notin dropped' BY <1>0, <1>1, <1>4, <3>1
    <3> QED BY <1>12, <2>2, <3>2
  <2> QED BY <2>1, <2>2
<1> QED BY <1>10, <1>14 DEF RefreshInv

\* The exchange that found no randomness: its token is given up.
LEMMA RefreshIssueFails ==
    ASSUME RefreshInv, TokensAreIssued', NEW v \in Visitor, IssueFails(v)
    PROVE  RefreshInv'
<1>0. /\ request \in [Visitor -> Request] /\ now \in Nat
      /\ request[v].parent \subseteq Number
  BY DEF RefreshInv, TokensAreIssued, IssueFails
<1>1. /\ request[v].at = "welcome" /\ request' = [request EXCEPT ![v] = [at |-> "idle"]]
      /\ dropped' = dropped \cup request[v].parent
      /\ UNCHANGED <<now, sessions, refresh>>
  BY DEF IssueFails, Becomes, Idle
<1>2. Number' = Number /\ \A s, r \in Number : Made(s, r)' <=> Made(s, r)
  BY <1>1 DEF Number, Made
<1>3. \A w \in Visitor : \A r : InHand(w, r)' <=> InHand(w, r) /\ w # v
  BY <1>0, <1>1 DEF InHand
<1>4. \A r : r \in request[v].parent <=> InHand(v, r) BY <1>1 DEF InHand
<1>5. ExchangedOnce'
  <2> SUFFICES ASSUME NEW r \in Number
               PROVE  /\ \A s, t \in Number : Made(s, r)' /\ Made(t, r)' => s = t
                      /\ \A w, u \in Visitor : InHand(w, r)' /\ InHand(u, r)' => w = u
                      /\ \A s \in Number, w \in Visitor : ~(Made(s, r)' /\ InHand(w, r)')
    BY <1>2 DEF ExchangedOnce
  <2> QED BY <1>2, <1>3 DEF RefreshInv, ExchangedOnce
<1>6. \A r \in Number : Spent(r) => Spent(r)' \/ InHand(v, r)
  BY <1>2, <1>3 DEF Spent
<1>7. \A r \in Number : Spent(r)' => Spent(r)
  BY <1>2, <1>3 DEF Spent
<1>8. \A r \in Number : RefreshEnd(r)' = RefreshEnd(r) BY <1>1 DEF RefreshEnd
<1>9. RefreshIsTrue'
  <2> SUFFICES ASSUME NEW r \in Number
               PROVE  /\ r \in refresh' => r \notin dropped' /\ ~Spent(r)'
                      /\ RefreshEnd(r)' >= now' /\ r \notin dropped' /\ ~Spent(r)' => r \in refresh'
    BY <1>2 DEF RefreshIsTrue
  <2>1. /\ r \in refresh => r \notin dropped /\ ~Spent(r)
        /\ RefreshEnd(r) >= now /\ r \notin dropped /\ ~Spent(r) => r \in refresh
    BY DEF RefreshInv, RefreshIsTrue
  <2>2. r \in dropped' <=> r \in dropped \/ InHand(v, r) BY <1>1, <1>4
  <2>3. InHand(v, r) => Spent(r) BY DEF Spent
  <2> QED BY <1>1, <1>6, <1>7, <1>8, <2>1, <2>2, <2>3
<1> QED BY <1>5, <1>9 DEF RefreshInv

LEMMA RefreshTakes ==
    ASSUME RefreshInv, TokensAreIssued', NEW v \in Visitor, NEW x \in Number, TakeRefresh(v, x)
    PROVE  RefreshInv'
<1>0. /\ request \in [Visitor -> Request] /\ now \in Nat
  BY DEF RefreshInv, TokensAreIssued
<1>1. /\ request[v].at = "idle"
      /\ refresh' = SweptRefresh \ {x} /\ UNCHANGED <<now, sessions, dropped>>
  BY DEF TakeRefresh, Idle, Taken, tableVars, throttleVars
<1>2. Number' = Number /\ \A s, r \in Number : Made(s, r)' <=> Made(s, r)
  BY <1>1 DEF Number, Made
<1>3. \A r \in Number : RefreshEnd(r)' = RefreshEnd(r) BY <1>1 DEF RefreshEnd
<1>4. CASE ~(x \in SweptRefresh /\ RefreshEnd(x) >= now)
  <2>1. request' = request BY <1>4 DEF TakeRefresh
  <2>2. \A w \in Visitor, r \in Number : InHand(w, r)' <=> InHand(w, r) BY <2>1 DEF InHand
  <2>3. now' >= now BY <1>0, <1>1
  <2>4. \A r \in refresh : r \in Number /\ r \notin dropped
    BY DEF RefreshInv, TokensAreIssued, RefreshIsTrue
  <2>5. \A r \in Number : r \in refresh' => r \in refresh /\ r \notin dropped'
    BY <1>1, <2>4, SweepKeepsGood
  <2>6. \A r \in Number : r \in refresh /\ RefreshEnd(r) >= now /\ r \notin dropped'
                          => r \in refresh'
    BY <1>1, <1>4, SweepKeepsGood
  <2> QED BY <1>1, <2>2, <2>3, <2>5, <2>6, RefreshAside
<1>5. CASE x \in SweptRefresh /\ RefreshEnd(x) >= now
  <2>1. request' = [request EXCEPT ![v] = [at |-> "welcome", parent |-> {x}]]
    BY <1>5 DEF TakeRefresh, Becomes
  <2>2. \A w \in Visitor, r \in Number : InHand(w, r)' <=> InHand(w, r) \/ (w = v /\ r = x)
    BY <1>0, <1>1, <2>1 DEF InHand
  <2>3. ~Spent(x)
    BY <1>5, SweepKeepsGood DEF RefreshInv, RefreshIsTrue
  <2>4. (\A s \in Number : ~Made(s, x)) /\ \A w \in Visitor : ~InHand(w, x)
    BY <2>3 DEF Spent
  <2>5. ExchangedOnce'
    <3> SUFFICES ASSUME NEW r \in Number
                 PROVE  /\ \A s, t \in Number : Made(s, r)' /\ Made(t, r)' => s = t
                        /\ \A w, u \in Visitor : InHand(w, r)' /\ InHand(u, r)' => w = u
                        /\ \A s \in Number, w \in Visitor : ~(Made(s, r)' /\ InHand(w, r)')
      BY <1>2 DEF ExchangedOnce
    <3>1. CASE r = x BY <1>2, <2>2, <2>4, <3>1
    <3>2. CASE r # x BY <1>2, <2>2, <3>2 DEF RefreshInv, ExchangedOnce
    <3> QED BY <3>1, <3>2
  <2>6. \A r \in Number : Spent(r)' <=> Spent(r) \/ r = x
    BY <1>2, <2>2 DEF Spent
  <2>7. RefreshIsTrue'
    <3> SUFFICES ASSUME NEW r \in Number
                 PROVE  /\ r \in refresh' => r \notin dropped' /\ ~Spent(r)'
                        /\ RefreshEnd(r)' >= now' /\ r \notin dropped' /\ ~Spent(r)' => r \in refresh'
      BY <1>2 DEF RefreshIsTrue
    <3>1. /\ r \in refresh => r \notin dropped /\ ~Spent(r)
          /\ RefreshEnd(r) >= now /\ r \notin dropped /\ ~Spent(r) => r \in refresh
      BY DEF RefreshInv, RefreshIsTrue
    <3> QED BY <1>1, <1>3, <2>6, <3>1, SweepKeepsGood
  <2> QED BY <2>5, <2>7 DEF RefreshInv
<1> QED BY <1>4, <1>5

LEMMA RefreshInvInit == SessionsInit => RefreshInv
<1> SUFFICES ASSUME SessionsInit PROVE RefreshInv OBVIOUS
<1>1. Number = {} BY DEF SessionsInit, Number
<1> QED BY <1>1, TokensInit DEF RefreshInv, ExchangedOnce, RefreshIsTrue

LEMMA RefreshInvStep == RefreshInv /\ [SessionsNext]_sessionVars => RefreshInv'
<1> SUFFICES ASSUME RefreshInv, [SessionsNext]_sessionVars PROVE RefreshInv' OBVIOUS
<1>1. TokensAreIssued' BY TokensStep DEF RefreshInv
<1>2. CASE \E v \in Visitor : IssueSession(v) BY <1>1, <1>2, RefreshIssues
<1>3. CASE \E v \in Visitor : IssueFails(v) BY <1>1, <1>3, RefreshIssueFails
<1>4. CASE \E v \in Visitor, x \in Number : TakeRefresh(v, x) BY <1>1, <1>4, RefreshTakes
<1>5. CASE \/ \E v \in Visitor :
                 \/ (\E a \in Name : Login(v, a)) \/ Reject(v) \/ Reset(v)
                 \/ (\E t \in Number : Parse(v, t)) \/ Lookup(v) \/ Serve(v) \/ WsTicket(v)
                 \/ DropRefresh(v) \/ Revoke(v)
           \/ \E k \in 1..Len(issued) : ConsumeTicket(k)
           \/ Pass \/ UNCHANGED sessionVars
  BY <1>1, <1>5, RefreshAsideSteps
<1> QED BY <1>2, <1>3, <1>4, <1>5 DEF SessionsNext, LoginNext, TokenNext, Number

\* Logouts: what is taken out of the full table before its end leaves all those in it
\* that are good for longer.
Longer(t) == {u \in out \ {t} : AccessEnd(u) >= AccessEnd(t)}

KeptAtLeast == MaxRevoked - (MaxRevoked \div 8 + 1)

LogoutsHold ==
    \A t \in out : AccessEnd(t) >= now /\ t \notin revoked => Cardinality(Longer(t)) >= KeptAtLeast

LogoutInv ==
    /\ TokensAreIssued /\ IsFiniteSet(out) /\ Cardinality(revoked) <= MaxRevoked /\ LogoutsHold

LEMMA OutFacts ==
    ASSUME TokensAreIssued
    PROVE  /\ now \in Nat /\ revoked \subseteq out /\ out \subseteq Number
           /\ \A t \in Number : AccessEnd(t) \in Int
<1> SUFFICES ASSUME NEW t \in Number PROVE sessions[t].at + AccessTTL \in Int
  BY DEF TokensAreIssued, AccessEnd
<1>1. sessions[t] \in Session BY DEF TokensAreIssued, Number
<1> QED BY <1>1, SessionsAssumption DEF Session

\* One more token may be out: the others have no fewer that are good for longer.
LEMMA LongerGrows ==
    ASSUME TokensAreIssued, IsFiniteSet(out), NEW t \in out, IsFiniteSet(out'),
           out \subseteq out', \A u \in out : AccessEnd(u)' = AccessEnd(u),
           Cardinality(Longer(t)) >= KeptAtLeast
    PROVE  \A u \in out : u = t => Cardinality({w \in out' \ {u} : AccessEnd(w)' >= AccessEnd(u)'})
                                     >= KeptAtLeast
<1> SUFFICES Cardinality({w \in out' \ {t} : AccessEnd(w)' >= AccessEnd(t)}) >= KeptAtLeast
  OBVIOUS
<1> DEFINE L == Longer(t)
           M == {w \in out' \ {t} : AccessEnd(w)' >= AccessEnd(t)}
<1>1. L \subseteq M BY DEF Longer
<1>2. IsFiniteSet(M) BY FS_Subset
<1>3. L \subseteq out BY DEF Longer
<1> HIDE DEF L, M
<1>4. IsFiniteSet(L) BY <1>3, FS_Subset
<1>5. Cardinality(L) <= Cardinality(M) /\ Cardinality(L) \in Nat /\ Cardinality(M) \in Nat
  BY <1>1, <1>2, <1>4, FS_Subset, FS_CardinalityType
<1>6. KeptAtLeast \in Int BY SessionsAssumption DEF KeptAtLeast
<1>7. Cardinality(L) >= KeptAtLeast BY DEF L
<1>8. Cardinality(M) >= KeptAtLeast BY <1>5, <1>6, <1>7
<1> QED BY <1>8 DEF M

LEMMA LogoutAside ==
    ASSUME LogoutInv, TokensAreIssued', now' \in Nat, now' >= now, out' = out,
           \A t \in Number : sessions'[t] = sessions[t],
           revoked' \subseteq revoked,
           \A t \in revoked : AccessEnd(t) >= now => t \in revoked'
    PROVE  LogoutInv'
<1>0. TokensAreIssued /\ IsFiniteSet(out) BY DEF LogoutInv
<1>1. \A t \in out : AccessEnd(t)' = AccessEnd(t) /\ AccessEnd(t) \in Int
  BY <1>0, OutFacts DEF AccessEnd
<1>2. IsFiniteSet(revoked) BY <1>0, OutFacts, FS_Subset
<1>3. Cardinality(revoked') <= MaxRevoked
  <2>1. /\ IsFiniteSet(revoked') /\ Cardinality(revoked') <= Cardinality(revoked)
        /\ Cardinality(revoked) \in Nat /\ Cardinality(revoked') \in Nat
    BY <1>2, FS_Subset, FS_CardinalityType
  <2> QED BY <2>1, SessionsAssumption DEF LogoutInv
<1>4. LogoutsHold'
  <2> SUFFICES ASSUME NEW t \in out, AccessEnd(t) >= now', t \notin revoked'
               PROVE  Cardinality(Longer(t)) >= KeptAtLeast
    <3>1. \A t \in out : {u \in out \ {t} : AccessEnd(u)' >= AccessEnd(t)} = Longer(t)
      BY <1>1 DEF Longer
    <3> QED BY <1>1, <3>1 DEF LogoutsHold, Longer, KeptAtLeast
  <2>1. AccessEnd(t) >= now BY <1>0, <1>1, OutFacts
  <2> QED BY <2>1 DEF LogoutInv, LogoutsHold
<1> QED BY <1>0, <1>3, <1>4 DEF LogoutInv

LEMMA LogoutRevokes ==
    ASSUME LogoutInv, TokensAreIssued', NEW v \in Visitor, Revoke(v)
    PROVE  LogoutInv'
<1> USE DEF throttleVars
<1> DEFINE x == request[v].token
<1>0. /\ TokensAreIssued /\ IsFiniteSet(out) /\ Cardinality(revoked) <= MaxRevoked
      /\ request[v].at = "leaving"
  BY DEF LogoutInv, Revoke
<1>1. UNCHANGED <<now, sessions>> BY DEF Revoke
<1>2. x \in Number BY <1>0 DEF TokensAreIssued
<1>3. CASE UNCHANGED <<revoked, out>>
  BY <1>0, <1>1, <1>3, LogoutAside, OutFacts
<1>4. CASE ~UNCHANGED <<revoked, out>>
  <2>1. PICK D \in SUBSET revoked :
           /\ IF Cardinality(revoked) < MaxRevoked THEN D = {}
              ELSE Cardinality(D) = EvictionSize /\ Oldest(D, revoked \ D)
           /\ revoked' = (revoked \ D) \cup {x} /\ out' = out \cup {x}
    BY <1>4 DEF Revoke
  <2> HIDE DEF x
  <2>2. IsFiniteSet(revoked) BY <1>0, OutFacts, FS_Subset
  <2>3. /\ IsFiniteSet(D) /\ IsFiniteSet(revoked \ D)
        /\ Cardinality(revoked \ D) = Cardinality(revoked) - Cardinality(D)
        /\ Cardinality(revoked) \in Nat /\ Cardinality(D) \in Nat
    <3>1. IsFiniteSet(D) BY <2>2, FS_Subset
    <3>2. revoked \cap D = D OBVIOUS
    <3> QED BY <2>2, <3>1, <3>2, FS_Difference, FS_CardinalityType
  <2>4. IsFiniteSet(out') BY <1>0, <2>1, FS_AddElement
  <2>5. /\ Cardinality(revoked \ D) <= MaxRevoked - 1
        /\ D # {} => Cardinality(revoked \ D) = KeptAtLeast
    <3>1. CASE Cardinality(revoked) < MaxRevoked
      <4>1. D = {} BY <2>1, <3>1
      <4> QED BY <2>3, <3>1, <4>1, SessionsAssumption, FS_EmptySet
    <3>2. CASE ~(Cardinality(revoked) < MaxRevoked)
      <4>1. Cardinality(revoked) = MaxRevoked BY <1>0, <2>3, <3>2, SessionsAssumption
      <4>2. Cardinality(D) = MaxRevoked \div 8 + 1 BY <2>1, <3>2, <4>1 DEF EvictionSize
      <4> QED BY <2>3, <4>1, <4>2, SessionsAssumption DEF KeptAtLeast
    <3> QED BY <3>1, <3>2
  <2>6. Cardinality(revoked') <= MaxRevoked
    <3> DEFINE S == revoked \ D
    <3>1. IsFiniteSet(S) /\ Cardinality(S) \in Nat BY <2>3, FS_CardinalityType
    <3> HIDE DEF S
    <3>2. Cardinality(S \cup {x}) \in {Cardinality(S), Cardinality(S) + 1}
      BY <3>1, FS_AddElement
    <3>3. Cardinality(revoked') \in {Cardinality(S), Cardinality(S) + 1} BY <2>1, <3>2 DEF S
    <3>4. Cardinality(S) <= MaxRevoked - 1 BY <2>5 DEF S
    <3> QED BY <3>1, <3>3, <3>4, SessionsAssumption
  <2>7. \A t : AccessEnd(t)' = AccessEnd(t) BY <1>1 DEF AccessEnd
  <2>8. ASSUME NEW t \in out', AccessEnd(t) >= now, t \notin revoked'
        PROVE  Cardinality({w \in out' \ {t} : AccessEnd(w)' >= AccessEnd(t)'}) >= KeptAtLeast
    <3>1. t \in out /\ t # x BY <2>1, <2>8
    <3>2. Cardinality(Longer(t)) >= KeptAtLeast
      <4>1. CASE t \notin revoked BY <2>8, <3>1, <4>1 DEF LogoutInv, LogoutsHold
      <4>2. CASE t \in revoked
        <5>1. t \in D BY <2>1, <2>8, <4>2
        <5>2. Oldest(D, revoked \ D)
          <6>1. D # {} BY <5>1
          <6> QED BY <2>1, <6>1
        <5>3. revoked \ D \subseteq Longer(t)
          <6> SUFFICES ASSUME NEW u \in revoked \ D PROVE u \in Longer(t) OBVIOUS
          <6>1. AccessEnd(t) <= AccessEnd(u) BY <5>1, <5>2 DEF Oldest
          <6>2. AccessEnd(t) \in Int /\ AccessEnd(u) \in Int BY <1>0, <3>1, OutFacts
          <6>3. u # t /\ u \in out BY <1>0, <5>1, OutFacts
          <6> QED BY <6>1, <6>2, <6>3 DEF Longer
        <5>4. IsFiniteSet(Longer(t)) BY <1>0, FS_Subset DEF Longer
        <5>5. Cardinality(revoked \ D) <= Cardinality(Longer(t)) BY <5>3, <5>4, FS_Subset
        <5>6. Cardinality(revoked \ D) = KeptAtLeast BY <2>5, <5>1
        <5>7. Cardinality(Longer(t)) \in Nat /\ Cardinality(revoked \ D) \in Nat
          BY <2>3, <5>4, FS_CardinalityType
        <5> QED BY <5>5, <5>6, <5>7
      <4> QED BY <4>1, <4>2
    <3>3. out \subseteq out' BY <2>1
    <3> QED BY <1>0, <2>4, <2>7, <3>1, <3>2, <3>3, LongerGrows
  <2>9. LogoutsHold' BY <1>1, <2>7, <2>8 DEF LogoutsHold, Longer, KeptAtLeast
  <2> QED BY <2>4, <2>6, <2>9 DEF LogoutInv
<1> QED BY <1>3, <1>4

LEMMA LogoutInvInit == SessionsInit => LogoutInv
<1> SUFFICES ASSUME SessionsInit PROVE LogoutInv OBVIOUS
<1>1. out = {} /\ revoked = {} BY DEF SessionsInit
<1> QED BY <1>1, TokensInit, FS_EmptySet, SessionsAssumption DEF LogoutInv, LogoutsHold

LEMMA LogoutInvStep == LogoutInv /\ [SessionsNext]_sessionVars => LogoutInv'
<1> SUFFICES ASSUME LogoutInv, [SessionsNext]_sessionVars PROVE LogoutInv' OBVIOUS
<1> USE DEF tableVars, throttleVars
<1>0. TokensAreIssued /\ TokensAreIssued' BY TokensStep DEF LogoutInv
<1>1. /\ now \in Nat /\ sessions \in Seq(Session) /\ request \in [Visitor -> Request]
      /\ Len(sessions) \in Nat
  BY <1>0 DEF TokensAreIssued
<1>2. CASE \E v \in Visitor : Revoke(v) BY <1>0, <1>2, LogoutRevokes
<1>3. ASSUME NEW v \in Visitor, IssueSession(v) PROVE LogoutInv'
  <2>1. /\ request[v].at = "welcome"
        /\ sessions' = Append(sessions, [at |-> now, parent |-> request[v].parent])
        /\ UNCHANGED <<now, out>>
    BY <1>3 DEF IssueSession
  <2>2. [at |-> now, parent |-> request[v].parent] \in Session
    <3>1. request[v] \in [at : {"welcome"}, parent : SUBSET Nat] BY <1>1, <2>1 DEF Request
    <3> QED BY <1>1, <3>1 DEF Session
  <2>3. \A t \in Number : sessions'[t] = sessions[t] BY <1>1, <2>1, <2>2 DEF Number
  <2>4. /\ revoked' \subseteq revoked
        /\ \A t \in revoked : AccessEnd(t) >= now => t \in revoked'
    BY <1>3 DEF IssueSession, Sweep
  <2>5. now' \in Nat /\ now' >= now /\ out' = out BY <1>1, <2>1
  <2> QED BY <2>3, <2>4, <2>5, <1>0, LogoutAside
<1>4. CASE Pass \/ UNCHANGED sessionVars
  <2>1. UNCHANGED <<sessions, out, revoked>> /\ (now' = now \/ now' = now + 1)
    BY <1>4 DEF Pass, sessionVars
  <2>2. now' \in Nat /\ now' >= now BY <1>1, <2>1
  <2> QED BY <1>0, <2>1, <2>2, LogoutAside
<1>5. ASSUME NEW v \in Visitor, Lookup(v) PROVE LogoutInv'
  <2>1. /\ UNCHANGED <<now, sessions, out>>
        /\ request[v].at = "parsed"
        /\ revoked' = IF AccessEnd(request[v].token) < now THEN revoked \ {request[v].token}
                      ELSE revoked
    BY <1>5 DEF Lookup
  <2>2. \A t \in revoked : AccessEnd(t) \in Int BY <1>0, OutFacts
  <2>3. \A t \in revoked : AccessEnd(t) >= now => t \in revoked' BY <1>1, <2>1, <2>2
  <2>4. now' >= now /\ revoked' \subseteq revoked BY <1>1, <2>1
  <2> QED BY <1>0, <1>1, <2>1, <2>3, <2>4, LogoutAside
<1>6. ASSUME UNCHANGED <<now, sessions, out>>,
             \/ revoked' = revoked
             \/ revoked' = {t \in revoked : AccessEnd(t) >= now}
      PROVE  LogoutInv'
  <2>1. revoked' \subseteq revoked /\ \A t \in revoked : AccessEnd(t) >= now => t \in revoked'
    BY <1>6
  <2>2. now' >= now BY <1>1, <1>6
  <2> QED BY <1>0, <1>1, <1>6, <2>1, <2>2, LogoutAside
<1>7. CASE \E v \in Visitor : (\E s \in 1..Len(sessions) : TakeRefresh(v, s)) \/ WsTicket(v)
  BY <1>6, <1>7 DEF TakeRefresh, WsTicket, Sweep
<1>8. CASE \/ \E v \in Visitor :
                 \/ (\E a \in Name : Login(v, a)) \/ Reject(v) \/ Reset(v) \/ IssueFails(v)
                 \/ (\E s \in 1..Len(sessions) : Parse(v, s)) \/ Serve(v) \/ DropRefresh(v)
           \/ \E k \in 1..Len(issued) : ConsumeTicket(k)
  BY <1>6, <1>8 DEF Login, Reject, Reset, IssueFails, Parse, Serve, DropRefresh, ConsumeTicket
<1> QED BY <1>2, <1>3, <1>4, <1>5, <1>7, <1>8 DEF SessionsNext, LoginNext, TokenNext

\* For any limits, however many requests are at it: a refresh token is exchanged once at
\* most, and good to its end exactly while nobody has exchanged it or given it up; a
\* ticket lets in once; an access token logged out stays refused unless the full table
\* held enough others that are good for longer.
THEOREM TheSpentStaysSpent == SessionsSpec => []SpentStaysSpent
<1> DEFINE Inv == RefreshInv /\ TicketInv /\ LogoutInv
<1>1. SessionsInit => Inv
  <2>1. SessionsInit => TicketInv BY DEF SessionsInit, TicketInv
  <2> QED BY <2>1, RefreshInvInit, LogoutInvInit
<1>2. Inv /\ [SessionsNext]_sessionVars => Inv'
  BY RefreshInvStep, TicketInvStep, LogoutInvStep DEF RefreshInv
<1>3. Inv => SpentStaysSpent
  <2> SUFFICES ASSUME Inv PROVE SpentStaysSpent OBVIOUS
  <2>1. ASSUME NEW r \in Number PROVE Exchanges(r) = {} <=> ~Spent(r)
    BY DEF Exchanges, Spent, Made, InHand
  <2>2. ASSUME NEW r \in Number PROVE Cardinality(Exchanges(r)) <= 1
    <3>1. \A s, t \in Exchanges(r) : s = t
      BY DEF RefreshInv, ExchangedOnce, Exchanges, Made, InHand
    <3>2. CASE Exchanges(r) = {} BY <3>2, FS_EmptySet
    <3>3. CASE Exchanges(r) # {}
      <4>1. PICK s : Exchanges(r) = {s} BY <3>1, <3>3
      <4> QED BY <4>1, FS_Singleton
    <3> QED BY <3>2, <3>3
  <2>3. ASSUME NEW r \in Number, RefreshEnd(r) >= now
        PROVE  r \in refresh <=> r \notin dropped /\ Exchanges(r) = {}
    BY <2>1, <2>3 DEF RefreshInv, RefreshIsTrue
  <2>4. \A k \in 1..Len(issued) : admitted[k] <= 1 BY DEF TicketInv
  <2>5. /\ Cardinality(revoked) <= MaxRevoked
        /\ \A t \in out : AccessEnd(t) >= now /\ t \notin revoked =>
             Cardinality({u \in out \ {t} : AccessEnd(u) >= AccessEnd(t)})
               >= MaxRevoked - (MaxRevoked \div 8 + 1)
    BY DEF LogoutInv, LogoutsHold, Longer, KeptAtLeast
  <2> HIDE DEF Inv
  <2> QED BY <2>2, <2>3, <2>4, <2>5 DEF SpentStaysSpent
<1> HIDE DEF Inv
<1> QED BY <1>1, <1>2, <1>3, PTL DEF SessionsSpec
=============================================================================
