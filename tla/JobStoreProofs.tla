--------------------------- MODULE JobStoreProofs ---------------------------
(* What JobStore proves for every set of jobs and every retention policy.  *)
EXTENDS JobStore, TLAPS

\* A flush in progress holds the map as it is now (the lock keeps writers out),
\* and the map is still marked; outside a flush the mark tells the truth.
FlushInv ==
    /\ tmp # None => /\ dirty /\ tmp = data
                     /\ phase # "off"
    /\ CleanIsDurable

\* The steps that change neither the map, nor the mark, nor the files.
Quiet == /\ UNCHANGED <<data, dirty, tmp, file>>
         /\ phase = "off" <=> phase' = "off"

LEMMA QuietKeeps == FlushInv /\ Quiet => FlushInv'
BY DEF FlushInv, CleanIsDurable, Quiet

LEMMA FlushStep == FlushInv /\ [Next]_vars => FlushInv'
<1> SUFFICES ASSUME FlushInv, [Next]_vars PROVE FlushInv'
    OBVIOUS
<1> USE DEF FlushInv, CleanIsDurable
<1>1. CASE Open
      BY <1>1 DEF Open
<1>2. CASE End
      BY <1>2 DEF End
<1>3. CASE SetLimit \/ SetTTL \/ Tick \/ Close \/ LoopLeaves \/ CloseClean
      BY <1>3, QuietKeeps DEF Quiet, SetLimit, SetTTL, Tick, Close, LoopLeaves,
         CloseClean, memVars, policyVars
<1>4. ASSUME NEW i \in Id, Delete(i) PROVE FlushInv'
      BY <1>4 DEF Delete, Locked
<1>5. ASSUME NEW i \in Id, NEW s \in Snapshot, Write(i, s) PROVE FlushInv'
      BY <1>5 DEF Write, Locked
<1>6. CASE FlushWrite
      BY <1>6 DEF FlushWrite, Flusher, memVars
<1>7. CASE FlushFails
      BY <1>7 DEF FlushFails, Flusher, memVars
<1>8. CASE FlushRename
      BY <1>8 DEF FlushRename
<1>9. CASE UNCHANGED vars
      BY <1>9, QuietKeeps DEF Quiet, vars, memVars
<1>10. QED
      BY <1>1, <1>2, <1>3, <1>4, <1>5, <1>6, <1>7, <1>8, <1>9 DEF Next, Flush

\* flushLocked: whatever is written, deleted, trimmed or fails to be flushed, in
\* any order and for any number of jobs, a map that is not marked dirty is in
\* the file.
THEOREM FlushKeepsPromise == Spec => []CleanIsDurable
<1>1. Init => FlushInv
      BY DEF Init, FlushInv, CleanIsDurable
<1>2. FlushInv => CleanIsDurable
      BY DEF FlushInv
<1>3. QED
      BY <1>1, <1>2, FlushStep, PTL DEF Spec

\* Every variable keeps its type.
LEMMA TypeStep == TypeOK /\ FlushInv /\ [Next]_vars => TypeOK'
<1> SUFFICES ASSUME TypeOK, FlushInv, [Next]_vars PROVE TypeOK'
    OBVIOUS
<1> USE StoreAssumption DEF TypeOK
<1>1. CASE Open
  <2>1. PICK p \in Policies : limit' = p[1] /\ ttl' = p[2]
        BY <1>1 DEF Open
  <2>2. p[1] \in Int /\ p[2] \in Nat
        OBVIOUS
  <2>3. QED
        BY <1>1, <2>1, <2>2 DEF Open, FlushInv
<1>2. CASE End
  <2>1. data' \in [Id -> Snapshot \cup {None}]
        BY <1>2 DEF End, Empty
  <2>2. limit' \in Int /\ ttl' \in Nat
        BY <1>2 DEF End
  <2>3. newTTL' \in Nat \cup {None} /\ tmp' = None
        BY <1>2, Zenon DEF End
  <2>4. phase' = "off" /\ dirty' = FALSE /\ UNCHANGED <<file, clock, failures>>
        BY <1>2 DEF End
  <2>5. QED
        BY <2>1, <2>2, <2>3, <2>4
<1>3. CASE SetLimit
  <2>1. PICK p \in Policies : limit' = p[1] /\ newTTL' = p[2]
        BY <1>3 DEF SetLimit
  <2>2. p[1] \in Int /\ p[2] \in Nat
        OBVIOUS
  <2>3. QED
        BY <1>3, <2>1, <2>2 DEF SetLimit, memVars
<1>4. CASE SetTTL \/ Tick
      BY <1>4 DEF SetTTL, Tick, Time, memVars, policyVars
<1>5. ASSUME NEW i \in Id, Delete(i) PROVE TypeOK'
      BY <1>5 DEF Delete, Locked, policyVars
<1>6. ASSUME NEW i \in Id, NEW s \in Snapshot, Write(i, s) PROVE TypeOK'
  <2>1. data' \in [Id -> Snapshot \cup {None}]
    <3> DEFINE d == [data EXCEPT ![i] = s]
    <3>1. d \in [Id -> Snapshot \cup {None}]
          OBVIOUS
    <3> HIDE DEF d
    <3>2. \/ data' = d
          \/ \E keep \in SUBSET Id :
                data' = [k \in Id |-> IF k \in Finished(d) \ keep THEN None ELSE d[k]]
          BY <1>6 DEF Write, d
    <3>3. QED
          BY <3>1, <3>2
  <2>2. QED
        BY <1>6, <2>1 DEF Write, Locked, policyVars
<1>7. CASE FlushWrite \/ FlushFails \/ FlushRename
  <2>1. CASE FlushWrite
        BY <2>1 DEF FlushWrite, memVars, policyVars
  <2>2. CASE FlushFails
        BY <2>2 DEF FlushFails, Flusher, memVars, policyVars
  <2>3. CASE FlushRename
        BY <2>3 DEF FlushRename, policyVars
  <2>4. QED
        BY <1>7, <2>1, <2>2, <2>3
<1>8. CASE Close \/ LoopLeaves \/ CloseClean
      BY <1>8 DEF Close, LoopLeaves, CloseClean, memVars, policyVars
<1>9. CASE UNCHANGED vars
      BY <1>9 DEF vars, memVars, policyVars
<1>10. QED
      BY <1>1, <1>2, <1>3, <1>4, <1>5, <1>6, <1>7, <1>8, <1>9 DEF Next, Flush

\* Without a process there is no map: what Open finds is in the file.
NoMapWhenOff == phase = "off" => data = Empty

LEMMA NoMapStep == NoMapWhenOff /\ [Next]_vars => NoMapWhenOff'
<1> SUFFICES ASSUME NoMapWhenOff, [Next]_vars PROVE NoMapWhenOff'
    OBVIOUS
<1>1. CASE Open \/ End
      BY <1>1 DEF Open, End, NoMapWhenOff
<1>2. CASE SetLimit \/ SetTTL \/ Tick \/ Close \/ LoopLeaves \/ CloseClean \/ FlushWrite
           \/ FlushFails \/ FlushRename
      BY <1>2 DEF NoMapWhenOff, SetLimit, SetTTL, Tick, Close, LoopLeaves, CloseClean,
         FlushWrite, FlushFails, FlushRename, Flusher, memVars
<1>3. ASSUME NEW i \in Id, NEW s \in Snapshot, Delete(i) \/ Write(i, s)
      PROVE  NoMapWhenOff'
      BY <1>3 DEF Delete, Write, Locked, NoMapWhenOff
<1>4. CASE UNCHANGED vars
      BY <1>4 DEF vars, memVars, NoMapWhenOff
<1>5. ASSUME NEW i \in Id, Delete(i)
      PROVE  NoMapWhenOff'
      BY <1>5 DEF Delete, Locked, NoMapWhenOff
<1>6. QED
      BY <1>1, <1>2, <1>3, <1>4, <1>5 DEF Next, Flush

LEMMA FinishedAt ==
    ASSUME NEW d \in [Id -> Snapshot \cup {None}], NEW i \in Finished(d)
    PROVE  i \in Id /\ d[i] \in Snapshot /\ d[i].at \in Int
<1>1. i \in Id /\ d[i] \in Snapshot /\ d[i].status = "success"
      BY DEF Finished
<1>2. d[i].at \in Time
      BY <1>1 DEF Snapshot
<1>3. QED
      BY <1>1, <1>2, StoreAssumption DEF Time

\* What a write drops is finished, and no older one is kept.
LEMMA WriteDropsOldest ==
    ASSUME TypeOK, NEW k \in Id, NEW s \in Snapshot, Write(k, s),
           NEW i \in Id, data[i] # None, data'[i] = None
    PROVE  LET written == [data EXCEPT ![k] = s] IN
           /\ i \in Finished(written)
           /\ \A j \in Finished(data') : data'[j].at >= written[i].at
<1> DEFINE written == [data EXCEPT ![k] = s]
<1>1. written \in [Id -> Snapshot \cup {None}] /\ written[i] # None
      BY StoreAssumption DEF TypeOK
<1>2. data' # written
      BY <1>1
<1>3. PICK keep \in SUBSET Id :
         /\ Retained(written, keep)
         /\ data' = [x \in Id |-> IF x \in Finished(written) \ keep THEN None ELSE written[x]]
      BY <1>2 DEF Write
<1> HIDE DEF written
<1>4. i \in Finished(written) \ keep
      BY <1>1, <1>3
<1>5. ASSUME NEW j \in Finished(data')
      PROVE  data'[j].at >= written[i].at
  <2>1. j \in Id /\ data'[j] # None /\ data'[j].status = "success"
        BY <1>5 DEF Finished
  <2>2. data'[j] = written[j] /\ j \in keep
        BY <1>3, <2>1 DEF Finished
  <2>3. j \in Finished(written) \ Expired(written)
        BY <1>3, <2>2 DEF Retained
  <2>4. CASE i \notin Expired(written)
        BY <1>3, <1>4, <2>2, <2>4 DEF Retained
  <2>5. CASE i \in Expired(written)
    <3>1. /\ ~(limit < 0) /\ ~(ttl > 0 /\ clock - written[j].at > ttl)
          /\ ttl > 0 /\ clock - written[i].at > ttl
          BY <2>3, <2>5 DEF Expired
    <3>2. written[i].at \in Int /\ written[j].at \in Int /\ clock \in Int /\ ttl \in Int
          BY <1>1, <1>4, <2>3, FinishedAt, StoreAssumption DEF TypeOK, Time
    <3>3. written[j].at >= written[i].at
          BY <3>1, <3>2
    <3>4. QED
          BY <2>2, <3>3
  <2>6. QED
        BY <2>4, <2>5
<1>6. QED
      BY <1>4, <1>5 DEF written

\* trimTerminalLocked: while a process lives, a snapshot disappears by Delete or by the
\* write of a finished one, only if it is finished itself, and never while an older one
\* stays; for any number of jobs, any retention and any change of it.
THEOREM TrimTakesOldest == Spec => OldestGoFirst
<1> DEFINE Inv == TypeOK /\ FlushInv /\ NoMapWhenOff
           Trims == phase' # "off" =>
              \A i \in Id : data[i] # None /\ data'[i] = None =>
                 \/ Delete(i)
                 \/ \E k \in Id, s \in Snapshot :
                       LET written == [data EXCEPT ![k] = s] IN
                       /\ Write(k, s) /\ i \in Finished(written)
                       /\ \A j \in Finished(data') : data'[j].at >= written[i].at
<1>1. Init => Inv
  <2>1. Init => Empty \in [Id -> Snapshot \cup {None}]
        BY DEF Empty
  <2>2. Init => limit \in Int /\ ttl \in Nat /\ clock \in Time /\ failures \in 0..MaxFailures
        BY StoreAssumption DEF Init, Time
  <2>3. Init => newTTL \in Nat \cup {None} /\ tmp = None
        BY Zenon DEF Init
  <2>4. Init => TypeOK
        BY <2>1, <2>2, <2>3 DEF Init, TypeOK
  <2>5. QED
        BY <2>4 DEF Init, FlushInv, CleanIsDurable, NoMapWhenOff
<1>2. Inv /\ [Next]_vars => Inv'
      BY TypeStep, FlushStep, NoMapStep
<1>3. Inv /\ [Next]_vars => [Trims]_vars
  <2> SUFFICES ASSUME TypeOK, NoMapWhenOff, Next, phase' # "off",
                      NEW i \in Id, data[i] # None, data'[i] = None
               PROVE  \/ Delete(i)
                      \/ \E k \in Id, s \in Snapshot :
                            LET written == [data EXCEPT ![k] = s] IN
                            /\ Write(k, s) /\ i \in Finished(written)
                            /\ \A j \in Finished(data') : data'[j].at >= written[i].at
      OBVIOUS
  <2>1. CASE Open
        BY <2>1 DEF Open, NoMapWhenOff, Empty
  <2>2. CASE End
        BY <2>2 DEF End
  <2>3. CASE SetLimit \/ SetTTL \/ Tick \/ Close \/ Flush \/ FlushFails
        BY <2>3 DEF SetLimit, SetTTL, Tick, Close, Flush, LoopLeaves, CloseClean, FlushWrite,
           FlushFails, FlushRename, memVars
  <2>4. ASSUME NEW k \in Id, Delete(k)
        PROVE  Delete(i)
    <3>1. k = i
          BY <2>4 DEF Delete, TypeOK
    <3>2. QED
          BY <2>4, <3>1
  <2>5. ASSUME NEW k \in Id, NEW s \in Snapshot, Write(k, s)
        PROVE  \E x \in Id, t \in Snapshot :
                  LET written == [data EXCEPT ![x] = t] IN
                  /\ Write(x, t) /\ i \in Finished(written)
                  /\ \A j \in Finished(data') : data'[j].at >= written[i].at
        BY <2>5, WriteDropsOldest
  <2>6. QED
        BY <2>1, <2>2, <2>3, <2>4, <2>5 DEF Next
<1>4. QED
      BY <1>1, <1>2, <1>3, PTL DEF Spec, OldestGoFirst
=============================================================================
