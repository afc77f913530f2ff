-------------------------- MODULE ConfigWatcherProofs --------------------------
(******************************************************************************)
(* What the runs of ConfigWatcher and ReloadChain check on three saves of     *)
(* seven files, for any files, values, deployment and number of saves.        *)
(******************************************************************************)
EXTENDS ConfigWatcher, SequenceTheorems, TLAPS

\* What each part keeps of the types, the chain apart.
FileOK ==
    /\ file \in Content /\ version \in 0..MaxWrites
    /\ saving \in Content \cup {NoContent}
    /\ events \in Nat

LoopOK ==
    /\ loop \in {"new", "run", "leaving", "sweeping", "done"}
    /\ closed \in BOOLEAN /\ fsClosed \in BOOLEAN /\ main \in MainStep

TimersOK ==
    /\ slot \in 0..seq /\ seq \in Nat
    /\ ticking \subseteq Gen
    /\ fired \in [Gen -> 0..2]

CallOK == call \in [Gen -> CallStep] /\ holder \in {0} \cup Gen

ReportOK == report \in [result : Results, seen : 0..MaxWrites, fault : BOOLEAN]

\* Every generation that was given out has used up one event, and every event a write.
EventsAreCounted == seq + events <= version

\* A timer whose callback is on its way has stopped running.
FiredAreOver == \A g \in Gen : fired[g] > 0 => g <= seq /\ g \notin ticking

\* While steps are applied, every changed key that has a target is ahead or behind, and
\* what is in force is the candidate's value for those behind, the old one for the rest.
PlanCovers ==
    chain.pc = "apply" =>
        \A k \in Available : k \in Changed(chain.cand) =>
            k \in chain.plan \/ k \in ToSet(chain.done)

LiveIsMixed ==
    chain.pc = "apply" /\ ~degraded =>
        \A k \in Available :
            live[k] = IF k \in ToSet(chain.done) THEN chain.cand[k] ELSE applied[k]

\* While they are undone, a key that is not on the stack is back at the old value,
\* unless a setter has refused it.
UndoneIsBack ==
    chain.pc = "undo" /\ chain.clean /\ ~degraded =>
        \A k \in Available : k \notin ToSet(chain.done) => live[k] = applied[k]

LiveIsApplied ==
    chain.pc \in {"free", "load", "return"} /\ ~degraded =>
        \A k \in Available : live[k] = applied[k]

\* Stop waits for the mutex: after it, a reload can only hand back the empty answer.
StoppedIsQuiet == stopped => chain.pc \in {"free", "return"}

\* What a reload has read is not older than what the last one reported.
SeenIsNewer ==
    /\ chain.seen <= version /\ report.seen <= version
    /\ chain.pc \in {"apply", "undo", "return"} => chain.seen >= report.seen \/ stopped

ChainInv ==
    /\ ChainTypeOK /\ PlanCovers /\ LiveIsMixed /\ UndoneIsBack /\ LiveIsApplied
    /\ StoppedIsQuiet

WatcherInv ==
    /\ FileOK /\ LoopOK /\ TimersOK /\ CallOK /\ ReportOK
    /\ EventsAreCounted /\ FiredAreOver /\ TimersAreOwned /\ SeenIsNewer
--------------------------------------------------------------------------------
(* Sequences as stacks. *)

LEMMA PushedIsIn ==
    ASSUME NEW S, NEW s \in Seq(S), NEW e \in S
    PROVE  Append(s, e) \in Seq(S) /\ ToSet(Append(s, e)) = ToSet(s) \cup {e}
<1>1. /\ Append(s, e) \in Seq(S) /\ Len(Append(s, e)) = Len(s) + 1
      /\ \A i \in 1..Len(s) : Append(s, e)[i] = s[i]
      /\ Append(s, e)[Len(s) + 1] = e
  BY AppendProperties
<1>2. /\ DOMAIN s = 1..Len(s) /\ Len(s) \in Nat
      /\ DOMAIN Append(s, e) = 1..(Len(s) + 1)
  BY <1>1, LenProperties
<1>3. \A x \in ToSet(Append(s, e)) : x \in ToSet(s) \cup {e}
  BY <1>1, <1>2 DEF ToSet
<1>4. \A x \in ToSet(s) \cup {e} : x \in ToSet(Append(s, e))
  BY <1>1, <1>2 DEF ToSet
<1>5. QED  BY <1>1, <1>3, <1>4

LEMMA PoppedIsOut ==
    ASSUME NEW S, NEW s \in Seq(S), s # <<>>
    PROVE  /\ Front(s) \in Seq(S) /\ Last(s) \in S
           /\ \A x \in ToSet(s) : x \in ToSet(Front(s)) \/ x = Last(s)
<1>1. Len(s) \in Nat \ {0} /\ DOMAIN s = 1..Len(s)
  BY EmptySeq, LenProperties
<1>2. Last(s) \in S
  BY <1>1, ElementOfSeq DEF Last
<1>3. /\ Front(s) \in Seq(S) /\ Len(Front(s)) = Len(s) - 1
      /\ \A i \in 1..(Len(s) - 1) : Front(s)[i] = s[i]
  BY <1>1, SubSeqProperties DEF Front
<1>4. DOMAIN Front(s) = 1..(Len(s) - 1)
  BY <1>3, LenProperties
<1>5. ASSUME NEW x \in ToSet(s), x # Last(s)
      PROVE  x \in ToSet(Front(s))
  <2>1. PICK i \in 1..Len(s) : x = s[i]
    BY <1>1 DEF ToSet
  <2>2. i \in 1..(Len(s) - 1)
    BY <2>1, <1>1, <1>5 DEF Last
  <2>3. QED  BY <2>1, <2>2, <1>3, <1>4 DEF ToSet
<1>6. QED  BY <1>2, <1>3, <1>5

LEMMA EmptyHasNone == \A x : x \notin ToSet(<<>>)
  BY DEF ToSet
--------------------------------------------------------------------------------
(* Configurations. *)

LEMMA HotIsKey == Hot \subseteq Key /\ Available \subseteq Hot
  BY ChainAssumption DEF Key

LEMMA SettingsAreSet ==
    ASSUME NEW c \in [Key -> Nat] PROVE Settings(c) \in [Key -> Nat \ {Unset}]
<1>1. Merged(c) \in [Key -> Nat]
  BY ChainAssumption DEF Merged
<1>2. QED
  BY <1>1, ChainAssumption DEF Settings, Normalized

LEMMA ContentIsRead ==
    ASSUME NEW f \in Content PROVE f.cfg \in [Key -> Nat]
<1>1. Silent \in [Key -> Nat]
  BY DEF Silent, Unset
<1>2. QED
  BY <1>1, ChainAssumption DEF Content, Values, Blank, Broken

ChainRecord ==
    [pc : ChainStep, cand : [Key -> Nat \ {Unset}], plan : SUBSET Hot, done : Seq(Hot),
     clean : BOOLEAN, seen : Nat, result : Results]

LEMMA FreeIsRecord == Free \in ChainRecord /\ Free.pc = "free" /\ Free.seen = 0
<1>1. Defaults \in [Key -> Nat \ {Unset}] /\ <<>> \in Seq(Hot)
  BY ChainAssumption, EmptySeq
<1>2. QED  BY <1>1 DEF ChainRecord, Free, ChainStep, Results

LEMMA AnswerIsRecord ==
    ASSUME NEW r \in Results, NEW n \in Nat
    PROVE  /\ Return(r, n) \in ChainRecord
           /\ Return(r, n).pc = "return" /\ Return(r, n).seen = n
<1>1. "return" \in ChainStep
  BY DEF ChainStep
<1>2. QED  BY <1>1, FreeIsRecord DEF ChainRecord, Return

LEMMA LoadIsRecord ==
    /\ [Free EXCEPT !.pc = "load"] \in ChainRecord
    /\ [Free EXCEPT !.pc = "load"].pc = "load" /\ [Free EXCEPT !.pc = "load"].seen = 0
<1>1. "load" \in ChainStep
  BY DEF ChainStep
<1>2. QED  BY <1>1, FreeIsRecord DEF ChainRecord
--------------------------------------------------------------------------------
(* The chain, step by step. *)

ChainUses == ChainInv /\ FileOK /\ SeenIsNewer

\* A step of the chain that hands back an answer with everything in its place.
LEMMA AnswerKeeps ==
    ASSUME ChainInv, NEW r \in Results, NEW n \in Nat, chain' = Return(r, n),
           applied' \in [Key -> Nat \ {Unset}], live' = live, stopped' = stopped,
           degraded' \in BOOLEAN,
           ~degraded' => \A k \in Available : live[k] = applied'[k]
    PROVE  ChainInv'
<1>1. chain' \in ChainRecord /\ chain'.pc = "return"
  BY AnswerIsRecord
<1>2. ChainTypeOK'
  BY <1>1 DEF ChainInv, ChainTypeOK, ChainRecord
<1>3. PlanCovers' /\ LiveIsMixed' /\ UndoneIsBack' /\ StoppedIsQuiet'
  BY <1>1 DEF PlanCovers, LiveIsMixed, UndoneIsBack, StoppedIsQuiet
<1>4. LiveIsApplied'
  BY DEF LiveIsApplied
<1>5. QED  BY <1>2, <1>3, <1>4 DEF ChainInv

LEMMA BeginKeeps == ChainUses /\ Begin => ChainInv'
<1> SUFFICES ASSUME ChainUses, Begin PROVE ChainInv'
  OBVIOUS
<1>1. /\ chain.pc = "free" /\ applied' = applied /\ live' = live
      /\ stopped' = stopped /\ degraded' = degraded
  BY DEF Begin
<1>2. /\ applied \in [Key -> Nat \ {Unset}] /\ degraded \in BOOLEAN
      /\ version \in Nat
  BY WatcherAssumption DEF ChainUses, ChainInv, ChainTypeOK, FileOK
<1>3. ~degraded => \A k \in Available : live[k] = applied[k]
  BY <1>1 DEF ChainUses, ChainInv, LiveIsApplied
<1>4. CASE chain' = [Free EXCEPT !.pc = "load"] /\ ~stopped
  <2>1. chain' \in ChainRecord /\ chain'.pc = "load"
    BY <1>4, LoadIsRecord
  <2>2. ChainTypeOK'
    BY <1>1, <2>1 DEF ChainUses, ChainInv, ChainTypeOK, ChainRecord
  <2>3. PlanCovers' /\ LiveIsMixed' /\ UndoneIsBack' /\ StoppedIsQuiet'
    BY <1>1, <1>4, <2>1 DEF PlanCovers, LiveIsMixed, UndoneIsBack, StoppedIsQuiet
  <2>4. LiveIsApplied'
    BY <1>1, <1>3 DEF LiveIsApplied
  <2>5. QED  BY <2>2, <2>3, <2>4 DEF ChainInv
<1>5. CASE chain' = Return("none", 0)
  BY <1>1, <1>2, <1>3, <1>5, AnswerKeeps DEF ChainUses, Results
<1>6. CASE chain' = Return("rejected", version)
  BY <1>1, <1>2, <1>3, <1>6, AnswerKeeps DEF ChainUses, Results
<1>7. QED  BY <1>4, <1>5, <1>6 DEF Begin

LEMMA LoadKeeps == ChainUses /\ LoadAndDiff => ChainInv'
<1> SUFFICES ASSUME ChainUses, LoadAndDiff PROVE ChainInv'
  OBVIOUS
<1> DEFINE read == Settings(file.cfg)
           begun == [Free EXCEPT !.pc = "apply", !.cand = read, !.plan = Plan(read),
                                 !.seen = version]
<1>1. /\ chain.pc = "load" /\ applied' = applied /\ live' = live
      /\ stopped' = stopped /\ degraded' = degraded
  BY DEF LoadAndDiff
<1>2. /\ applied \in [Key -> Nat \ {Unset}] /\ degraded \in BOOLEAN
      /\ version \in Nat
  BY WatcherAssumption DEF ChainUses, ChainInv, ChainTypeOK, FileOK
<1>3. ~degraded => \A k \in Available : live[k] = applied[k]
  BY <1>1 DEF ChainUses, ChainInv, LiveIsApplied
<1>4. CASE chain' = begun
  <2>1. read \in [Key -> Nat \ {Unset}] /\ Plan(read) \subseteq Hot
    BY ContentIsRead, SettingsAreSet DEF ChainUses, FileOK, Plan
  <2>2. /\ begun \in ChainRecord /\ begun.pc = "apply" /\ begun.cand = read
        /\ begun.plan = Plan(read) /\ begun.done = Free.done
    <3> HIDE DEF read
    <3>1. "apply" \in ChainStep
      BY DEF ChainStep
    <3>2. QED  BY <2>1, <3>1, <1>2, FreeIsRecord DEF ChainRecord
  <2>3. Free.done = <<>>
    BY DEF Free
  <2> HIDE DEF begun, read
  <2>4. ChainTypeOK'
    BY <1>1, <1>4, <2>2 DEF ChainUses, ChainInv, ChainTypeOK, ChainRecord
  <2>5. ~stopped
    BY <1>1 DEF ChainUses, ChainInv, StoppedIsQuiet
  <2>6. UndoneIsBack' /\ LiveIsApplied' /\ StoppedIsQuiet'
    BY <1>1, <1>4, <2>2, <2>5 DEF UndoneIsBack, LiveIsApplied, StoppedIsQuiet
  <2>7. PlanCovers'
    BY <1>1, <1>4, <2>2, HotIsKey DEF PlanCovers, Plan, Changed
  <2>8. LiveIsMixed'
    BY <1>1, <1>3, <1>4, <2>2, <2>3, EmptyHasNone DEF LiveIsMixed
  <2>9. QED  BY <2>4, <2>6, <2>7, <2>8 DEF ChainInv
<1>5. CASE chain' = Return("rejected", version) \/ chain' = Return("unchanged", version)
  BY <1>1, <1>2, <1>3, <1>5, AnswerKeeps DEF ChainUses, Results
<1>6. QED  BY <1>4, <1>5 DEF LoadAndDiff

LEMMA CommitKeeps == ChainUses /\ Commit => ChainInv'
<1> SUFFICES ASSUME ChainUses, Commit PROVE ChainInv'
  OBVIOUS
<1>1. /\ chain.pc = "apply" /\ chain.plan = {} /\ applied' = chain.cand /\ live' = live
      /\ stopped' = stopped /\ degraded' = degraded /\ chain' = Return("ok", chain.seen)
  BY DEF Commit
<1>2. /\ chain.cand \in [Key -> Nat \ {Unset}] /\ degraded \in BOOLEAN
      /\ chain.seen \in Nat
  BY DEF ChainUses, ChainInv, ChainTypeOK
<1>3. ~degraded => \A k \in Available : live[k] = chain.cand[k]
  <2> SUFFICES ASSUME ~degraded, NEW k \in Available PROVE live[k] = chain.cand[k]
    OBVIOUS
  <2>1. live[k] = IF k \in ToSet(chain.done) THEN chain.cand[k] ELSE applied[k]
    BY <1>1 DEF ChainUses, ChainInv, LiveIsMixed
  <2>2. k \in ToSet(chain.done) \/ applied[k] = chain.cand[k]
    BY <1>1, HotIsKey DEF ChainUses, ChainInv, PlanCovers, Changed
  <2>3. QED  BY <2>1, <2>2
<1>4. QED  BY <1>1, <1>2, <1>3, AnswerKeeps DEF ChainUses, Results

LEMMA GiveUpKeeps == ChainUses /\ GiveUp => ChainInv'
<1> SUFFICES ASSUME ChainUses, GiveUp PROVE ChainInv'
  OBVIOUS
<1> DEFINE r == IF chain.clean THEN "failed" ELSE "degraded"
<1>1. /\ chain.pc = "undo" /\ chain.done = <<>> /\ applied' = applied /\ live' = live
      /\ stopped' = stopped /\ degraded' = (degraded \/ ~chain.clean)
      /\ chain' = Return(r, chain.seen)
  BY DEF GiveUp
<1>2. /\ applied \in [Key -> Nat \ {Unset}] /\ degraded' \in BOOLEAN
      /\ chain.seen \in Nat /\ r \in Results
  BY <1>1 DEF ChainUses, ChainInv, ChainTypeOK, Results
<1>3. ~degraded' => \A k \in Available : live[k] = applied[k]
  BY <1>1, EmptyHasNone DEF ChainUses, ChainInv, UndoneIsBack
<1> HIDE DEF r
<1>4. QED  BY <1>1, <1>2, <1>3, AnswerKeeps DEF ChainUses

LEMMA ApplyKeeps == ChainUses /\ ApplyStep => ChainInv'
<1> SUFFICES ASSUME ChainUses, ApplyStep PROVE ChainInv'
  OBVIOUS
<1>1. /\ chain.pc = "apply" /\ applied' = applied /\ stopped' = stopped
      /\ degraded' = degraded
  BY DEF ApplyStep
<1>2. PICK k \in chain.plan :
        LET rest == [chain EXCEPT !.plan = @ \ {k}]
        IN  IF k \notin Available THEN chain' = rest /\ live' = live
            ELSE IF Accepts(k, chain.cand)
            THEN /\ live' = [live EXCEPT ![k] = chain.cand[k]]
                 /\ chain' = [rest EXCEPT !.done = Append(@, k)]
            ELSE chain' = [chain EXCEPT !.pc = "undo"] /\ live' = live
  BY DEF ApplyStep
<1>3. /\ chain \in ChainRecord /\ live \in [Hot -> Nat \ {Unset}]
      /\ applied \in [Key -> Nat \ {Unset}]
      /\ stopped \in BOOLEAN /\ degraded \in BOOLEAN
  BY DEF ChainUses, ChainInv, ChainTypeOK, ChainRecord
<1>4. /\ chain.cand \in [Key -> Nat \ {Unset}] /\ chain.plan \in SUBSET Hot
      /\ chain.done \in Seq(Hot) /\ k \in Hot /\ k \in Key
  BY <1>2, <1>3, HotIsKey DEF ChainRecord
<1>5. ~stopped
  BY <1>1 DEF ChainUses, ChainInv, StoppedIsQuiet
<1>6. PlanCovers /\ LiveIsMixed
  BY DEF ChainUses, ChainInv
<1>7. CASE k \notin Available
  <2>1. chain' = [chain EXCEPT !.plan = @ \ {k}] /\ live' = live
    BY <1>2, <1>7
  <2>2. /\ chain' \in ChainRecord /\ chain'.pc = "apply" /\ chain'.cand = chain.cand
        /\ chain'.plan = chain.plan \ {k} /\ chain'.done = chain.done
    BY <2>1, <1>1, <1>3, <1>4 DEF ChainRecord
  <2>3. ChainTypeOK'
    BY <1>1, <1>3, <2>1, <2>2 DEF ChainTypeOK, ChainRecord
  <2>4. PlanCovers'
    BY <1>1, <1>6, <1>7, <2>2 DEF PlanCovers, Changed
  <2>5. LiveIsMixed'
    BY <1>1, <1>6, <2>1, <2>2 DEF LiveIsMixed
  <2>6. UndoneIsBack' /\ LiveIsApplied' /\ StoppedIsQuiet'
    BY <1>1, <1>5, <2>2 DEF UndoneIsBack, LiveIsApplied, StoppedIsQuiet
  <2>7. QED  BY <2>3, <2>4, <2>5, <2>6 DEF ChainInv
<1>8. CASE k \in Available /\ Accepts(k, chain.cand)
  <2>1. /\ live' = [live EXCEPT ![k] = chain.cand[k]]
        /\ chain' = [[chain EXCEPT !.plan = @ \ {k}] EXCEPT !.done = Append(@, k)]
    BY <1>2, <1>8
  <2>2. /\ Append(chain.done, k) \in Seq(Hot)
        /\ ToSet(Append(chain.done, k)) = ToSet(chain.done) \cup {k}
    BY <1>4, PushedIsIn
  <2>3. /\ chain' \in ChainRecord /\ chain'.pc = "apply" /\ chain'.cand = chain.cand
        /\ chain'.plan = chain.plan \ {k} /\ chain'.done = Append(chain.done, k)
    BY <2>1, <2>2, <1>1, <1>3, <1>4 DEF ChainRecord
  <2>4. live' \in [Hot -> Nat \ {Unset}]
    BY <2>1, <1>3, <1>4
  <2>5. ChainTypeOK'
    BY <1>1, <1>3, <2>4, <2>3 DEF ChainTypeOK, ChainRecord
  <2>6. PlanCovers'
    BY <1>1, <1>6, <2>2, <2>3 DEF PlanCovers, Changed
  <2>7. LiveIsMixed'
    BY <1>1, <1>3, <1>6, <2>1, <2>2, <2>3, HotIsKey DEF LiveIsMixed
  <2>8. UndoneIsBack' /\ LiveIsApplied' /\ StoppedIsQuiet'
    BY <1>1, <1>5, <2>3 DEF UndoneIsBack, LiveIsApplied, StoppedIsQuiet
  <2>9. QED  BY <2>5, <2>6, <2>7, <2>8 DEF ChainInv
<1>9. CASE k \in Available /\ ~Accepts(k, chain.cand)
  <2>1. chain' = [chain EXCEPT !.pc = "undo"] /\ live' = live
    BY <1>2, <1>9
  <2>2. "undo" \in ChainStep
    BY DEF ChainStep
  <2>3. chain' \in ChainRecord /\ chain'.pc = "undo" /\ chain'.done = chain.done
    BY <2>1, <2>2, <1>3 DEF ChainRecord
  <2>4. ChainTypeOK'
    BY <1>1, <1>3, <2>1, <2>3 DEF ChainTypeOK, ChainRecord
  <2>5. UndoneIsBack'
    BY <1>1, <1>6, <2>1, <2>3 DEF UndoneIsBack, LiveIsMixed
  <2>6. PlanCovers' /\ LiveIsMixed' /\ LiveIsApplied' /\ StoppedIsQuiet'
    BY <1>1, <1>5, <2>3 DEF PlanCovers, LiveIsMixed, LiveIsApplied, StoppedIsQuiet
  <2>7. QED  BY <2>4, <2>5, <2>6 DEF ChainInv
<1>10. QED  BY <1>7, <1>8, <1>9

LEMMA UndoKeeps == ChainUses /\ UndoStep => ChainInv'
<1> SUFFICES ASSUME ChainUses, UndoStep PROVE ChainInv'
  OBVIOUS
<1> DEFINE k == Last(chain.done)
           back == Accepts(k, applied)
<1>1. /\ chain.pc = "undo" /\ chain.done # <<>> /\ applied' = applied
      /\ stopped' = stopped /\ degraded' = degraded
      /\ live' = IF back THEN [live EXCEPT ![k] = applied[k]] ELSE live
      /\ chain' = [chain EXCEPT !.done = Front(@), !.clean = @ /\ back]
  BY DEF UndoStep
<1>2. /\ chain \in ChainRecord /\ live \in [Hot -> Nat \ {Unset}]
      /\ applied \in [Key -> Nat \ {Unset}]
      /\ stopped \in BOOLEAN /\ degraded \in BOOLEAN
      /\ chain.done \in Seq(Hot) /\ chain.clean \in BOOLEAN
  BY DEF ChainUses, ChainInv, ChainTypeOK, ChainRecord
<1>3. /\ Front(chain.done) \in Seq(Hot) /\ k \in Hot
      /\ \A x \in ToSet(chain.done) : x \in ToSet(Front(chain.done)) \/ x = k
  BY <1>1, <1>2, PoppedIsOut
<1>4. back \in BOOLEAN /\ k \in Key
  BY <1>3, HotIsKey DEF Accepts
<1> HIDE DEF k, back
<1>5. (chain.clean /\ back) \in BOOLEAN
  OBVIOUS
<1>6. /\ chain' \in ChainRecord /\ chain'.pc = "undo"
      /\ chain'.done = Front(chain.done)
  <2> DEFINE b == chain.clean /\ back
  <2>1. b \in BOOLEAN /\ chain' = [chain EXCEPT !.done = Front(@), !.clean = b]
    BY <1>1
  <2> HIDE DEF b
  <2>2. QED  BY <2>1, <1>1, <1>2, <1>3 DEF ChainRecord
<1>7. chain'.clean => chain.clean /\ back
  BY <1>1, <1>2 DEF ChainRecord
<1>8. live' \in [Hot -> Nat \ {Unset}]
  BY <1>1, <1>2, <1>3, <1>4
<1>9. ChainTypeOK'
  BY <1>1, <1>2, <1>6, <1>8 DEF ChainTypeOK, ChainRecord
<1>10. UndoneIsBack'
  <2> SUFFICES ASSUME chain'.clean, ~degraded, NEW j \in Available,
                      j \notin ToSet(Front(chain.done))
               PROVE  live'[j] = applied[j]
    BY <1>1, <1>6 DEF UndoneIsBack
  <2>1. chain.clean /\ back /\ live' = [live EXCEPT ![k] = applied[k]] /\ j \in Hot
    BY <1>1, <1>7, HotIsKey
  <2>2. CASE j = k
    BY <2>1, <2>2, <1>2, <1>3
  <2>3. CASE j # k
    <3>1. j \notin ToSet(chain.done)
      BY <1>3, <2>3
    <3>2. live[j] = applied[j]
      BY <1>1, <2>1, <3>1 DEF ChainUses, ChainInv, UndoneIsBack
    <3>3. QED  BY <2>1, <2>3, <3>2, <1>2
  <2>4. QED  BY <2>2, <2>3
<1>11. ~stopped
  BY <1>1 DEF ChainUses, ChainInv, StoppedIsQuiet
<1>12. PlanCovers' /\ LiveIsMixed' /\ LiveIsApplied' /\ StoppedIsQuiet'
  BY <1>1, <1>6, <1>11 DEF PlanCovers, LiveIsMixed, LiveIsApplied, StoppedIsQuiet
<1>13. QED  BY <1>9, <1>10, <1>12 DEF ChainInv

LEMMA LeaveKeeps == ChainUses /\ chain.pc = "return" /\ Leave => ChainInv'
<1> SUFFICES ASSUME ChainUses, chain.pc = "return", Leave PROVE ChainInv'
  OBVIOUS
<1>1. chain' \in ChainRecord /\ chain'.pc = "free"
  BY FreeIsRecord DEF Leave
<1>2. ChainTypeOK'
  BY <1>1 DEF Leave, ChainUses, ChainInv, ChainTypeOK, ChainRecord
<1>3. PlanCovers' /\ LiveIsMixed' /\ UndoneIsBack' /\ LiveIsApplied' /\ StoppedIsQuiet'
  BY <1>1 DEF Leave, ChainUses, ChainInv, PlanCovers, LiveIsMixed, UndoneIsBack,
              LiveIsApplied, StoppedIsQuiet
<1>4. QED  BY <1>2, <1>3 DEF ChainInv

LEMMA StopKeeps == ChainUses /\ StopChain => ChainInv'
BY DEF StopChain, ChainUses, ChainInv, ChainTypeOK, PlanCovers, LiveIsMixed,
       UndoneIsBack, LiveIsApplied, StoppedIsQuiet, Changed

LEMMA ChainRests == ChainInv /\ UNCHANGED chainVars => ChainInv'
BY DEF chainVars, ChainInv, ChainTypeOK, PlanCovers, LiveIsMixed,
       UndoneIsBack, LiveIsApplied, StoppedIsQuiet, Changed

LEMMA ChainStarts == ChainInit => ChainInv
<1> SUFFICES ASSUME ChainInit PROVE ChainInv
  OBVIOUS
<1>1. Settings(Startup) \in [Key -> Nat \ {Unset}]
  BY SettingsAreSet, ChainAssumption
<1>2. chain \in ChainRecord /\ chain.pc = "free"
  BY FreeIsRecord DEF ChainInit
<1>3. ChainTypeOK
  BY <1>1, <1>2, HotIsKey DEF ChainInit, ChainTypeOK, ChainRecord
<1>4. PlanCovers /\ LiveIsMixed /\ UndoneIsBack /\ LiveIsApplied /\ StoppedIsQuiet
  BY <1>2, HotIsKey DEF ChainInit, PlanCovers, LiveIsMixed, UndoneIsBack, LiveIsApplied,
                        StoppedIsQuiet
<1>5. QED  BY <1>3, <1>4 DEF ChainInv
--------------------------------------------------------------------------------
(* What a reload has in hand is as new as what was reported. *)

LEMMA SeenByChain ==
    ASSUME ChainUses, Begin \/ ChainNext, version' = version, report' = report
    PROVE  SeenIsNewer'
<1>1. /\ chain.seen \in Nat /\ version \in Nat /\ chain.seen <= version
      /\ report.seen <= version /\ chain \in ChainRecord
      /\ chain.pc \in {"apply", "undo", "return"} => chain.seen >= report.seen \/ stopped
  BY WatcherAssumption DEF ChainUses, ChainInv, ChainTypeOK, ChainRecord, FileOK, SeenIsNewer
<1>2. stopped' = stopped
  BY DEF Begin, ChainNext, LoadAndDiff, ApplyStep, Commit, UndoStep, GiveUp
<1>3. CASE \E r \in Results : chain' = Return(r, version)
  <2>1. chain'.seen = version
    BY <1>1, <1>3, AnswerIsRecord
  <2>2. QED  BY <2>1, <1>1 DEF SeenIsNewer
<1>4. CASE chain' = Return("none", 0) /\ stopped
  <2>1. chain'.seen = 0
    BY <1>4, AnswerIsRecord DEF Results
  <2>2. QED  BY <2>1, <1>1, <1>2, <1>4 DEF SeenIsNewer
<1>5. CASE chain' = [Free EXCEPT !.pc = "load"]
  <2>1. chain'.seen = 0 /\ chain'.pc = "load"
    BY <1>5, LoadIsRecord
  <2>2. QED  BY <2>1, <1>1 DEF SeenIsNewer
<1>6. CASE LoadAndDiff
  <2>1. CASE chain' = [Free EXCEPT !.pc = "apply", !.cand = Settings(file.cfg),
                                   !.plan = Plan(Settings(file.cfg)), !.seen = version]
    <3>1. chain'.seen = version
      BY <2>1, FreeIsRecord DEF ChainRecord
    <3>2. QED  BY <3>1, <1>1 DEF SeenIsNewer
  <2>2. QED  BY <2>1, <1>3, <1>6 DEF LoadAndDiff, Results
<1>7. CASE ApplyStep
  <2>1. chain.pc = "apply" /\ chain'.seen = chain.seen
    BY <1>1, <1>7 DEF ApplyStep, ChainRecord
  <2>2. QED  BY <2>1, <1>1, <1>2 DEF SeenIsNewer
<1>8. CASE UndoStep
  <2>1. chain.pc = "undo" /\ chain'.seen = chain.seen
    BY <1>1, <1>8 DEF UndoStep, ChainRecord
  <2>2. QED  BY <2>1, <1>1, <1>2 DEF SeenIsNewer
<1>9. CASE Commit \/ GiveUp
  <2>1. /\ chain.pc \in {"apply", "undo"}
        /\ \E r \in Results : chain' = Return(r, chain.seen)
    BY <1>9 DEF Commit, GiveUp, Results
  <2>2. chain'.seen = chain.seen
    BY <2>1, <1>1, AnswerIsRecord
  <2>3. QED  BY <2>1, <2>2, <1>1, <1>2 DEF SeenIsNewer
<1>10. CASE Begin
  BY <1>3, <1>4, <1>5, <1>10 DEF Begin, Results
<1>11. QED  BY <1>6, <1>7, <1>8, <1>9, <1>10 DEF ChainNext

LEMMA ReportIsNewer ==
    ASSUME ChainUses, ReportOK, NEW g \in Gen, StoreState(g)
    PROVE  SeenIsNewer' /\ ReportOK' /\ (report'.seen >= report.seen \/ stopped)
           /\ report'.fault = report.fault
<1>1. /\ chain.pc = "return" /\ version' = version /\ chain' = Free
      /\ report' = [result |-> chain.result, seen |-> chain.seen, fault |-> report.fault]
  BY DEF StoreState, Stored, Leave, fileVars
<1>2. /\ chain.seen \in Nat /\ version \in 0..MaxWrites /\ chain.seen <= version
      /\ chain.result \in Results /\ report.fault \in BOOLEAN
      /\ chain.seen >= report.seen \/ stopped
  BY <1>1 DEF ChainUses, ChainInv, ChainTypeOK, FileOK, SeenIsNewer, ReportOK
<1>3. chain.seen \in 0..MaxWrites
  BY <1>2, WatcherAssumption
<1>4. ReportOK'
  BY <1>1, <1>2, <1>3 DEF ReportOK
<1>5. SeenIsNewer'
  BY <1>1, <1>2, FreeIsRecord, WatcherAssumption DEF SeenIsNewer
<1>6. QED  BY <1>1, <1>2, <1>4, <1>5
--------------------------------------------------------------------------------
(* The watcher, one lemma for each part that moves. *)

LEMMA EditorKeeps ==
    ASSUME ChainInv, WatcherInv, (\E c \in Content : Save(c)) \/ FinishSave
    PROVE  WatcherInv'
<1>1. PICK c \in Content : Write(c)
  <2>1. Blank \in Content
    BY DEF Content
  <2>2. QED  BY <2>1 DEF Save, FinishSave, WatcherInv, FileOK
<1>2. /\ version < MaxWrites /\ file' = c /\ version' = version + 1
      /\ events' \in {events, events + 1}
      /\ UNCHANGED <<loopVars, timerVars, call, holder, report, main, chainVars>>
  BY <1>1 DEF Write
<1>3. saving' \in Content \cup {NoContent}
  BY DEF Save, FinishSave, WatcherInv, FileOK
<1>4. FileOK'
  BY <1>2, <1>3, WatcherAssumption DEF WatcherInv, FileOK
<1>5. EventsAreCounted' /\ SeenIsNewer'
  <2>1. /\ version \in Nat /\ events \in Nat /\ seq \in Nat /\ chain.seen \in Nat
        /\ report.seen \in Nat
    BY WatcherAssumption DEF WatcherInv, FileOK, TimersOK, ChainInv, ChainTypeOK, ReportOK
  <2>2. /\ seq' = seq /\ chain' = chain /\ stopped' = stopped /\ report' = report
        /\ version' = version + 1 /\ (events' = events \/ events' = events + 1)
    BY <1>2 DEF timerVars, chainVars
  <2>3. seq + events <= version /\ SeenIsNewer
    BY DEF WatcherInv, EventsAreCounted
  <2>4. EventsAreCounted'
    BY <2>1, <2>2, <2>3 DEF EventsAreCounted
  <2>5. SeenIsNewer'
    BY <2>1, <2>2, <2>3 DEF SeenIsNewer
  <2>6. QED  BY <2>4, <2>5
<1>6. LoopOK' /\ TimersOK' /\ CallOK' /\ ReportOK' /\ FiredAreOver' /\ TimersAreOwned'
  BY <1>2 DEF WatcherInv, LoopOK, TimersOK, CallOK, ReportOK, FiredAreOver,
       TimersAreOwned, loopVars, timerVars
<1>7. QED  BY <1>4, <1>5, <1>6 DEF WatcherInv

\* The parts that a step of the timers leaves alone.
LEMMA OthersRest ==
    ASSUME WatcherInv, UNCHANGED <<fileVars, report, chainVars>>, events' \in Nat,
           LoopOK', CallOK', TimersOK', FiredAreOver', TimersAreOwned', EventsAreCounted'
    PROVE  WatcherInv'
BY DEF WatcherInv, FileOK, ReportOK, SeenIsNewer, fileVars, chainVars

LEMMA EventIsScheduled == ASSUME WatcherInv, HandleEvent PROVE WatcherInv'
<1>1. /\ events \in Nat /\ events > 0 /\ events' = events - 1
      /\ UNCHANGED <<fileVars, loopVars, call, holder, report, main, chainVars>>
  BY DEF HandleEvent, WatcherInv, FileOK
<1>2. /\ slot \in 0..seq /\ seq \in Nat /\ ticking \subseteq Gen
      /\ fired \in [Gen -> 0..2] /\ ticking \subseteq {slot} \ {0}
      /\ seq + events <= version /\ version \in 0..MaxWrites
  BY DEF WatcherInv, TimersOK, TimersAreOwned, EventsAreCounted, FileOK
<1>3. LoopOK' /\ CallOK'
  BY <1>1 DEF WatcherInv, LoopOK, CallOK, loopVars
<1>4. CASE UNCHANGED timerVars
  <2>1. TimersOK' /\ FiredAreOver' /\ TimersAreOwned'
    BY <1>4 DEF WatcherInv, TimersOK, FiredAreOver, TimersAreOwned, timerVars
  <2>2. EventsAreCounted' /\ events' \in Nat
    BY <1>1, <1>2, <1>4, WatcherAssumption DEF EventsAreCounted, timerVars, fileVars
  <2>3. QED  BY <1>1, <1>3, <2>1, <2>2, OthersRest
<1>5. CASE /\ slot \notin ticking /\ Arm
           /\ \/ UNCHANGED fired
              \/ slot # 0 /\ fired[slot] < 2 /\ fired' = [fired EXCEPT ![slot] = @ + 1]
  <2>1. seq' = seq + 1 /\ slot' = seq + 1 /\ ticking' = {seq + 1}
    BY <1>2, <1>5 DEF Arm
  <2>2. seq + 1 \in Gen
    BY <1>1, <1>2, WatcherAssumption DEF Gen
  <2>3. fired' \in [Gen -> 0..2]
    BY <1>2, <1>5
  <2>4. TimersOK' /\ TimersAreOwned'
    BY <1>2, <2>1, <2>2, <2>3 DEF TimersOK, TimersAreOwned
  <2>5. \A g \in Gen : fired'[g] > 0 => g <= seq
    <3>1. \A g \in Gen : fired[g] > 0 => g <= seq
      BY DEF WatcherInv, FiredAreOver
    <3>2. \A g \in Gen : fired'[g] > 0 => fired[g] > 0 \/ g = slot
      BY <1>2, <1>5
    <3>3. QED  BY <3>1, <3>2, <1>2
  <2>6. FiredAreOver'
    BY <1>2, <2>1, <2>5 DEF FiredAreOver, Gen
  <2>7. EventsAreCounted' /\ events' \in Nat
    BY <1>1, <1>2, <2>1, WatcherAssumption DEF EventsAreCounted, fileVars
  <2>8. QED  BY <1>1, <1>3, <2>4, <2>6, <2>7, OthersRest
<1>6. QED  BY <1>4, <1>5 DEF HandleEvent, Schedule

LEMMA SweepKeeps == ASSUME WatcherInv, LoopSweep \/ CloseSweep PROVE WatcherInv'
<1>1. /\ slot' = 0 /\ ticking' = ticking \ {slot} /\ UNCHANGED <<seq, fired>>
      /\ UNCHANGED <<fileVars, events, call, holder, report, chainVars>>
  BY DEF LoopSweep, CloseSweep, StopTimers
<1>2. LoopOK' /\ CallOK'
  BY <1>1 DEF LoopSweep, CloseSweep, WatcherInv, LoopOK, CallOK, loopVars, MainStep
<1>3. TimersOK' /\ FiredAreOver' /\ TimersAreOwned'
  BY <1>1 DEF WatcherInv, TimersOK, FiredAreOver, TimersAreOwned
<1>4. EventsAreCounted' /\ events' \in Nat
  BY <1>1 DEF WatcherInv, FileOK, EventsAreCounted, fileVars
<1>5. QED  BY <1>1, <1>2, <1>3, <1>4, OthersRest

LEMMA TimerFires == ASSUME WatcherInv, NEW g \in Gen, Fire(g) PROVE WatcherInv'
<1>1. /\ g \in ticking /\ ticking' = ticking \ {g} /\ fired' = [fired EXCEPT ![g] = @ + 1]
      /\ UNCHANGED <<fileVars, events, loopVars, slot, seq, call, holder, report, main,
                     chainVars>>
  BY DEF Fire
<1>2. /\ slot \in 0..seq /\ seq \in Nat /\ ticking \subseteq {slot} \ {0}
      /\ fired \in [Gen -> 0..2] /\ ticking \subseteq Gen
  BY DEF WatcherInv, TimersOK, TimersAreOwned
<1>3. fired[g] = 0 /\ g <= seq
  BY <1>1, <1>2 DEF WatcherInv, FiredAreOver
<1>4. TimersOK' /\ TimersAreOwned'
  BY <1>1, <1>2, <1>3 DEF TimersOK, TimersAreOwned
<1>5. FiredAreOver'
  BY <1>1, <1>2, <1>3 DEF WatcherInv, FiredAreOver
<1>6. LoopOK' /\ CallOK' /\ EventsAreCounted' /\ events' \in Nat
  BY <1>1 DEF WatcherInv, LoopOK, CallOK, FileOK, EventsAreCounted, fileVars, loopVars
<1>7. QED  BY <1>1, <1>4, <1>5, <1>6, OthersRest

LEMMA CallbackClaims == ASSUME WatcherInv, NEW g \in Gen, Claim(g) PROVE WatcherInv'
<1>1. /\ fired[g] > 0 /\ fired' = [fired EXCEPT ![g] = @ - 1]
      /\ \/ slot = g /\ slot' = 0 /\ call' = [call EXCEPT ![g] = "claimed"]
         \/ slot' = slot /\ call' = call
      /\ UNCHANGED <<fileVars, events, loopVars, seq, ticking, holder, report, main,
                     chainVars>>
  BY DEF Claim
<1>2. /\ slot \in 0..seq /\ seq \in Nat /\ ticking \subseteq {slot} \ {0}
      /\ fired \in [Gen -> 0..2] /\ ticking \subseteq Gen /\ g \notin ticking
  BY <1>1 DEF WatcherInv, TimersOK, TimersAreOwned, FiredAreOver
<1>3. TimersOK' /\ TimersAreOwned'
  BY <1>1, <1>2 DEF TimersOK, TimersAreOwned
<1>4. FiredAreOver'
  BY <1>1, <1>2 DEF WatcherInv, FiredAreOver
<1>5. CallOK'
  BY <1>1 DEF WatcherInv, CallOK, CallStep
<1>6. LoopOK' /\ EventsAreCounted' /\ events' \in Nat
  BY <1>1 DEF WatcherInv, LoopOK, FileOK, EventsAreCounted, fileVars, loopVars
<1>7. QED  BY <1>1, <1>3, <1>4, <1>5, <1>6, OthersRest

\* Steps that move neither file, timers, chain nor report, but for a fault of the watcher.
LEMMA FlagsMove ==
    ASSUME ChainInv, WatcherInv,
           HandleError \/ FsDies \/ LoopStart \/ LoopLeave \/ LoopClosed \/ Shutdown
           \/ CloseFs \/ WaitForLoop
    PROVE  WatcherInv'
<1>1. UNCHANGED <<fileVars, timerVars, call, holder, chainVars>> /\ events' \in {0, events}
  BY DEF HandleError, FsDies, LoopStart, LoopLeave, LoopClosed, Shutdown, CloseFs,
         WaitForLoop, loopVars
<1>2. report' = report \/ report' = [report EXCEPT !.fault = TRUE]
  BY DEF HandleError, FsDies, LoopStart, LoopLeave, LoopClosed, Shutdown, CloseFs,
         WaitForLoop, MarkWatcherError
<1>3. LoopOK'
  BY DEF HandleError, FsDies, LoopStart, LoopLeave, LoopClosed, Shutdown, CloseFs,
         WaitForLoop, loopVars, WatcherInv, LoopOK, MainStep
<1>4. ReportOK' /\ report'.seen = report.seen
  BY <1>2 DEF WatcherInv, ReportOK
<1>5. SeenIsNewer'
  BY <1>1, <1>4 DEF WatcherInv, SeenIsNewer, fileVars, chainVars
<1>6. FileOK' /\ EventsAreCounted'
  <2>1. version \in Nat /\ events \in Nat /\ seq \in Nat /\ seq + events <= version
    BY WatcherAssumption DEF WatcherInv, FileOK, TimersOK, EventsAreCounted
  <2>2. seq' = seq /\ version' = version /\ (events' = events \/ events' = 0)
    BY <1>1 DEF fileVars, timerVars
  <2>3. EventsAreCounted'
    BY <2>1, <2>2 DEF EventsAreCounted
  <2>4. QED  BY <1>1, <2>1, <2>3 DEF WatcherInv, FileOK, fileVars
<1>7. TimersOK' /\ CallOK' /\ FiredAreOver' /\ TimersAreOwned'
  BY <1>1 DEF WatcherInv, TimersOK, CallOK, FiredAreOver, TimersAreOwned, timerVars
<1>8. QED  BY <1>3, <1>4, <1>5, <1>6, <1>7 DEF WatcherInv

\* Steps of the callbacks, the chain and its Stop.
LEMMA CallsMove ==
    ASSUME ChainInv, WatcherInv,
           \/ \E g \in Gen : Trigger(g) \/ LockReload(g) \/ CallReload(g) \/ StoreState(g)
           \/ Reloading \/ MainStopsChain \/ UNCHANGED vars
    PROVE  WatcherInv'
<1>1. UNCHANGED <<fileVars, events, timerVars, loopVars>>
  BY DEF Trigger, LockReload, CallReload, StoreState, Reloading, MainStopsChain, vars
<1>2. FileOK' /\ TimersOK' /\ EventsAreCounted' /\ FiredAreOver' /\ TimersAreOwned'
  BY <1>1 DEF WatcherInv, FileOK, TimersOK, EventsAreCounted, FiredAreOver,
              TimersAreOwned, fileVars, timerVars
<1>3. LoopOK'
  BY <1>1 DEF WatcherInv, LoopOK, loopVars, MainStep, Trigger, LockReload, CallReload,
              StoreState, Reloading, MainStopsChain, vars
<1>4. CallOK'
  BY DEF WatcherInv, CallOK, CallStep, Gen, Trigger, LockReload, CallReload, StoreState,
         Reloading, MainStopsChain, vars
<1>5. ReportOK' /\ SeenIsNewer'
  <2>1. ChainUses /\ ReportOK /\ version' = version
    BY <1>1 DEF ChainUses, WatcherInv, fileVars
  <2>2. CASE \E g \in Gen : StoreState(g)
    BY <2>1, <2>2, ReportIsNewer
  <2>3. CASE Reloading \/ \E g \in Gen : CallReload(g)
    <3>1. (Begin \/ ChainNext) /\ report' = report
      BY <2>3 DEF Reloading, CallReload
    <3>2. QED  BY <2>1, <3>1, SeenByChain DEF ReportOK
  <2>4. CASE MainStopsChain
    <3>1. report' = report /\ chain' = chain /\ stopped' = TRUE
      BY <2>4 DEF MainStopsChain, StopChain
    <3>2. QED  BY <2>1, <3>1 DEF ReportOK, WatcherInv, SeenIsNewer
  <2>5. CASE (\E g \in Gen : Trigger(g) \/ LockReload(g)) \/ UNCHANGED vars
    <3>1. report' = report /\ chain' = chain /\ stopped' = stopped
      BY <2>5 DEF Trigger, LockReload, vars, chainVars
    <3>2. QED  BY <2>1, <3>1 DEF ReportOK, WatcherInv, SeenIsNewer
  <2>6. QED  BY <2>2, <2>3, <2>4, <2>5
<1>6. QED  BY <1>2, <1>3, <1>4, <1>5 DEF WatcherInv
--------------------------------------------------------------------------------
LEMMA StepKeepsChain ==
    ASSUME ChainInv, WatcherInv, [Next]_vars PROVE ChainInv'
<1>1. ChainUses
  BY DEF ChainUses, WatcherInv
<1>2. CASE Reloading
  BY <1>1, <1>2, LoadKeeps, ApplyKeeps, CommitKeeps, UndoKeeps, GiveUpKeeps
     DEF Reloading, ChainNext
<1>3. CASE \E g \in Gen : CallReload(g)
  BY <1>1, <1>3, BeginKeeps DEF CallReload
<1>4. CASE \E g \in Gen : StoreState(g)
  BY <1>1, <1>4, LeaveKeeps DEF StoreState
<1>5. CASE MainStopsChain
  BY <1>1, <1>5, StopKeeps DEF MainStopsChain
<1>6. CASE \/ Environment \/ EventLoop \/ Shutdown \/ CloseFs \/ CloseSweep \/ WaitForLoop
           \/ Exited \/ UNCHANGED vars
           \/ \E g \in Gen : Fire(g) \/ Claim(g) \/ Trigger(g) \/ LockReload(g)
  <2>1. UNCHANGED chainVars
    BY <1>6 DEF Environment, Save, FinishSave, Write, HandleError, FsDies, EventLoop,
         LoopStart, HandleEvent, LoopLeave, LoopClosed, LoopSweep, Shutdown, CloseFs,
         CloseSweep, WaitForLoop, Exited, Fire, Claim, Trigger, LockReload, vars
  <2>2. QED  BY <2>1, ChainRests
<1>7. QED  BY <1>2, <1>3, <1>4, <1>5, <1>6 DEF Next, Main, Callback

LEMMA StepKeepsWatcher ==
    ASSUME ChainInv, WatcherInv, [Next]_vars PROVE WatcherInv'
<1>1. CASE Environment
  BY <1>1, EditorKeeps, FlagsMove DEF Environment
<1>2. CASE EventLoop
  BY <1>2, EventIsScheduled, SweepKeeps, FlagsMove DEF EventLoop
<1>3. CASE Main
  BY <1>3, SweepKeeps, FlagsMove, CallsMove DEF Main
<1>4. CASE Reloading \/ Exited \/ UNCHANGED vars
  BY <1>4, CallsMove DEF Exited
<1>5. CASE \E g \in Gen : Fire(g) \/ Callback(g)
  BY <1>5, TimerFires, CallbackClaims, CallsMove DEF Callback
<1>6. QED  BY <1>1, <1>2, <1>3, <1>4, <1>5 DEF Next

LEMMA WatcherStarts == Init => ChainInv /\ WatcherInv
<1> SUFFICES ASSUME Init PROVE ChainInv /\ WatcherInv
  OBVIOUS
<1>1. ChainInv
  BY ChainStarts DEF Init
<1>2. FileOK
  BY ChainAssumption, WatcherAssumption DEF Init, FileOK, Content
<1>3. LoopOK /\ TimersOK /\ CallOK
  <2>1. LoopOK
    BY DEF Init, LoopOK, MainStep
  <2>2. TimersOK
    BY DEF Init, TimersOK
  <2>3. CallOK
    BY DEF Init, CallOK, CallStep
  <2>4. QED  BY <2>1, <2>2, <2>3
<1>4. ReportOK /\ EventsAreCounted /\ FiredAreOver /\ TimersAreOwned
  BY WatcherAssumption DEF Init, ReportOK, Results, EventsAreCounted, FiredAreOver,
       TimersAreOwned
<1>5. SeenIsNewer
  BY FreeIsRecord DEF Init, ChainInit, SeenIsNewer
<1>6. QED  BY <1>1, <1>2, <1>3, <1>4, <1>5 DEF WatcherInv

LEMMA InvHolds == Spec => [](ChainInv /\ WatcherInv)
<1>1. ChainInv /\ WatcherInv /\ [Next]_vars => (ChainInv /\ WatcherInv)'
  BY StepKeepsChain, StepKeepsWatcher
<1>2. QED  BY <1>1, WatcherStarts, PTL DEF Spec

\* Every variable of the watcher and its chain keeps its type: no more generations are
\* given out than there were writes, no callback is counted more than twice.
THEOREM WatcherTypes == Spec => []TypeOK
<1>1. ChainInv /\ WatcherInv => TypeOK
  <2> SUFFICES ASSUME ChainInv, WatcherInv PROVE TypeOK
    OBVIOUS
  <2>1. seq \in 0..MaxWrites /\ events \in 0..MaxWrites
    BY WatcherAssumption DEF WatcherInv, FileOK, TimersOK, EventsAreCounted
  <2>2. QED
    BY <2>1 DEF ChainInv, WatcherInv, TypeOK, FileOK, LoopOK, TimersOK, CallOK, ReportOK
<1>2. QED  BY <1>1, InvHolds, PTL

\* The only timer that runs is the one in the table, for any number of saves: nothing is
\* left that neither the next event nor a sweep can stop.
THEOREM NoStrayTimer == Spec => []TimersAreOwned
<1>1. WatcherInv => TimersAreOwned
  BY DEF WatcherInv
<1>2. QED  BY <1>1, InvHolds, PTL

\* Apply and undo, for any table of values, refusals and enabled sections: what is in
\* force outside a reload is what applied says, unless a reload has reported the mix.
THEOREM NoSilentMix == Spec => []MixIsReported
<1>1. ChainInv => MixIsReported
  BY DEF ChainInv, LiveIsApplied, MixIsReported
<1>2. QED  BY <1>1, InvHolds, PTL

\* After the chain's Stop no setter runs and no candidate is taken over.
THEOREM StopIsFinal == Spec => NoWriteAfterStop
<1>1. ChainInv /\ [Next]_vars => (stopped => UNCHANGED <<applied, live>>)
  <2> SUFFICES ASSUME ChainInv, [Next]_vars, stopped PROVE UNCHANGED <<applied, live>>
    OBVIOUS
  <2>1. chain.pc \in {"free", "return"}
    BY DEF ChainInv, StoppedIsQuiet
  <2>2. ~ChainNext
    BY <2>1 DEF ChainNext, LoadAndDiff, ApplyStep, Commit, UndoStep, GiveUp
  <2>3. QED
    BY <2>2 DEF Next, Environment, Save, FinishSave, Write, HandleError, FsDies, EventLoop,
         LoopStart, HandleEvent, LoopLeave, LoopClosed, LoopSweep, Main, Shutdown, CloseFs,
         CloseSweep, WaitForLoop, MainStopsChain, StopChain, Reloading, Exited, Fire,
         Callback, Claim, Trigger, LockReload, CallReload, Begin, StoreState, Leave, vars,
         chainVars
<1>2. ChainInv /\ [Next]_vars =>
        [stopped => UNCHANGED <<applied, live>>]_<<stopped, applied, live>>
  BY <1>1
<1>3. QED  BY <1>2, InvHolds, PTL DEF Spec, NoWriteAfterStop

\* What can be read never falls back to an older reading of the file while the chain is
\* up, and no reload wipes out a fault of the watcher.
THEOREM ReportsAdvance == Spec => ReportMovesForward
<1>1. ChainInv /\ WatcherInv /\ [Next]_vars =>
        [/\ report'.seen >= report.seen \/ stopped
         /\ report.fault => report'.fault]_vars
  <2> SUFFICES ASSUME ChainInv, WatcherInv, Next
               PROVE  /\ report'.seen >= report.seen \/ stopped
                      /\ report.fault => report'.fault
    OBVIOUS
  <2>1. CASE \E g \in Gen : StoreState(g)
    BY <2>1, ReportIsNewer DEF ChainUses, WatcherInv
  <2>2. CASE ~\E g \in Gen : StoreState(g)
    <3>1. report' = report \/ report' = [report EXCEPT !.fault = TRUE]
      BY <2>2 DEF Next, Environment, Save, FinishSave, Write, HandleError, FsDies,
         EventLoop, LoopStart, HandleEvent, LoopLeave, LoopClosed, LoopSweep, Main,
         Shutdown, CloseFs, CloseSweep, WaitForLoop, MainStopsChain, Reloading, Exited,
         Fire, Callback, Claim, Trigger, LockReload, CallReload, MarkWatcherError, vars
    <3>2. report'.seen = report.seen /\ report.seen \in Nat /\ (report.fault => report'.fault)
      BY <3>1 DEF WatcherInv, ReportOK
    <3>3. QED  BY <3>2
  <2>3. QED  BY <2>1, <2>2
<1>2. QED  BY <1>1, InvHolds, PTL DEF Spec, ReportMovesForward
================================================================================
