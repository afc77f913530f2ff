-------------------------------- MODULE Groups --------------------------------
(*****************************************************************************)
(* Job groups: a registry with a file of its own (core/group_store.go), the  *)
(* tag each job carries, and the endpoints that keep them together           *)
(* (api/handlers_groups.go, the move of api/handlers_lifecycle.go, PUT       *)
(* /jobs).  A request is a sequence of calls, each atomic; nothing holds     *)
(* them together.                                                            *)
(*                                                                           *)
(* A job's tag is kept twice: by the job itself, wherever it is (the entry   *)
(* of the heap, a worker's job, one that is being paused or resumed), and by *)
(* its snapshot, which is all there is of a job that is paused or over.  The *)
(* two are changed one after the other.  Cancelled jobs, and the reset of    *)
(* all that at a start, are left to Scheduler.                               *)
(*****************************************************************************)
EXTENDS Naturals, FiniteSets

CONSTANTS
    Label,         \* spellings of group names
    LabelKey,      \* strings.ToLower, from Label
    NoGroup,       \* "", the tag of a job without a group
    Clerk,         \* the requests of the group endpoints
    GroupJob,
    GroupAtStart,  \* the name of the one group the file has at the start
    JobTag,        \* the spellings clients write on jobs
    MaxGroupRequests, MaxGroupFaults   \* bounds

ASSUME GroupAssumption ==
    /\ DOMAIN LabelKey = Label /\ NoGroup \notin Label \cup Clerk
    /\ GroupAtStart \in Label /\ JobTag \subseteq Label
    /\ {MaxGroupRequests, MaxGroupFaults} \subseteq Nat

VARIABLES
    groups,      \* JSONFileGroupStore.groups: the name as written, an identity that stands
                 \* for description, colour and age, and the request that saved it (history)
    groupFile,   \* the file: what a start would find
    tagged,      \* where each job is and its tag, the status and the tag in its snapshot
    desk,        \* what each request has in hand
    opened,      \* the requests so far; a new group takes its identity from it
    groupFaults,
    kept,        \* the groups created with success (history)
    gone         \* those a DELETE has removed, or a rename that had read another entry, or
                 \* whose name another group has taken (history)

groupVars == <<groups, groupFile, tagged, desk, opened, groupFaults, kept, gone>>

Group == [name : Label, id : 0..MaxGroupRequests, by : 0..MaxGroupRequests]
Tag == Label \cup {NoGroup}
JobPlace == {"none", "saved", "heap", "popped", "worker", "taken", "read"}
SnapStatus == {"none", "pending", "running", "paused", "over"}

\* What a request knows of a job: its snapshot as it was read, and how far it has got
\* with it ("entry": it has a copy of the heap's entry; "updated": it has put the copy
\* into the heap; "snapshot": the job was in no heap).
Listed == [job : GroupJob, snap : SnapStatus, tag : Tag]
InHand == [job : GroupJob, snap : SnapStatus, step : {"entry", "updated", "snapshot"}]

\* strings.EqualFold and the keys of the map in lower case.
SameLabel(g, n) == g \in Label /\ LabelKey[g] = LabelKey[n]

NoEntry == [name |-> CHOOSE n \in Label : TRUE, id |-> 0, by |-> 0]
NoDesk == [pc |-> "idle", op |-> "none", name |-> NoEntry.name, to |-> NoGroup, no |-> 0,
           cur |-> NoEntry, todo |-> {}, hand |-> {}, pend |-> {}]

\* Get.
GroupsNamed(n) == {g \in groups : SameLabel(g.name, n)}

GroupsInit ==
    /\ groups = {[name |-> GroupAtStart, id |-> 0, by |-> 0]} /\ groupFile = groups
    /\ tagged = [j \in GroupJob |->
                   [at |-> "none", tag |-> NoGroup, snap |-> "none", stag |-> NoGroup]]
    /\ desk = [c \in Clerk |-> NoDesk]
    /\ opened = 0 /\ groupFaults = 0
    /\ kept = {0} /\ gone = {}
-------------------------------------------------------------------------------
\* flushLocked, after the map has changed: the whole file is replaced, or nothing of it.
FlushGroups ==
    \/ groupFile' = groups' /\ UNCHANGED groupFaults
    \/ /\ groupFaults < MaxGroupFaults /\ groupFaults' = groupFaults + 1
       /\ UNCHANGED groupFile

Flushed == groupFaults' = groupFaults

Ids(entries) == {g.id : g \in entries}

\* Save: whatever has the name in lower case gives way.
SaveGroup(entry) ==
    /\ groups' = (groups \ GroupsNamed(entry.name)) \cup {entry}
    /\ gone' = gone \cup (Ids(GroupsNamed(entry.name)) \ {entry.id})
    /\ FlushGroups

\* Delete, of what has the name by now.
EraseGroup(n) ==
    /\ groups' = groups \ GroupsNamed(n)
    /\ FlushGroups

MoveDesk(c, pc) == desk' = [desk EXCEPT ![c].pc = pc]
Respond(c) == desk' = [desk EXCEPT ![c] = NoDesk]

\* POST, PUT with a name (the old one again, when only the description changes) and
\* DELETE.
OpenRequest(c, op, n, to) ==
    /\ desk[c].pc = "idle" /\ opened < MaxGroupRequests
    /\ opened' = opened + 1
    /\ desk' = [desk EXCEPT ![c] = [NoDesk EXCEPT
                  !.pc = "get", !.op = op, !.name = n, !.to = to, !.no = opened + 1,
                  !.cur = [name |-> n, id |-> opened + 1, by |-> 0]]]
    /\ UNCHANGED <<groups, groupFile, tagged, groupFaults, kept, gone>>

\* POST is refused when the group exists, the others when it does not.
GetGroup(c) ==
    /\ desk[c].pc = "get"
    /\ LET found == GroupsNamed(desk[c].name)
       IN  IF (desk[c].op = "create") # (found = {}) THEN Respond(c)
           ELSE desk' = [desk EXCEPT
                  ![c].pc = CASE desk[c].op = "create" -> "save"
                              [] desk[c].op = "update" -> "clash"
                              [] desk[c].op = "delete" -> "tally",
                  ![c].cur = IF found = {} THEN @ ELSE CHOOSE g \in found : TRUE]
    /\ UNCHANGED <<groups, groupFile, tagged, opened, groupFaults, kept, gone>>

Renames(c) == desk[c].op = "update" /\ desk[c].to # desk[c].cur.name

\* PUT: a new name must be free; so a change of case only is refused.
CheckClash(c) ==
    /\ desk[c].pc = "clash"
    /\ IF Renames(c) /\ GroupsNamed(desk[c].to) # {} THEN Respond(c) ELSE MoveDesk(c, "save")
    /\ UNCHANGED <<groups, groupFile, tagged, opened, groupFaults, kept, gone>>

\* What PUT saves is what it has read, under the new name.
Saved(c) == [desk[c].cur EXCEPT !.name = IF desk[c].op = "update" THEN desk[c].to ELSE @,
                                !.by = desk[c].no]

\* Mutant of SaveEntry: the old name is deleted before the new one is saved.
EraseThenSave(c) ==
    /\ desk[c].pc = "save"
    /\ IF Renames(c) /\ GroupsNamed(desk[c].cur.name) # {}
       THEN /\ EraseGroup(desk[c].cur.name) /\ UNCHANGED <<kept, desk>>
            /\ gone' = gone \cup Ids(GroupsNamed(desk[c].cur.name) \ {desk[c].cur})
       ELSE /\ SaveGroup(Saved(c))
            /\ kept' = IF Flushed THEN kept \cup {desk[c].cur.id} ELSE kept
            /\ IF Flushed /\ Renames(c) THEN MoveDesk(c, "list") ELSE Respond(c)
    /\ UNCHANGED <<tagged, opened>>

\* POST and PUT.
SaveEntry(c) ==
    /\ desk[c].pc = "save"
    /\ SaveGroup(Saved(c))
    /\ kept' = IF Flushed THEN kept \cup {desk[c].cur.id} ELSE kept
    /\ IF Flushed /\ Renames(c) THEN MoveDesk(c, "unname") ELSE Respond(c)
    /\ UNCHANGED <<tagged, opened>>

\* A rename deletes the old name (that it is gone already is no error), whoever has saved
\* an entry under it since it was read: two renames there and back, or one by case only
\* that CheckClash let through while the entry was away, delete what was just saved.
DropOldName(c) ==
    /\ desk[c].pc = "unname"
    /\ EraseGroup(desk[c].cur.name)
    /\ gone' = gone \cup Ids(GroupsNamed(desk[c].cur.name) \ {desk[c].cur})
    /\ IF Flushed THEN MoveDesk(c, "list") ELSE Respond(c)
    /\ UNCHANGED <<tagged, opened, kept>>

\* tallyGroups, and RetagGroup: the jobs under a name, however their snapshots spell it.
TaggedWith(n) == {j \in GroupJob : tagged[j].snap # "none" /\ SameLabel(tagged[j].stag, n)}

\* Those of J that rest, or wait in the heap, with one tag.
Settled(J) ==
    {j \in J : /\ tagged[j].snap # "running" /\ tagged[j].at \in {"none", "heap"}
               /\ tagged[j].at = "heap" => tagged[j].tag = tagged[j].stag}

\* DELETE: strategy "block" refuses while jobs carry the tag, "detach" takes it from them
\* first.  (pend: those that waited or rested, without the exceptions of RetagReachesAll;
\* history.)
TallyJobs(c) ==
    /\ desk[c].pc = "tally"
    /\ LET n == desk[c].cur.name
       IN  \E block \in BOOLEAN :
              IF block /\ TaggedWith(n) # {} THEN Respond(c)
              ELSE desk' = [desk EXCEPT ![c].pc = IF TaggedWith(n) = {} THEN "erase" ELSE "list",
                                        ![c].pend = Settled(TaggedWith(n))]
    /\ UNCHANGED <<groups, groupFile, tagged, opened, groupFaults, kept, gone>>

Snapshot(j) == [job |-> j, snap |-> tagged[j].snap, tag |-> tagged[j].stag]

\* RetagGroup reads all snapshots ...
ListJobs(c) ==
    /\ desk[c].pc = "list"
    /\ LET n == desk[c].cur.name
       IN  desk' = [desk EXCEPT
              ![c].pc = "retag",
              ![c].todo = {Snapshot(j) : j \in TaggedWith(n)},
              ![c].pend = IF desk[c].op = "delete" THEN @ ELSE Settled(TaggedWith(n))]
    /\ UNCHANGED <<groups, groupFile, tagged, opened, groupFaults, kept, gone>>

NewTag(c) == IF desk[c].op = "delete" THEN NoGroup ELSE desk[c].to

Holds(c, j) == \E h \in desk[c].hand : h.job = j

\* The requests of C do not count the job any more.
Forgotten(j, C, d) ==
    [c \in Clerk |-> IF c \in C THEN [d[c] EXCEPT !.pend = @ \ {j}] ELSE d[c]]

Taking(c, e, hand) == [desk EXCEPT ![c].todo = @ \ {e}, ![c].hand = hand]

\* Mutant of TakeNext: only the snapshot is changed, as if no job were in the heap.
TakeSnapshot(c) ==
    /\ desk[c].pc = "retag" /\ desk[c].hand = {}
    /\ \E e \in desk[c].todo :
          desk' = Taking(c, e, {[job |-> e.job, snap |-> e.snap, step |-> "snapshot"]})
    /\ UNCHANGED <<groups, groupFile, tagged, opened, groupFaults, kept, gone>>

\* applyGroupToSnapshot, for one job of those listed after the other.  First it copies the
\* entry of the heap; without one it goes by the snapshot that was read, and leaves a job
\* that ran then.  One that has the new tag is left as well.
TakeNext(c) ==
    /\ desk[c].pc = "retag" /\ desk[c].hand = {}
    /\ \E e \in desk[c].todo :
          LET j == e.job
              waits == tagged[j].at = "heap"
              skip == IF waits THEN tagged[j].tag = NewTag(c)
                      ELSE e.snap = "running" \/ e.tag = NewTag(c)
              hand == IF skip THEN {}
                      ELSE {[job |-> j, snap |-> e.snap,
                             step |-> IF waits THEN "entry" ELSE "snapshot"]}
          IN  desk' = Forgotten(j, IF tagged[j].at \in {"none", "heap"} THEN {} ELSE {c},
                                Taking(c, e, hand))
    /\ UNCHANGED <<groups, groupFile, tagged, opened, groupFaults, kept, gone>>

\* Then the copy, with the new tag, replaces the entry, unless that has left the heap.
UpdateEntry(c) ==
    /\ \E h \in desk[c].hand :
          /\ h.step = "entry"
          /\ IF tagged[h.job].at = "heap"
             THEN /\ tagged' = [tagged EXCEPT ![h.job].tag = NewTag(c)]
                  /\ desk' = Forgotten(h.job, Clerk \ {c},
                               [desk EXCEPT ![c].hand = {[h EXCEPT !.step = "updated"]}])
             ELSE desk' = [desk EXCEPT ![c].hand = {}] /\ UNCHANGED tagged
    /\ UNCHANGED <<groups, groupFile, opened, groupFaults, kept, gone>>

\* At last a snapshot is written: of the copy, or the one that was read, with the new tag
\* and whatever status it had.
WriteSnapshot(c) ==
    /\ \E h \in desk[c].hand :
          /\ h.step \in {"updated", "snapshot"}
          /\ tagged' = [tagged EXCEPT ![h.job].stag = NewTag(c),
                                      ![h.job].snap = IF h.step = "updated" THEN "pending"
                                                      ELSE h.snap]
          /\ desk' = Forgotten(h.job, Clerk \ {c}, [desk EXCEPT ![c].hand = {}])
    /\ UNCHANGED <<groups, groupFile, opened, groupFaults, kept, gone>>

\* With none left, DELETE goes on to the entry, a rename to its answer, and the requests
\* for one job are done.
RetagDone(c) ==
    /\ desk[c].pc = "retag" /\ desk[c].hand = {} /\ desk[c].todo = {}
    /\ CASE desk[c].op = "delete" -> MoveDesk(c, "erase")
         [] desk[c].op = "update" -> MoveDesk(c, "answer")
         [] OTHER -> Respond(c)
    /\ UNCHANGED <<groups, groupFile, tagged, opened, groupFaults, kept, gone>>

\* batch-ops "move", for one of its jobs: SetGroup reads the snapshot and goes the same way.
MoveJob(c, j, t) ==
    /\ desk[c].pc = "idle" /\ opened < MaxGroupRequests
    /\ tagged[j].snap # "none"
    /\ opened' = opened + 1
    /\ desk' = [desk EXCEPT ![c] = [NoDesk EXCEPT !.pc = "retag", !.op = "move", !.to = t,
                                                  !.todo = {Snapshot(j)}]]
    /\ UNCHANGED <<groups, groupFile, tagged, groupFaults, kept, gone>>

\* PUT /jobs/:id of a job that waits: UpdatePending copies the entry, and its tag too when
\* the request names no group; the copy goes the same way.
PutTag(c, j, t) ==
    /\ desk[c].pc = "idle" /\ opened < MaxGroupRequests
    /\ tagged[j].at = "heap"
    /\ opened' = opened + 1
    /\ desk' = [desk EXCEPT ![c] = [NoDesk EXCEPT !.pc = "retag", !.op = "put", !.to = t,
                  !.hand = {[job |-> j, snap |-> "pending", step |-> "entry"]}]]
    /\ UNCHANGED <<groups, groupFile, tagged, groupFaults, kept, gone>>

\* DELETE removes the entry; one that is gone by now makes it a 404.
DropGroup(c) ==
    /\ desk[c].pc = "erase"
    /\ IF GroupsNamed(desk[c].cur.name) = {}
       THEN UNCHANGED <<groups, groupFile, groupFaults, gone>>
       ELSE /\ EraseGroup(desk[c].cur.name)
            /\ gone' = gone \cup Ids(GroupsNamed(desk[c].cur.name))
    /\ Respond(c)
    /\ UNCHANGED <<tagged, opened, kept>>

\* PUT answers with a fresh tally.
AnswerRename(c) ==
    /\ desk[c].pc = "answer" /\ Respond(c)
    /\ UNCHANGED <<groups, groupFile, tagged, opened, groupFaults, kept, gone>>
-------------------------------------------------------------------------------
JobFrame == UNCHANGED <<groups, groupFile, opened, groupFaults, kept, gone>>

\* The job goes from one place to another; a place that writes its snapshot does so with
\* the tag the job has.
GoesTo(j, at) == tagged' = [tagged EXCEPT ![j].at = at] /\ JobFrame
IsSaved(j, at, status) ==
    /\ tagged' = [tagged EXCEPT ![j].at = at, ![j].snap = status, ![j].stag = tagged[j].tag]
    /\ UNCHANGED desk /\ JobFrame

\* Those that have the job in hand just now do not count it any more.
Disturbed(j) == desk' = Forgotten(j, {c \in Clerk : Holds(c, j)}, desk)

\* POST /jobs and POST /jobs/batch write any valid name on a job, registered or not.
\* Schedule saves the job and pushes it later.
SubmitTagged(j, t) ==
    /\ tagged[j].snap = "none"
    /\ tagged' = [tagged EXCEPT ![j] = [at |-> "saved", tag |-> t, snap |-> "pending", stag |-> t]]
    /\ UNCHANGED desk /\ JobFrame
PushJob(j) == tagged[j].at = "saved" /\ GoesTo(j, "heap") /\ UNCHANGED desk

\* The worker has the job until the execution ends, or is parked by a forced pause, or
\* schedules the next round.
PopJob(j) ==
    /\ tagged[j].at = "heap" /\ GoesTo(j, "popped")
    /\ desk' = Forgotten(j, Clerk, desk)
StartJob(j) == tagged[j].at = "popped" /\ IsSaved(j, "worker", "running")
EndJob(j) ==
    /\ tagged[j].at = "worker"
    /\ IsSaved(j, "none", "over") \/ IsSaved(j, "none", "paused") \/ IsSaved(j, "saved", "pending")

\* Pause takes the job out of the heap and writes its snapshot then.
PauseJob(j) == tagged[j].at = "heap" /\ GoesTo(j, "taken") /\ Disturbed(j)
WritePause(j) == tagged[j].at = "taken" /\ IsSaved(j, "none", "paused")

\* Resume, and the retry of a job that has failed, read the snapshot and schedule it.
ReadBack(j) ==
    /\ tagged[j].at = "none" /\ tagged[j].snap \in {"paused", "over"}
    /\ tagged' = [tagged EXCEPT ![j].at = "read", ![j].tag = tagged[j].stag]
    /\ Disturbed(j) /\ JobFrame
SaveBack(j) == tagged[j].at = "read" /\ IsSaved(j, "saved", "pending")

GroupRequest(c) ==
    \/ \E n \in Label : OpenRequest(c, "create", n, NoGroup) \/ OpenRequest(c, "delete", n, NoGroup)
    \/ \E n, to \in Label : OpenRequest(c, "update", n, to)
    \/ GetGroup(c) \/ CheckClash(c) \/ SaveEntry(c) \/ DropOldName(c)
    \/ TallyJobs(c) \/ ListJobs(c) \/ TakeNext(c) \/ UpdateEntry(c) \/ WriteSnapshot(c)
    \/ RetagDone(c) \/ DropGroup(c) \/ AnswerRename(c)
    \/ \E j \in GroupJob :
          \/ \E t \in JobTag \cup {NoGroup} : MoveJob(c, j, t)
          \/ \E t \in JobTag \cup {NoGroup, tagged[j].tag} : PutTag(c, j, t)

GroupsNext ==
    \/ \E c \in Clerk : GroupRequest(c)
    \/ \E j \in GroupJob, t \in JobTag \cup {NoGroup} : SubmitTagged(j, t)
    \/ \E j \in GroupJob : \/ PushJob(j) \/ PopJob(j) \/ StartJob(j) \/ EndJob(j)
                           \/ PauseJob(j) \/ WritePause(j) \/ ReadBack(j) \/ SaveBack(j)

GroupsSpec == GroupsInit /\ [][GroupsNext]_groupVars
-------------------------------------------------------------------------------
\* The variables hold what their comments say, and the registry has a name once.
GroupsTypeOK ==
    /\ groups \subseteq Group /\ groupFile \subseteq Group
    /\ \A g, h \in groups : SameLabel(g.name, h.name) => g = h
    /\ tagged \in [GroupJob -> [at : JobPlace, tag : Tag, snap : SnapStatus, stag : Tag]]
    /\ \A c \in Clerk : /\ desk[c].cur \in Group /\ desk[c].todo \subseteq Listed
                        /\ desk[c].hand \subseteq InHand /\ desk[c].pend \subseteq GroupJob

\* UpdateGroup: a rename never costs a group its entry.  Wherever the process ends, and
\* whichever write fails, a start finds each group that was created under one name at
\* least, unless a DELETE removed it, another group was saved over it, or a rename has
\* deleted an entry that was saved after it had read its own (DropOldName).
NoGroupVanishes == \A g \in kept \ gone : \E e \in groupFile : e.id = g

\* DeleteGroup: "先解除挂载再删注册表" - when the entry is about to go, and when a rename
\* answers, every job that waited or rested when it was counted under the old name, however
\* spelled, carries the new tag, the job itself and its snapshot; although jobs are paused
\* and resumed and other groups retagged meanwhile.  Except those that a worker has taken
\* since, or another request has written, with or without a group in mind; and those that
\* were being paused or resumed just when their turn came or while the request had them
\* in hand: what such a job carries itself and its snapshot may have the old tag then, in
\* one place or in both.
RetagReachesAll ==
    \A c \in Clerk : desk[c].pc \in {"erase", "answer"} =>
        \A j \in desk[c].pend :
            /\ tagged[j].stag = NewTag(c)
            /\ tagged[j].at # "none" => tagged[j].tag = NewTag(c)
===============================================================================
