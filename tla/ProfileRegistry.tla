---------------------------- MODULE ProfileRegistry ----------------------------
(*****************************************************************************)
(* What may be executed, kept in three places that have to agree: the table  *)
(* of profiles (executor/registry.go, one pointer to an immutable snapshot), *)
(* the handlers of the scheduler, and the list of commands the applier       *)
(* (executor/applier.go) believes to be configured.  The applier's writeMu   *)
(* is held over the three; readers take no lock, so the table and the        *)
(* handlers change in steps of their own.                                    *)
(*                                                                           *)
(* A profile is its name and a revision, which stands for everything else.   *)
(*****************************************************************************)
EXTENDS Naturals, FiniteSets

CONSTANTS
    Name,         \* spellings of profile names; the handler key is "exec." and the spelling
    Builtin,      \* names that executors.adhoc adds, at the start only
    Lists,        \* executors.commands: functions from names to revisions
    BadLists,     \* the lists LoadProfiles refuses
    Unbuildable,  \* revisions BuildProfile refuses under the limits of the start
    Server,       \* the requests of the profile endpoints
    Reloader,     \* the reload of the configuration, one at a time
    Nobody

ASSUME RegistryAssumption ==
    /\ Builtin \subseteq Name
    /\ \A l \in Lists : DOMAIN l \subseteq Name /\ \A n \in DOMAIN l : l[n] \in Nat
    /\ BadLists \subseteq Lists
    /\ Unbuildable \subseteq Nat
    /\ Reloader \notin Server /\ Nobody \notin Server \cup {Reloader}

VARIABLES
    table,     \* snapshot.entries: the profiles in force, by name
    degraded,  \* snapshot.degraded: profiles that gave way to a configured one
    handlers,  \* Scheduler.handlers: the profile each handler was made of, by name
    commands,  \* Applier.configCommands
    holder,    \* who holds Applier.writeMu
    hand       \* what the holder has read, and how far it is

registryVars == <<table, degraded, handlers, commands, holder, hand>>

Source == {"config", "store", "adhoc"}
Entry(source, rev) == [source |-> source, rev |-> rev]
Record == [name : Name, rev : Nat]

From(t, source) == {n \in DOMAIN t : t[n].source = source}

Idle == [pc |-> "idle", records |-> {}, list |-> <<>>]
-------------------------------------------------------------------------------
\* NewRegistry: a built-in profile gives way to a configured one.
NewTable(list) ==
    [n \in DOMAIN list \cup Builtin |->
        IF n \in DOMAIN list THEN Entry("config", list[n]) ELSE Entry("adhoc", 0)]

\* mergeStoreProfiles leaves out the records that do not build, each for itself.
Buildable(records) == {r \in records : r.rev \notin Unbuildable}

\* Registry.ApplyStore refuses a batch when a record meets a configured profile of which
\* the caller's list of commands knows nothing.
Refuses(t, records, list) ==
    \E r \in Buildable(records) : r.name \in From(t, "config") \ DOMAIN list

\* The batch of the store replaces the last one: a record gives way to a configured
\* profile, and a built-in profile to a record.
WithStore(t, records) ==
    LET mine == {r \in Buildable(records) : r.name \notin From(t, "config")}
        kept == DOMAIN t \ From(t, "store")
    IN  [n \in kept \cup {r.name : r \in mine} |->
            IF \E r \in mine : r.name = n
            THEN Entry("store", (CHOOSE r \in mine : r.name = n).rev)
            ELSE t[n]]

GaveWay(t, records) == {r \in Buildable(records) : r.name \in From(t, "config")}

\* Registry.ApplyConfig: the batch of the configuration replaces the last one and takes
\* the keys it names, whoever has them.
WithConfig(t, list) ==
    [n \in (DOMAIN t \ From(t, "config")) \cup DOMAIN list |->
        IF n \in DOMAIN list THEN Entry("config", list[n]) ELSE t[n]]

\* What had given way stays listed while the new batch has its name; what gives way now
\* joins it.
StillDegraded(t, d, list) ==
    {r \in d : r.name \in DOMAIN list}
      \cup {[name |-> n, rev |-> t[n].rev] :
              n \in (DOMAIN t \ From(t, "config")) \cap DOMAIN list}

\* Mutant: a key that has a handler keeps it.
SyncedNew(again) ==
    [n \in again \cup (DOMAIN handlers \cap DOMAIN table) |->
        IF n \in DOMAIN handlers THEN handlers[n] ELSE table[n]]

\* syncHandlers: a new handler for each key of again, and none for a key that has left
\* the table.
Synced(again) ==
    [n \in again \cup (DOMAIN handlers \cap DOMAIN table) |->
        IF n \in again THEN table[n] ELSE handlers[n]]
-------------------------------------------------------------------------------
\* What a start builds from a list of commands and the records of the profile file; the
\* handlers are registered from the table.
Started(list, records) == WithStore(NewTable(list), records)
StartedDegraded(list, records) == GaveWay(NewTable(list), records)

RegistryInit(list, records) ==
    /\ table = Started(list, records)
    /\ degraded = StartedDegraded(list, records)
    /\ handlers = table
    /\ commands = list
    /\ holder = Nobody
    /\ hand = Idle

\* Applier.Apply: the records are read under the lock.
ApplyBegin(p, records) ==
    /\ holder = Nobody
    /\ holder' = p
    /\ hand' = [Idle EXCEPT !.pc = "store", !.records = records]
    /\ UNCHANGED <<table, degraded, handlers, commands>>

\* The table changes in one step, or not at all and the lock is given back.
ApplySwap(p) ==
    /\ holder = p /\ hand.pc = "store"
    /\ IF Refuses(table, hand.records, commands)
       THEN holder' = Nobody /\ hand' = Idle /\ UNCHANGED <<table, degraded>>
       ELSE /\ table' = WithStore(table, hand.records)
            /\ degraded' = GaveWay(table, hand.records)
            /\ hand' = [hand EXCEPT !.pc = "sync"]
            /\ UNCHANGED holder
    /\ UNCHANGED <<handlers, commands>>

\* The handlers of the stored profiles are made anew; then the lock is given back.  The
\* keys are changed one after the other in the code, and nothing here reads two of them.
ApplySync(p) ==
    /\ holder = p /\ hand.pc = "sync"
    /\ handlers' = Synced(From(table, "store"))
    /\ holder' = Nobody /\ hand' = Idle
    /\ UNCHANGED <<table, degraded, commands>>

\* Applier.ApplyConfig: LoadProfiles refuses before anything has changed.
ReloadBegin(list) ==
    /\ holder = Nobody
    /\ IF list \in BadLists THEN UNCHANGED <<holder, hand>>
       ELSE holder' = Reloader /\ hand' = [Idle EXCEPT !.pc = "config", !.list = list]
    /\ UNCHANGED <<table, degraded, handlers, commands>>

ReloadSwap ==
    /\ holder = Reloader /\ hand.pc = "config"
    /\ table' = WithConfig(table, hand.list)
    /\ degraded' = StillDegraded(table, degraded, hand.list)
    /\ hand' = [hand EXCEPT !.pc = "resync"]
    /\ UNCHANGED <<handlers, commands, holder>>

\* All handlers are made anew, and last the list is recorded.
ReloadSync ==
    /\ holder = Reloader /\ hand.pc = "resync"
    /\ handlers' = Synced(DOMAIN table)
    /\ commands' = hand.list
    /\ holder' = Nobody /\ hand' = Idle
    /\ UNCHANGED <<table, degraded>>
-------------------------------------------------------------------------------
RegistryTypeOK ==
    /\ DOMAIN table \subseteq Name /\ DOMAIN handlers \subseteq Name
    /\ \A n \in DOMAIN table : table[n] \in [source : Source, rev : Nat]
    /\ \A n \in DOMAIN handlers : handlers[n] \in [source : Source, rev : Nat]
    /\ degraded \subseteq Record
    /\ commands \in Lists
    /\ holder \in Server \cup {Reloader, Nobody}
    /\ hand.pc \in {"idle", "store", "sync", "config", "resync"}
    /\ hand.records \subseteq Record
===============================================================================
