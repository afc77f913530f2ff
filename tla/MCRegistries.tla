----------------------------- MODULE MCRegistries ------------------------------
(*****************************************************************************)
(* The two registries that have a file and endpoints of their own, one of    *)
(* them in each behaviour.                                                   *)
(*                                                                           *)
(* Profiles: two spellings of one name and a built-in profile; a file with a *)
(* record, with one that does not build, and with one under the built-in     *)
(* name.  Groups: two spellings of one name and another name; clients write  *)
(* the spelling on jobs that the registry does not have.                     *)
(*****************************************************************************)
EXTENDS ProfileApi, Groups, TLC

VARIABLE part

SmallName == {"report", "REPORT", "shell"}
SmallLower == [n \in SmallName |-> IF n = "REPORT" THEN "report" ELSE n]
SmallBuiltin == {"shell"}
\* Revisions of commands are above those of requests.
NoCommands == <<>>
OneCommand == [n \in {"report"} |-> 10]
TwoCommands == [n \in {"report", "shell"} |-> 11]
BadCommand == [n \in {"REPORT"} |-> 12]
SmallLists == {NoCommands, OneCommand, TwoCommands, BadCommand}
SmallBadLists == {BadCommand}
SmallFiles ==
    {{}, {[name |-> "report", rev |-> 20]},
     {[name |-> "REPORT", rev |-> 21], [name |-> "shell", rev |-> 20]}}
SmallUnbuildable == {21}
SmallJobName == [j \in Job |-> "report"]

SmallLabel == {"a", "A", "b"}
SmallLabelKey == [n \in SmallLabel |-> IF n = "A" THEN "a" ELSE n]
OtherSpelling == {"A"}

RequestSymmetry == Permutations(Server) \cup Permutations(Clerk)

RegistriesInit ==
    /\ part \in {"profiles", "groups"} /\ Init /\ GroupsInit
    /\ part = "groups" => records = {} /\ commands = NoCommands

ProfilesStep == part = "profiles" /\ Next /\ UNCHANGED groupVars

GroupsStep == part = "groups" /\ GroupsNext /\ UNCHANGED vars

RegistriesNext == (ProfilesStep \/ GroupsStep) /\ UNCHANGED part

RegistriesSpec == RegistriesInit /\ [][RegistriesNext]_<<part, vars, groupVars>>
===============================================================================
