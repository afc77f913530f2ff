---------------------------- MODULE MCConfigWatcher ----------------------------
EXTENDS ConfigWatcher

\* Seven files: the one of the start, which asks for more workers than a reload may ask for
\* (2 is beyond the bound); one that undoes it; two whose last step is refused, after
\* steps that cannot and that can be undone; one with other credentials, one with another program; one that
\* Validate refuses.
MCStartup == [Silent EXCEPT !["workers"] = 2]
MCConfig == {MCStartup,
             [Silent EXCEPT !["level"] = 3],
             [Silent EXCEPT !["level"] = 3, !["commands"] = 9],
             [MCStartup EXCEPT !["retention"] = 3, !["events"] = 3, !["commands"] = 9],
             [MCStartup EXCEPT !["secret"] = 3, !["level"] = 3],
             [Silent EXCEPT !["level"] = 3, !["commands"] = 5],
             [MCStartup EXCEPT !["debounce"] = 8]}
MCDefaults == [k \in Key |-> 1]
MCEnviron == [k \in {"audit"} |-> 3]
MCRefused == [k \in Key |-> IF k = "debounce" THEN {8} ELSE {}]
\* List 9 has one entry too many, list 5 an entry with another program.
MCPermits == (1 :> ("a" :> 1)) @@ (5 :> ("a" :> 2)) @@ (9 :> ("a" :> 1 @@ "b" :> 1))
MCBad == {9}
MCAvailable == Hot \ {"events"}
===============================================================================
