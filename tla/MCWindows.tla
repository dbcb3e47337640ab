----------------------------- MODULE MCWindows ------------------------------
(* Two workers and the operations that meet on them.                       *)
EXTENDS Windows

MCKind(j) == CASE j = "s" -> "serving" [] j = "t" -> "trial"
               [] j = "h" -> "hourglass" [] OTHER -> "media"
MCTarget(j) == IF j = "m" THEN "w2" ELSE "w1"
MCScenarios == {{"s", "h"}, {"t", "m"}, {"t"}, {"m"}}

\* Windows on both workers meet in the gateway's floor only: one event is enough for
\* what they do to each other.
Begun(j) == at[j] # "ended" \/ disk[j] # {}
FewerEvents == Begun("t") /\ Begun("m") => events' <= 1
BoundedSpec == Init /\ [][Next /\ FewerEvents]_vars
=============================================================================
