---------------------------- MODULE MCGlueClock ----------------------------
(* Instances of GlueClock for TLC: two task instances that share a job.    *)
EXTENDS GlueClock, TLC

CONSTANTS a, b

Pair == {a, b}

\* Both ask for the same max_timeout_hours.
SameHours == [ti \in Pair |-> 1]

\* They are alike, so TLC may exchange them.
Alike == Permutations(Pair)

\* One asks for more.
MixedHours == [ti \in Pair |-> IF ti = a THEN 1 ELSE 3]

=============================================================================
