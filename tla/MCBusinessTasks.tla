-------------------------- MODULE MCBusinessTasks --------------------------
(* Instances of BusinessTasks for TLC. *)
EXTENDS BusinessTasks

\* One import submitted twice, the second call with the same key.
OneTask == {1}
TwoTasks == {1, 2}
OneActor == [t \in OneTask |-> "ann"]
TwoActors == [t \in TwoTasks |-> IF t = 1 THEN "ann" ELSE "bob"]
ToFirst == [r \in {"r1", "r2"} |-> 1]
ToEach == [r \in {"r1", "r2"} |-> IF r = "r1" THEN 1 ELSE 2]
SameIntent == [r \in {"r1", "r2"} |-> "x"]
OtherIntent == [r \in {"r1", "r2"} |-> IF r = "r1" THEN "x" ELSE "y"]
OneRequest == [r \in {"r1"} |-> 1]
OneRequestIntent == [r \in {"r1"} |-> "x"]
=============================================================================
