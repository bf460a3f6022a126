---------------------------- MODULE MCTaskWaves ----------------------------
(* An instance of TaskWaves for TLC: t2 needs t1, t4 needs t2 and t3, and t2 *)
(* and t3 share a path. *)
EXTENDS TaskWaves
CONSTANTS t1, t2, t3, t4, a1, a2

FourTasks == {t1, t2, t3, t4}
FourDeps == [t \in FourTasks |-> IF t = t2 THEN {t1} ELSE IF t = t4 THEN {t2, t3} ELSE {}]
FourPaths == [t \in FourTasks |-> IF t \in {t2, t3} THEN "q" ELSE IF t = t1 THEN "p" ELSE "r"]
TwoAgents == {a1, a2}
FirstTask == {t1}
OneEach == [a \in TwoAgents |-> 1]
=============================================================================
