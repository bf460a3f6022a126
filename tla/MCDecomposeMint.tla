-------------------------- MODULE MCDecomposeMint --------------------------
(* Trees of tasks for TLC: a split into two, and one whose first child splits *)
(* again. *)
EXTENDS DecomposeMint

CONSTANTS root, a, b, c, d

FlatTasks == {root, a, b}
FlatKids == [t \in FlatTasks |-> IF t = root THEN <<a, b>> ELSE <<>>]
FlatOrder == <<root, a, b>>

DeepTasks == {root, a, b, c, d}
DeepKids == [t \in DeepTasks |-> IF t = root THEN <<a, b>> ELSE IF t = a THEN <<c, d>> ELSE <<>>]
DeepOrder == <<root, a, c, d, b>>
=============================================================================
