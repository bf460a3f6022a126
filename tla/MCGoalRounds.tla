---------------------------- MODULE MCGoalRounds ----------------------------
(* An instance of GoalRounds for TLC: b needs a; earlier runs may have left a *)
(* ticket about a goal and one about a task of the same numbers.             *)
EXTENDS GoalRounds
CONSTANTS a, b

TwoUnits == {a, b}
InLine == [u \in TwoUnits |-> IF u = b THEN {a} ELSE {}]
Earlier == {[what |-> w, own |-> FALSE, pass |-> 0, status |-> "open", decision |-> "none"] :
            w \in {<<1, NoUnit>>, <<1, a>>}}

OneUnit == {a}
Alone == [u \in OneUnit |-> {}]
=============================================================================
