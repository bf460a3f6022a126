------------------------- MODULE GoalRounds_proofs -------------------------
(***************************************************************************)
(* Theorems about GoalRounds, for every number of goals, set of tasks,     *)
(* dependency, budget and bound of the drains.                             *)
(*                                                                         *)
(* Each invariant is strengthened by what it needs of the place the        *)
(* kickoff has come to (Located): VerdictInv pays every verdict out of the *)
(* first turn, the budget, the sweep or a round; LiveInv says which goals  *)
(* may still be live; HandInv relates the tasks at hand to their files,    *)
(* and DoneInv the completed goals to both; StopInv follows the teardown.  *)
(* A step lemma has a case for each action that touches what its invariant *)
(* is about, and one for all the others.                                   *)
(***************************************************************************)
EXTENDS GoalRounds, TLAPS

-----------------------------------------------------------------------------
(* Where the kickoff is. *)

\* A goal is at hand, and may still be judged without another redo, sweep or round.
Turn == {"pass", "running", "judge", "rejudge", "reload", "sweep", "sweeping", "verify",
         "fixing"}
Worked == Turn \cup {"fix", "settle", "save"}
Draining(at) == pc = "drain" /\ where = at
Visit(which) == pc \in Worked /\ base = which
Begins == pc \in {"intake", "decompose"} \/ Draining("intake")
InLoop == pc \in {"next", "plan", "saved"} \/ Draining("saved") \/ Visit("first")
InRound == pc = "reexec" \/ Draining("wind") \/ Visit("again")

\* What the place tells of the rest.
Located ==
  /\ pc \in Worked \cup {"plan", "saved"} => cur \in Goals
  /\ Draining("saved") => cur \in Goals
  /\ Begins => cur = 1
  /\ Begins \/ InLoop => base = "first"
  /\ pc = "reexec" => base = "again"
  /\ InRound => round < MaxDrain
  /\ pc = "fix" => BudgetLeft
  /\ pc \in {"pass", "running"} => why \in {"first", "redo", "again"}
  /\ pc = "judge" => why = "first"
  /\ pc \in {"teardown_goals", "teardown_tickets"} => abort

\* The loop over the goals has yet to come to g.
Ahead(g) == \/ InLoop /\ g > cur
            \/ (pc \in {"next", "plan"} \/ Begins) /\ g = cur
            \/ Begins

TypeInv == TypeOK /\ Located

\* Every verdict is paid for: by the first turn, by a slot of the budget, by the
\* sweep or by a round of the wind-down.
Owed(g) == IF g = cur /\ pc \in Turn THEN 1 ELSE 0
Swept(g) == IF g \in swept THEN 1 ELSE 0
Rounds(g) == round + IF \/ (pc = "reexec" \/ Visit("again")) /\ g \notin redo
                        \/ pc = "done" /\ round < MaxDrain
                     THEN 1 ELSE 0
VerdictInv ==
  /\ \A g \in Goals : Ahead(g) => verdicts[g] = 0
  /\ \A g \in Goals : verdicts[g] + Owed(g) <= 1 + retry[g] + Swept(g) + Rounds(g)

\* A goal that is live is at hand, still to come, or was reopened.
Settled(g) == goalFile[g] = "in_progress" => <<g, NoUnit>> \in reopened
AtHand(g) == Ahead(g) \/ (pc \in Worked /\ g = cur)
LiveInv ==
  /\ ~abort /\ ~Begins /\ pc \notin {"done", "teardown_goals"} =>
       \A g \in Goals : AtHand(g) \/ Settled(g)
  /\ pc = "teardown_tickets" \/ (pc = "done" /\ outcome # "unavailable") =>
       \A g \in Goals : Settled(g)
  /\ \A g \in Goals : Ahead(g) => g \notin swept
  /\ pc \in {"pass", "running", "judge"} /\ why = "first" => cur \notin swept
  /\ pc \in {"pass", "running"} /\ why = "first" => base = "first"
  /\ pc = "judge" => base = "first"
  /\ pc = "save" /\ ~abort => held # "in_progress"

\* The tasks at hand are those of the files, but for what was reopened; a goal has
\* been planned with all of its tasks or with none.
Again == pc \in {"pass", "running"} /\ why = "again"
HandInv ==
  /\ \A g \in Goals : \A u, w \in Units :
       taskFile[<<g, u>>] = "none" => taskFile[<<g, w>>] = "none"
  /\ pc \in Worked => \A u \in Units : hand[u] = taskFile[<<cur, u>>] \/ <<cur, u>> \in reopened
  /\ pc \in Worked => \A u \in Units : hand[u] # "none" => taskFile[<<cur, u>>] # "none"
  /\ Again => \A u, w \in Units : hand[u] = "none" => hand[w] = "none"
  /\ pc \in Worked \ {"reload", "save"} /\ ~Again => \A u \in Units : hand[u] # "none"

\* Goals that are completed owe nothing, and are neither at hand nor to come.
OwesNothing(g) ==
  \A u \in Units : /\ <<g, u>> \notin gone /\ taskFile[<<g, u>>] # "none"
                   /\ \/ taskFile[<<g, u>>] = "completed" \/ <<g, u>> \in reopened
                      \/ abort /\ taskFile[<<g, u>>] = "abandoned"
DoneInv ==
  /\ \A g \in Goals : goalFile[g] = "completed" => OwesNothing(g)
  /\ \A g \in Goals : Ahead(g) => goalFile[g] # "completed"
  /\ pc \in Worked => goalFile[cur] # "completed"
  /\ pc \in (Worked \ {"save"}) \cup {"plan"} => held # "completed"
  /\ pc = "save" /\ held = "completed" =>
       \A u \in Units : hand[u] = "completed" /\ <<cur, u>> \notin gone

\* What the teardown has done so far.
StopInv ==
  /\ pc = "teardown_tickets" \/ (pc = "done" /\ outcome = "ended" /\ abort) =>
       \A g \in Goals : goalFile[g] \in {"none"} \cup Terminal \/ <<g, NoUnit>> \in reopened
  /\ pc \in {"teardown_goals", "teardown_tickets"} \/ (pc = "done" /\ outcome = "ended" /\ abort) =>
       \A t \in Tasks : taskFile[t] \in {"none", "completed", "abandoned"} \/ t \in reopened
  /\ pc = "done" /\ outcome = "ended" /\ abort => \A k \in tickets : k.own => k.status # "open"

-----------------------------------------------------------------------------
USE DEF files, work, marks, drains, operator, history, vars

LEMMA Bounds == /\ NGoals \in Nat /\ MaxRetries \in Nat /\ MaxDrain \in Nat /\ VerdictBound \in Nat
                /\ NoUnit \notin Units /\ 1 \in Goals
                /\ \A g \in Goals : g \in Nat /\ 1 <= g /\ g <= NGoals
BY GoalAssumption DEF VerdictBound, Goals

\* Where a goal is at hand.
LEMMA CurOK ==
  ASSUME TypeOK, Located
  PROVE  /\ pc \in {"plan", "pass", "running", "judge", "rejudge", "reload", "sweep", "sweeping",
                   "verify", "fixing", "fix", "settle", "save", "saved"} => cur \in Goals
         /\ pc = "fix" => retry[cur] < MaxRetries
         /\ pc = "reexec" => round < MaxDrain
         /\ pc \in {"pass", "running"} => why \in {"first", "redo", "again"}
BY DEF Located, Worked, Turn, BudgetLeft, InRound

LEMMA OpenedOK ==
  ASSUME TypeOK, cur \in Goals, NEW S \in SUBSET (Units \cup {NoUnit})
  PROVE  Opened(S) \subseteq TicketType
<1>1. pass[cur] \in Nat /\ \A u \in S : <<cur, u>> \in Things
  BY DEF TypeOK, KickoffOK, Things
<1>2. ASSUME NEW u \in S
      PROVE  [what |-> <<cur, u>>, own |-> TRUE, pass |-> pass[cur], status |-> "open",
              decision |-> "none"] \in TicketType
  BY <1>1 DEF TicketType
<1> QED BY <1>2 DEF Opened

LEMMA ZeroSettledOK ==
  \A s \in GoalStatus : /\ ZeroSettled(s) \in GoalStatus \ {"in_progress", "abandoned", "none"}
                        /\ s # "completed" => ZeroSettled(s) # "completed"
BY DEF ZeroSettled, GoalStatus

\* A reexecution takes up a goal of the drain or passes it over.
Resumes(g) ==
  /\ redo' = redo \ {g}
  /\ \/ /\ goalFile[g] \in Terminal \cup {"none"}
        /\ UNCHANGED <<pc, cur, held, hand, why, taskFile, reopened>>
     \/ /\ goalFile[g] \notin Terminal \cup {"none"}
        /\ pc' = "pass" /\ cur' = g /\ held' = goalFile[g] /\ why' = "again"
        /\ hand' = [u \in Units |-> IF taskFile[<<g, u>>] = "pending" THEN "dispatched"
                                   ELSE taskFile[<<g, u>>]]
        /\ taskFile' = [t \in Tasks |-> IF t[1] = g THEN hand'[t[2]] ELSE taskFile[t]]
        /\ reopened' = reopened \ ({g} \X Units)

LEMMA ReexecuteMeans ==
  ASSUME TypeOK, Reexecute
  PROVE  /\ \E g \in redo : g \in Goals /\ Resumes(g)
         /\ pc = "reexec"
         /\ UNCHANGED <<base, goalFile, gone, verdicts, retry, swept, round, where, abort, outcome>>
BY DEF Resumes, Reexecute, Goto, TypeOK, TicketsOK

LEMMA TasksAre ==
  /\ \A g \in Goals, u \in Units : <<g, u>> \in Tasks
  /\ \A t \in Tasks : t = <<t[1], t[2]>> /\ t[1] \in Goals /\ t[2] \in Units /\ t[2] # NoUnit
BY Bounds DEF Tasks

LEMMA TicketsName ==
  ASSUME TypeOK, NEW k \in tickets
  PROVE  \E g \in Goals, u \in Units \cup {NoUnit} : k.what = <<g, u>>
BY DEF TypeOK, TicketsOK, TicketType, Things

\* What a decision may write to the files of the run.
LEMMA DecideMeans ==
  ASSUME TypeOK, NEW k \in tickets, NEW d \in {"approved", "denied"}, Decide(k, d)
  PROVE  \/ UNCHANGED <<goalFile, taskFile, reopened>>
         \/ \E g \in Goals :
              /\ goalFile[g] \notin {"none", "abandoned"}
              /\ goalFile' = [goalFile EXCEPT ![g] = "in_progress"] /\ taskFile' = taskFile
              /\ reopened' = reopened \cup {<<g, NoUnit>>}
         \/ \E t \in Tasks :
              /\ taskFile[t] \notin {"none", "abandoned"}
              /\ taskFile' = [taskFile EXCEPT ![t] = "pending"] /\ goalFile' = goalFile
              /\ reopened' = reopened \cup {t}
<1>1. PICK g \in Goals, u \in Units \cup {NoUnit} : k.what = <<g, u>>
  BY TicketsName
<1>2. CASE u = NoUnit
  <2>1. k.what[1] = g /\ k.what[2] = NoUnit /\ k.what = <<g, NoUnit>>
    BY <1>1, <1>2
  <2>2. taskFile' = taskFile
    BY <2>1 DEF Decide
  <2>3. CASE d = "denied" /\ goalFile[g] \notin {"none", "abandoned"}
    BY <2>1, <2>2, <2>3 DEF Decide
  <2>4. CASE ~(d = "denied" /\ goalFile[g] \notin {"none", "abandoned"})
    BY <2>1, <2>2, <2>4 DEF Decide
  <2> QED BY <2>3, <2>4
<1>3. CASE u # NoUnit
  BY <1>1, <1>3, TasksAre DEF Decide
<1> QED BY <1>2, <1>3

\* What a goal that was executed again is left with.
LEMMA ReloadMeans ==
  ASSUME Reload
  PROVE  /\ pc = "reload" /\ hand' = [u \in Units |-> taskFile[<<cur, u>>]]
         /\ \/ pc' = "verify" /\ UNCHANGED <<held, goalFile, reopened>>
            \/ pc' = "save" /\ held' = ZeroSettled(held) /\ SaveGoal(held')
         /\ UNCHANGED <<taskFile, cur, base, gone, verdicts, retry, swept, redo, round, where, abort,
                        outcome, why, pass, shown>>
BY DEF Reload, Goto

-----------------------------------------------------------------------------
(* Types, and the place of the kickoff. *)

LEMMA FilesStep ==
  ASSUME TypeOK, Located, [Next]_vars
  PROVE  FilesOK'
<1> USE DEF TypeOK, FilesOK, KickoffOK, GoalStatus, TaskStatus
<1>1. CASE UNCHANGED <<goalFile, taskFile, retry, gone>>
  BY <1>1
<1>2. CASE DrainRaises
  BY <1>2, Bounds, CurOK, ZeroSettledOK DEF DrainRaises, Goto, SettleLive, Terminal
<1>3. CASE Decompose
  BY <1>3, Bounds, CurOK, ZeroSettledOK DEF Decompose, Goto
<1>4. CASE RejectPlan
  BY <1>4, Bounds, CurOK, ZeroSettledOK DEF RejectPlan, Goto, Opened
<1>5. CASE CommitPlan
  BY <1>5, Bounds, CurOK, ZeroSettledOK DEF CommitPlan, Goto, Opened, SaveTasks
<1>6. CASE EndPass
  BY <1>6, Bounds, CurOK, ZeroSettledOK DEF EndPass, Goto, AfterPass, PassOutcomes, Runnable,
     Failed, Done, SaveTasks, Opened
<1>7. CASE SweepStopped
  BY <1>7, Bounds, CurOK, ZeroSettledOK DEF SweepStopped, NothingSwept, Goto, SaveGoal
<1>8. CASE EndSweep
  BY <1>8, Bounds, CurOK, ZeroSettledOK DEF EndSweep, Done, NothingSwept, Goto, SaveGoal
<1>9. CASE Rejudge
  BY <1>9, Bounds, CurOK, ZeroSettledOK DEF Rejudge, Goto, Done, SpendSweep, SaveGoal
<1>10. CASE VerdictUnreadable
  BY <1>10, Bounds, CurOK, ZeroSettledOK DEF VerdictUnreadable, Counted, VerdictBound, SaveGoal,
     Goto
<1>11. CASE StartFix
  BY <1>11, Bounds, CurOK, ZeroSettledOK DEF StartFix, Goto, Spent, SaveGoal
<1>12. CASE EndFix
  BY <1>12, Bounds, CurOK, ZeroSettledOK DEF EndFix, Goto, Done, Tasks
<1>13. CASE FloorRedo
  BY <1>13, Bounds, CurOK, ZeroSettledOK DEF FloorRedo, Goto, Spent, SaveTasks
<1>14. CASE SaveVerdict
  BY <1>14, Bounds, CurOK, ZeroSettledOK DEF SaveVerdict, SaveGoal, Goto, Done
<1>15. CASE Reexecute
  <2>1. PICK g \in redo : g \in Goals /\ Resumes(g)
    BY <1>15, ReexecuteMeans
  <2>2. \A u \in Units : <<g, u>> \in Tasks
    BY <2>1 DEF Tasks
  <2>3. \A t \in Tasks : t[2] \in Units
    BY DEF Tasks
  <2>a. \A u \in Units : taskFile[<<g, u>>] \in TaskStatus
    BY <2>2 DEF FilesOK
  <2>4. hand' \in [Units -> TaskStatus]
    BY <2>1, <2>a DEF Resumes
  <2>5. taskFile' \in [Tasks -> TaskStatus]
    BY <2>1, <2>3, <2>4 DEF FilesOK, Resumes
  <2>6. cur' \in Nat \ {0} /\ held' \in GoalStatus
    BY <2>1, <2>2, Bounds DEF FilesOK, Goals, Resumes
  <2> QED BY <1>15, <2>1, <2>4, <2>5, <2>6 DEF Reexecute, Resumes, FilesOK
<1>16. CASE Reload
  BY <1>16, Bounds, CurOK, ZeroSettledOK DEF Reload, Goto, SaveGoal
<1>17. CASE TeardownTasks
  BY <1>17, Bounds, CurOK, ZeroSettledOK DEF TeardownTasks, Goto
<1>18. CASE TeardownGoals
  BY <1>18, Bounds, CurOK, ZeroSettledOK DEF TeardownGoals, Goto, LeftAlone, Terminal
<1>19. CASE CallFails
  BY <1>19, Bounds, CurOK, ZeroSettledOK DEF CallFails, Goto, SettleLive, Terminal
<1>20. ASSUME NEW k \in tickets, NEW d \in {"approved", "denied"}, Decide(k, d)
       PROVE  FilesOK'
  BY <1>20, Bounds, CurOK, ZeroSettledOK DEF Decide
<1>21. ASSUME \/ StartDrain \/ CloseDecided \/ EndDrain \/ NextGoal \/ StartPass
              \/ StartSweep \/ Judge \/ Verify \/ Settle \/ FixStopped \/ NextRound
              \/ CloseRecovered \/ Finish \/ TeardownTickets \/ LeaderUnavailable
              \/ StopRun
              \/ \E k \in tickets : DeleteTicket(k)
       PROVE  UNCHANGED <<goalFile, taskFile, retry, gone>>
  BY <1>21 DEF StartDrain, Goto, CloseDecided, Reported, EndDrain, NextGoal, StartPass,
     AfterPass, StartSweep, Judge, Done, SpendSweep, Verify, Counted, VerdictBound, Verdicts,
     SweepFirst, Disappointed, CanRedo, BudgetLeft, Settle, Holes, FixStopped, NextRound,
     CloseRecovered, Finish, TeardownTickets, LeaderUnavailable, StopRun, DeleteTicket
<1> QED
  BY <1>1, <1>2, <1>3, <1>4, <1>5, <1>6, <1>7, <1>8, <1>9, <1>10, <1>11, <1>12, <1>13, <1>14,
     <1>15, <1>16, <1>17, <1>18, <1>19, <1>20, <1>21
     DEF Next, Kickoff, Operator

LEMMA TicketsStep ==
  ASSUME TypeOK, Located, [Next]_vars
  PROVE  TicketsOK'
<1> USE DEF TypeOK, TicketsOK, KickoffOK, TicketType, Things
<1>1. CASE UNCHANGED <<tickets, queue, redo>>
  BY <1>1
<1>2. CASE StartDrain
  BY <1>2, Bounds, CurOK, ZeroSettledOK DEF StartDrain, Goto
<1>3. CASE CloseDecided
  BY <1>3, Bounds, CurOK, ZeroSettledOK DEF CloseDecided, Reported, Goals
<1>4. CASE DrainRaises
  BY <1>4, Bounds, CurOK, ZeroSettledOK DEF DrainRaises, Goto, SettleLive, Terminal
<1>5. CASE RejectPlan
  <2>1. cur \in Goals
    BY <1>5, CurOK DEF RejectPlan
  <2> QED BY <1>5, <2>1, OpenedOK DEF RejectPlan
<1>6. CASE CommitPlan
  <2>1. cur \in Goals
    BY <1>6, CurOK DEF CommitPlan
  <2>2. PICK s \in {"dispatched", "failed"} :
          tickets' = tickets \cup Opened(IF s = "failed" THEN Units ELSE {})
    BY <1>6 DEF CommitPlan
  <2> QED BY <1>6, <2>1, <2>2, OpenedOK DEF CommitPlan
<1>7. CASE EndPass
  <2>1. cur \in Goals
    BY <1>7, CurOK DEF EndPass
  <2>2. PICK r \in PassOutcomes : tickets' = tickets \cup Opened(r.spent)
    BY <1>7 DEF EndPass
  <2>3. r.spent \in SUBSET Units
    BY DEF PassOutcomes, Runnable
  <2> QED BY <1>7, <2>1, <2>2, <2>3, OpenedOK DEF EndPass
<1>8. CASE Reexecute
  BY <1>8, Bounds, CurOK, ZeroSettledOK DEF Reexecute, Terminal, Goto
<1>9. CASE CloseRecovered
  BY <1>9, Bounds, CurOK, ZeroSettledOK DEF CloseRecovered, Goto
<1>10. CASE TeardownTickets
  BY <1>10, Bounds, CurOK, ZeroSettledOK DEF TeardownTickets, Goto
<1>11. ASSUME NEW k \in tickets, NEW d \in {"approved", "denied"}, Decide(k, d)
       PROVE  TicketsOK'
  BY <1>11, Bounds, CurOK, ZeroSettledOK DEF Decide
<1>12. ASSUME NEW k \in tickets, DeleteTicket(k)
       PROVE  TicketsOK'
  BY <1>12, Bounds, CurOK, ZeroSettledOK DEF DeleteTicket
<1>13. ASSUME \/ EndDrain \/ Decompose \/ NextGoal \/ StartPass \/ SweepStopped
              \/ StartSweep \/ EndSweep \/ Judge \/ Rejudge \/ Verify \/ VerdictUnreadable
              \/ Settle \/ FixStopped \/ StartFix \/ EndFix \/ FloorRedo \/ SaveVerdict
              \/ Reload \/ NextRound \/ Finish \/ TeardownTasks \/ TeardownGoals
              \/ LeaderUnavailable \/ CallFails \/ StopRun
       PROVE  UNCHANGED <<tickets, queue, redo>>
  BY <1>13 DEF EndDrain, Goto, Decompose, NextGoal, StartPass, AfterPass, SweepStopped,
     NothingSwept, ZeroSettled, SaveGoal, StartSweep, EndSweep, Done, Judge, SpendSweep,
     Rejudge, Verify, Counted, VerdictBound, Verdicts, SweepFirst, Disappointed, CanRedo,
     BudgetLeft, VerdictUnreadable, Settle, Holes, FixStopped, StartFix, Spent, EndFix,
     FloorRedo, SaveTasks, SaveVerdict, Reload, NextRound, Finish, TeardownTasks, TeardownGoals,
     LeftAlone, Terminal, LeaderUnavailable, CallFails, SettleLive, StopRun
<1> QED
  BY <1>1, <1>2, <1>3, <1>4, <1>5, <1>6, <1>7, <1>8, <1>9, <1>10, <1>11, <1>12, <1>13
     DEF Next, Kickoff, Operator

LEMMA KickoffStep ==
  ASSUME TypeOK, Located, [Next]_vars
  PROVE  KickoffOK'
<1> USE DEF TypeOK, KickoffOK, GoalStatus, TaskStatus
<1>1. CASE UNCHANGED <<pc, cur, base, held, hand, why, pass, swept, shown, where, round>>
  BY <1>1
<1>2. CASE StartDrain
  BY <1>2, Bounds, CurOK, ZeroSettledOK DEF StartDrain, Goto
<1>3. CASE DrainRaises
  BY <1>3, Bounds, CurOK, ZeroSettledOK DEF DrainRaises, Goto, SettleLive, Terminal
<1>4. CASE EndDrain
  BY <1>4, Bounds, CurOK, ZeroSettledOK DEF EndDrain, Goto
<1>5. CASE Decompose
  BY <1>5, Bounds, CurOK, ZeroSettledOK DEF Decompose, Goto
<1>6. CASE NextGoal
  BY <1>6, Bounds, CurOK, ZeroSettledOK DEF NextGoal, Goto, Goals
<1>7. CASE RejectPlan
  BY <1>7, Bounds, CurOK, ZeroSettledOK DEF RejectPlan, Goto, Opened
<1>8. CASE CommitPlan
  BY <1>8, Bounds, CurOK, ZeroSettledOK DEF CommitPlan, Goto, Opened, SaveTasks
<1>9. CASE StartPass
  BY <1>9, Bounds, CurOK, ZeroSettledOK DEF StartPass, Goto, AfterPass
<1>10. CASE EndPass
  BY <1>10, Bounds, CurOK, ZeroSettledOK DEF EndPass, Goto, AfterPass, PassOutcomes, Runnable,
     Failed, Done, SaveTasks, Opened
<1>11. CASE SweepStopped
  BY <1>11, Bounds, CurOK, ZeroSettledOK DEF SweepStopped, NothingSwept, Goto, SaveGoal
<1>12. CASE StartSweep
  BY <1>12, Bounds, CurOK, ZeroSettledOK DEF StartSweep, Goto
<1>13. CASE EndSweep
  BY <1>13, Bounds, CurOK, ZeroSettledOK DEF EndSweep, Done, NothingSwept, Goto, SaveGoal
<1>14. CASE Judge
  BY <1>14, Bounds, CurOK, ZeroSettledOK DEF Judge, Done, Goto, SpendSweep
<1>15. CASE Rejudge
  BY <1>15, Bounds, CurOK, ZeroSettledOK DEF Rejudge, Goto, Done, SpendSweep, SaveGoal
<1>16. CASE Verify
  BY <1>16, Bounds, CurOK, ZeroSettledOK DEF Verify, Counted, VerdictBound, Verdicts,
     SweepFirst, Disappointed, CanRedo, BudgetLeft, SpendSweep, Goto
<1>17. CASE VerdictUnreadable
  BY <1>17, Bounds, CurOK, ZeroSettledOK DEF VerdictUnreadable, Counted, VerdictBound, SaveGoal,
     Goto
<1>18. CASE Settle
  BY <1>18, Bounds, CurOK, ZeroSettledOK DEF Settle, SpendSweep, Goto
<1>19. CASE FixStopped
  BY <1>19, Bounds, CurOK, ZeroSettledOK DEF FixStopped, Goto
<1>20. CASE StartFix
  BY <1>20, Bounds, CurOK, ZeroSettledOK DEF StartFix, Goto, Spent, SaveGoal
<1>21. CASE EndFix
  BY <1>21, Bounds, CurOK, ZeroSettledOK DEF EndFix, Goto, Done
<1>22. CASE FloorRedo
  BY <1>22, Bounds, CurOK, ZeroSettledOK DEF FloorRedo, Goto, Spent, SaveTasks
<1>23. CASE SaveVerdict
  BY <1>23, Bounds, CurOK, ZeroSettledOK DEF SaveVerdict, SaveGoal, Goto, Done, Tasks
<1>24. CASE Reexecute
  <2>1. PICK g \in redo : g \in Goals /\ Resumes(g)
    BY <1>24, ReexecuteMeans
  <2>2. \A u \in Units : <<g, u>> \in Tasks
    BY <2>1 DEF Tasks
  <2>3. \A t \in Tasks : t[2] \in Units
    BY DEF Tasks
  <2>a. \A u \in Units : taskFile[<<g, u>>] \in TaskStatus
    BY <2>2 DEF FilesOK
  <2>4. hand' \in [Units -> TaskStatus]
    BY <2>1, <2>a DEF Resumes
  <2>5. taskFile' \in [Tasks -> TaskStatus]
    BY <2>1, <2>3, <2>4 DEF FilesOK, Resumes
  <2>6. cur' \in Nat \ {0} /\ held' \in GoalStatus
    BY <2>1, <2>2, Bounds DEF FilesOK, Goals, Resumes
  <2> QED BY <1>24, <2>1, <2>4, <2>5, <2>6 DEF Reexecute, Resumes, FilesOK
<1>25. CASE Reload
  BY <1>25, Bounds, CurOK, ZeroSettledOK DEF Reload, Goto, SaveGoal, FilesOK, Tasks
<1>26. CASE NextRound
  BY <1>26, Bounds, CurOK, ZeroSettledOK DEF NextRound, Goto
<1>27. CASE CloseRecovered
  BY <1>27, Bounds, CurOK, ZeroSettledOK DEF CloseRecovered, Goto
<1>28. CASE Finish
  BY <1>28, Bounds, CurOK, ZeroSettledOK DEF Finish, Goto
<1>29. CASE TeardownTasks
  BY <1>29, Bounds, CurOK, ZeroSettledOK DEF TeardownTasks, Goto
<1>30. CASE TeardownGoals
  BY <1>30, Bounds, CurOK, ZeroSettledOK DEF TeardownGoals, Goto, LeftAlone, Terminal
<1>31. CASE TeardownTickets
  BY <1>31, Bounds, CurOK, ZeroSettledOK DEF TeardownTickets, Goto
<1>32. CASE LeaderUnavailable
  BY <1>32, Bounds, CurOK, ZeroSettledOK DEF LeaderUnavailable, Goto
<1>33. CASE CallFails
  BY <1>33, Bounds, CurOK, ZeroSettledOK DEF CallFails, Goto, SettleLive, Terminal
<1>34. ASSUME \/ CloseDecided \/ StopRun
              \/ \E k \in tickets, d \in {"approved", "denied"} : Decide(k, d)
              \/ \E k \in tickets : DeleteTicket(k)
       PROVE  UNCHANGED <<pc, cur, base, held, hand, why, pass, swept, shown, where, round>>
  BY <1>34 DEF CloseDecided, Reported, StopRun, Decide, DeleteTicket
<1> QED
  BY <1>1, <1>2, <1>3, <1>4, <1>5, <1>6, <1>7, <1>8, <1>9, <1>10, <1>11, <1>12, <1>13, <1>14,
     <1>15, <1>16, <1>17, <1>18, <1>19, <1>20, <1>21, <1>22, <1>23, <1>24, <1>25, <1>26, <1>27,
     <1>28, <1>29, <1>30, <1>31, <1>32, <1>33, <1>34
     DEF Next, Kickoff, Operator

LEMMA HistoryStep ==
  ASSUME TypeOK, Located, [Next]_vars
  PROVE  HistoryOK'
<1> USE DEF TypeOK, HistoryOK
<1>1. CASE UNCHANGED <<outcome, abort, verdicts, reopened, decisions, deletions>>
  BY <1>1
<1>2. CASE DrainRaises
  BY <1>2, Bounds, CurOK, ZeroSettledOK DEF DrainRaises, Goto, SettleLive, Terminal
<1>3. CASE RejectPlan
  BY <1>3, Bounds, CurOK, ZeroSettledOK DEF RejectPlan, Goto, Opened
<1>4. CASE CommitPlan
  BY <1>4, Bounds, CurOK, ZeroSettledOK DEF CommitPlan, Goto, Opened, SaveTasks
<1>5. CASE EndPass
  BY <1>5, Bounds, CurOK, ZeroSettledOK DEF EndPass, Goto, AfterPass, PassOutcomes, Runnable,
     Failed, Done, SaveTasks, Opened
<1>6. CASE SweepStopped
  BY <1>6, Bounds, CurOK, ZeroSettledOK DEF SweepStopped, NothingSwept, Goto, SaveGoal
<1>7. CASE EndSweep
  BY <1>7, Bounds, CurOK, ZeroSettledOK DEF EndSweep, Done, NothingSwept, Goto, SaveGoal
<1>8. CASE Rejudge
  BY <1>8, Bounds, CurOK, ZeroSettledOK DEF Rejudge, Goto, Done, SpendSweep, SaveGoal
<1>9. CASE Verify
  BY <1>9, Bounds, CurOK, ZeroSettledOK DEF Verify, Counted, Verdicts, SweepFirst, Disappointed,
     CanRedo, BudgetLeft, SpendSweep, Goto
<1>10. CASE VerdictUnreadable
  BY <1>10, Bounds, CurOK, ZeroSettledOK DEF VerdictUnreadable, Counted, SaveGoal, Goto
<1>11. CASE StartFix
  BY <1>11, Bounds, CurOK, ZeroSettledOK DEF StartFix, Goto, Spent, SaveGoal
<1>12. CASE FloorRedo
  BY <1>12, Bounds, CurOK, ZeroSettledOK DEF FloorRedo, Goto, Spent, SaveTasks
<1>13. CASE SaveVerdict
  BY <1>13, Bounds, CurOK, ZeroSettledOK DEF SaveVerdict, SaveGoal, Goto, Done
<1>14. CASE Reexecute
  BY <1>14, Bounds, CurOK, ZeroSettledOK DEF Reexecute, Terminal, Goto
<1>15. CASE Reload
  BY <1>15, Bounds, CurOK, ZeroSettledOK DEF Reload, Goto, SaveGoal
<1>16. CASE Finish
  BY <1>16, Bounds, CurOK, ZeroSettledOK DEF Finish, Goto
<1>17. CASE TeardownTasks
  BY <1>17, Bounds, CurOK, ZeroSettledOK DEF TeardownTasks, Goto
<1>18. CASE TeardownGoals
  BY <1>18, Bounds, CurOK, ZeroSettledOK DEF TeardownGoals, Goto, LeftAlone, Terminal
<1>19. CASE TeardownTickets
  BY <1>19, Bounds, CurOK, ZeroSettledOK DEF TeardownTickets, Goto
<1>20. CASE LeaderUnavailable
  BY <1>20, Bounds, CurOK, ZeroSettledOK DEF LeaderUnavailable, Goto
<1>21. CASE CallFails
  BY <1>21, Bounds, CurOK, ZeroSettledOK DEF CallFails, Goto, SettleLive, Terminal
<1>22. CASE StopRun
  BY <1>22, Bounds, CurOK, ZeroSettledOK DEF StopRun
<1>23. ASSUME NEW k \in tickets, NEW d \in {"approved", "denied"}, Decide(k, d)
       PROVE  HistoryOK'
  BY <1>23, Bounds, CurOK, ZeroSettledOK DEF Decide, TicketsOK, TicketType
<1>24. ASSUME NEW k \in tickets, DeleteTicket(k)
       PROVE  HistoryOK'
  BY <1>24, Bounds, CurOK, ZeroSettledOK DEF DeleteTicket
<1>25. ASSUME \/ StartDrain \/ CloseDecided \/ EndDrain \/ Decompose \/ NextGoal
              \/ StartPass \/ StartSweep \/ Judge \/ Settle \/ FixStopped \/ EndFix
              \/ NextRound \/ CloseRecovered
       PROVE  UNCHANGED <<outcome, abort, verdicts, reopened, decisions, deletions>>
  BY <1>25 DEF StartDrain, Goto, CloseDecided, Reported, EndDrain, Decompose, NextGoal,
     StartPass, AfterPass, StartSweep, Judge, Done, SpendSweep, Settle, Holes, FixStopped,
     EndFix, NextRound, CloseRecovered
<1> QED
  BY <1>1, <1>2, <1>3, <1>4, <1>5, <1>6, <1>7, <1>8, <1>9, <1>10, <1>11, <1>12, <1>13, <1>14,
     <1>15, <1>16, <1>17, <1>18, <1>19, <1>20, <1>21, <1>22, <1>23, <1>24, <1>25
     DEF Next, Kickoff, Operator

LEMMA LocatedStep ==
  ASSUME TypeOK, TypeOK', Located, [Next]_vars
  PROVE  Located'
<1> USE DEF Located, KickoffOK, TypeOK, Worked, Turn, Begins, InLoop, InRound, Draining, Visit
<1>1. CASE UNCHANGED <<pc, cur, base, round, retry, why, where, abort>>
  BY <1>1 DEF BudgetLeft
<1>2. CASE StartDrain
  BY <1>2, Bounds DEF StartDrain, Goto
<1>3. CASE DrainRaises
  BY <1>3, Bounds DEF DrainRaises, Goto, SettleLive, Terminal
<1>4. CASE EndDrain
  BY <1>4, Bounds DEF EndDrain, Goto
<1>5. CASE Decompose
  BY <1>5, Bounds DEF Decompose, Goto
<1>6. CASE NextGoal
  BY <1>6, Bounds DEF NextGoal, Goto, Goals
<1>7. CASE RejectPlan
  BY <1>7, Bounds DEF RejectPlan, Goto, Opened
<1>8. CASE CommitPlan
  BY <1>8, Bounds DEF CommitPlan, Goto, Opened, SaveTasks
<1>9. CASE StartPass
  BY <1>9, Bounds DEF StartPass, Goto, AfterPass
<1>10. CASE EndPass
  BY <1>10, Bounds DEF EndPass, Goto, AfterPass, PassOutcomes, Runnable, Failed, Done,
     SaveTasks, Opened
<1>11. CASE SweepStopped
  BY <1>11, Bounds DEF SweepStopped, NothingSwept, Goto, SaveGoal
<1>12. CASE StartSweep
  BY <1>12, Bounds DEF StartSweep, Goto
<1>13. CASE EndSweep
  BY <1>13, Bounds DEF EndSweep, Done, NothingSwept, Goto, SaveGoal
<1>14. CASE Judge
  BY <1>14, Bounds DEF Judge, Done, Goto, SpendSweep
<1>15. CASE Rejudge
  BY <1>15, Bounds DEF Rejudge, Goto, Done, SpendSweep, SaveGoal
<1>16. CASE Verify
  BY <1>16, Bounds DEF Verify, Counted, VerdictBound, Verdicts, SweepFirst, Disappointed,
     CanRedo, BudgetLeft, SpendSweep, Goto, BudgetLeft
<1>17. CASE VerdictUnreadable
  BY <1>17, Bounds DEF VerdictUnreadable, Counted, VerdictBound, SaveGoal, Goto
<1>18. CASE Settle
  BY <1>18, Bounds DEF Settle, Holes, SpendSweep, Goto
<1>19. CASE FixStopped
  BY <1>19, Bounds DEF FixStopped, Goto
<1>20. CASE StartFix
  BY <1>20, Bounds DEF StartFix, Goto, Spent, SaveGoal, BudgetLeft
<1>21. CASE EndFix
  BY <1>21, Bounds DEF EndFix, Goto, Done
<1>22. CASE FloorRedo
  BY <1>22, Bounds DEF FloorRedo, Goto, Spent, SaveTasks, BudgetLeft
<1>23. CASE SaveVerdict
  BY <1>23, Bounds DEF SaveVerdict, SaveGoal, Goto, Done
<1>24. CASE Reexecute
  <2>1. PICK g \in redo : g \in Goals /\ Resumes(g)
    BY <1>24, ReexecuteMeans
  <2>2. round < MaxDrain
    BY <1>24 DEF Reexecute
  <2> QED BY <1>24, <2>1, <2>2 DEF Reexecute, Resumes
<1>25. CASE Reload
  BY <1>25, Bounds, CurOK, ReloadMeans
<1>26. CASE NextRound
  BY <1>26, Bounds DEF NextRound, Goto
<1>27. CASE CloseRecovered
  BY <1>27, Bounds DEF CloseRecovered, Goto
<1>28. CASE Finish
  BY <1>28, Bounds DEF Finish, Goto
<1>29. CASE TeardownTasks
  BY <1>29, Bounds DEF TeardownTasks, Goto
<1>30. CASE TeardownGoals
  BY <1>30, Bounds DEF TeardownGoals, Goto, LeftAlone, Terminal
<1>31. CASE TeardownTickets
  BY <1>31, Bounds DEF TeardownTickets, Goto
<1>32. CASE LeaderUnavailable
  BY <1>32, Bounds DEF LeaderUnavailable, Goto
<1>33. CASE CallFails
  BY <1>33, Bounds DEF CallFails, Goto, SettleLive, Terminal
<1>34. CASE StopRun
  BY <1>34, Bounds DEF StopRun, BudgetLeft
<1>35. ASSUME \/ CloseDecided
              \/ \E k \in tickets, d \in {"approved", "denied"} : Decide(k, d)
              \/ \E k \in tickets : DeleteTicket(k)
       PROVE  UNCHANGED <<pc, cur, base, round, retry, why, where, abort>>
  BY <1>35 DEF CloseDecided, Reported, Decide, DeleteTicket
<1> QED
  BY <1>1, <1>2, <1>3, <1>4, <1>5, <1>6, <1>7, <1>8, <1>9, <1>10, <1>11, <1>12, <1>13, <1>14,
     <1>15, <1>16, <1>17, <1>18, <1>19, <1>20, <1>21, <1>22, <1>23, <1>24, <1>25, <1>26, <1>27,
     <1>28, <1>29, <1>30, <1>31, <1>32, <1>33, <1>34, <1>35
     DEF Next, Kickoff, Operator

LEMMA TypeInitially == Init => TypeInv
<1> SUFFICES ASSUME Init
             PROVE  TypeInv
  OBVIOUS
<1>1. FilesOK
  BY Bounds DEF Init, FilesOK, GoalStatus, TaskStatus
<1>2. TicketsOK
  BY GoalAssumption DEF Init, TicketsOK
<1>3. KickoffOK
  BY Bounds DEF Init, KickoffOK, GoalStatus, TaskStatus
<1>4. HistoryOK
  <2>1. VerdictBound + 1 \in Nat
    BY Bounds
  <2>2. verdicts \in [Goals -> 0..(VerdictBound + 1)]
    BY <2>1 DEF Init
  <2>3. abort \in BOOLEAN
    BY DEF Init
  <2>4. /\ outcome \in {"running", "ended", "fatal", "unavailable"}
        /\ reopened \subseteq Things /\ decisions \in Nat /\ deletions \in Nat
    BY DEF Init
  <2> QED BY <2>2, <2>3, <2>4 DEF HistoryOK
<1>5. Located
  BY DEF Init, Located, Worked, Turn, Begins, InLoop, InRound, Draining, Visit
<1> QED BY <1>1, <1>2, <1>3, <1>4, <1>5 DEF TypeInv, TypeOK

LEMMA TypeStep == TypeInv /\ [Next]_vars => TypeInv'
<1> SUFFICES ASSUME TypeOK, Located, [Next]_vars
             PROVE  TypeOK' /\ Located'
  BY DEF TypeInv
<1>1. TypeOK'
  BY FilesStep, TicketsStep, KickoffStep, HistoryStep DEF TypeOK
<1> QED BY <1>1, LocatedStep

LEMMA TypeInvariant == Spec => []TypeInv
BY TypeInitially, TypeStep, PTL DEF Spec

\* Types. No goal is redone more often than its budget of retries allows, whichever
\* of the two lanes redoes it.
THEOREM TypeCorrect == Spec => []TypeOK
BY TypeInvariant, PTL DEF TypeInv

-----------------------------------------------------------------------------
(* The verdicts. *)

LEMMA VerdictStep ==
  ASSUME TypeOK, TypeOK', Located, VerdictInv, [Next]_vars
  PROVE  VerdictInv'
<1> USE DEF VerdictInv, FilesOK, HistoryOK, TicketsOK, KickoffOK, TypeOK, Rounds, Swept, Owed,
   Ahead, Located, Worked, Turn, Begins, InLoop, InRound, Draining, Visit
<1>1. CASE UNCHANGED <<pc, cur, base, verdicts, retry, swept, redo, round, where>>
  BY <1>1
<1>2. CASE StartDrain
  BY <1>2, Bounds, CurOK DEF StartDrain, Goto
<1>3. CASE CloseDecided
  BY <1>3, Bounds, CurOK DEF CloseDecided, Reported
<1>4. CASE DrainRaises
  BY <1>4, Bounds, CurOK DEF DrainRaises, Goto, SettleLive, Terminal
<1>5. CASE EndDrain
  BY <1>5, Bounds, CurOK DEF EndDrain, Goto
<1>6. CASE Decompose
  BY <1>6, Bounds, CurOK DEF Decompose, Goto
<1>7. CASE NextGoal
  BY <1>7, Bounds, CurOK DEF NextGoal, Goto
<1>8. CASE RejectPlan
  BY <1>8, Bounds, CurOK DEF RejectPlan, Goto, Opened
<1>9. CASE CommitPlan
  BY <1>9, Bounds, CurOK DEF CommitPlan, Goto, Opened, SaveTasks
<1>10. CASE StartPass
  BY <1>10, Bounds, CurOK DEF StartPass, Goto, AfterPass
<1>11. CASE EndPass
  BY <1>11, Bounds, CurOK DEF EndPass, Goto, AfterPass, PassOutcomes, Runnable, Failed, Done,
     SaveTasks, Opened
<1>12. CASE SweepStopped
  BY <1>12, Bounds, CurOK DEF SweepStopped, NothingSwept, Goto, SaveGoal
<1>13. CASE StartSweep
  BY <1>13, Bounds, CurOK DEF StartSweep, Goto
<1>14. CASE EndSweep
  BY <1>14, Bounds, CurOK DEF EndSweep, Done, NothingSwept, Goto, SaveGoal
<1>15. CASE Judge
  BY <1>15, Bounds, CurOK DEF Judge, Done, Goto, SpendSweep
<1>16. CASE Rejudge
  BY <1>16, Bounds, CurOK DEF Rejudge, Goto, Done, SpendSweep, SaveGoal
<1>17. CASE Verify
  BY <1>17, Bounds, CurOK DEF Verify, Counted, VerdictBound, Verdicts, SweepFirst, Disappointed,
     CanRedo, BudgetLeft, SpendSweep, Goto
<1>18. CASE VerdictUnreadable
  BY <1>18, Bounds, CurOK DEF VerdictUnreadable, Counted, VerdictBound, SaveGoal, Goto
<1>19. CASE Settle
  BY <1>19, Bounds, CurOK DEF Settle, SpendSweep, Goto
<1>20. CASE FixStopped
  BY <1>20, Bounds, CurOK DEF FixStopped, Goto
<1>21. CASE StartFix
  BY <1>21, Bounds, CurOK DEF StartFix, Goto, Spent, SaveGoal
<1>22. CASE EndFix
  BY <1>22, Bounds, CurOK DEF EndFix, Goto, Done
<1>23. CASE FloorRedo
  BY <1>23, Bounds, CurOK DEF FloorRedo, Goto, Spent, SaveTasks
<1>24. CASE SaveVerdict
  BY <1>24, Bounds, CurOK DEF SaveVerdict, SaveGoal, Goto, Done
<1>25. CASE Reexecute
  <2>1. PICK g \in redo : g \in Goals /\ Resumes(g)
    BY <1>25, ReexecuteMeans
  <2>2. /\ pc = "reexec"
        /\ UNCHANGED <<base, goalFile, gone, verdicts, retry, swept, round, where, abort, outcome>>
    BY <1>25, ReexecuteMeans
  <2> QED BY <2>1, <2>2, Bounds DEF Resumes
<1>26. CASE Reload
  BY <1>26, Bounds, CurOK, ReloadMeans
<1>27. CASE NextRound
  BY <1>27, Bounds, CurOK DEF NextRound, Goto
<1>28. CASE CloseRecovered
  BY <1>28, Bounds, CurOK DEF CloseRecovered, Goto
<1>29. CASE Finish
  BY <1>29, Bounds, CurOK DEF Finish, Goto
<1>30. CASE TeardownTasks
  BY <1>30, Bounds, CurOK DEF TeardownTasks, Goto
<1>31. CASE TeardownGoals
  BY <1>31, Bounds, CurOK DEF TeardownGoals, Goto, LeftAlone, Terminal
<1>32. CASE TeardownTickets
  BY <1>32, Bounds, CurOK DEF TeardownTickets, Goto
<1>33. CASE LeaderUnavailable
  <2>1. pc' = "done" /\ UNCHANGED <<cur, base, verdicts, retry, swept, redo, round, where>>
    BY <1>33 DEF LeaderUnavailable, Goto
  <2> QED BY <2>1
<1>34. CASE CallFails
  <2>1. pc' = "done" /\ UNCHANGED <<cur, base, verdicts, retry, swept, redo, round, where>>
    BY <1>34 DEF CallFails, Goto
  <2> QED BY <2>1
<1>35. ASSUME \/ StopRun
              \/ \E k \in tickets, d \in {"approved", "denied"} : Decide(k, d)
              \/ \E k \in tickets : DeleteTicket(k)
       PROVE  UNCHANGED <<pc, cur, base, verdicts, retry, swept, redo, round, where>>
  BY <1>35 DEF StopRun, Decide, DeleteTicket
<1> QED
  BY <1>1, <1>2, <1>3, <1>4, <1>5, <1>6, <1>7, <1>8, <1>9, <1>10, <1>11, <1>12, <1>13, <1>14,
     <1>15, <1>16, <1>17, <1>18, <1>19, <1>20, <1>21, <1>22, <1>23, <1>24, <1>25, <1>26, <1>27,
     <1>28, <1>29, <1>30, <1>31, <1>32, <1>33, <1>34, <1>35
     DEF Next, Kickoff, Operator

\* The recursion of verdict, fix, redo and sweep is bounded.
THEOREM VerdictsBounded == Spec => []VerdictsAreBounded
<1>1. Init => VerdictInv
  BY Bounds DEF Init, VerdictInv, Ahead, Owed, Swept, Rounds, Turn, Worked, Visit
<1>2. TypeInv /\ TypeInv' /\ VerdictInv /\ [Next]_vars => VerdictInv'
  BY VerdictStep DEF TypeInv
<1>3. TypeInv /\ VerdictInv => VerdictsAreBounded
  <2> SUFFICES ASSUME TypeInv, VerdictInv, NEW g \in Goals
               PROVE  verdicts[g] <= VerdictBound
    BY DEF VerdictsAreBounded
  <2>1. verdicts[g] + Owed(g) <= 1 + retry[g] + Swept(g) + Rounds(g)
    BY DEF VerdictInv
  <2>2. Owed(g) \in {0, 1} /\ Swept(g) \in {0, 1}
    BY DEF Owed, Swept
  <2>3. verdicts[g] \in Nat /\ retry[g] \in 0..MaxRetries /\ round \in 0..MaxDrain
    BY Bounds DEF TypeInv, TypeOK, FilesOK, HistoryOK, KickoffOK
  <2>4. Rounds(g) \in 0..MaxDrain
    BY <2>3, Bounds DEF TypeInv, Located, Rounds, InRound
  <2> QED BY <2>1, <2>2, <2>3, <2>4, GoalAssumption DEF VerdictBound
<1> QED BY <1>1, <1>2, <1>3, TypeInvariant, PTL DEF Spec

-----------------------------------------------------------------------------
(* Live goals. *)

LEMMA LiveStep ==
  ASSUME TypeOK, TypeOK', Located, LiveInv, [Next]_vars
  PROVE  LiveInv'
<1> USE DEF LiveInv, FilesOK, KickoffOK, TypeOK, Ahead, AtHand, Settled, Located, Worked, Turn,
   Begins, InLoop, InRound, Draining, Visit
<1>1. CASE UNCHANGED <<pc, cur, base, held, why, goalFile, reopened, swept, abort, outcome, where>>
  BY <1>1
<1>2. CASE StartDrain
  BY <1>2, Bounds, CurOK, ZeroSettledOK DEF StartDrain, Goto
<1>3. CASE DrainRaises
  BY <1>3, Bounds, CurOK, ZeroSettledOK DEF DrainRaises, Goto, SettleLive, Terminal
<1>4. CASE EndDrain
  BY <1>4, Bounds, CurOK, ZeroSettledOK DEF EndDrain, Goto
<1>5. CASE Decompose
  BY <1>5, Bounds, CurOK, ZeroSettledOK DEF Decompose, Goto
<1>6. CASE NextGoal
  BY <1>6, Bounds, CurOK, ZeroSettledOK DEF NextGoal, Goto
<1>7. CASE RejectPlan
  BY <1>7, Bounds, CurOK, ZeroSettledOK DEF RejectPlan, Goto, Opened
<1>8. CASE CommitPlan
  BY <1>8, Bounds, CurOK, ZeroSettledOK DEF CommitPlan, Goto, Opened, SaveTasks
<1>9. CASE StartPass
  BY <1>9, Bounds, CurOK, ZeroSettledOK DEF StartPass, Goto, AfterPass
<1>10. CASE EndPass
  BY <1>10, Bounds, CurOK, ZeroSettledOK DEF EndPass, Goto, AfterPass, PassOutcomes, Runnable,
     Failed, Done, SaveTasks, Opened
<1>11. CASE SweepStopped
  BY <1>11, Bounds, CurOK, ZeroSettledOK DEF SweepStopped, NothingSwept, Goto, SaveGoal
<1>12. CASE StartSweep
  BY <1>12, Bounds, CurOK, ZeroSettledOK DEF StartSweep, Goto
<1>13. CASE EndSweep
  BY <1>13, Bounds, CurOK, ZeroSettledOK DEF EndSweep, Done, NothingSwept, Goto, SaveGoal
<1>14. CASE Judge
  BY <1>14, Bounds, CurOK, ZeroSettledOK DEF Judge, Done, Goto, SpendSweep
<1>15. CASE Rejudge
  BY <1>15, Bounds, CurOK, ZeroSettledOK DEF Rejudge, Goto, Done, SpendSweep, SaveGoal
<1>16. CASE Verify
  BY <1>16, Bounds, CurOK, ZeroSettledOK DEF Verify, Counted, VerdictBound, Verdicts,
     SweepFirst, Disappointed, CanRedo, BudgetLeft, SpendSweep, Goto
<1>17. CASE VerdictUnreadable
  BY <1>17, Bounds, CurOK, ZeroSettledOK DEF VerdictUnreadable, Counted, VerdictBound, SaveGoal,
     Goto
<1>18. CASE Settle
  BY <1>18, Bounds, CurOK, ZeroSettledOK DEF Settle, SpendSweep, Goto
<1>19. CASE FixStopped
  BY <1>19, Bounds, CurOK, ZeroSettledOK DEF FixStopped, Goto
<1>20. CASE StartFix
  BY <1>20, Bounds, CurOK, ZeroSettledOK DEF StartFix, Goto, Spent, SaveGoal
<1>21. CASE EndFix
  BY <1>21, Bounds, CurOK, ZeroSettledOK DEF EndFix, Goto, Done
<1>22. CASE FloorRedo
  BY <1>22, Bounds, CurOK, ZeroSettledOK DEF FloorRedo, Goto, Spent, SaveTasks
<1>23. CASE SaveVerdict
  BY <1>23, Bounds, CurOK, ZeroSettledOK DEF SaveVerdict, SaveGoal, Goto, Done
<1>24. CASE Reexecute
  <2>1. PICK g \in redo : g \in Goals /\ Resumes(g)
    BY <1>24, ReexecuteMeans
  <2>2. /\ pc = "reexec"
        /\ UNCHANGED <<base, goalFile, gone, verdicts, retry, swept, round, where, abort, outcome>>
    BY <1>24, ReexecuteMeans
  <2>3. \A h \in Goals : <<h, NoUnit>> \in reopened => <<h, NoUnit>> \in reopened'
    BY <2>1, Bounds DEF Resumes
  <2>4. (UNCHANGED <<pc, cur, held, why>>) \/ (pc' = "pass" /\ cur' = g /\ why' = "again")
    BY <2>1 DEF Resumes
  <2> QED BY <2>1, <2>2, <2>3, <2>4, Bounds
<1>25. CASE Reload
  BY <1>25, Bounds, CurOK, ZeroSettledOK, ReloadMeans DEF SaveGoal
<1>26. CASE NextRound
  BY <1>26, Bounds, CurOK, ZeroSettledOK DEF NextRound, Goto
<1>27. CASE CloseRecovered
  BY <1>27, Bounds, CurOK, ZeroSettledOK DEF CloseRecovered, Goto
<1>28. CASE Finish
  BY <1>28, Bounds, CurOK, ZeroSettledOK DEF Finish, Goto
<1>29. CASE TeardownTasks
  BY <1>29, Bounds, CurOK, ZeroSettledOK DEF TeardownTasks, Goto
<1>30. CASE TeardownGoals
  BY <1>30, Bounds, CurOK, ZeroSettledOK DEF TeardownGoals, Goto, LeftAlone, Terminal
<1>31. CASE TeardownTickets
  BY <1>31, Bounds, CurOK, ZeroSettledOK DEF TeardownTickets, Goto
<1>32. CASE LeaderUnavailable
  BY <1>32, Bounds, CurOK, ZeroSettledOK DEF LeaderUnavailable, Goto
<1>33. CASE CallFails
  BY <1>33, Bounds, CurOK, ZeroSettledOK DEF CallFails, Goto, SettleLive, Terminal
<1>34. CASE StopRun
  BY <1>34, Bounds, CurOK, ZeroSettledOK DEF StopRun
<1>35. ASSUME NEW k \in tickets, NEW d \in {"approved", "denied"}, Decide(k, d)
       PROVE  LiveInv'
  <2>1. /\ pc # "done"
        /\ UNCHANGED <<pc, cur, base, held, hand, why, where, swept, gone, abort, outcome>>
    BY <1>35 DEF Decide
  <2>2. CASE UNCHANGED <<goalFile, taskFile, reopened>>
    BY <2>1, <2>2
  <2>3. ASSUME NEW g \in Goals, goalFile[g] \notin {"none", "abandoned"},
               goalFile' = [goalFile EXCEPT ![g] = "in_progress"], taskFile' = taskFile,
               reopened' = reopened \cup {<<g, NoUnit>>}
        PROVE  LiveInv'
    BY <2>1, <2>3, Bounds, TasksAre DEF TypeOK, FilesOK
  <2>4. ASSUME NEW t \in Tasks, taskFile[t] \notin {"none", "abandoned"},
               taskFile' = [taskFile EXCEPT ![t] = "pending"], goalFile' = goalFile,
               reopened' = reopened \cup {t}
        PROVE  LiveInv'
    BY <2>1, <2>4, Bounds, TasksAre DEF TypeOK, FilesOK
  <2> QED BY <1>35, <2>2, <2>3, <2>4, DecideMeans
<1>36. ASSUME \/ CloseDecided
              \/ \E k \in tickets : DeleteTicket(k)
       PROVE  UNCHANGED <<pc, cur, base, held, why, goalFile, reopened, swept, abort, outcome, where>>
  BY <1>36 DEF CloseDecided, Reported, DeleteTicket
<1> QED
  BY <1>1, <1>2, <1>3, <1>4, <1>5, <1>6, <1>7, <1>8, <1>9, <1>10, <1>11, <1>12, <1>13, <1>14,
     <1>15, <1>16, <1>17, <1>18, <1>19, <1>20, <1>21, <1>22, <1>23, <1>24, <1>25, <1>26, <1>27,
     <1>28, <1>29, <1>30, <1>31, <1>32, <1>33, <1>34, <1>35, <1>36
     DEF Next, Kickoff, Operator

\* A kickoff that is over has settled every goal, but those that a denial reopened
\* after that, unless the model of the Leader was unavailable.
THEOREM NoneLeftLive == Spec => []NoGoalLeftLive
<1>1. Init => LiveInv
  BY Bounds DEF Init, LiveInv, Ahead, AtHand, Settled, Begins, InLoop, Draining, Visit, Worked, Turn
<1>2. TypeInv /\ TypeInv' /\ LiveInv /\ [Next]_vars => LiveInv'
  BY LiveStep DEF TypeInv
<1>3. TypeInv /\ LiveInv => NoGoalLeftLive
  BY DEF LiveInv, NoGoalLeftLive, Settled
<1> QED BY <1>1, <1>2, <1>3, TypeInvariant, PTL DEF Spec

-----------------------------------------------------------------------------
(* Completed goals. *)

LEMMA HandStep ==
  ASSUME TypeOK, TypeOK', Located, HandInv, [Next]_vars
  PROVE  HandInv'
<1> USE DEF HandInv, Again, Worked, Turn
<1>1. CASE UNCHANGED <<pc, cur, hand, why, taskFile, reopened>>
  BY <1>1
<1>2. CASE StartDrain
  BY <1>2, CurOK, TasksAre, Bounds DEF StartDrain, Goto
<1>3. CASE DrainRaises
  BY <1>3, CurOK, TasksAre, Bounds DEF DrainRaises, Goto, SettleLive, Terminal
<1>4. CASE EndDrain
  BY <1>4, CurOK, TasksAre, Bounds DEF EndDrain, Goto
<1>5. CASE Decompose
  BY <1>5, CurOK, TasksAre, Bounds DEF Decompose, Goto
<1>6. CASE NextGoal
  BY <1>6, CurOK, TasksAre, Bounds DEF NextGoal, Goto
<1>7. CASE RejectPlan
  BY <1>7, CurOK, TasksAre, Bounds DEF RejectPlan, Goto, Opened
<1>8. CASE CommitPlan
  BY <1>8, CurOK, TasksAre, Bounds DEF CommitPlan, Goto, Opened, SaveTasks
<1>9. CASE StartPass
  BY <1>9, CurOK, TasksAre, Bounds DEF StartPass, Goto, AfterPass
<1>10. CASE EndPass
  BY <1>10, CurOK, TasksAre, Bounds DEF EndPass, Goto, AfterPass, PassOutcomes, Runnable,
     Failed, Done, SaveTasks, Opened
<1>11. CASE SweepStopped
  BY <1>11, CurOK, TasksAre, Bounds DEF SweepStopped, NothingSwept, Goto, SaveGoal
<1>12. CASE StartSweep
  BY <1>12, CurOK, TasksAre, Bounds DEF StartSweep, Goto
<1>13. CASE EndSweep
  BY <1>13, CurOK, TasksAre, Bounds DEF EndSweep, Done, NothingSwept, Goto, SaveGoal
<1>14. CASE Judge
  BY <1>14, CurOK, TasksAre, Bounds DEF Judge, Done, Goto, SpendSweep
<1>15. CASE Rejudge
  BY <1>15, CurOK, TasksAre, Bounds DEF Rejudge, Goto, Done, SpendSweep, SaveGoal
<1>16. CASE Verify
  BY <1>16, CurOK, TasksAre, Bounds DEF Verify, Counted, VerdictBound, Verdicts, SweepFirst,
     Disappointed, CanRedo, BudgetLeft, SpendSweep, Goto
<1>17. CASE VerdictUnreadable
  BY <1>17, CurOK, TasksAre, Bounds DEF VerdictUnreadable, Counted, VerdictBound, SaveGoal, Goto
<1>18. CASE Settle
  BY <1>18, CurOK, TasksAre, Bounds DEF Settle, SpendSweep, Goto
<1>19. CASE FixStopped
  BY <1>19, CurOK, TasksAre, Bounds DEF FixStopped, Goto
<1>20. CASE StartFix
  BY <1>20, CurOK, TasksAre, Bounds DEF StartFix, Goto, Spent, SaveGoal
<1>21. CASE EndFix
  BY <1>21, CurOK, TasksAre, Bounds DEF EndFix, Goto, Done
<1>22. CASE FloorRedo
  BY <1>22, CurOK, TasksAre, Bounds DEF FloorRedo, Goto, Spent, SaveTasks
<1>23. CASE SaveVerdict
  BY <1>23, CurOK, TasksAre, Bounds DEF SaveVerdict, SaveGoal, Goto, Done
<1>24. CASE Reexecute
  <2>1. PICK g \in redo : g \in Goals /\ Resumes(g)
    BY <1>24, ReexecuteMeans
  <2>2. /\ pc = "reexec"
        /\ UNCHANGED <<base, goalFile, gone, verdicts, retry, swept, round, where, abort, outcome>>
    BY <1>24, ReexecuteMeans
  <2>3. CASE UNCHANGED <<pc, cur, hand, why, taskFile, reopened>>
    BY <2>2, <2>3
  <2>4. CASE /\ pc' = "pass" /\ cur' = g /\ why' = "again"
             /\ hand' = [u \in Units |-> IF taskFile[<<g, u>>] = "pending" THEN "dispatched"
                                        ELSE taskFile[<<g, u>>]]
             /\ taskFile' = [t \in Tasks |-> IF t[1] = g THEN hand'[t[2]] ELSE taskFile[t]]
    <3>1. \A u \in Units : hand'[u] = "none" <=> taskFile[<<g, u>>] = "none"
      BY <2>4
    <3>2. \A h \in Goals, u \in Units : taskFile'[<<h, u>>] = IF h = g THEN hand'[u]
                                                              ELSE taskFile[<<h, u>>]
      BY <2>4, TasksAre
    <3>3. \A u, w \in Units : hand'[u] = "none" => hand'[w] = "none"
      BY <2>1, <3>1
    <3>4. \A h \in Goals : \A u, w \in Units :
            taskFile'[<<h, u>>] = "none" => taskFile'[<<h, w>>] = "none"
      BY <3>2, <3>3
    <3>5. \A u \in Units : hand'[u] = taskFile'[<<g, u>>]
      BY <2>1, <3>2
    <3>6. pc' = "pass" /\ cur' = g /\ why' = "again"
      BY <2>4
    <3> QED BY <3>3, <3>4, <3>5, <3>6
  <2> QED BY <2>1, <2>3, <2>4 DEF Resumes
<1>25. CASE Reload
  BY <1>25, CurOK, TasksAre, Bounds DEF Reload, Goto, SaveGoal
<1>26. CASE NextRound
  BY <1>26, CurOK, TasksAre, Bounds DEF NextRound, Goto
<1>27. CASE CloseRecovered
  BY <1>27, CurOK, TasksAre, Bounds DEF CloseRecovered, Goto
<1>28. CASE Finish
  BY <1>28, CurOK, TasksAre, Bounds DEF Finish, Goto
<1>29. CASE TeardownTasks
  BY <1>29, CurOK, TasksAre, Bounds DEF TeardownTasks, Goto
<1>30. CASE TeardownGoals
  BY <1>30, CurOK, TasksAre, Bounds DEF TeardownGoals, Goto, LeftAlone, Terminal
<1>31. CASE TeardownTickets
  BY <1>31, CurOK, TasksAre, Bounds DEF TeardownTickets, Goto
<1>32. CASE LeaderUnavailable
  BY <1>32, CurOK, TasksAre, Bounds DEF LeaderUnavailable, Goto
<1>33. CASE CallFails
  BY <1>33, CurOK, TasksAre, Bounds DEF CallFails, Goto, SettleLive, Terminal
<1>34. ASSUME NEW k \in tickets, NEW d \in {"approved", "denied"}, Decide(k, d)
       PROVE  HandInv'
  <2>1. /\ pc # "done"
        /\ UNCHANGED <<pc, cur, base, held, hand, why, where, swept, gone, abort, outcome>>
    BY <1>34 DEF Decide
  <2>2. CASE UNCHANGED <<goalFile, taskFile, reopened>>
    BY <2>1, <2>2
  <2>3. ASSUME NEW g \in Goals, goalFile[g] \notin {"none", "abandoned"},
               goalFile' = [goalFile EXCEPT ![g] = "in_progress"], taskFile' = taskFile,
               reopened' = reopened \cup {<<g, NoUnit>>}
        PROVE  HandInv'
    BY <2>1, <2>3, Bounds, TasksAre DEF TypeOK, FilesOK
  <2>4. ASSUME NEW t \in Tasks, taskFile[t] \notin {"none", "abandoned"},
               taskFile' = [taskFile EXCEPT ![t] = "pending"], goalFile' = goalFile,
               reopened' = reopened \cup {t}
        PROVE  HandInv'
    BY <2>1, <2>4, Bounds, TasksAre DEF TypeOK, FilesOK
  <2> QED BY <1>34, <2>2, <2>3, <2>4, DecideMeans
<1>35. ASSUME \/ CloseDecided \/ StopRun
              \/ \E k \in tickets : DeleteTicket(k)
       PROVE  UNCHANGED <<pc, cur, hand, why, taskFile, reopened>>
  BY <1>35 DEF CloseDecided, Reported, StopRun, DeleteTicket
<1> QED
  BY <1>1, <1>2, <1>3, <1>4, <1>5, <1>6, <1>7, <1>8, <1>9, <1>10, <1>11, <1>12, <1>13, <1>14,
     <1>15, <1>16, <1>17, <1>18, <1>19, <1>20, <1>21, <1>22, <1>23, <1>24, <1>25, <1>26, <1>27,
     <1>28, <1>29, <1>30, <1>31, <1>32, <1>33, <1>34, <1>35
     DEF Next, Kickoff, Operator

LEMMA HandInvariant == Spec => []HandInv
<1>1. Init => HandInv
  BY TasksAre DEF Init, HandInv, Again, Worked, Turn
<1>2. TypeInv /\ TypeInv' /\ HandInv /\ [Next]_vars => HandInv'
  BY HandStep DEF TypeInv
<1> QED BY <1>1, <1>2, TypeInvariant, PTL DEF Spec

LEMMA DoneStep ==
  ASSUME TypeOK, TypeOK', Located, HandInv, DoneInv, [Next]_vars
  PROVE  DoneInv'
<1> USE DEF DoneInv, OwesNothing, KickoffOK, FilesOK, TypeOK, Ahead, Worked, Turn, Begins,
   InLoop, InRound, Draining, Visit
<1>1. CASE UNCHANGED <<pc, cur, base, held, why, hand, goalFile, taskFile, gone, reopened, abort, where>>
  BY <1>1
<1>2. CASE StartDrain
  BY <1>2, Bounds, CurOK, ZeroSettledOK, TasksAre DEF StartDrain, Goto
<1>3. CASE DrainRaises
  BY <1>3, Bounds, CurOK, ZeroSettledOK, TasksAre DEF DrainRaises, Goto, SettleLive, Terminal
<1>4. CASE EndDrain
  BY <1>4, Bounds, CurOK, ZeroSettledOK, TasksAre DEF EndDrain, Goto
<1>5. CASE Decompose
  BY <1>5, Bounds, CurOK, ZeroSettledOK, TasksAre DEF Decompose, Goto
<1>6. CASE NextGoal
  BY <1>6, Bounds, CurOK, ZeroSettledOK, TasksAre DEF NextGoal, Goto
<1>7. CASE RejectPlan
  BY <1>7, Bounds, CurOK, ZeroSettledOK, TasksAre DEF RejectPlan, Goto, Opened
<1>8. CASE CommitPlan
  BY <1>8, Bounds, CurOK, ZeroSettledOK, TasksAre DEF CommitPlan, Goto, Opened, SaveTasks
<1>9. CASE StartPass
  BY <1>9, Bounds, CurOK, ZeroSettledOK, TasksAre DEF StartPass, Goto, AfterPass
<1>10. CASE EndPass
  <2>1. /\ pc = "running" /\ pc' \in {"judge", "rejudge", "reload"}
        /\ UNCHANGED <<goalFile, cur, base, held, abort, where>>
    BY <1>10, CurOK DEF EndPass, Goto, AfterPass
  <2>2. cur \in Goals
    BY <2>1, CurOK
  <2>3a. PICK r \in PassOutcomes : /\ SaveTasks(hand', r.done \cup r.spent \cup r.cut \cup r.dropped)
                                  /\ gone' = gone \ ({cur} \X r.done)
    BY <1>10 DEF EndPass
  <2>3. \A g \in Goals \ {cur}, u \in Units :
          /\ taskFile'[<<g, u>>] = taskFile[<<g, u>>]
          /\ <<g, u>> \in reopened => <<g, u>> \in reopened'
          /\ <<g, u>> \in gone' => <<g, u>> \in gone
    BY <2>3a, TasksAre DEF SaveTasks
  <2>4. \A g \in Goals \ {cur} : OwesNothing(g) => OwesNothing(g)'
    BY <2>1, <2>3
  <2> QED BY <2>1, <2>2, <2>4
<1>11. CASE SweepStopped
  BY <1>11, Bounds, CurOK, ZeroSettledOK, TasksAre DEF SweepStopped, NothingSwept, Goto,
     SaveGoal
<1>12. CASE StartSweep
  BY <1>12, Bounds, CurOK, ZeroSettledOK, TasksAre DEF StartSweep, Goto
<1>13. CASE EndSweep
  BY <1>13, Bounds, CurOK, ZeroSettledOK, TasksAre DEF EndSweep, Done, NothingSwept, Goto,
     SaveGoal
<1>14. CASE Judge
  BY <1>14, Bounds, CurOK, ZeroSettledOK, TasksAre DEF Judge, Done, Goto, SpendSweep
<1>15. CASE Rejudge
  BY <1>15, Bounds, CurOK, ZeroSettledOK, TasksAre DEF Rejudge, Goto, Done, SpendSweep, SaveGoal
<1>16. CASE Verify
  BY <1>16, Bounds, CurOK, ZeroSettledOK, TasksAre DEF Verify, Counted, VerdictBound, Verdicts,
     SweepFirst, Disappointed, CanRedo, BudgetLeft, SpendSweep, Goto
<1>17. CASE VerdictUnreadable
  BY <1>17, Bounds, CurOK, ZeroSettledOK, TasksAre DEF VerdictUnreadable, Counted, VerdictBound,
     SaveGoal, Goto
<1>18. CASE Settle
  <2>1. /\ pc = "settle"
        /\ UNCHANGED <<goalFile, taskFile, gone, cur, base, hand, reopened, abort, where>>
        /\ \/ pc' = "sweep" /\ held' = held
           \/ pc' = "save" /\ held' = IF Holes = {} THEN "completed" ELSE "incomplete"
    BY <1>18 DEF Settle, SpendSweep, Goto
  <2>2. ASSUME Holes = {}
        PROVE  \A u \in Units : hand[u] = "completed" /\ <<cur, u>> \notin gone
    BY <2>1, <2>2 DEF Holes, HandInv, Again
  <2>3. \A g \in Goals : OwesNothing(g) => OwesNothing(g)'
    BY <2>1
  <2> QED BY <2>1, <2>2, <2>3, CurOK
<1>19. CASE FixStopped
  BY <1>19, Bounds, CurOK, ZeroSettledOK, TasksAre DEF FixStopped, Goto
<1>20. CASE StartFix
  BY <1>20, Bounds, CurOK, ZeroSettledOK, TasksAre DEF StartFix, Goto, Spent, SaveGoal
<1>21. CASE EndFix
  BY <1>21, Bounds, CurOK, ZeroSettledOK, TasksAre DEF EndFix, Goto, Done
<1>22. CASE FloorRedo
  BY <1>22, Bounds, CurOK, ZeroSettledOK, TasksAre DEF FloorRedo, Goto, Spent, SaveTasks
<1>23. CASE SaveVerdict
  <2>1. /\ pc = "save" /\ goalFile' = [goalFile EXCEPT ![cur] = held] /\ held' = "none"
        /\ pc' = (IF base = "first" THEN "saved" ELSE "reexec")
        /\ UNCHANGED <<taskFile, gone, cur, base, abort, where>>
    BY <1>23 DEF SaveVerdict, SaveGoal, Goto
  <2>2. \A t \in Tasks : t \in reopened' <=> t \in reopened
    BY <1>23, TasksAre DEF SaveVerdict, SaveGoal
  <2>3. cur \in Goals
    BY <2>1, CurOK
  <2>4. ASSUME held = "completed" PROVE OwesNothing(cur)
    BY <2>1, <2>4 DEF HandInv
  <2>5. \A g \in Goals : OwesNothing(g) => OwesNothing(g)'
    BY <2>1, <2>2, TasksAre
  <2> QED BY <2>1, <2>3, <2>4, <2>5
<1>24. CASE Reexecute
  <2>1. PICK g \in redo : g \in Goals /\ Resumes(g)
    BY <1>24, ReexecuteMeans
  <2>2. /\ pc = "reexec"
        /\ UNCHANGED <<base, goalFile, gone, verdicts, retry, swept, round, where, abort, outcome>>
    BY <1>24, ReexecuteMeans
  <2>3. CASE UNCHANGED <<pc, cur, held, hand, why, taskFile, reopened>>
    BY <2>1, <2>2, <2>3
  <2>4. CASE /\ goalFile[g] \notin Terminal \cup {"none"}
             /\ pc' = "pass" /\ cur' = g /\ held' = goalFile[g] /\ why' = "again"
             /\ taskFile' = [t \in Tasks |-> IF t[1] = g THEN hand'[t[2]] ELSE taskFile[t]]
             /\ reopened' = reopened \ ({g} \X Units)
    <3>1. \A h \in Goals \ {g}, u \in Units :
            /\ taskFile'[<<h, u>>] = taskFile[<<h, u>>]
            /\ <<h, u>> \in reopened' <=> <<h, u>> \in reopened
      BY <2>4, TasksAre
    <3>2. goalFile[g] # "completed"
      BY <2>4 DEF Terminal
    <3>3. /\ pc' = "pass" /\ cur' = g /\ held' = goalFile[g] /\ why' = "again" /\ g \in Goals
          /\ goalFile' = goalFile
      BY <2>1, <2>2, <2>4
    <3>4. \A h \in Goals \ {g} : OwesNothing(h) => OwesNothing(h)'
      BY <2>2, <3>1
    <3>5. base = "again"
      BY <2>2 DEF Located
    <3> QED BY <2>2, <3>2, <3>3, <3>4, <3>5
  <2> QED BY <2>1, <2>3, <2>4 DEF Resumes
<1>25. CASE Reload
  <2>1. \A t \in Tasks : t \in reopened' <=> t \in reopened
    BY <1>25, ReloadMeans, TasksAre DEF SaveGoal
  <2>2. \A g \in Goals : OwesNothing(g) => OwesNothing(g)'
    BY <1>25, ReloadMeans, <2>1, TasksAre
  <2>3. /\ pc = "reload" /\ UNCHANGED <<cur, base, where>>
        /\ \/ pc' = "verify" /\ UNCHANGED <<held, goalFile>>
           \/ pc' = "save" /\ held' = ZeroSettled(held) /\ goalFile' = [goalFile EXCEPT ![cur] = held']
    BY <1>25, ReloadMeans DEF SaveGoal
  <2> QED BY <2>2, <2>3, CurOK, ZeroSettledOK
<1>26. CASE NextRound
  BY <1>26, Bounds, CurOK, ZeroSettledOK, TasksAre DEF NextRound, Goto
<1>27. CASE CloseRecovered
  BY <1>27, Bounds, CurOK, ZeroSettledOK, TasksAre DEF CloseRecovered, Goto
<1>28. CASE Finish
  BY <1>28, Bounds, CurOK, ZeroSettledOK, TasksAre DEF Finish, Goto
<1>29. CASE TeardownTasks
  BY <1>29, Bounds, CurOK, ZeroSettledOK, TasksAre DEF TeardownTasks, Goto
<1>30. CASE TeardownGoals
  BY <1>30, Bounds, CurOK, ZeroSettledOK, TasksAre DEF TeardownGoals, Goto, LeftAlone, Terminal
<1>31. CASE TeardownTickets
  BY <1>31, Bounds, CurOK, ZeroSettledOK, TasksAre DEF TeardownTickets, Goto
<1>32. CASE LeaderUnavailable
  BY <1>32, Bounds, CurOK, ZeroSettledOK, TasksAre DEF LeaderUnavailable, Goto
<1>33. CASE CallFails
  BY <1>33, Bounds, CurOK, ZeroSettledOK, TasksAre DEF CallFails, Goto, SettleLive, Terminal
<1>34. CASE StopRun
  BY <1>34, Bounds, CurOK, ZeroSettledOK, TasksAre DEF StopRun
<1>35. ASSUME NEW k \in tickets, NEW d \in {"approved", "denied"}, Decide(k, d)
       PROVE  DoneInv'
  <2>1. /\ pc # "done"
        /\ UNCHANGED <<pc, cur, base, held, hand, why, where, swept, gone, abort, outcome>>
    BY <1>35 DEF Decide
  <2>2. CASE UNCHANGED <<goalFile, taskFile, reopened>>
    BY <2>1, <2>2
  <2>3. ASSUME NEW g \in Goals, goalFile[g] \notin {"none", "abandoned"},
               goalFile' = [goalFile EXCEPT ![g] = "in_progress"], taskFile' = taskFile,
               reopened' = reopened \cup {<<g, NoUnit>>}
        PROVE  DoneInv'
    BY <2>1, <2>3, Bounds, TasksAre DEF TypeOK, FilesOK
  <2>4. ASSUME NEW t \in Tasks, taskFile[t] \notin {"none", "abandoned"},
               taskFile' = [taskFile EXCEPT ![t] = "pending"], goalFile' = goalFile,
               reopened' = reopened \cup {t}
        PROVE  DoneInv'
    BY <2>1, <2>4, Bounds, TasksAre DEF TypeOK, FilesOK
  <2> QED BY <1>35, <2>2, <2>3, <2>4, DecideMeans
<1>36. ASSUME \/ CloseDecided
              \/ \E k \in tickets : DeleteTicket(k)
       PROVE  UNCHANGED <<pc, cur, base, held, why, hand, goalFile, taskFile, gone, reopened, abort, where>>
  BY <1>36 DEF CloseDecided, Reported, DeleteTicket
<1> QED
  BY <1>1, <1>2, <1>3, <1>4, <1>5, <1>6, <1>7, <1>8, <1>9, <1>10, <1>11, <1>12, <1>13, <1>14,
     <1>15, <1>16, <1>17, <1>18, <1>19, <1>20, <1>21, <1>22, <1>23, <1>24, <1>25, <1>26, <1>27,
     <1>28, <1>29, <1>30, <1>31, <1>32, <1>33, <1>34, <1>35, <1>36
     DEF Next, Kickoff, Operator

\* All tasks of a goal that is completed have shipped and are on disk, but for what a
\* denial reopened or a stopped run abandoned.
THEOREM CompletedWhole == Spec => []CompletedOwesNothing
<1>1. Init => DoneInv
  BY Bounds DEF Init, DoneInv, Worked, Turn
<1>2. TypeInv /\ TypeInv' /\ HandInv /\ DoneInv /\ [Next]_vars => DoneInv'
  BY DoneStep DEF TypeInv
<1>3. DoneInv => CompletedOwesNothing
  BY DEF DoneInv, OwesNothing, CompletedOwesNothing
<1> QED BY <1>1, <1>2, <1>3, TypeInvariant, HandInvariant, PTL DEF Spec

-----------------------------------------------------------------------------
(* The teardown of a stopped run. *)

LEMMA StopStep ==
  ASSUME TypeOK, TypeOK', Located, StopInv, [Next]_vars
  PROVE  StopInv'
<1> USE DEF StopInv, Terminal
<1>1. CASE UNCHANGED <<pc, goalFile, taskFile, tickets, reopened, outcome, abort>>
  BY <1>1
<1>2. CASE StartDrain
  BY <1>2, CurOK DEF StartDrain, Goto
<1>3. CASE CloseDecided
  BY <1>3, CurOK DEF CloseDecided, Reported
<1>4. CASE DrainRaises
  BY <1>4, CurOK DEF DrainRaises, Goto, SettleLive
<1>5. CASE EndDrain
  BY <1>5, CurOK DEF EndDrain, Goto
<1>6. CASE Decompose
  BY <1>6, CurOK DEF Decompose, Goto
<1>7. CASE NextGoal
  BY <1>7, CurOK DEF NextGoal, Goto
<1>8. CASE RejectPlan
  BY <1>8, CurOK DEF RejectPlan, Goto, Opened
<1>9. CASE CommitPlan
  BY <1>9, CurOK DEF CommitPlan, Goto, Opened, SaveTasks
<1>10. CASE StartPass
  BY <1>10, CurOK DEF StartPass, Goto, AfterPass
<1>11. CASE EndPass
  BY <1>11, CurOK DEF EndPass, Goto, AfterPass, PassOutcomes, Runnable, Failed, Done, SaveTasks,
     Opened
<1>12. CASE SweepStopped
  BY <1>12, CurOK DEF SweepStopped, NothingSwept, Goto, SaveGoal
<1>13. CASE StartSweep
  BY <1>13, CurOK DEF StartSweep, Goto
<1>14. CASE EndSweep
  BY <1>14, CurOK DEF EndSweep, Done, NothingSwept, Goto, SaveGoal
<1>15. CASE Judge
  BY <1>15, CurOK DEF Judge, Done, Goto, SpendSweep
<1>16. CASE Rejudge
  BY <1>16, CurOK DEF Rejudge, Goto, Done, SpendSweep, SaveGoal
<1>17. CASE Verify
  BY <1>17, CurOK DEF Verify, Counted, VerdictBound, Verdicts, SweepFirst, Disappointed,
     CanRedo, BudgetLeft, SpendSweep, Goto
<1>18. CASE VerdictUnreadable
  BY <1>18, CurOK DEF VerdictUnreadable, Counted, VerdictBound, SaveGoal, Goto
<1>19. CASE Settle
  BY <1>19, CurOK DEF Settle, Holes, SpendSweep, Goto
<1>20. CASE FixStopped
  BY <1>20, CurOK DEF FixStopped, Goto
<1>21. CASE StartFix
  BY <1>21, CurOK DEF StartFix, Goto, Spent, SaveGoal
<1>22. CASE EndFix
  BY <1>22, CurOK DEF EndFix, Goto, Done
<1>23. CASE FloorRedo
  BY <1>23, CurOK DEF FloorRedo, Goto, Spent, SaveTasks
<1>24. CASE SaveVerdict
  BY <1>24, CurOK DEF SaveVerdict, SaveGoal, Goto, Done
<1>25. CASE Reexecute
  BY <1>25, CurOK DEF Reexecute, Goto
<1>26. CASE Reload
  BY <1>26, CurOK DEF Reload, Goto, SaveGoal
<1>27. CASE NextRound
  BY <1>27, CurOK DEF NextRound, Goto
<1>28. CASE CloseRecovered
  BY <1>28, CurOK DEF CloseRecovered, Goto
<1>29. CASE Finish
  BY <1>29, CurOK DEF Finish, Goto
<1>30. CASE TeardownTasks
  BY <1>30, CurOK DEF TeardownTasks, Goto
<1>31. CASE TeardownGoals
  BY <1>31, CurOK, TasksAre DEF TeardownGoals, Goto, LeftAlone, TypeOK, FilesOK, GoalStatus
<1>32. CASE TeardownTickets
  BY <1>32, CurOK DEF TeardownTickets, Goto, TypeOK, TicketsOK, TicketType
<1>33. CASE LeaderUnavailable
  BY <1>33, CurOK DEF LeaderUnavailable, Goto
<1>34. CASE CallFails
  BY <1>34, CurOK DEF CallFails, Goto, SettleLive
<1>35. CASE StopRun
  BY <1>35, CurOK DEF StopRun
<1>36. ASSUME NEW k \in tickets, NEW d \in {"approved", "denied"}, Decide(k, d)
       PROVE  StopInv'
  <2>1. /\ pc # "done"
        /\ UNCHANGED <<pc, cur, base, held, hand, why, where, swept, gone, abort, outcome>>
    BY <1>36 DEF Decide
  <2>2. CASE UNCHANGED <<goalFile, taskFile, reopened>>
    BY <2>1, <2>2
  <2>3. ASSUME NEW g \in Goals, goalFile[g] \notin {"none", "abandoned"},
               goalFile' = [goalFile EXCEPT ![g] = "in_progress"], taskFile' = taskFile,
               reopened' = reopened \cup {<<g, NoUnit>>}
        PROVE  StopInv'
    BY <2>1, <2>3, Bounds, TasksAre DEF TypeOK, FilesOK
  <2>4. ASSUME NEW t \in Tasks, taskFile[t] \notin {"none", "abandoned"},
               taskFile' = [taskFile EXCEPT ![t] = "pending"], goalFile' = goalFile,
               reopened' = reopened \cup {t}
        PROVE  StopInv'
    BY <2>1, <2>4, Bounds, TasksAre DEF TypeOK, FilesOK
  <2> QED BY <1>36, <2>2, <2>3, <2>4, DecideMeans
<1>37. ASSUME NEW k \in tickets, DeleteTicket(k)
       PROVE  StopInv'
  BY <1>37, CurOK DEF DeleteTicket
<1> QED
  BY <1>1, <1>2, <1>3, <1>4, <1>5, <1>6, <1>7, <1>8, <1>9, <1>10, <1>11, <1>12, <1>13, <1>14,
     <1>15, <1>16, <1>17, <1>18, <1>19, <1>20, <1>21, <1>22, <1>23, <1>24, <1>25, <1>26, <1>27,
     <1>28, <1>29, <1>30, <1>31, <1>32, <1>33, <1>34, <1>35, <1>36, <1>37
     DEF Next, Kickoff, Operator

\* A stopped run that ends leaves no live goal or task but what was denied while it
\* was torn down, and no open ticket of its own.
THEOREM StopLeavesNothing == Spec => []StopClearsRun
<1>1. Init => StopInv
  BY Bounds DEF Init, StopInv
<1>2. TypeInv /\ TypeInv' /\ StopInv /\ [Next]_vars => StopInv'
  BY StopStep DEF TypeInv
<1>3. TypeInv /\ StopInv => StopClearsRun
  BY DEF StopInv, StopClearsRun
<1> QED BY <1>1, <1>2, <1>3, TypeInvariant, PTL DEF Spec

=============================================================================
