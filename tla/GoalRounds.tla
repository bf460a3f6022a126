----------------------------- MODULE GoalRounds -----------------------------
(***************************************************************************)
(* One kickoff of the orchestrator: its goals are planned, run, judged by  *)
(* the Leader, fixed or redone, and settled, while the operator decides    *)
(* and deletes tickets and may stop the run.                               *)
(*                                                                         *)
(* A goal and its tasks exist twice: in the objects the kickoff works on   *)
(* (held, hand) and in the files of the run (goalFile, taskFile), which    *)
(* the operator's decisions write from another thread. Tickets outlive the *)
(* run that opened them, and name a goal or a task by its id alone; ids    *)
(* start again with each run.                                              *)
(***************************************************************************)
EXTENDS Integers, FiniteSets

CONSTANTS
  NGoals, Units,   \* goals of the objective, tasks of each
  Needs,           \* the units of its goal that a unit depends on
  NoUnit,          \* the unit of a ticket about a whole goal
  MaxRetries,      \* Goal.max_retries
  MaxDrain,        \* _max_drain_iterations
  Lanes,           \* which of the two redo lanes can run: "leader", "floor"
  Leftovers,       \* tickets that earlier runs may have left behind
  MaxDecisions, MaxDeletions   \* bounds on the operator

Goals == 1..NGoals
Tasks == Goals \X Units
Things == Goals \X (Units \cup {NoUnit})

\* A ticket is about `what`, opened by this run (own) in that pass over the goal.
TicketType == [what : Things, own : BOOLEAN, pass : Nat,
               status : {"open", "resolved", "closed"},
               decision : {"none", "approved", "denied"}]

ASSUME GoalAssumption ==
  /\ NGoals \in Nat \ {0} /\ NoUnit \notin Units /\ IsFiniteSet(Units)
  /\ Needs \in [Units -> SUBSET Units]
  /\ MaxRetries \in Nat /\ MaxDrain \in Nat /\ Lanes \in SUBSET {"leader", "floor"} \ {{}}
  /\ Leftovers \subseteq {k \in TicketType : ~k.own}
  /\ MaxDecisions \in Nat /\ MaxDeletions \in Nat

GoalStatus == {"none", "in_progress", "completed", "incomplete", "blocked", "abandoned"}
TaskStatus == {"none", "dispatched", "pending", "completed", "failed", "abandoned"}

VARIABLES
  goalFile, taskFile, retry, gone,   \* files; `gone`: declared outputs not on disk
  tickets,
  pc, cur, base, held, hand,         \* the kickoff: the goal at hand, in which loop
  why, pass, swept, shown,           \* ... why it sweeps or passes; summary.tasks
  where, queue, redo, round,         \* ... its drains and the wind-down
  abort,
  \* history: how the kickoff ended, verdicts asked for a goal, what a denial
  \* reopened since its file was last settled, and the operator's acts
  outcome, verdicts, reopened, decisions, deletions

files == <<goalFile, taskFile, retry, gone>>
work == <<cur, base, held, hand>>
marks == <<why, pass, swept, shown>>
drains == <<where, queue, redo, round>>
operator == <<abort, decisions, deletions>>
history == <<outcome, verdicts>>
vars == <<files, tickets, pc, work, marks, drains, operator, history, reopened>>

Terminal == {"completed", "incomplete", "abandoned"}     \* _GOAL_TERMINAL
Failed == {"failed", "abandoned"}                        \* _TERMINAL_FAIL
Runnable == {u \in Units : hand[u] \in {"dispatched", "pending"}}
Done == {u \in Units : hand[u] = "completed"}

Init ==
  /\ goalFile = [g \in Goals |-> "none"] /\ taskFile = [t \in Tasks |-> "none"]
  /\ retry = [g \in Goals |-> 0] /\ gone = {}
  /\ tickets \in SUBSET Leftovers
  /\ pc = "intake" /\ cur = 1 /\ base = "first" /\ held = "none"
  /\ hand = [u \in Units |-> "none"]
  /\ why = "first" /\ pass = [g \in Goals |-> 0] /\ swept = {} /\ shown = {}
  /\ where = "intake" /\ queue = {} /\ redo = {} /\ round = 0
  /\ abort = FALSE /\ decisions = 0 /\ deletions = 0
  /\ outcome = "running" /\ verdicts = [g \in Goals |-> 0] /\ reopened = {}

-----------------------------------------------------------------------------
(* Operators of several actions. *)

\* Tickets of this run about units of the goal at hand, or about all of it.
Opened(units) ==
  {[what |-> <<cur, u>>, own |-> TRUE, pass |-> pass[cur], status |-> "open",
    decision |-> "none"] : u \in units}

\* store.save_task over the tasks at hand: h is what the files of `units` say.
SaveTasks(h, units) ==
  /\ taskFile' = [t \in Tasks |-> IF t[1] = cur /\ t[2] \in units THEN h[t[2]]
                                  ELSE taskFile[t]]
  /\ reopened' = reopened \ {<<cur, u>> : u \in units}

\* The goal at hand is saved with status s.
SaveGoal(s) ==
  /\ goalFile' = [goalFile EXCEPT ![cur] = s]
  /\ reopened' = IF s = "in_progress" THEN reopened ELSE reopened \ {<<cur, NoUnit>>}

\* Mutant of Holes: what was completed is taken to be there.
UnfinishedOnly == {u \in Units : hand[u] \notin {"none", "completed"}}

\* _goal_holes: tasks that never finished, and outputs that are not there.
Holes == {u \in Units : hand[u] \notin {"none", "completed"} \/ <<cur, u>> \in gone}

\* Mutant of ZeroSettled: the goal is left as it is.
LeftAsIs(s) == s

\* _settle_zero_completed, of the goal at hand with status s.
ZeroSettled(s) ==
  IF s \in {"completed", "incomplete", "blocked"} THEN s ELSE "incomplete"

\* Mutant of Spent: the attempt is not counted.
Uncounted == retry

\* A slot of the budget of the goal at hand is consumed, whichever lane redoes it.
Spent == [retry EXCEPT ![cur] = @ + 1]

\* Does the redo lane have a slot left?
BudgetLeft == retry[cur] < MaxRetries

\* The goals that the drain of a denied ticket reports: that of a task only when
\* the task is known.
Reported(k) ==
  IF k.decision = "denied" /\ (k.what[2] = NoUnit \/ taskFile[k.what] # "none")
  THEN {k.what[1]} ELSE {}

Goto(p) == pc' = p

-----------------------------------------------------------------------------
(* Drains. *)

\* The snapshot of the tickets that were decided and not yet closed; the
\* wind-down takes at most MaxDrain of them.
StartDrain ==
  /\ pc \in {"intake", "saved", "wind"} /\ (pc = "wind" => round < MaxDrain)
  /\ where' = pc /\ redo' = {} /\ Goto("drain")
  /\ queue' = {k \in tickets : k.status = "resolved" /\ k.decision # "none"}
  /\ UNCHANGED <<files, tickets, work, marks, round, operator, history, reopened>>

\* A ticket is acted on and closed. (An approval completes a goal only through a
\* ticket that names one and requires approval: the code opens none.)
CloseDecided ==
  /\ pc = "drain"
  /\ \E k \in queue \cap tickets :
       /\ redo' = redo \cup Reported(k)
       /\ tickets' = (tickets \ {k}) \cup {[k EXCEPT !.status = "closed"]}
       /\ queue' = queue \ {k}
  /\ UNCHANGED <<files, pc, work, marks, where, round, operator, history, reopened>>

\* The goals that are live are settled by the run that dies.
SettleLive ==
  /\ goalFile' = [g \in Goals |->
       IF goalFile[g] \in Terminal \cup {"none"} THEN goalFile[g] ELSE "incomplete"]
  /\ reopened' = {x \in reopened : x[2] # NoUnit}

\* A ticket of the snapshot was deleted: update_ticket_status raises. Only the
\* drain at intake is guarded.
DrainRaises ==
  /\ pc = "drain" /\ queue \ tickets # {}
  /\ IF where = "intake"
     THEN /\ Goto("decompose") /\ UNCHANGED <<goalFile, reopened, outcome>>
     ELSE /\ SettleLive /\ Goto("done") /\ outcome' = "fatal"
  /\ queue' = {}
  /\ UNCHANGED <<taskFile, retry, gone, tickets, work, marks, where, redo, round, operator,
                 verdicts>>

\* Only the wind-down looks at the goals that a drain reported.
EndDrain ==
  /\ pc = "drain" /\ queue = {}
  /\ \/ where = "intake" /\ Goto("decompose") /\ UNCHANGED <<cur, base>>
     \/ where = "saved" /\ Goto("next") /\ cur' = cur + 1 /\ UNCHANGED base
     \/ /\ where = "wind" /\ Goto(IF redo = {} THEN "close" ELSE "reexec")
        /\ base' = "again" /\ UNCHANGED cur
  /\ UNCHANGED <<files, tickets, held, hand, marks, drains, operator, history, reopened>>

-----------------------------------------------------------------------------
(* Planning. *)

\* _leader_decompose: every goal is saved in progress.
Decompose ==
  /\ pc = "decompose" /\ Goto("next")
  /\ goalFile' = [g \in Goals |-> "in_progress"]
  /\ UNCHANGED <<taskFile, retry, gone, tickets, work, marks, drains, operator, history, reopened>>

\* The loop over the goals, which a stop ends; a stop also leaves out the wind-down.
NextGoal ==
  /\ pc = "next"
  /\ IF cur > NGoals \/ abort
     THEN Goto(IF abort THEN "close" ELSE "wind") /\ UNCHANGED held
     ELSE Goto("plan") /\ held' = "in_progress"
  /\ UNCHANGED <<files, tickets, cur, base, hand, marks, drains, operator, history, reopened>>

\* _reject_task_plan, after the last attempt or at the commit: the tasks there
\* are, if any, are blocked with the goal, and the loop goes on without a drain.
RejectPlan ==
  /\ pc = "plan" /\ Goto("next") /\ cur' = cur + 1
  /\ \E built \in {{}, Units} :
       taskFile' = [t \in Tasks |-> IF t[1] = cur /\ t[2] \in built THEN "failed" ELSE taskFile[t]]
  /\ goalFile' = [goalFile EXCEPT ![cur] = "blocked"]
  /\ tickets' = tickets \cup Opened({NoUnit})
  /\ reopened' = reopened \ ({cur} \X (Units \cup {NoUnit}))
  /\ UNCHANGED <<retry, gone, base, held, hand, marks, drains, operator, history>>

\* The plan is committed. A roster without a producer leaves every task blocked
\* with a ticket (_open_capability_ticket).
CommitPlan ==
  /\ pc = "plan" /\ Goto("pass") /\ why' = "first"
  /\ \E s \in {"dispatched", "failed"} :
       /\ hand' = [u \in Units |-> s]
       /\ tickets' = tickets \cup Opened(IF s = "failed" THEN Units ELSE {})
  /\ SaveTasks(hand', Units)
  /\ goalFile' = [goalFile EXCEPT ![cur] = held]
  /\ UNCHANGED <<retry, gone, cur, base, held, pass, swept, shown, drains, operator, history>>

-----------------------------------------------------------------------------
(* Passes of the producers over the tasks at hand. *)

\* What follows a pass.
AfterPass == [first |-> "judge", redo |-> "rejudge", again |-> "reload"][why]

\* No producer starts once the run is stopped.
StartPass ==
  /\ pc = "pass" /\ Goto(IF abort THEN AfterPass ELSE "running")
  /\ pass' = [pass EXCEPT ![cur] = @ + 1]
  /\ UNCHANGED <<files, tickets, work, why, swept, shown, drains, operator, history, reopened>>

\* How a pass may come out: `done` shipped, `spent` failed after their attempts,
\* `cut` were blocked by what failed before them, and `dropped` were taken out by
\* the Leader between two merges of a redo. Without a stop no runnable unit is left.
PassOutcomes ==
  {r \in [done : SUBSET Runnable, spent : SUBSET Runnable, cut : SUBSET Runnable,
          dropped : SUBSET {u \in Runnable : why = "redo" /\ hand[u] = "pending"}] :
     LET lost == {u \in Units : hand[u] \in Failed} \cup r.spent \cup r.cut \cup r.dropped
         ran == r.done \cup r.spent
     IN /\ \A u \in ran : Needs[u] \subseteq Done \cup r.done
        /\ ran \cap (r.cut \cup r.dropped) = {} /\ r.done \cap r.spent = {}
        /\ r.cut \cap r.dropped = {} /\ (r.dropped # {} => r.done # {})
        /\ \A u \in r.cut : Needs[u] \cap lost # {}
        /\ abort \/ ran \cup r.cut \cup r.dropped = Runnable}

\* The tasks settle, each failure with a ticket.
EndPass ==
  /\ pc = "running" /\ Goto(AfterPass)
  /\ \E r \in PassOutcomes :
       /\ hand' = [u \in Units |-> CASE u \in r.done -> "completed"
                                     [] u \in r.spent \cup r.cut -> "failed"
                                     [] u \in r.dropped -> "abandoned"
                                     [] OTHER -> hand[u]]
       /\ SaveTasks(hand', r.done \cup r.spent \cup r.cut \cup r.dropped)
       /\ tickets' = tickets \cup Opened(r.spent)
       /\ gone' = gone \ ({cur} \X r.done)
  /\ UNCHANGED <<goalFile, retry, cur, base, held, marks, drains, operator, history>>

-----------------------------------------------------------------------------
(* The producer of last resort. *)

\* Mutant of SpendSweep: the sweep is not spent.
SweepUnspent(reason) ==
  /\ swept' = swept /\ why' = reason /\ Goto("sweep")

\* The one sweep of a goal: spends it and goes on with the sweep.
SpendSweep(reason) ==
  /\ swept' = swept \cup {cur} /\ why' = reason /\ Goto("sweep")

\* What follows a sweep that shipped nothing. Before the Leader's verdict there
\* is nothing to settle by it.
NothingSwept ==
  CASE why \in {"verdict", "hole"} ->
         Goto("settle") /\ UNCHANGED <<held, goalFile, reopened>>
    [] why = "first" /\ abort -> Goto("save") /\ UNCHANGED <<held, goalFile, reopened>>
    [] OTHER -> held' = ZeroSettled(held) /\ SaveGoal(held') /\ Goto("save")

\* A sweep of a run that is stopped does nothing.
SweepStopped ==
  /\ pc = "sweep" /\ abort /\ NothingSwept
  /\ UNCHANGED <<taskFile, retry, gone, tickets, cur, base, hand, marks, drains, operator, history>>

StartSweep ==
  /\ pc = "sweep" /\ ~abort /\ Goto("sweeping")
  /\ UNCHANGED <<files, tickets, work, marks, drains, operator, history, reopened>>

\* QC ships what it can, dependencies first; shipped work is judged again,
\* except that the first look at a goal is not taken once the run is stopped.
\* Units whose history holds an environmental or path block stay down.
EndSweep ==
  /\ pc = "sweeping"
  /\ \E s \in SUBSET {u \in Units : hand[u] \notin {"none", "completed"}} :
       /\ \A u \in s : Needs[u] \subseteq Done \cup s
       /\ hand' = [u \in Units |-> IF u \in s THEN "completed" ELSE hand[u]]
       /\ taskFile' = [t \in Tasks |-> IF t[1] = cur /\ t[2] \in s THEN "completed"
                                       ELSE taskFile[t]]
       /\ gone' = gone \ ({cur} \X s)
       /\ IF s = {} THEN NothingSwept
          ELSE /\ Goto(IF why = "first" /\ abort THEN "save" ELSE "verify")
               /\ reopened' = reopened \ ({cur} \X s)
               /\ UNCHANGED <<held, goalFile>>
  /\ UNCHANGED <<retry, tickets, cur, base, marks, drains, operator, history>>

-----------------------------------------------------------------------------
(* Verdicts. *)

\* After the first pass: work that shipped is judged, a goal without any gets
\* its sweep, and a stop leaves it as it is.
Judge ==
  /\ pc = "judge"
  /\ IF abort \/ (Done = {} /\ cur \in swept) THEN Goto("save") /\ UNCHANGED <<why, swept>>
     ELSE IF Done # {} THEN Goto("verify") /\ UNCHANGED <<why, swept>>
     ELSE SpendSweep("first")
  /\ UNCHANGED <<files, tickets, work, pass, shown, drains, operator, history, reopened>>

\* ... and after the pass of a floor redo, which settles a goal left with nothing.
Rejudge ==
  /\ pc = "rejudge"
  /\ IF abort THEN Goto("save") /\ UNCHANGED <<held, goalFile, reopened, why, swept>>
     ELSE IF Done # {} THEN Goto("verify") /\ UNCHANGED <<held, goalFile, reopened, why, swept>>
     ELSE IF cur \notin swept
          THEN SpendSweep("redo") /\ UNCHANGED <<held, goalFile, reopened>>
     ELSE held' = ZeroSettled(held) /\ SaveGoal(held') /\ Goto("save") /\ UNCHANGED <<why, swept>>
  /\ UNCHANGED <<taskFile, retry, gone, tickets, cur, base, hand, pass, shown, drains, operator,
                 history>>

\* What the Leader may come back with. Violations that the engine measured clamp
\* the verdict and drive the fix whatever the Leader declares, unless no fix of
\* the deliverable can cure them ("engine"). A redo that changed nothing, or that
\* QC had to write, is `stuck`; an operator at hand may `block` the fix.
Verdicts ==
  [good : BOOLEAN, measured : {"none", "fixable", "engine"}, remedy : {"revise", "defer"},
   stuck : BOOLEAN, block : BOOLEAN]

Disappointed(v) == ~v.good \/ v.measured # "none"

CanRedo(v) ==
  /\ Disappointed(v) /\ BudgetLeft /\ ~v.stuck
  /\ v.measured = "fixable" \/ (v.remedy = "revise" /\ v.measured # "engine")

\* Only a plain hole is swept before settling: not a measured violation, and not
\* what the Leader defers.
SweepFirst(v) ==
  Disappointed(v) /\ ~CanRedo(v) /\ v.measured = "none" /\ v.remedy # "defer" /\ cur \notin swept

\* One more verdict, counted up to the first that is too many.
VerdictBound == MaxRetries + MaxDrain + 2
Counted == verdicts' = [verdicts EXCEPT ![cur] = IF @ > VerdictBound THEN @ ELSE @ + 1]

\* _leader_verify_goal up to the choice of what is done about the verdict.
Verify ==
  /\ pc = "verify" /\ Counted
  /\ \E v \in Verdicts :
       /\ v.stuck => retry[cur] >= 1
       /\ CASE SweepFirst(v) -> SpendSweep("verdict")
            [] CanRedo(v) /\ ~v.block -> Goto("fix") /\ UNCHANGED <<why, swept>>
            [] OTHER -> Goto("settle") /\ UNCHANGED <<why, swept>>
  /\ UNCHANGED <<files, tickets, work, pass, shown, drains, operator, outcome, reopened>>

\* The verdict cannot be read, or the deliverable is too large to be judged.
VerdictUnreadable ==
  /\ pc = "verify" /\ Counted
  /\ held' = ZeroSettled(held) /\ SaveGoal(held') /\ Goto("save")
  /\ UNCHANGED <<taskFile, retry, gone, tickets, cur, base, hand, marks, drains, operator, outcome>>

\* The end of the ladder: what is missing gets the sweep, and what is still
\* missing then decides between the two terminals.
Settle ==
  /\ pc = "settle"
  /\ IF Holes # {} /\ cur \notin swept
     THEN SpendSweep("hole") /\ UNCHANGED held
     ELSE /\ held' = IF Holes = {} THEN "completed" ELSE "incomplete"
          /\ Goto("save") /\ UNCHANGED <<why, swept>>
  /\ UNCHANGED <<files, tickets, cur, base, hand, pass, shown, drains, operator, history, reopened>>

\* Either lane does nothing once the run is stopped.
FixStopped ==
  /\ pc = "fix" /\ abort /\ Goto("save")
  /\ UNCHANGED <<files, tickets, work, marks, drains, operator, history, reopened>>

\* _leader_fix_in_place: the Leader takes the deliverable in hand.
StartFix ==
  /\ pc = "fix" /\ ~abort /\ "leader" \in Lanes /\ Goto("fixing")
  /\ retry' = Spent /\ SaveGoal(held)
  /\ UNCHANGED <<taskFile, gone, tickets, work, marks, drains, operator, history>>

\* It may write what was missing, and lose what was there; then it judges again.
EndFix ==
  /\ pc = "fixing" /\ Goto(IF abort THEN "save" ELSE "verify")
  /\ \E lost \in SUBSET Done : gone' = {t \in gone : t[1] # cur} \cup ({cur} \X lost)
  /\ UNCHANGED <<goalFile, taskFile, retry, tickets, work, marks, drains, operator, history,
                 reopened>>

\* _leader_auto_redo: every task goes back to the producers.
FloorRedo ==
  /\ pc = "fix" /\ ~abort /\ "floor" \in Lanes /\ Goto("pass") /\ why' = "redo"
  /\ hand' = [u \in Units |-> IF hand[u] = "none" THEN "none" ELSE "pending"]
  /\ retry' = Spent /\ goalFile' = [goalFile EXCEPT ![cur] = held]
  /\ SaveTasks(hand', {u \in Units : hand[u] # "none"})
  /\ UNCHANGED <<gone, tickets, cur, base, held, pass, swept, shown, drains, operator, history>>

\* The goal is written, and no more at hand; the first time, its tasks are those
\* that the summary shows.
SaveVerdict ==
  /\ pc = "save" /\ SaveGoal(held) /\ Goto(IF base = "first" THEN "saved" ELSE "reexec")
  /\ shown' = IF base = "first" THEN shown \cup ({cur} \X Done) ELSE shown
  /\ held' = "none" /\ hand' = [u \in Units |-> "none"] /\ why' = "first"
  /\ UNCHANGED <<taskFile, retry, gone, tickets, cur, base, pass, swept, drains, operator, history>>

-----------------------------------------------------------------------------
(* Wind-down and end. *)

\* _reexecute_goal, of a goal that a drain reported and that is not terminal:
\* its tasks are read back, and the pending ones dispatched.
Reexecute ==
  /\ pc = "reexec"
  /\ \E g \in redo :
       /\ redo' = redo \ {g}
       /\ IF goalFile[g] \in Terminal \cup {"none"}
          THEN UNCHANGED <<pc, cur, held, hand, why, taskFile, reopened>>
          ELSE /\ cur' = g /\ held' = goalFile[g] /\ why' = "again" /\ Goto("pass")
               /\ hand' = [u \in Units |-> IF taskFile[<<g, u>>] = "pending" THEN "dispatched"
                                           ELSE taskFile[<<g, u>>]]
               /\ taskFile' = [t \in Tasks |-> IF t[1] = g THEN hand'[t[2]] ELSE taskFile[t]]
               /\ reopened' = reopened \ ({g} \X Units)
  /\ UNCHANGED <<goalFile, retry, gone, tickets, base, pass, swept, shown, where, queue, round,
                 operator, history>>

\* The tasks are read once more, and judged if any of them shipped.
Reload ==
  /\ pc = "reload" /\ hand' = [u \in Units |-> taskFile[<<cur, u>>]]
  /\ IF \E u \in Units : hand'[u] = "completed"
     THEN Goto("verify") /\ UNCHANGED <<held, goalFile, reopened>>
     ELSE held' = ZeroSettled(held) /\ SaveGoal(held') /\ Goto("save")
  /\ UNCHANGED <<taskFile, retry, gone, tickets, cur, base, marks, drains, operator, history>>

\* The next round of the wind-down, or none.
NextRound ==
  /\ \/ pc = "reexec" /\ redo = {} /\ round' = round + 1 /\ Goto("wind")
     \/ pc = "wind" /\ round = MaxDrain /\ Goto("close") /\ UNCHANGED round
  /\ UNCHANGED <<files, tickets, work, marks, where, queue, redo, operator, history, reopened>>

\* _close_recovered_task_tickets: open tickets of tasks the summary shows
\* completed are resolved, whichever run opened them.
CloseRecovered ==
  /\ pc = "close" /\ Goto("teardown")
  /\ tickets' = {IF k.status = "open" /\ k.what \in shown THEN [k EXCEPT !.status = "resolved"]
                 ELSE k : k \in tickets}
  /\ UNCHANGED <<files, work, marks, drains, operator, history, reopened>>

\* The end of a run that nobody stopped.
Finish ==
  /\ pc = "teardown" /\ ~abort /\ Goto("done") /\ outcome' = "ended"
  /\ UNCHANGED <<files, tickets, work, marks, drains, operator, verdicts, reopened>>

\* _teardown_run: tasks first, then goals, then the tickets this run opened.
TeardownTasks ==
  /\ pc = "teardown" /\ abort /\ Goto("teardown_goals")
  /\ taskFile' = [t \in Tasks |-> IF taskFile[t] \in {"none", "completed"} THEN taskFile[t]
                                  ELSE "abandoned"]
  /\ reopened' = {x \in reopened : x[2] = NoUnit}
  /\ UNCHANGED <<goalFile, retry, gone, tickets, work, marks, drains, operator, history>>

\* Mutant of LeftAlone: a blocked goal is taken for a settled one.
BlockedLeftAlone == Terminal \cup {"none", "blocked"}

\* The statuses the teardown leaves alone.
LeftAlone == Terminal \cup {"none"}

TeardownGoals ==
  /\ pc = "teardown_goals" /\ Goto("teardown_tickets")
  /\ goalFile' = [g \in Goals |-> IF goalFile[g] \in LeftAlone THEN goalFile[g] ELSE "abandoned"]
  /\ reopened' = {x \in reopened : x[2] # NoUnit}
  /\ UNCHANGED <<taskFile, retry, gone, tickets, work, marks, drains, operator, history>>

TeardownTickets ==
  /\ pc = "teardown_tickets" /\ Goto("done") /\ outcome' = "ended"
  /\ tickets' = {IF k.own /\ k.status = "open" THEN [k EXCEPT !.status = "closed"] ELSE k :
                 k \in tickets}
  /\ UNCHANGED <<files, work, marks, drains, operator, verdicts, reopened>>

\* The Leader's model is not available: the kickoff returns, and settles nothing.
LeaderUnavailable ==
  /\ pc \in {"decompose", "plan", "verify"} /\ Goto("done") /\ outcome' = "unavailable"
  /\ UNCHANGED <<files, tickets, work, marks, drains, operator, verdicts, reopened>>

\* Any other failure of a call ends the run, which settles what is live.
CallFails ==
  /\ pc \in {"decompose", "plan", "verify"} /\ Goto("done") /\ outcome' = "fatal" /\ SettleLive
  /\ UNCHANGED <<taskFile, retry, gone, tickets, work, marks, drains, operator, verdicts>>

-----------------------------------------------------------------------------
(* The operator, on other threads, while the kickoff runs. *)

StopRun ==
  /\ pc # "done" /\ ~abort /\ abort' = TRUE
  /\ UNCHANGED <<files, tickets, pc, work, marks, drains, decisions, deletions, history, reopened>>

\* update_ticket_approval, of a ticket that was not decided before, whatever its
\* status; a denial reopens what the ticket names (_reopen_affected), which is
\* looked up in the run at hand and left alone when it was abandoned.
Decide(k, decision) ==
  /\ pc # "done" /\ decisions < MaxDecisions /\ k.decision = "none"
  /\ tickets' = (tickets \ {k}) \cup {[k EXCEPT !.status = "resolved", !.decision = decision]}
  /\ decisions' = decisions + 1
  /\ LET ofGoal == k.what[2] = NoUnit
         status == IF ofGoal THEN goalFile[k.what[1]] ELSE taskFile[k.what]
         reopens == decision = "denied" /\ status \notin {"none", "abandoned"}
     IN /\ goalFile' = IF reopens /\ ofGoal THEN [goalFile EXCEPT ![k.what[1]] = "in_progress"]
                       ELSE goalFile
        /\ taskFile' = IF reopens /\ ~ofGoal THEN [taskFile EXCEPT ![k.what] = "pending"]
                       ELSE taskFile
        /\ reopened' = IF reopens THEN reopened \cup {k.what} ELSE reopened
  /\ UNCHANGED <<retry, gone, pc, work, marks, drains, abort, deletions, history>>

DeleteTicket(k) ==
  /\ pc # "done" /\ deletions < MaxDeletions
  /\ tickets' = tickets \ {k} /\ deletions' = deletions + 1
  /\ UNCHANGED <<files, pc, work, marks, drains, abort, decisions, history, reopened>>

-----------------------------------------------------------------------------
Kickoff ==
  \/ StartDrain \/ CloseDecided \/ DrainRaises \/ EndDrain
  \/ Decompose \/ NextGoal \/ RejectPlan \/ CommitPlan
  \/ StartPass \/ EndPass \/ SweepStopped \/ StartSweep \/ EndSweep
  \/ Judge \/ Rejudge \/ Verify \/ VerdictUnreadable \/ Settle
  \/ FixStopped \/ StartFix \/ EndFix \/ FloorRedo \/ SaveVerdict
  \/ Reexecute \/ Reload \/ NextRound \/ CloseRecovered
  \/ Finish \/ TeardownTasks \/ TeardownGoals \/ TeardownTickets
  \/ LeaderUnavailable \/ CallFails

Operator ==
  \/ StopRun
  \/ \E k \in tickets : DeleteTicket(k) \/ \E d \in {"approved", "denied"} : Decide(k, d)

Next == Kickoff \/ Operator

Spec == Init /\ [][Next]_vars

\* The kickoff thread goes on: every model call returns or raises, within the
\* time limits of the runners. Nothing is asked of the operator.
FairSpec == Spec /\ WF_vars(Kickoff)

-----------------------------------------------------------------------------
(* Properties. *)

FilesOK ==
  /\ goalFile \in [Goals -> GoalStatus] /\ taskFile \in [Tasks -> TaskStatus]
  /\ retry \in [Goals -> 0..MaxRetries] /\ gone \subseteq Tasks

TicketsOK == tickets \subseteq TicketType /\ queue \subseteq TicketType /\ redo \subseteq Goals

KickoffOK ==
  /\ pc \in {"intake", "saved", "wind", "drain", "decompose", "next", "plan", "pass", "running",
             "judge", "rejudge", "reload", "sweep", "sweeping", "verify", "fix", "fixing",
             "settle", "save", "reexec", "close", "teardown", "teardown_goals",
             "teardown_tickets", "done"}
  /\ cur \in Nat \ {0} /\ base \in {"first", "again"} /\ held \in GoalStatus
  /\ hand \in [Units -> TaskStatus]
  /\ why \in {"first", "redo", "again", "verdict", "hole"} /\ pass \in [Goals -> Nat]
  /\ swept \subseteq Goals /\ shown \subseteq Tasks
  /\ where \in {"intake", "saved", "wind"} /\ round \in 0..MaxDrain

HistoryOK ==
  /\ outcome \in {"running", "ended", "fatal", "unavailable"} /\ abort \in BOOLEAN
  /\ verdicts \in [Goals -> 0..(VerdictBound + 1)] /\ reopened \subseteq Things
  /\ decisions \in Nat /\ deletions \in Nat

\* Types. The budget of redos is absolute: no goal gets more than max_retries.
TypeOK == FilesOK /\ TicketsOK /\ KickoffOK /\ HistoryOK

\* "A goal must never strand IN_PROGRESS": a kickoff that is over has settled
\* every goal, except those that a denial reopened after that, and except that
\* an unavailable Leader leaves them as they are.
NoGoalLeftLive ==
  pc = "done" /\ outcome # "unavailable" =>
    \A g \in Goals : goalFile[g] = "in_progress" => <<g, NoUnit>> \in reopened

\* A verdict of fitness does not wave a hole through: all tasks of a goal that is
\* completed have shipped and are on disk, but for what a denial reopened, which
\* the teardown of a stopped run then abandons.
CompletedOwesNothing ==
  \A g \in Goals : goalFile[g] = "completed" =>
    \A u \in Units : /\ <<g, u>> \notin gone
                     /\ \/ taskFile[<<g, u>>] = "completed" \/ <<g, u>> \in reopened
                        \/ abort /\ taskFile[<<g, u>>] = "abandoned"

\* The recursion of verdict, fix, redo and sweep is bounded: by the first verdict
\* and that of each reexecution, one per redo of the budget, one for the sweep.
VerdictsAreBounded == \A g \in Goals : verdicts[g] <= VerdictBound

\* A stopped run that ends leaves no residue: no live goal or task but what was
\* denied while it was torn down, and no open ticket of its own.
StopClearsRun ==
  pc = "done" /\ outcome = "ended" /\ abort =>
    /\ \A g \in Goals : goalFile[g] \in {"none"} \cup Terminal \/ <<g, NoUnit>> \in reopened
    /\ \A t \in Tasks : taskFile[t] \in {"none", "completed", "abandoned"} \/ t \in reopened
    /\ \A k \in tickets : k.own => k.status # "open"

\* The kickoff returns, whatever the Leader and the operator say.
KickoffEnds == <>(pc = "done")

\* What the docstring of _drain_decided_tickets says: a goal that a denial
\* reopened is executed again within the kickoff. A kickoff that ran to its end
\* leaves a reopened goal only when the drain has not seen the denial.
DeniedIsRedone ==
  pc = "done" /\ outcome = "ended" /\ ~abort =>
    \A g \in Goals : <<g, NoUnit>> \in reopened =>
      \E k \in tickets : k.what = <<g, NoUnit>> /\ k.decision = "denied" /\ k.status = "resolved"

=============================================================================
