# A TLA+ model of Modulatio

Modulatio runs teams of language-model agents on projects.  Most of its code
assembles prompts and calls models; what can go wrong without any model being
involved is the machinery around them: a plan file that several daemons may
execute, tickets with which an operator lets them, a task queue that several
processes drain, scheduled jobs that fill it, the threads that work on the tasks
of one goal, a task that is split while a process may die, the rounds in which a goal
is judged, redone and settled while the operator decides tickets, and the accounting
of what all this spends.  This directory models that machinery, checks it with TLC
and proves its main properties with TLAPS.  Paths below are relative to
`src/modulatio/` unless they start with another directory.

## Inventory

| part | state | operations | modelled in |
|---|---|---|---|
| plan files, `plans.py` | one Markdown file per plan, its frontmatter the state: status, transitions, resume point, spend; a flock per plan | persist, set_status, record and advance calls, cancel | `PlanExecution` |
| plan execution, `project_execution.py`, `budget.py` | what a daemon keeps while it runs a plan: completed count, budget tracker | claim, loop over sub-objectives, reflect, pause, abort, finish | `PlanExecution` |
| goals and verdicts, `orchestration.py`, `store.py` | one file per goal and task, the objects a kickoff works on, retry budgets, what was swept | drain, plan, pass, judge, fix, redo, sweep, settle, reexecute, tear down | `GoalRounds` |
| tickets, `store.py` | one file per ticket: status, decision, and the plan, goal or task it names | open, decide, close, delete; find the pending one | `PlanExecution`, `GoalRounds` |
| heartbeat queue, `heartbeat.py` | one JSON file of tasks, one flock | add, cancel, clear; tick: recover, claim, dispatch, finalize or retry, recur | `HeartbeatQueue` |
| cron, `cron.py` | one JSON file of jobs, a flock | add, update, remove, enable, disable; sweep: fire what is due into the queue, advance | `CronDispatch` |
| dispatch waves, `orchestration.py`, `dispatch.py` | the task objects main thread and workers share, a registry of the tasks in flight, a pool, staging trees | revive, cascade, reflect, pump, wait, collect and merge; worker: seed, attempt, settle | `TaskWaves` |
| decompose mint, `orchestration.py`, `store.py` | a record in the parent's task file, its children's files, rows of `audit.jsonl` | commit, disclose, create, claim, run or settle children, merge; scan, redo and reopen | `DecomposeMint` |
| metered spend, `comptroller.py`, `metered.py`, the metered arm of `runners.py` | an append-only ledger per project, a flock, the caps in a Markdown file; per tool loop a cache of results | authorize a paid call, make it or reuse its result, set a cap | `MeteredLedger` |
| daemon, `daemon.py` | a PID file, a stop flag | start, tick, stop | its tick gives the fairness |
| runners, tools, memory, user interfaces, libraries of text | see `PROJECT.json` | | not modelled |

How they interact.  The chat pane persists a draft plan and opens a ticket for
it.  An operator approves or denies the ticket in whatever process the request
arrives (chat, web, Telegram, command line); the decision is written to the
ticket file and then to the plan file.  On each tick a daemon looks for an
approved plan, claims it under the plan's flock and runs it: for every
sub-objective a kickoff (the orchestrator at work), then a reflection by the
Leader that says continue, revise, pause or abort.  A pause opens a new ticket,
and its approval makes the plan claimable again.  Cron adds tasks to the
heartbeat queue; every process that ticks drains it, each dispatch being another
kickoff.  A kickoff plans goals and their tasks and hands the tasks of a goal to a
pool of worker threads; the Leader judges what comes back, fixes it or has it redone,
and settles the goal, while an operator's decisions on tickets reopen goals and tasks; a task whose call is too big is split, and its children
run inside it; tool loops inside the calls ask the ledger before they spend.
Between processes all communication is through files, and a lock of one process
never meets the locks of another; between the threads of one kickoff it is
through shared task objects, futures and staging trees.

What is hard is therefore what happens between two writes: another process
decides, cancels, claims or clears, a worker moves on, or the process dies.
Several of the writes are read-modify-writes under a flock, others (`set_status`,
`update_task`, `save_task`) ignore what the file says by then.  `PROJECT.json` lists
the hazards one by one.

What makes each part correct:

* plan: one daemon at a time, each run answering an approval; a resume neither
  repeats nor skips; done means finished; spend is counted on, never over; a
  decision is final.
* queue: one runner per task, bounded attempts, dependencies first, one live
  instance per recurring chain, cancel respected, nothing running for ever.
* cron: a due slot fires once, on its grid and not past its end; a count is an
  upper limit; what is due is served.
* waves: what runs at once runs apart and within its capacities; every task is
  settled, in memory and on disk; a task is given up only for a cause; a hung
  worker holds up nobody else; a task starts from what it depends on.
* mint: split and spent budget are one write; a child's producer is called once;
  a container is what its children are; every mint is disclosed once.
* goals: each is settled when the kickoff is over, honestly (completed owes nothing),
  after boundedly many verdicts; a stopped run leaves nothing of its own open; what
  the operator denies is done again.
* metered spend: the daily and per-task caps hold under concurrent calls, a call is
  charged once and never made uncharged, and a stuck lock denies.

## Modules

`PlanGrant` is the abstract specification of a plan's life: a permit that is asked
for, granted and spent by one worker, who moves the resume point one step at a
time.  `SpendAuthority` is that of a project's spend: a charge is within the caps, new
and on record in one step, and only what is on record is called.

### PlanExecution

The protocol of one plan file.  A step is one atomic replacement of the plan file,
one write of a ticket, or one lock-free read on which the code branches.

| in the module | in the code |
|---|---|
| `size` | what `extract_sub_objectives` finds in the body |
| `status`, `history`, `index`, `started`, `tokens`, `spawned`, `log` | the frontmatter fields `status`, `status_transitions`, `current_index`, `execution_started_at`, `tokens_used`, `spawned_kickoffs`, `reflection_log` |
| `tickets` | the decisions of the plan's tickets in order of creation |
| `lock` | the holder of the plan's flock, when it is held across several writes (the claim) |
| `pc`, `at`, `tracker` | a daemon inside `start_execution`: where it is, its `completed`, its `BudgetTracker` |
| `dpc`, `job` | a process inside `update_ticket_approval` or `plans.cancel` |

`Pick`, `ClaimLost`, `ClaimStamp`, `ClaimFlip` and `RejectBody` are the tick's scan
and the head of `start_execution`; `Halt` to `Finish` are the loop, in the order
of its writes (caps pause first and open the ticket second, reflections the
other way round); `BeginDecision` to `FlipFails` are `update_ticket_approval`, whose
lock is one of its own process; `CancelLoad` to `CancelDecline` are
`plans.cancel`.  `Crash` stands for the death of the daemon as well as for a write
that raises, a lock that times out included: `tick` swallows the exception and the
locals are gone either way.

Abstracted: one plan (plans share nothing but the daemon's time).  A model call
costs one token; of the caps only `max_tokens` is counted, the wall clock may be
exceeded at any top of the loop, and the cost cap acts as the token cap does.  A
kickoff is one step: it has no effect on the plan until it is recorded, and a FAILED
one is recorded the same way.  `find_pending_approval_ticket_for_plan` returns the
newest; the model lets it return any pending ticket.  Plan caps edited during the
execution window, ticket numbers that collide, ids resolved by suffix, and
platforms without `flock` are not modelled.

### HeartbeatQueue

The queue file, its runners and the operator.  Every function of `heartbeat.py` that
changes the file holds the flock from read to write and is one action.  `held` is the
copy of the task a runner took at its claim, from which the code computes retries and
the next instance of a recurring task.  `calls`, `succeeded`, `root` and `axed` are
history variables; no guard reads them.  Clocks are two flags: `due` (next_run has
passed) and `stale` (the start is too long ago).  Only recurring tasks are ever not
due.  A queue file that cannot be read, which the code takes for an empty one and then
overwrites (heartbeat.py:150), is not modelled.

### CronDispatch

The config file and the processes that sweep it.  `job` is the file, `seen`, `snap`,
`batch` and `cur` are the locals of a sweep: its `now`, which is read before the lock
is asked for, the jobs as it read them under the lock, those that are due, the one at
hand.  A sweep holds the flock to its last write, so that operator and sweepers
exclude each other; `Fire` (the task goes into the queue) and `Advance` (runs,
next_run, enabled) are two steps nevertheless, because the process may die in
between, and `Crash` stands for a write of the config that fails, too.

Schedules are of three kinds: once, an interval (`next_run` counts from the slot that
was due, `AdvanceNextRun`), and a calendar rule, of which the only thing that matters is
that the next slot is strictly after now; daily, weekly and monthly rules are all of
that kind.  `Reject` is the sweep that stops a job instead of firing it, for a missing
project, malformed stop metadata or a used-up count; `Advance(.., FALSE)` a schedule
that no longer parses.  `fires`, `torn`, `last`, `excused` and `origin` are history
variables.  Left out: `run_now`, which queues a task out of turn and notes the time and
the outcome in the job, without counting it.  What the code does and the model with it:
`until` is not looked at for the first slot; a stopped job that is enabled again fires
the slot at which it was stopped; a crash between fire and advance fires a slot twice.
`FireIsCalledFor` and `CountIsUpperLimit` say that these are the only ways.

### TaskWaves

One call of `_run_task_waves`.  `status` and `why` are the `Task` objects, which main
thread and workers share; `store` what is in the records; `fut` the futures and with
them the workers; `seat` the registry `in_flight`; `sees` what a staging tree was
seeded with and `shared` what has been merged.  Each pass of the main thread over the
tasks is one step (`Revive`, `Cascade`, `Reflect`, `Pump`, `Loop`, `Wake`, one
`Collect` per future, `Drained`), and workers move between the passes: `Start`
(seeding), `Retry`, `Settle` (the redo loop writes its verdict into the shared
object), `Return`, and the faults `SeedFails` (before the worker's handler is in
place) and `Escape` (an exception that the handler turns into a blocked task).

`schedule_wave` is any assignment that respects seats and the global cap and does not
leave a seat empty while a task waits (`Assignment`); whom it prefers is left out, as
are skills that nobody has, the leader's edits of a task's text in the reflection,
what is in an artifact, and the circuit breaker.
Dependencies on tasks of other goals are taken for completed.  Tasks are listed
dependencies first, as the topological sort leaves them, so that the passes in list
order have one result (`Revived`, `Cascaded`).  `Rescue` stands for a recovery that
completes a failed task while others run, as the comment at orchestration.py:10656
and tests/test_continuous_pull.py:316 have it.  `MaxUpsets` bounds faults and
rescues together.

### DecomposeMint

One goal with one planned task, `Root`, whose subtree runs in one thread.  `disk` is
the run's directory of task records, `obj` the object a frame of
`_run_task_with_redo_inner` or the merge holds, `listed` the records a lane that reopens
a goal loaded up front.  `pc` and `at` are the frames (a parent waits while its child
runs), `lane` the run: the startup scan, the run, the merge of a worker.  `worker` says
whether the task runs in a wave worker, whose saves other than the barriers' are
left to the merge.  `Commit` is the one atomic write of mint and spent budget;
`Emit`, `EmitFails`, `Mark` the audit row and its mark; `Create`, `Load` the
materialization; `Claim` the write before a child's producer runs; `SettleClaim` the
child whose claim was interrupted; `Container` the parent's outcome.  `Kickoff`,
`Recover`, `Dispatch`, `Reopen`, `Begin`, `Skip`, `TaskDone`, `Merge`, `LaneEnds` are the
lanes.  `Crash` kills the process, `Raise` is a save that fails where nothing catches
it, `Stop` the operator's abort.  `calls`, `missed` and `torn` are history variables.

`goal` is the goal's status, as far as it decides whether a lane may come back: only a
live goal is dispatched, and a settled one is reopened by a denied ticket that names
it (`_reopen_affected`, `_reexecute_goal`).  A run that was stopped ends in `Teardown`
(`_teardown_run`), which abandons every task not completed and then the goal, or only
some of the tasks when one of its saves fails; what is abandoned no denial and no
dispatch touches.  A run that dies of an exception settles the goal (`SettleOnFatal`).
A crash does neither, so it is after a crash that open children are found.

Abstracted: a status is open, completed, failed or abandoned; QC's rounds, redo notes,
lack of progress and tool-budget trips are in the choices of `Produced`, `QCFix` and
`Refuse`; the children a planner would give a task are fixed (`Kids`), whether it is
split is not; paths and their reservations are left out; a barrier's conflict needs a
writer that is not there.  `Dispatch` is the first pass and the leader's redo alike.
`Reopen` is the lane of the wind-down; `_auto_resume_refreshable_goals`, which lists a
goal in the same way, needs a ticket with `refresh_at`, which nothing in the repository
sets, and is left out.  There is one lane per kickoff.  Tickets are not state here: any
task that failed may be one whose ticket is denied (`Ticketed`), and any goal that is
settled may be one.  This allows more than the code: a task that failed by an exception
of its worker has no ticket, and a ticket of a task that has recovered is closed.  It
allows less in two places: a ticket is not denied while its task is open again, and a
goal that is still live is not reopened by a ticket on itself alone.

### GoalRounds

One kickoff, between the operator's decisions.  A goal and its tasks exist twice: in
the files (`goalFile`, `taskFile`), and, for the goal at hand (`cur`), in the objects
the kickoff works on (`held`, `hand`), whose save overwrites what the operator wrote.
`retry` is `Goal.retry_count`, `gone` the declared outputs that are not on disk,
`tickets` the ticket files of the project, those of earlier runs included
(`Leftovers`): ids of goals and tasks start again with each run, and a ticket names
them by id.  `swept` is `_goal_qc_swept`, `shown` the completed tasks of
`summary.tasks`, `queue` and `redo` the snapshot and the result of a drain, `round`
the wind-down's counter.  `why` says from where a pass or a sweep was started, which
is where the code returns to; `base` whether the goal is judged in the loop over the
goals or in the wind-down.  `verdicts`, `reopened` and `outcome` are history variables.

| in the module | in the code |
|---|---|
| `StartDrain`, `CloseDecided`, `DrainRaises`, `EndDrain` | `_drain_decided_tickets` at its three call sites: listing, one ticket after the other, a ticket deleted in between |
| `Decompose`, `NextGoal`, `RejectPlan`, `CommitPlan` | `_kickoff_inner`, the loop over the goals, `_reject_task_plan`, `_open_capability_ticket` |
| `StartPass`, `EndPass` | `_run_task_waves`, the sequential loop, `_run_reopened_tasks`: any outcome their gates allow (`PassOutcomes`) |
| `Judge`, `Rejudge`, `Reload` | what the three lanes do when their pass is over |
| `Verify`, `VerdictUnreadable`, `Settle` | `_leader_verify_goal`: verdict, clamp, remediation and window; its unreadable answer; its settling by `_goal_holes` |
| `StartSweep`, `EndSweep`, `SweepStopped` | `_qc_last_resort_sweep` |
| `StartFix`, `EndFix`, `FloorRedo`, `FixStopped` | `_leader_fix_in_place`, `_leader_auto_redo` |
| `SaveVerdict`, `Reexecute`, `NextRound` | the save after the verdict, `_reexecute_goal`, the wind-down |
| `CloseRecovered`, `Teardown...`, `Finish` | the end of `_kickoff_inner`, `_teardown_run`, `store.close_open_tickets` |
| `CallFails`, `LeaderUnavailable` | the two handlers of `kickoff` |
| `Decide`, `DeleteTicket`, `StopRun` | `store.update_ticket_approval` with `_reopen_affected`, `store.delete_ticket`, the F8 handler |

Abstracted: what a model answers is a choice, restricted as the code restricts it.  A
verdict is whether it is good, what the engine measured, what the Leader declares,
whether the redo is futile (stalled or deadlocked) and whether an operator blocks the
fix.  The inside of a pass is `TaskWaves`; here it may end in any way its gates allow,
with minted children left out; `_goal_holes` passes over a parent that minted and asks
its children instead, so `Holes` is about tasks that did not split.  The markers that
keep a task out of a sweep (an environmental or path block) are a choice of the sweep.
Statuses between dispatched and completed are one, as are blocked and rejected
(`"failed"`).  Goals do not depend on each other's tasks.  The branch of a drain that
completes a goal by an approval needs a ticket that names a goal and requires approval,
and nothing opens one. `_auto_resume_refreshable_goals` needs a ticket with
`refresh_at`, which nothing sets. The ticket that `_fail_kickoff_provider_unavailable`
opens names no goal.  A denial is one step although `save_goal` takes no lock: a denial
that falls between a save's preparation and its rename is one that falls before it.

### MeteredLedger

The spend authority and the tool loops that ask it.  `ledger` is the sequence of
metered lines, `lock` the flock, `today` the UTC date; a loop has its `job` (task,
lane, call), the cap it loaded (`budget`), the lines it counted (`count`) and its
`cache` of results.  `authorize_metered_tool` is cut where another process or midnight
can get in between: `Ask` loads the cap, `Acquire` or `LockTimeout` follow, `Scan`
makes the first pass over the ledger, `CountLegacy` the second with a date of its own,
`AppendLine` writes the line with a third.  `Invoke`, `Reuse` and `Raise` are the
metered arm of `run_llm_with_tools`.  `paid` and `highest` are history variables.
The module implements `SpendAuthority` under a mapping that forgets lock, clock, caches
and operator: the lines are the charges, the highest cap declared is the limit, and a
loop that is about to call has the permit for its call (`permitsNow`).

Abstracted: one project and one cost class, and of the older escalation lines only
their number on the first day (nothing in the repository writes them any more).  The
rewrite of the cap file is one step; a reader that sees it half written finds no cap
and is denied.  The checks of parameters and pinned inputs come before all this and
only deny.  `paid` counts answered calls: one that raised may have been billed too.
A call to a service declared free (orchestration.py:6449) is answered without the
authority and leaves no line; it is not in the model.

The modules `MC...` hold the instances for TLC, the modules `..._proofs` the theorems.
Operators named in a comment "Mutant of X" are defects used to show that a property
notices them; no specification uses them.

## Runs

| run | question | instance |
|---|---|---|
| `plan_safety` | safety of claims, resumes and spend, and the refinement of `PlanGrant` | 2 daemons, 1 operator process, all may crash; 2 sub-objectives, cap 2, no approval after the 4th ticket |
| `plan_live` | every run ends, an approved plan is picked up | 2 daemons, 1 operator, no crashes, 0 or 2 sub-objectives |
| `queue_safety` | exclusive dispatch, attempts, dependencies, chains, cancels | 2 runners that may die, 3 tasks, 2 attempts each |
| `queue_live` | nothing stays running for good | 2 runners that may die, 2 tasks, 2 priorities |
| `metered` | caps, charges, replays and answers, and the refinement of `SpendAuthority` | 2 tool loops, one may die, raise or stop with the lock; 2 calls, producer and converse lanes, caps 1 and 2, 2 days, one older line |
| `cron` | counts, grid, slots, and whether what is due is served | 2 sweepers, one may die; 1 job of any kind, count 1 or none, end date or none, interval 2 in a time of 3 |
| `mint` | attempts, budget, outcome, disclosure, monotony of the records | a task with two children, the first of which has two; 2 attempts, 3 mints, 2 kickoffs, 1 reopened goal, 1 crash, 1 fault, stops |
| `waves` | separation, settlement, causes, termination, use of free seats | 4 tasks, 2 agents, pool and cap of 2; 1 fault or rescue |
| `goals` | settlement, honesty of completed, number of verdicts, residue of a stop, termination | 1 goal of two tasks in line; budget 1, 1 round of the wind-down, both redo lanes; 1 decision, 1 deletion, tickets of an earlier run about the goal and a task |
| `mint_twice`, `waves_staging`, `goals_gap` | statements of comments, documentation and changelog that the code does not keep | as above; `mint_twice` with one split, 2 mints, one crash and no faults, `waves_staging` without faults, `goals_gap` with two goals of one task |

The type invariants are proved rather than run (see below).

Why the bounds are enough.  Two daemons and one more process are what it takes for every
race in the code: no operation involves more than the file, one who runs and one who
interferes.  Two sub-objectives give a first, a last and a resume between them; a cap of
2 tokens is exceeded by the second call, in the middle of the plan.  The ticket bound
lets a plan be approved, paused, approved, paused and approved again.  Three tasks give
a predecessor, a dependent and a recurring instance added in between.  `BodySizes = {0,
2}` in `plan_live` and the theorems cover bodies of other lengths.  `continue` and
`revise-minor` are treated alike by the code, as are `revise-major` and `pause`, so the
runs use one of each.  In `metered` two loops are one that holds the lock and one that
waits or goes on without it; a cap of 1 with one older line is exhausted from the start
and a raise to 2 leaves room for one more, so every way through the caps is taken; one
midnight may fall between any two of the readings.  The `qc` lane, whose cap is another
number for the same count, is not in the run, which it would take beyond its time; the
theorems cover it.

In `cron` jobs do not influence one another, so one is enough for safety; of the two
sweepers one fires and advances while the other waits for the lock with an older
`now`; the time of 3 with an interval of 2 has slots noticed on time, late, and late
by more than an interval when a job starts at 1.  The theorems cover any number of
jobs, any step and any count.  In `mint` two kickoffs are one that is interrupted and
one that finds what it left; of the four children two are born of a child; with
three mints every task that can split may, once more after a refusal.  The tree has
the depth at which disagreement 11 below shows.  In `waves` the four tasks
have a chain, a join and a clash of paths; with two agents a seat is free or not; one
upset is enough for each fault and each rescue.  Two escapes and two rescues in one
call make a task run twice, and the merge drops the second result of an id it has
merged; `EverythingSettles` names that exception (`dropped`, a history variable), the
run reaches it with `MaxUpsets = 4`, and the theorems say that the property holds for
any number of upsets and that without any the exception is empty.

In `goals` the two tasks give a dependency that fails under the other and an output lost
by a fix while the rest stands; a budget of 1 is spent and used up, one round of the
wind-down is entered and exhausted, and one denial may fall at any point of the kickoff.
Goals are worked on one after the other and share only the tickets, so one is enough for
what the run asks; the theorems cover any number, and `goals_gap` needs two, the drain
after the second taking the denial of the first.

Fairness.  `plan_live` assumes that each daemon keeps ticking and that a call in
progress goes on (weak fairness per process); `queue_live` that runners keep
ticking, each dispatch ends and time passes.  The daemon's loop ticks until it is
stopped, and both kickoffs and model calls have timeouts.  `metered` assumes that a
loop that has asked goes on (it runs straight-line code, and the wait for the lock
has a deadline), except the loop in `Wedged`, which may stop anywhere for good.
`cron` assumes that a process goes on or dies, and that one that does not die gets
the flock if it becomes free again and again (strong fairness of `Acquire`, for the
daemon alone).  `waves` assumes that the main thread runs; of the workers nothing,
except in `CallEnds`, which has the fairness of the workers as its premise.  `goals`
assumes that the kickoff's thread goes on (weak fairness of `Kickoff`): model calls
return or raise within their timeouts.  No
operator is obliged to decide anything, and no cap to be exceeded.

Deadlock is checked for the queue, whose runners can always tick, the ledger,
whose operator may always set a cap, and cron, whose sweepers can always sweep.  A
plan may really stop, a finished call of `_run_task_waves` has nothing left to do, and
a run that has settled need not be kicked off again, and a kickoff ends, so those runs
do not check it.

## Where the code and its documentation disagree

Three are runs of their own:

1. `mint_twice`: CHANGELOG.md:139 says a minted child has exactly one attempt;
   `_run_reopened_tasks` (orchestration.py:17604) runs the records its lane listed
   before the first task.  The process dies when the first child of a split has failed
   and the second is there but not begun; the goal stays in progress.  In the next
   kickoff the first child's ticket is denied and the wind-down re-executes the goal.
   The parent, which comes first, resumes its mint and runs the second child from the
   store; then the lane hands its own copy of it, which knows of no claim, to the
   producer, and the save of that copy overwrites the claim.
2. `waves_staging`: a worker writes COMPLETED into the shared task
   (orchestration.py:11223) before its future is done and its artifact merged.  If
   the main loop is woken by its tick or by another task in between, it dispatches
   the dependent, and the staging tree of the dependent is copied from a shared tree
   without the artifact (docstring at 9835, docs/design/2026-06-27-continuous-pull-dispatch.md:111-131).
   In the same window a task ordered after another because both write the same path
   is blocked as a path conflict, although the ticket (10461) asks for just that
   order.
3. `goals_gap`: the docstring at orchestration.py:17470 says the drain reports a denied
   goal back to the wind-down loop for re-execution within the kickoff.  The drains at
   intake (18477) and after each goal (18968) close the ticket and drop what they return;
   the wind-down, which drains again, finds nothing.  The goal is left in progress, and
   no later run revisits it.

Others are stated in their module, or described here.  To see one fail, put
the property into the configuration named in place of its properties:

4. `CrashedPlanIsResumed` (`plan_safety`, with `FairSpec`): _docs/20-daemon.md:79 says a
   plan left executing by a crash is claimed again; the scan (project_execution.py:1868)
   looks for approved plans.
5. `PaidWithinCap` (`metered`, with `Caps = {1}`, `Legacy = 0` and `MaxCalls = 2`):
   _docs/28-tools.md:160 and 161 say the daily cap bounds total spend and a retry is served
   free; a replay whose result the loop does not have, after a crash, an error or in the
   next attempt, is made live without a ledger line (runners.py:1916; the comment above it
   says so), any number of times.
6. `DeclinedIsTerminal` (`plan_live`): plans.py:800 calls declined terminal and
   tests/test_plans.py:1394 wants no update to flip it back; `set_status`
   (plans.py:852) accepts any transition, and a plan cancelled during its last
   kickoff ends as done.
7. `PausedHasTicket` (`plan_live`): plans.py:795 says a paused plan has an open
   ticket; the ticket is opened before the pause (project_execution.py:1678, 1696),
   and an approval in between is consumed and overwritten.
8. `SingleRunner` with `Deciders <- TwoOperators` (`plan_live`): store.py:400 and
   _docs/20-daemon.md:59 promise final approvals and one daemon per plan; the lock
   around a decision (store.py:66) is one of its process, so two processes can approve
   the same ticket, the second time re-arming a plan that is already executing.
9. `CancelIsFinal` (`queue_live`): heartbeat.py:314 says a cancel wins the race;
   `_run_task` (heartbeat.py:716) writes running over one that falls after the claim.
10. `CancelEndsChain` (`queue_live`): heartbeat.py:765 says a cancel of the running
   slot ends the chain; not if the entry is cleared before the dispatch returns.
11. `MintOwnsDisposition` (`mint`): the docstring at orchestration.py:12620 says that a
    minted container never falls into the producer or into QC's fix; a child that
    minted has its claim taken, and the loop at 12657 looks at the claim first, so
    after a crash the container is settled by QC on its draft, with its own children
    unfinished.
12. A crash in the middle of `_merge_task_result`, which saves the parent before its
    children (orchestration.py:545-562), leaves a completed container with open
    children; `ContainerFollowsChildren` excludes it (`torn`).
13. `_cascade_dep_failures` does not spare a task that runs: it may block one whose
    dependency escaped after it had published COMPLETED.  Dependents of a task
    blocked for its path, or dropped, are labelled as victims of a saturated roster.
14. A denial of a task's ticket flips the task to pending and leaves its goal as it is;
    the wind-down skips goals that are settled (orchestration.py:18983), and an incomplete
    goal is settled.  The task is never redone, although the capability ticket (17413) says
    "Decline to push the team to redo".
15. `_reopen_affected` writes the file while the kickoff holds its own copy, and the save
    that follows (18961) puts the kickoff's verdict over the denial.
16. When the Leader's model is unavailable the kickoff returns without settling
    (orchestration.py:18075-18081), so a run that dies in a verdict leaves its goals in
    progress, which is what the docstring at 18108 is against.
17. The comment at orchestration.py:15923 wants zero model calls after a stop; the verdict
    that follows a sweep which was under way (15236, 15463, 15942) is asked for all the same.
18. Tickets outlive their run and name goals and tasks by ids that start again: the drain
    and the denial of an old ticket act on a namesake in the new run, and the close of
    recovered tickets resolves the ticket of another run's failure.

## What is proved

All theorems hold for every value of the constants that the named assumptions of the
modules admit.

`PlanExecution_proofs`, for any number of daemons, operators, sub-objectives, tickets
and crashes:

* without hypotheses: `TypeCorrect`, `ClaimsAnswerApprovals`, `ExecutingStamped`.
* under `OneGate` (one deciding process, and bodies that start_execution does not
  reject): `OneRunner`, `DecisionsFinal`, `ResumesWhereItStopped`,
  `CompletesEverything`, `SpendBacked`, `SpendOnlyGrows`, `PlanImplementsGrant`.

`OneGate` is needed: with two deciding processes `SingleRunner` is false (disagreement 8),
and two daemons that both reject a body open two tickets, whose approvals can then
both be acted on.

The argument.  `TrailInv` follows the audit trail: status is its last entry, and
whoever is between stamp and flip holds the lock and sees approved as the last
entry; hence every claim follows an approval.  `GateInv` counts permissions: a
pending ticket, an approval on its way to the plan, a plan that reads approved,
a daemon that has claimed and a daemon that is about to open a ticket are
alternatives, of which there is never more than one.  That is why nobody else can claim a
plan while it runs, although no lock is held during the run: the property needs
tickets, deciders and daemons in one invariant.  `WorkInv` adds that the runner
agrees with the file on the resume point and that the records behind it are
complete.  Each invariant has a lemma for the initial states, one for each group of
actions, and the theorem combines them.  `PlanImplementsGrant` maps every action to
one of `PlanGrant` or to a stutter, using `GateInv` to know that a pause asks and a
claim spends the only permit.

`HeartbeatQueue_proofs`, for any number of runners and tasks: `QueueTypeCorrect`,
`DispatchIsExclusive`, `ChainsStaySingle`, `AttemptsAreBounded`,
`DependenciesComeFirst` and `CancelIsKept`.  `HoldInv` says that what a runner holds is not pending and not
held by another; `ChainInv` that live entries of one chain are the same entry.  The
stale recovery is the delicate step of both: it may fail a task its runner is still
at, and stays harmless because failed is never taken up again.  `AttemptInv` relates
the dispatches of a task to the count in the file while it is pending and to the count
in its runner's copy while it is held; that the two never apply at once is
`DispatchIsExclusive`.  `DependInv` follows a success from the runner's return to the
file's done.  `CancelIsKept` is about steps: each write of `heartbeat.py` either names
the statuses it overwrites, cancelled not among them, or is the mark of a runner whose
claim the cancel followed, which is where the property stops (disagreement 9).

`CronDispatch_proofs`, for any number of jobs and sweepers, any interval, counts and end
dates: `CronTypes`, `CronCount`, `CronGrid` and `CronFires`, from one invariant.
`LockInv` says that whoever sweeps is alone, so that what it read is still in the file;
`CountInv` that fires are the runs in the file, the advances that were lost and the one
in hand; `SlotInv` that the next slot is after the last fire, on the grid, and before the
end unless it is the first.  The grid needs that skipping whole intervals lands strictly
after now, a lemma about division.

`TaskWaves_proofs`, for any tasks, dependencies, paths, agents and capacities:
`WavesTypes`, `WavesRunApart`, `WavesGiveUpForCause`, `WavesSettle` and
`WavesDropNothing`.  `Sound` says that the registry
and the futures are two books of the same tasks; from it capacities follow by counting
what a pump adds against what is free.  `Cause` follows one round of the main thread
when no worker is left: after the revival everyone blocked for a dependency has one
that failed, and what the pump then could not place waits for a task that is not there.
`Agree` says that whoever does not run has in its record what its object says, unless
the merge dropped a result of it; `Rest` that a call which ended by itself has nothing
left to run.  That nothing is dropped without upsets (`Clean`) takes the history of a
task: whoever was placed has completed dependencies, completed is then never undone, so
that no pass makes a settled task ready again.

`DecomposeMint_proofs`, for any tree of tasks, attempts and bounds: `MintTypes`,
`AttemptOnce`, `MintBudget` and `MintIsKept`.  `Sound` is about the frames: what a frame
holds is a record that the store has, and one frame moves at a time.  `Ledger` is what the
properties need: no copy in memory is behind its file in mint, claim or spent budget, so
that no save takes any of them back, and whoever was called has its claim in the file.  It
holds while no goal was reopened, and a reopened lane is just what breaks it
(`mint_twice`).

`DecomposeMintOutcome_proofs` continues it with what a mint comes to: `MintDisclosed`, and
`ContainerFollows`, for any function `Kids`, cyclic or with shared children (a child that
has another parent's mint raises).  `Linked` says that every copy of a record in memory
names the same mint as the file; `Recorded` that a mint in the file has its row, is at
its disclosure, has failed in this run or is on the scan's list, and that a copy which
says it was disclosed is right.  `ContainerFollowsChildren` needs the children's order:
`Numbered` gives every mint one task, `Chained` the frames that wait for one another, and
`Settled` the way of a result: while the lane runs the planned task's file is open, a
child that has been run is saved or left to the merge (`Saved`), the outcome is drawn from
all of them, and the merge has saved the container's children before the run is over.

`GoalRounds_proofs`, for any number of goals and tasks, any dependencies, budgets, rounds,
leftover tickets and acts of the operator: `TypeCorrect`, `NoneLeftLive`, `CompletedWhole`,
`VerdictsBounded` and `StopLeavesNothing`, from `GoalAssumption` alone.  `Located` says
which of the variables of the kickoff mean something at which point of it.  `VerdictInv` is
an account: every verdict of a goal was paid for by its turn in the loop, a slot of the
budget, the sweep or a round of the wind-down, and the one about to be asked for is paid for
already.  `LiveInv` follows the goals that are in progress: they are ahead in the loop, at
hand, or reopened.  `HandInv` relates the objects to the files, which differ only by what a
denial reopened; from it `DoneInv` gets that a goal is settled as completed on what the files
say.  `StopInv` follows the teardown through its three passes.

`MeteredLedger_proofs`, for any number of loops, tasks, calls, days and any caps:
`LedgerTypeCorrect`, `DailyCapIsKept`, `TaskCapIsKept`, `ChargedOnceIsKept` and
`EveryCallIsCharged`, from `MeteredAssumption` alone.  `LedgerInv` says of a loop between
its count and its line that there is a day, perhaps past, on which what it saw still
holds: the task's lines, the absence of its call, the number of lines.  No line
is of a later day, so if midnight fell in between the day it writes on is still
empty.  That only the holder of the lock is in this position, so that one
loop's line never spoils what another saw, is part of `TypeOK`.
`LedgerImplementsAuthority` maps a line to one atomic `Charge` (`AppendIsAllowed`: what
was seen at three times is true at the line), a replay without a cached result to a
`Repeat` of a call on record, a call or a death before it to a `Use`, a higher cap to a
`Declare`, and everything else to a stutter.

Every safety invariant, action property and refinement that a passing run checks is the
statement of one of these theorems.  Only model-checked: liveness (`RunsEnd`,
`ApprovedIsPickedUp`, `NothingRunsForever`, `EveryCallIsAnswered`, `DueIsServed`, `CallEnds`,
`FreeSeatIsUsed`, `KickoffEnds`), because fairness is out of the prover's reach, and the
properties of the three runs that expect a violation, which are false.

## Not modelled

* What a prompt says, drafts and their review, reports and deliveries: the outcome of a
  model call is a choice in the models, and these are file writes by one thread around it.
* The tool budget of a task (`store.py`), a compare-and-swap of a counter under a lock
  of the process, which one worker uses at a time.
* The numbering of tickets and the quarantine of those that do not parse.
* The PID file of the daemon: advisory, and nothing modelled relies on it; two daemons
  are assumed throughout.
* Model runners, providers, tools, permissions, sandbox: one call at a time, network or
  operating system on the other side; a call is an outcome and an amount.
* Inboxes, delivery, attachments, memory, vault, roster, configuration, skills,
  templates: files written by one process at a time without a protocol between them.
* Terminal, web, chat and command-line surfaces: they call the operations that the
  models' operators perform.
