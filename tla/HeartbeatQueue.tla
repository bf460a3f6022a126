--------------------------- MODULE HeartbeatQueue ---------------------------
(***************************************************************************)
(* The task queue file, the processes that drain it (the daemon's heartbeat *)
(* thread, `heartbeat run-once` and the like) and the operator who adds,   *)
(* cancels and clears tasks.                                               *)
(*                                                                         *)
(* Every function of heartbeat.py that changes the queue holds the flock   *)
(* from its read to its write, so each is one step; a tick is several of   *)
(* them, with the dispatch of the task in between.                         *)
(***************************************************************************)
EXTENDS Naturals, FiniteSets

CONSTANTS
  Runners,      \* processes that call tick_once
  FaultProne,   \* the runners that may die
  Priorities,   \* a lower number is served first
  MaxRetries,   \* max_retries of every task, 1 by default
  MaxTasks      \* bound: how many tasks are ever added

ASSUME QueueAssumption ==
  /\ FaultProne \subseteq Runners /\ IsFiniteSet(Runners)
  /\ Priorities \subseteq Nat /\ MaxRetries \in Nat \ {0} /\ MaxTasks \in Nat

Ids == 1..MaxTasks     \* in order of creation, as the timestamped ids are
Statuses == {"absent", "pending", "running", "done", "failed", "cancelled"}

TaskType == [status : Statuses, priority : Nat, every : BOOLEAN,
             depends_on : SUBSET Ids, retries : Nat, due : BOOLEAN, stale : BOOLEAN]

VARIABLES
  task,        \* per id, what the file says of it; "absent" when it says nothing
  added,       \* how many ids have been handed out
  pc, held,    \* per runner: where it is, and its copy of the claimed task
  \* history: dispatches begun and succeeded per task, the first task of each
  \* recurring chain, and the chains cancelled in the middle of a dispatch
  calls, succeeded, root, axed

queue == <<task, added>>
locals == <<pc, held>>
ghosts == <<calls, succeeded, root, axed>>
vars == <<queue, locals, ghosts>>

RunnerPCs == {"idle", "swept", "claimed", "dispatch", "returned", "raised", "requeue"}
Task(p, ev, D, when) ==
  [status |-> "pending", priority |-> p, every |-> ev, depends_on |-> D,
   retries |-> 0, due |-> when, stale |-> FALSE]
NoTask == [Task(0, FALSE, {}, FALSE) EXCEPT !.status = "absent"]
Nothing == [id |-> 0, task |-> NoTask]

Listed(t) == task[t].status # "absent"

Init ==
  /\ task = [t \in Ids |-> NoTask] /\ added = 0
  /\ pc = [r \in Runners |-> "idle"] /\ held = [r \in Runners |-> Nothing]
  /\ calls = [t \in Ids |-> 0] /\ succeeded = {}
  /\ root = [t \in Ids |-> t] /\ axed = {}

\* Bound: an id is kept for each runner that may have to add one.
Room == added + Cardinality({r \in Runners : pc[r] \notin {"idle", "swept"}}) < MaxTasks

Goto(r, l) == pc' = [pc EXCEPT ![r] = l] /\ UNCHANGED held
Leave(r) == pc' = [pc EXCEPT ![r] = "idle"] /\ held' = [held EXCEPT ![r] = Nothing]

Write(t, status) == task' = [task EXCEPT ![t].status = status] /\ UNCHANGED added

-----------------------------------------------------------------------------
(* The operator, and time. *)

\* add_task from the command line, Telegram or cron.
AddTask(p, ev, D) ==
  /\ Room /\ \A t \in D : Listed(t)
  /\ added' = added + 1
  /\ task' = [task EXCEPT ![added + 1] = Task(p, ev, D, TRUE)]
  /\ UNCHANGED <<locals, ghosts>>

\* cancel_task: whatever the status is.
CancelTask(t) ==
  /\ Listed(t)
  /\ Write(t, "cancelled")
  /\ axed' = IF task[t].every /\ \E r \in Runners : pc[r] = "dispatch" /\ held[r].id = t
               THEN axed \cup {root[t]} ELSE axed
  /\ UNCHANGED <<locals, calls, succeeded, root>>

\* What is pending or running stays.
ClearDone ==
  /\ task' = [t \in Ids |-> IF task[t].status \in {"pending", "running"} THEN task[t]
                            ELSE [task[t] EXCEPT !.status = "absent"]]
  /\ UNCHANGED <<added, locals, ghosts>>

\* next_run is reached.
BecomeDue(t) ==
  /\ task[t].status = "pending" /\ ~task[t].due
  /\ task' = [task EXCEPT ![t].due = TRUE]
  /\ UNCHANGED <<added, locals, ghosts>>

\* The start time is more than max_age_minutes ago.
GrowStale(t) ==
  /\ task[t].status = "running" /\ ~task[t].stale
  /\ task' = [task EXCEPT ![t].stale = TRUE]
  /\ UNCHANGED <<added, locals, ghosts>>

-----------------------------------------------------------------------------
(* One tick: tick_once and _run_task. *)

\* Mutant of RecoverStale: what looks stuck is run again.
RecoverToPending(r) ==
  /\ pc[r] = "idle"
  /\ task' = [t \in Ids |-> IF task[t].status = "running" /\ task[t].stale
                              THEN [task[t] EXCEPT !.status = "pending"] ELSE task[t]]
  /\ Goto(r, "swept")
  /\ UNCHANGED <<added, ghosts>>

\* Mutant of RecoverStale: nothing is looked at.
RecoverNothing(r) ==
  /\ pc[r] = "idle"
  /\ Goto(r, "swept")
  /\ UNCHANGED <<queue, ghosts>>

\* recover_stale_tasks: too long in running means failed, even when a live
\* runner is still at it.
RecoverStale(r) ==
  /\ pc[r] = "idle"
  /\ task' = [t \in Ids |-> IF task[t].status = "running" /\ task[t].stale
                              THEN [task[t] EXCEPT !.status = "failed"] ELSE task[t]]
  /\ Goto(r, "swept")
  /\ UNCHANGED <<added, ghosts>>

\* Mutant of Eligible: a dependency that failed counts too.
EligibleAfterAny(t) ==
  /\ task[t].status = "pending" /\ task[t].due /\ Room
  /\ \A d \in task[t].depends_on : task[d].status \in {"done", "failed"}

\* _select_next_pending: due and every dependency done ...
Eligible(t) ==
  /\ task[t].status = "pending" /\ task[t].due /\ Room
  /\ \A d \in task[t].depends_on : task[d].status = "done"

\* ... the lowest priority number first, the oldest among equals.
Before(s, t) == \/ task[s].priority < task[t].priority
                \/ task[s].priority = task[t].priority /\ s <= t
Selected(t) == Eligible(t) /\ \A s \in Ids : Eligible(s) => Before(t, s)

ClaimNothing(r) ==
  /\ pc[r] = "swept" /\ ~\E t \in Ids : Eligible(t)
  /\ Leave(r)
  /\ UNCHANGED <<queue, ghosts>>

\* claim_next_pending: select and mark running under one lock.
Claim(r, t) ==
  /\ pc[r] = "swept" /\ Selected(t)
  /\ task' = [task EXCEPT ![t].status = "running", ![t].stale = FALSE]
  /\ pc' = [pc EXCEPT ![r] = "claimed"]
  /\ held' = [held EXCEPT ![r] = [id |-> t, task |-> task'[t]]]
  /\ UNCHANGED <<added, ghosts>>

\* _run_task marks the task running once more, and dispatches it.
Dispatch(r) ==
  LET t == held[r].id IN
  /\ pc[r] = "claimed"
  /\ task' = IF Listed(t) THEN [task EXCEPT ![t].status = "running", ![t].stale = FALSE]
                          ELSE task
  /\ calls' = [calls EXCEPT ![t] = @ + 1]
  /\ Goto(r, "dispatch")
  /\ UNCHANGED <<added, succeeded, root, axed>>

DispatchReturns(r) ==
  /\ pc[r] = "dispatch"
  /\ succeeded' = succeeded \cup {held[r].id}
  /\ Goto(r, "returned")
  /\ UNCHANGED <<queue, calls, root, axed>>

DispatchRaises(r) ==
  /\ pc[r] = "dispatch"
  /\ Goto(r, "raised")
  /\ UNCHANGED <<queue, ghosts>>

\* Mutant of Retry: the operator's cancel is overwritten.
RetryAnyway(r) ==
  LET t == held[r].id IN
  /\ pc[r] = "raised" /\ held[r].task.retries + 1 < MaxRetries
  /\ task' = IF Listed(t)
               THEN [task EXCEPT ![t].status = "pending", ![t].retries = held[r].task.retries + 1]
               ELSE task
  /\ Leave(r)
  /\ UNCHANGED <<added, ghosts>>

\* Mutant of Retry: one retry too many.
RetryOnceMore(r) ==
  LET t == held[r].id IN
  /\ pc[r] = "raised" /\ held[r].task.retries + 1 <= MaxRetries
  /\ task' = IF Listed(t) /\ task[t].status # "cancelled"
               THEN [task EXCEPT ![t].status = "pending", ![t].retries = held[r].task.retries + 1]
               ELSE task
  /\ Leave(r)
  /\ UNCHANGED <<added, ghosts>>

\* requeue_task: back to pending, unless cancelled or removed meanwhile.
Retry(r) ==
  LET t == held[r].id IN
  /\ pc[r] = "raised" /\ held[r].task.retries + 1 < MaxRetries
  /\ task' = IF Listed(t) /\ task[t].status # "cancelled"
               THEN [task EXCEPT ![t].status = "pending", ![t].retries = held[r].task.retries + 1]
               ELSE task
  /\ Leave(r)
  /\ UNCHANGED <<added, ghosts>>

\* finalize_task: the outcome, unless cancelled or removed meanwhile.  The
\* retries of a task that is over are never read again, and left out.
Finalize(t, outcome) ==
  IF Listed(t) /\ task[t].status # "cancelled" THEN Write(t, outcome) ELSE UNCHANGED queue

GiveUp(r) ==
  /\ pc[r] = "raised" /\ held[r].task.retries + 1 >= MaxRetries
  /\ Finalize(held[r].id, "failed")
  /\ Leave(r)
  /\ UNCHANGED ghosts

Finish(r) ==
  LET t == held[r].id IN
  /\ pc[r] = "returned"
  /\ Finalize(t, "done")
  /\ IF task[t].status = "cancelled" THEN Leave(r) ELSE Goto(r, "requeue")
  /\ UNCHANGED ghosts

\* requeue_recurring: the next instance of the chain, not due yet.
Requeue(r) ==
  LET old == held[r].task
      new == added + 1
  IN
  /\ pc[r] = "requeue"
  /\ IF old.every
       THEN /\ added' = new
            /\ task' = [task EXCEPT ![new] = Task(old.priority, TRUE, old.depends_on, FALSE)]
            /\ root' = [root EXCEPT ![new] = root[held[r].id]]
       ELSE UNCHANGED <<queue, root>>
  /\ Leave(r)
  /\ UNCHANGED <<calls, succeeded, axed>>

\* The process dies; what it claimed stays running in the file.
Crash(r) ==
  /\ r \in FaultProne /\ pc[r] # "idle"
  /\ Leave(r)
  /\ UNCHANGED <<queue, ghosts>>

-----------------------------------------------------------------------------
RunnerStep(r) ==
  \/ RecoverStale(r) \/ ClaimNothing(r) \/ \E t \in Ids : Claim(r, t)
  \/ Dispatch(r) \/ DispatchReturns(r) \/ DispatchRaises(r)
  \/ Retry(r) \/ GiveUp(r) \/ Finish(r) \/ Requeue(r)

Operator ==
  \/ \E p \in Priorities, ev \in BOOLEAN, D \in SUBSET Ids :
        Cardinality(D) <= 1 /\ AddTask(p, ev, D)
  \/ \E t \in Ids : CancelTask(t)
  \/ ClearDone

Next ==
  \/ \E r \in Runners : RunnerStep(r) \/ Crash(r)
  \/ Operator
  \/ \E t \in Ids : BecomeDue(t) \/ GrowStale(t)

Spec == Init /\ [][Next]_vars

\* Runners keep ticking, every dispatch ends, and time passes.
Fairness ==
  /\ \A r \in Runners : WF_vars(RunnerStep(r))
  /\ \A t \in Ids : WF_vars(GrowStale(t))

FairSpec == Spec /\ Fairness

-----------------------------------------------------------------------------
(* Properties. *)

\* Every variable has its type.
TypeOK ==
  /\ task \in [Ids -> TaskType]
  /\ added \in 0..MaxTasks
  /\ pc \in [Runners -> RunnerPCs]
  /\ held \in [Runners -> [id : 0..MaxTasks, task : TaskType]]
  /\ \A r \in Runners : pc[r] \in {"idle", "swept"} <=> held[r].id = 0
  /\ calls \in [Ids -> Nat] /\ succeeded \subseteq Ids
  /\ root \in [Ids -> Ids] /\ axed \subseteq Ids

Holds(r, t) == held[r].id = t

\* A task is dispatched by one runner at a time, and nobody is still at a task
\* that is up for grabs: not after a retry, a stale recovery, a cancel, a
\* crash or all of them.
NoDoubleDispatch ==
  \A t \in Ids :
    /\ \A r, s \in Runners : Holds(r, t) /\ Holds(s, t) => r = s
    /\ task[t].status = "pending" => \A r \in Runners : ~Holds(r, t)

\* No task is dispatched more often than its max_retries allow, although the
\* count lives in the file and in the runner's copy.
AttemptsBounded == \A t \in Ids : calls[t] <= MaxRetries

\* A task is dispatched only after everything it depends on has succeeded;
\* a cancelled or stale predecessor never passes for a done one.
DependenciesFirst ==
  \A t \in Ids : calls[t] > 0 => task[t].depends_on \subseteq succeeded

\* A recurring chain never forks: one instance of it is pending, running or in
\* the hands of a runner.
ChainIsSingle ==
  \A s, t \in Ids :
    /\ root[s] = root[t]
    /\ \A i \in {s, t} : \/ task[i].status \in {"pending", "running"}
                         \/ \E r \in Runners : Holds(r, i)
    => s = t

\* Once its dispatch has begun, nothing but clear_done touches a cancelled task.
CancelSticks ==
  [][\A t \in Ids : task[t].status = "cancelled" =>
       \/ task'[t].status \in {"cancelled", "absent"}
       \/ \E r \in Runners : pc[r] = "claimed" /\ held[r].id = t]_task

\* A task does not stay running for good, whoever crashed with it.
NothingRunsForever ==
  \A t \in Ids : task[t].status = "running" ~> task[t].status # "running"

-----------------------------------------------------------------------------
(* What comments and tests say, and the code does not do. *)

\* heartbeat.py: a task cancelled out-of-band is not written over.
CancelIsFinal ==
  [][\A t \in Ids : task[t].status = "cancelled" =>
       task'[t].status \in {"cancelled", "absent"}]_task

\* heartbeat.py: a cancel of the running slot ends the chain.
CancelEndsChain ==
  [][\A c \in axed : {t \in Ids : root'[t] = c} = {t \in Ids : root[t] = c}]_root

=============================================================================
