----------------------------- MODULE TaskWaves -----------------------------
(***************************************************************************)
(* One call of _run_task_waves: the main thread that hands the tasks of a  *)
(* goal to a pool of workers, and the workers.                             *)
(*                                                                         *)
(* The worker and the main thread share the Task object: what the worker   *)
(* writes into `status` the main thread reads at once, while what it wrote *)
(* to its staging tree reaches the shared tree only when the main thread   *)
(* collects its future.  Every pass of the main thread over the tasks is   *)
(* one step; workers move between the passes.                              *)
(***************************************************************************)
EXTENDS Integers, FiniteSets

CONSTANTS
  Tasks, Deps,         \* the tasks of the goal, listed dependencies first
  Paths, Path,         \* where each task's deliverable goes
  Agents, Cap,         \* the producers and their capacity_cap
  NoAgent,
  PoolSize, GlobalCap, \* threads of the pool; MODULATIO_WAVE_GLOBAL_CAP
  Ticketed,            \* the tasks that a ticket may have blocked at planning
  MaxUpsets            \* bound on faults and rescues together

ASSUME WavesAssumption ==
  /\ IsFiniteSet(Tasks) /\ IsFiniteSet(Agents) /\ Agents # {} /\ NoAgent \notin Agents
  /\ Deps \in [Tasks -> SUBSET Tasks] /\ Path \in [Tasks -> Paths]
  /\ Cap \in [Agents -> Nat \ {0}]
  /\ PoolSize \in Nat \ {0} /\ GlobalCap \in Nat \ {0}
  /\ Ticketed \subseteq Tasks /\ MaxUpsets \in Nat

FailedStates == {"blocked", "qc_rejected", "abandoned"}
Terminal == FailedStates \cup {"completed"}
Runnable == {"pending", "dispatched"}
Statuses == Terminal \cup Runnable

VARIABLES
  status,    \* of the Task objects, which main thread and workers share
  why,       \* what the last transition of the task says, if it says "blocked"
  store,     \* the status in the task's record
  fut,       \* its worker: none, queued in the pool, ... until it is collected
  seat,      \* in_flight: the agent that holds the task
  sees,      \* the deliverables its staging tree was seeded with
  shared,    \* the deliverables in the shared tree
  merged,    \* merged_ids
  dropped,   \* history: tasks with a later result, of an id merged before
  cooling,   \* seats that sit out
  abort,     \* abort_event
  pc, before, due, \* the main thread: where it is, ready_before, done_set
  upsets     \* how many faults and rescues there were

tasks == <<status, why, store>>
workers == <<fut, seat, sees>>
main == <<pc, before, due>>
vars == <<tasks, workers, shared, merged, dropped, cooling, abort, main, upsets>>

\* A planned goal comes with its tasks dispatched, or blocked by a ticket; one
\* the leader sends back has them pending.
Init ==
  /\ \/ /\ status \in [Tasks -> {"dispatched", "blocked"}]
        /\ \A t \in Tasks : status[t] = "blocked" => t \in Ticketed
     \/ status = [t \in Tasks |-> "pending"]
  /\ why = [t \in Tasks |-> "other"]
  /\ store = status
  /\ fut = [t \in Tasks |-> "idle"]
  /\ seat = [t \in Tasks |-> NoAgent]
  /\ sees = [t \in Tasks |-> {}]
  /\ shared = {} /\ merged = {} /\ dropped = {} /\ cooling = {} /\ abort = FALSE
  /\ pc = "revive" /\ before = Tasks /\ due = {}
  /\ upsets = 0

-----------------------------------------------------------------------------
(* What the main thread reads off the tasks. *)

DepFailed(t) == \E d \in Deps[t] : status[d] \in FailedStates

InFlight == {t \in Tasks : seat[t] # NoAgent}
Futures == {t \in Tasks : fut[t] # "idle"}
Held == {Path[t] : t \in InFlight}

\* _ready_wave, less what is in flight.
Ready == {t \in Tasks \ InFlight :
            status[t] \in Runnable /\ \A d \in Deps[t] : status[d] = "completed"}

\* _block_same_path: the ready tasks that would share a path.
Clashing(paths) == {t \in Ready : \/ Path[t] \in paths
                                  \/ \E u \in Ready \ {t} : Path[u] = Path[t]}

\* Mutant of Conflicts: ready tasks are compared with one another only.
ConflictsAmongReady == Clashing({})
Conflicts == Clashing(Held)

\* _dispatch_pool: when all seats are cooling they all stay in the pool.
Pool == IF cooling = Agents THEN Agents ELSE Agents \ cooling

Free(a) == Cap[a] - Cardinality({t \in Tasks : seat[t] = a})
GlobalFree == GlobalCap - Cardinality(InFlight)

\* _save_task_monotonic_locked: a settled record stands against a stale copy.
Kept(t, s) == IF store[t] \in Terminal /\ s \notin Terminal THEN store[t] ELSE s

-----------------------------------------------------------------------------
(* The main thread. *)

Block(S, reason) ==
  /\ status' = [t \in Tasks |-> IF t \in S THEN "blocked" ELSE status[t]]
  /\ store' = [t \in Tasks |-> IF t \in S THEN "blocked" ELSE store[t]]
  /\ why' = [t \in Tasks |-> IF t \in S THEN reason ELSE why[t]]

\* Mutant of Revived: a block stays, though its cause is gone.
RevivedNever(S) == S = {}

\* _revive_dep_unblocked, in list order: a task comes back when those of its
\* dependencies that failed have come back before it.
Revived(S) ==
  \A t \in Tasks : t \in S <=> /\ status[t] = "blocked" /\ why[t] = "dep"
                              /\ \A d \in Deps[t] : status[d] \notin FailedStates \/ d \in S

Revive ==
  /\ pc = "revive" /\ pc' = "cascade"
  /\ \E S \in SUBSET Tasks :
       /\ Revived(S)
       /\ status' = [t \in Tasks |-> IF t \in S THEN "pending" ELSE status[t]]
       /\ store' = [t \in Tasks |-> IF t \in S THEN "pending" ELSE store[t]]
       /\ why' = [t \in Tasks |-> IF t \in S THEN "other" ELSE why[t]]
  /\ UNCHANGED <<workers, shared, merged, dropped, cooling, abort, before, due, upsets>>

\* _cascade_dep_failures, in list order; running tasks are not spared.
Cascaded(S) ==
  \A t \in Tasks : t \in S <=> /\ status[t] \in Runnable
                              /\ \E d \in Deps[t] : status[d] \in FailedStates \/ d \in S

Cascade ==
  /\ pc = "cascade" /\ pc' = "reflect"
  /\ \E S \in SUBSET Tasks : Cascaded(S) /\ Block(S, "dep")
  /\ UNCHANGED <<workers, shared, merged, dropped, cooling, abort, before, due, upsets>>

\* _wave_boundary_reflect: when more tasks became ready, the leader may drop some
\* that are pending; its edits of their text are left out.
Reflect ==
  /\ pc = "reflect" /\ pc' = "pump" /\ before' = {}
  /\ \E S \in SUBSET {t \in Tasks \ InFlight : status[t] = "pending"} :
       /\ Ready \subseteq before => S = {}
       /\ status' = [t \in Tasks |-> IF t \in S THEN "abandoned" ELSE status[t]]
       /\ store' = [t \in Tasks |-> IF t \in S THEN "abandoned" ELSE store[t]]
       /\ why' = [t \in Tasks |-> IF t \in S THEN "other" ELSE why[t]]
  /\ UNCHANGED <<workers, shared, merged, dropped, cooling, abort, due, upsets>>

\* schedule_wave: tasks go to agents of the pool until tasks, seats or the global
\* cap run out.  Whom it prefers is left out.
Assignment(asg, safe) ==
  LET S == DOMAIN asg IN
    /\ \A a \in Pool : Cardinality({t \in S : asg[t] = a}) <= Free(a)
    /\ Cardinality(S) <= GlobalFree
    /\ \/ S = safe
       \/ Cardinality(S) = GlobalFree
       \/ \A a \in Pool : Cardinality({t \in S : asg[t] = a}) = Free(a)

\* The tasks D of an assignment go to the pool, as far as it has threads.
Submit(D, asg) ==
  /\ status' = [t \in Tasks |-> IF t \in D THEN Kept(t, "dispatched")
                                ELSE IF t \in Conflicts THEN "blocked" ELSE status[t]]
  /\ store' = [t \in Tasks |-> IF t \in D THEN Kept(t, "dispatched")
                               ELSE IF t \in Conflicts THEN "blocked" ELSE store[t]]
  /\ why' = [t \in Tasks |-> IF t \in D THEN "other"
                             ELSE IF t \in Conflicts THEN "path" ELSE why[t]]
  /\ seat' = [t \in Tasks |-> IF t \in D THEN asg[t] ELSE seat[t]]
  /\ fut' = [t \in Tasks |-> IF t \in D THEN "queued" ELSE fut[t]]

Fewer(m, n) == IF m < n THEN m ELSE n

Pump ==
  /\ pc = "pump" /\ pc' = "loop"
  /\ IF abort
     THEN UNCHANGED <<tasks, fut, seat>>
     ELSE \E S \in SUBSET (Ready \ Conflicts) : \E asg \in [S -> Pool], D \in SUBSET S :
            /\ Assignment(asg, Ready \ Conflicts)
            /\ Cardinality(D) = Fewer(Cardinality(S), PoolSize - Cardinality(Futures))
            /\ Submit(D, asg)
  /\ UNCHANGED <<sees, shared, merged, dropped, cooling, abort, before, due, upsets>>

\* The head of the loop, and behind it the guard against a saturated roster.
Loop ==
  /\ pc = "loop"
  /\ IF Futures # {}
     THEN pc' = "wait" /\ before' = Ready /\ UNCHANGED tasks
     ELSE /\ pc' = "done" /\ before' = {}
          /\ IF abort THEN UNCHANGED tasks
             ELSE Block({t \in Tasks : status[t] \in Runnable}, "full")
  /\ UNCHANGED <<workers, shared, merged, dropped, cooling, abort, due, upsets>>

\* Mutant of Finished: a future that ended with an exception is overlooked.
FinishedWell == {t \in Tasks : fut[t] = "returned"}

\* wait(..., FIRST_COMPLETED) returns with what is done, or empty on its tick.
Finished == {t \in Tasks : fut[t] \in {"returned", "unseeded"}}

\* Mutant of Woken: the wait has no timeout.
WokenByResult(done) == done # {}
Woken(done) == TRUE

Wake ==
  /\ pc = "wait" /\ pc' = "collect" /\ Woken(Finished)
  /\ due' = Finished
  /\ UNCHANGED <<tasks, workers, shared, merged, dropped, cooling, abort, before, upsets>>

\* _collect: a worker that raised leaves a blocked task.
Outcome(t) == IF fut[t] = "unseeded" THEN "blocked" ELSE status[t]

\* Mutant of Persisted: a failed result is reported but not saved.
PersistedIfShipped(t) ==
  IF t \notin merged /\ Outcome(t) = "completed" THEN Outcome(t) ELSE store[t]

\* What _merge_task_result leaves in the record: nothing for an id merged before.
Persisted(t) == IF t \in merged THEN store[t] ELSE Kept(t, Outcome(t))

\* Its staging tree goes with it.
Release(t) ==
  /\ fut' = [fut EXCEPT ![t] = "idle"]
  /\ sees' = [sees EXCEPT ![t] = {}]
  /\ seat' = [seat EXCEPT ![t] = NoAgent]
  /\ due' = due \ {t}

\* _collect, _merge_wave_artifacts and _merge_task_result for one future.
Collect(t) ==
  /\ pc = "collect" /\ t \in due
  /\ status' = [status EXCEPT ![t] = IF t \in merged THEN Outcome(t) ELSE Kept(t, Outcome(t))]
  /\ store' = [store EXCEPT ![t] = Persisted(t)]
  /\ shared' = IF Outcome(t) = "completed" THEN shared \cup {t} ELSE shared
  /\ merged' = merged \cup {t}
  /\ dropped' = IF t \in merged THEN dropped \cup {t} ELSE dropped
  /\ Release(t)
  /\ UNCHANGED <<why, cooling, abort, pc, before, upsets>>

\* The merge raises: the call ends with the exception once the workers are done.
MergeRaises(t) ==
  /\ pc = "collect" /\ t \in due /\ upsets < MaxUpsets
  /\ upsets' = upsets + 1
  /\ Release(t)
  /\ pc' = "raised"
  /\ UNCHANGED <<tasks, shared, merged, dropped, cooling, abort, before>>

Drained ==
  /\ pc = "collect" /\ due = {} /\ pc' = "revive"
  /\ UNCHANGED <<tasks, workers, shared, merged, dropped, cooling, abort, before, due, upsets>>

Main == \/ Revive \/ Cascade \/ Reflect \/ Pump \/ Loop \/ Wake \/ Drained
        \/ \E t \in Tasks : Collect(t)

-----------------------------------------------------------------------------
(* A worker, in _execute_task_isolated. *)

others == <<shared, merged, dropped, abort, main>>

\* It starts: not at all once the run is stopped, and else from a copy of the
\* shared tree.
Start(t) ==
  /\ fut[t] = "queued"
  /\ IF abort THEN fut' = [fut EXCEPT ![t] = "returned"] /\ UNCHANGED sees
     ELSE fut' = [fut EXCEPT ![t] = "running"] /\ sees' = [sees EXCEPT ![t] = shared]
  /\ UNCHANGED <<tasks, seat, cooling, upsets, others>>

\* The copy fails, before the worker's own handler is in place.
SeedFails(t) ==
  /\ fut[t] = "queued" /\ ~abort /\ upsets < MaxUpsets
  /\ upsets' = upsets + 1
  /\ fut' = [fut EXCEPT ![t] = "unseeded"]
  /\ UNCHANGED <<tasks, seat, sees, cooling, others>>

\* An attempt failed and the next one begins; if its seat was unavailable that
\* sits out.
Retry(t) ==
  /\ fut[t] = "running" /\ ~abort
  /\ status' = [status EXCEPT ![t] = "dispatched"]
  /\ why' = [why EXCEPT ![t] = "other"]
  /\ cooling' \in {cooling, cooling \cup {seat[t]}}
  /\ UNCHANGED <<store, fut, seat, sees, upsets, others>>

\* The redo loop settles the task.  The object says so from here on.
Settle(t) ==
  /\ fut[t] = "running"
  /\ \E s \in {"completed", "qc_rejected", "blocked"} : status' = [status EXCEPT ![t] = s]
  /\ why' = [why EXCEPT ![t] = "other"]
  /\ fut' = [fut EXCEPT ![t] = "settled"]
  /\ UNCHANGED <<store, seat, sees, cooling, upsets, others>>

\* A stop is noticed between two attempts.
Stop(t) ==
  /\ fut[t] = "running" /\ abort
  /\ fut' = [fut EXCEPT ![t] = "returned"]
  /\ UNCHANGED <<tasks, seat, sees, cooling, upsets, others>>

Return(t) ==
  /\ fut[t] = "settled"
  /\ fut' = [fut EXCEPT ![t] = "returned"]
  /\ UNCHANGED <<tasks, seat, sees, cooling, upsets, others>>

\* Something raises out of the redo loop, maybe after the task was settled: it is
\* blocked, with no transition of its own.
Escape(t) ==
  /\ fut[t] \in {"running", "settled"} /\ upsets < MaxUpsets
  /\ upsets' = upsets + 1
  /\ status' = [status EXCEPT ![t] = "blocked"]
  /\ fut' = [fut EXCEPT ![t] = "returned"]
  /\ UNCHANGED <<why, store, seat, sees, cooling, others>>

Proceeds(t) == Start(t) \/ Settle(t) \/ Return(t)
Worker(t) == Proceeds(t) \/ SeedFails(t) \/ Retry(t) \/ Stop(t) \/ Escape(t)

-----------------------------------------------------------------------------
(* The surroundings. *)

\* Another task's recovery completes one that failed and is not running.
Rescue(t) ==
  /\ upsets < MaxUpsets /\ status[t] \in FailedStates /\ fut[t] = "idle"
  /\ \E u \in Tasks : fut[u] = "running"
  /\ upsets' = upsets + 1
  /\ status' = [status EXCEPT ![t] = "completed"]
  /\ store' = [store EXCEPT ![t] = "completed"]
  /\ why' = [why EXCEPT ![t] = "other"]
  /\ shared' = shared \cup {t}
  /\ UNCHANGED <<workers, merged, dropped, cooling, abort, main>>

\* _seat_in_cooldown: the time is up.
Warm(a) ==
  /\ a \in cooling /\ cooling' = cooling \ {a}
  /\ UNCHANGED <<tasks, workers, shared, merged, dropped, abort, main, upsets>>

\* The operator stops the run.
Abort ==
  /\ ~abort /\ abort' = TRUE
  /\ UNCHANGED <<tasks, workers, shared, merged, dropped, cooling, main, upsets>>

Next ==
  \/ Main \/ Abort
  \/ \E t \in Tasks : Worker(t) \/ MergeRaises(t) \/ Rescue(t)
  \/ \E a \in Agents : Warm(a)

Spec == Init /\ [][Next]_vars

\* The main thread runs; of the workers nothing is assumed.
FairSpec == Spec /\ WF_vars(Main)

-----------------------------------------------------------------------------
(* Properties. *)

\* Types.
TypeOK ==
  /\ status \in [Tasks -> Statuses] /\ store \in [Tasks -> Statuses]
  /\ why \in [Tasks -> {"other", "dep", "path", "full"}]
  /\ fut \in [Tasks -> {"idle", "queued", "running", "settled", "returned", "unseeded"}]
  /\ seat \in [Tasks -> Agents \cup {NoAgent}]
  /\ sees \in [Tasks -> SUBSET Tasks]
  /\ shared \subseteq Tasks /\ merged \subseteq Tasks /\ dropped \subseteq Tasks
  /\ cooling \subseteq Agents
  /\ abort \in BOOLEAN
  /\ pc \in {"revive", "cascade", "reflect", "pump", "loop", "wait", "collect", "done", "raised"}
  /\ before \subseteq Tasks /\ due \subseteq Tasks
  /\ upsets \in 0..MaxUpsets

\* Whatever runs at once runs apart: two tasks in flight have different paths, no
\* agent has more than its capacity, and pool and global cap hold.  The registry of
\* the tasks in flight stands for workers the main thread cannot see into.
RunApart ==
  /\ \A t, u \in InFlight : Path[t] = Path[u] => t = u
  /\ \A a \in Agents : Free(a) >= 0
  /\ Cardinality(InFlight) <= GlobalCap /\ Cardinality(Futures) <= PoolSize

\* A call that ends by itself leaves no task half way: each is settled in memory, and
\* its record says the same, unless the task was run again after its result had been
\* merged, and the merge dropped what came of that.
EverythingSettles ==
  pc = "done" /\ ~abort =>
    \A t \in Tasks : status[t] \in Terminal /\ (store[t] = status[t] \/ t \in dropped)

\* When a call ends, a task that it gave up has a dependency that failed: one that
\* came back has brought its dependents back, and a task is never left over for
\* want of a seat.
GivenUpForCause ==
  pc = "done" =>
    \A t \in Tasks : status[t] = "blocked" /\ why[t] \in {"dep", "full"} => DepFailed(t)

\* A call comes to its end if its workers do.
CallEnds ==
  (\A t \in Tasks : WF_vars(Proceeds(t))) => <>(pc \in {"done", "raised"})

\* A hung worker does not hold up the others: a ready task does not wait for good
\* while there is a seat for it, though no worker ever returns.
CanPlace ==
  /\ Ready # {} /\ ~abort /\ pc # "raised"
  /\ GlobalFree > 0 /\ Cardinality(Futures) < PoolSize /\ \E a \in Pool : Free(a) > 0
FreeSeatIsUsed == []<>(~CanPlace)

-----------------------------------------------------------------------------
(* What the design says, and the code does not do. *)

\* A worker's staging tree holds what its task depends on.
InputsAreSeeded == \A t \in Tasks : fut[t] = "running" => Deps[t] \subseteq sees[t]

=============================================================================
