---------------------------- MODULE CronDispatch ----------------------------
(***************************************************************************)
(* The scheduled jobs of cron-config.json: the operator who adds, removes, *)
(* enables and disables them, and the processes that sweep them (the       *)
(* daemon on each tick, `cron dispatch-due` from a shell).                 *)
(*                                                                         *)
(* A sweep holds the flock of the config from its reading of the jobs to   *)
(* the last write, and so does every operation of the operator; a fire and *)
(* the advance of the job that fired are two steps all the same, because   *)
(* the process may die in between, and so may its write fail.              *)
(***************************************************************************)
EXTENDS Integers, FiniteSets

CONSTANTS
  Jobs,        \* ids of jobs, each added at most once
  Sweepers,    \* processes that call dispatch_due
  FaultProne,  \* the sweepers that may die
  Kinds,       \* of schedules in use, among the AllKinds
  Counts,      \* the `count` of a job; 0 stands for None, no limit
  Untils,      \* the `until` of a job; 0 stands for None
  Step,        \* length of an interval, and of the period of a calendar
  MaxTime, MaxRuns, MaxTorn   \* bounds

AllKinds == {"once", "interval", "calendar"}

ASSUME CronAssumption ==
  /\ FaultProne \subseteq Sweepers /\ Kinds \subseteq AllKinds
  /\ Counts \subseteq Nat /\ Untils \subseteq Nat /\ Step \in Nat \ {0}
  /\ MaxTime \in Nat /\ MaxRuns \in Nat /\ MaxTorn \in Nat

Times == 1..MaxTime

JobType == [listed : BOOLEAN, enabled : BOOLEAN, kind : AllKinds, next : Nat, runs : Nat,
            count : Nat, until : Nat]

VARIABLES
  job,              \* the config file
  clock,
  pc, seen,         \* per sweeper: where it is, and its `now`
  snap, batch, cur, \* ... the jobs as it read them, the due ones, the one at hand
  \* history: tasks that sweeps queued for the job, attempts whose advance was
  \* lost, the `now` of the sweep that last fired it, whether the slot it fired
  \* may come again, and the slot the schedule starts from (0 before the job is)
  fires, torn, last, excused, origin

locals == <<pc, seen, snap, batch, cur>>
ghosts == <<fires, torn, last, excused, origin>>
vars == <<job, clock, locals, ghosts>>

NoJob == [listed |-> FALSE, enabled |-> FALSE, kind |-> "once", next |-> 0, runs |-> 0,
          count |-> 0, until |-> 0]
NoJobs == [j \in Jobs |-> NoJob]

Init ==
  /\ job = NoJobs /\ clock = 0
  /\ pc = [s \in Sweepers |-> "idle"] /\ seen = [s \in Sweepers |-> 0]
  /\ snap = [s \in Sweepers |-> NoJobs] /\ batch = [s \in Sweepers |-> {}]
  /\ cur = [s \in Sweepers |-> {}]
  /\ fires = [j \in Jobs |-> 0] /\ torn = [j \in Jobs |-> 0]
  /\ last = [j \in Jobs |-> 0] /\ excused = [j \in Jobs |-> FALSE]
  /\ origin = [j \in Jobs |-> 0]

\* _cross_process_dispatch_lock: the flock goes with the process that holds it.
Free == \A s \in Sweepers : pc[s] \notin {"sweep", "advance"}

-----------------------------------------------------------------------------
(* The schedule. *)

\* compute_next_run: the first slot strictly after `after`.
ComputeNextRun(kind, after) ==
  IF kind = "calendar" THEN Step * ((after \div Step) + 1) ELSE after + Step

\* Mutant of AdvanceNextRun: the next interval starts when the job was noticed.
AdvanceFromNow(kind, prev, now) == ComputeNextRun(kind, now)

\* Mutant of AdvanceNextRun: one interval on, whatever was missed.
AdvanceOneStep(kind, prev, now) ==
  IF kind = "interval" THEN prev + Step ELSE ComputeNextRun(kind, now)

\* _advance_next_run: an interval counts from the slot that was due, and the
\* slots missed meanwhile are skipped.
AdvanceNextRun(kind, prev, now) ==
  IF kind = "interval" THEN prev + Step * (((now - prev) \div Step) + 1)
                       ELSE ComputeNextRun(kind, now)

-----------------------------------------------------------------------------
(* The operator, and time. *)

\* add: `at` is the operator's start_at or the next slot.  Ids are used once.
Add(j, kind, count, until, at) ==
  /\ Free /\ origin[j] = 0
  /\ job' = [job EXCEPT ![j] = [NoJob EXCEPT !.listed = TRUE, !.enabled = TRUE,
               !.kind = kind, !.next = at, !.count = count, !.until = until]]
  /\ origin' = [origin EXCEPT ![j] = at]
  /\ UNCHANGED <<clock, locals, fires, torn, last, excused>>

\* update: another schedule starts from now; "once" is not one it can compute.
Reschedule(j, kind) ==
  LET next == ComputeNextRun(kind, clock) IN
  /\ Free /\ job[j].listed /\ kind # "once"
  /\ job' = [job EXCEPT ![j].kind = kind, ![j].next = next]
  /\ origin' = [origin EXCEPT ![j] = next]
  /\ UNCHANGED <<clock, locals, fires, torn, last, excused>>

Remove(j) ==
  /\ Free /\ job[j].listed
  /\ job' = [job EXCEPT ![j] = NoJob]
  /\ UNCHANGED <<clock, locals, ghosts>>

\* enable: next_run is what it was when the job was stopped.
Enable(j) ==
  /\ Free /\ job[j].listed /\ ~job[j].enabled /\ job[j].runs < MaxRuns
  /\ job' = [job EXCEPT ![j].enabled = TRUE]
  /\ excused' = [excused EXCEPT ![j] = TRUE]
  /\ UNCHANGED <<clock, locals, fires, torn, last, origin>>

Disable(j) ==
  /\ Free /\ job[j].listed /\ job[j].enabled
  /\ job' = [job EXCEPT ![j].enabled = FALSE]
  /\ UNCHANGED <<clock, locals, ghosts>>

Tick ==
  /\ clock < MaxTime
  /\ clock' = clock + 1
  /\ UNCHANGED <<job, locals, ghosts>>

-----------------------------------------------------------------------------
(* A sweep: dispatch_due. *)

\* `now` is read before the lock is asked for.
Start(s) ==
  /\ pc[s] = "idle"
  /\ pc' = [pc EXCEPT ![s] = "wait"]
  /\ seen' = [seen EXCEPT ![s] = clock]
  /\ UNCHANGED <<job, clock, snap, batch, cur, ghosts>>

\* Mutant of Due: a job is not due at its very slot.
DueLater(jobs, now) == {j \in Jobs : jobs[j].listed /\ jobs[j].enabled /\ jobs[j].next < now}

\* check_due.
Due(jobs, now) == {j \in Jobs : jobs[j].listed /\ jobs[j].enabled /\ jobs[j].next <= now}

\* The lock is taken, and the jobs are read under it.
Acquire(s) ==
  /\ pc[s] = "wait" /\ Free
  /\ pc' = [pc EXCEPT ![s] = "sweep"]
  /\ snap' = [snap EXCEPT ![s] = job]
  /\ batch' = [batch EXCEPT ![s] = Due(job, seen[s])]
  /\ UNCHANGED <<job, clock, seen, cur, ghosts>>

Exhausted(r) == r.count > 0 /\ r.runs >= r.count

\* _dispatch_one disables the job instead of firing it: its project is gone, its
\* stop metadata was edited by hand into something malformed, or its count is
\* used up.  Any job can be found in one of the first two states.
Reject(s, j) ==
  /\ pc[s] = "sweep" /\ j \in batch[s]
  /\ job' = IF job[j].listed THEN [job EXCEPT ![j].enabled = FALSE] ELSE job
  /\ batch' = [batch EXCEPT ![s] = @ \ {j}]
  /\ UNCHANGED <<clock, pc, seen, snap, cur, ghosts>>

\* Mutant of Fire: the count is left to the advance.
FireUncounted(s, j, ok) ==
  /\ pc[s] = "sweep" /\ j \in batch[s]
  /\ pc' = [pc EXCEPT ![s] = "advance"]
  /\ cur' = [cur EXCEPT ![s] = {j}]
  /\ batch' = [batch EXCEPT ![s] = @ \ {j}]
  /\ IF ok THEN /\ fires' = [fires EXCEPT ![j] = @ + 1]
                /\ last' = [last EXCEPT ![j] = seen[s]]
                /\ excused' = [excused EXCEPT ![j] = FALSE]
           ELSE UNCHANGED <<fires, last, excused>>
  /\ UNCHANGED <<job, clock, seen, snap, torn, origin>>

\* heartbeat.add_task puts the task into the queue, or raises.
Fire(s, j, ok) ==
  /\ pc[s] = "sweep" /\ j \in batch[s] /\ ~Exhausted(snap[s][j])
  /\ pc' = [pc EXCEPT ![s] = "advance"]
  /\ cur' = [cur EXCEPT ![s] = {j}]
  /\ batch' = [batch EXCEPT ![s] = @ \ {j}]
  /\ IF ok THEN /\ fires' = [fires EXCEPT ![j] = @ + 1]
                /\ last' = [last EXCEPT ![j] = seen[s]]
                /\ excused' = [excused EXCEPT ![j] = FALSE]
           ELSE UNCHANGED <<fires, last, excused>>
  /\ UNCHANGED <<job, clock, seen, snap, torn, origin>>

\* The tail of _dispatch_one, whatever add_task did: a job that is over, or
\* whose schedule no longer parses, is disabled and keeps its next_run.
Advanced(r, now, parses) ==
  LET next == AdvanceNextRun(r.kind, r.next, now)
      over == \/ ~parses \/ r.kind = "once"
              \/ r.count > 0 /\ r.runs + 1 >= r.count
              \/ r.until > 0 /\ next > r.until
  IN  IF over THEN [enabled |-> FALSE, next |-> r.next]
              ELSE [enabled |-> r.enabled, next |-> next]

\* `runs` counts the attempt, `enabled` is written only to stop the job.
Advance(s, j, parses) ==
  LET r == snap[s][j]  to == Advanced(r, seen[s], parses) IN
  /\ pc[s] = "advance" /\ j \in cur[s]
  /\ job' = IF job[j].listed
              THEN [job EXCEPT ![j].runs = r.runs + 1, ![j].next = to.next,
                               ![j].enabled = @ /\ to.enabled]
              ELSE job
  /\ pc' = [pc EXCEPT ![s] = "sweep"]
  /\ cur' = [cur EXCEPT ![s] = {}]
  /\ UNCHANGED <<clock, seen, snap, batch, ghosts>>

Leave(s) ==
  /\ pc' = [pc EXCEPT ![s] = "idle"] /\ seen' = [seen EXCEPT ![s] = 0]
  /\ snap' = [snap EXCEPT ![s] = NoJobs]
  /\ batch' = [batch EXCEPT ![s] = {}] /\ cur' = [cur EXCEPT ![s] = {}]

Finish(s) ==
  /\ pc[s] = "sweep" /\ batch[s] = {}
  /\ Leave(s)
  /\ UNCHANGED <<job, clock, ghosts>>

\* The process dies, or its write of the config raises; the flock is released.
Crash(s) ==
  /\ s \in FaultProne /\ pc[s] # "idle"
  /\ \A j \in cur[s] : torn[j] < MaxTorn
  /\ Leave(s)
  /\ torn' = [j \in Jobs |-> IF j \in cur[s] THEN torn[j] + 1 ELSE torn[j]]
  /\ excused' = [j \in Jobs |-> j \in cur[s] \/ excused[j]]
  /\ UNCHANGED <<job, clock, fires, last, origin>>

-----------------------------------------------------------------------------
SweeperStep(s) ==
  \/ Start(s) \/ Finish(s)
  \/ \E j \in Jobs : Reject(s, j) \/ Fire(s, j, TRUE) \/ Fire(s, j, FALSE) 
                  \/ Advance(s, j, TRUE) \/ Advance(s, j, FALSE)

Operator(j) ==
  \/ \E kind \in Kinds, count \in Counts, until \in Untils, at \in Times :
        Add(j, kind, count, until, at)
  \/ \E kind \in Kinds : Reschedule(j, kind)
  \/ Remove(j) \/ Enable(j) \/ Disable(j)

Next ==
  \/ \E s \in Sweepers : SweeperStep(s) \/ Acquire(s) \/ Crash(s)
  \/ \E j \in Jobs : Operator(j)
  \/ Tick

Spec == Init /\ [][Next]_vars

\* A process goes on or dies; one that does not die keeps sweeping, and gets the
\* flock it waits for in the end.
Fairness ==
  /\ \A s \in Sweepers : WF_vars(SweeperStep(s) \/ Crash(s))
  /\ \A s \in Sweepers \ FaultProne : SF_vars(Acquire(s))

FairSpec == Spec /\ Fairness

-----------------------------------------------------------------------------
(* Properties. *)

\* Every variable has its type, and one sweeper at a time holds the lock.
TypeOK ==
  /\ job \in [Jobs -> JobType] /\ clock \in Nat
  /\ pc \in [Sweepers -> {"idle", "wait", "sweep", "advance"}]
  /\ seen \in [Sweepers -> Nat] /\ snap \in [Sweepers -> [Jobs -> JobType]]
  /\ batch \in [Sweepers -> SUBSET Jobs] /\ cur \in [Sweepers -> SUBSET Jobs]
  /\ fires \in [Jobs -> Nat] /\ torn \in [Jobs -> Nat] /\ last \in [Jobs -> Nat]
  /\ excused \in [Jobs -> BOOLEAN] /\ origin \in [Jobs -> Nat]
  /\ \A r, s \in Sweepers : {pc[r], pc[s]} \subseteq {"sweep", "advance"} => r = s

\* The count of a job is an upper limit on its fires although it is enforced
\* partly before and partly after the task is queued, by processes that race:
\* only an advance that was lost with its process buys one more.
CountIsUpperLimit ==
  \A j \in Jobs : job[j].count > 0 => fires[j] <= job[j].count + torn[j]

\* However often it is noticed late, an interval job fires on the grid it was
\* given: next_run never drifts from it.
OnTheGrid ==
  \A j \in Jobs : job[j].listed /\ job[j].kind = "interval" =>
    \E n \in 0..job[j].next : job[j].next = origin[j] + Step * n

\* A job fires only while it is enabled, for a slot that came up after the
\* sweep that last fired it, be that another process's or one long ago: no slot
\* fires twice and no backlog is worked off.  The exceptions are a sweep that
\* died before the advance and a stopped job that the operator enabled again.
\* And it fires past its end date only for the slot it was given at the start.
FireIsCalledFor ==
  [][\A j \in Jobs : fires'[j] # fires[j] =>
       /\ job[j].listed /\ job[j].enabled
       /\ job[j].next > last[j] \/ excused[j]
       /\ job[j].until > 0 => job[j].next <= job[j].until \/ job[j].next = origin[j]]_fires

\* A job that is due does not stay so for good: it fires or is stopped, although
\* the process that has the lock may die with it again and again.
DueIsServed ==
  \A j \in Jobs, t \in Times :
    (job[j].listed /\ job[j].enabled /\ job[j].next = t /\ t <= clock)
      ~> ~(job[j].listed /\ job[j].enabled /\ job[j].next = t)

=============================================================================
