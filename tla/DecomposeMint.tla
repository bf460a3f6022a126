--------------------------- MODULE DecomposeMint ---------------------------
(***************************************************************************)
(* An over-budget task split into children: the mint (a record in the      *)
(* parent's file, written with its spent budget in one save), the children *)
(* laid out from that record and run inline, each with one claimed         *)
(* producer attempt, the row of audit.jsonl that discloses the mint, and   *)
(* what is left of it all when the process dies, a save fails, a worker    *)
(* raises or the operator stops the run, which ends in a teardown.         *)
(*                                                                         *)
(* A record exists on disk and, while a run holds it, as an object in      *)
(* memory; a third copy, `listed`, is the one a lane that reopens a goal   *)
(* loaded before it ran the first task.  One goal with one planned task,   *)
(* Root, is modelled, and one lane per kickoff: its subtree runs in one    *)
(* thread.                                                                 *)
(***************************************************************************)
EXTENDS Integers, FiniteSets, Sequences

CONSTANTS
  Tasks, Root,   \* the tasks a run may come to have, and the planned one
  Kids,          \* the children the planner would split a task into; none: no split
  LaneOrder,     \* the order in which a reopened lane goes through the records
  Attempts,      \* producer attempts of a task in its life, max(max_retries, 0) + 1
  MaxMints, MaxPasses, MaxReopens, MaxCrashes, MaxFaults   \* bounds

ASSUME MintAssumption ==
  /\ Root \in Tasks /\ Kids \in [Tasks -> Seq(Tasks)] /\ LaneOrder \in Seq(Tasks)
  /\ \A t \in Tasks : \A i \in DOMAIN Kids[t] : Kids[t][i] # Root
  /\ Attempts \in Nat \ {0} /\ MaxMints \in Nat
  /\ MaxPasses \in Nat /\ MaxReopens \in Nat /\ MaxCrashes \in Nat /\ MaxFaults \in Nat

Mints == 1..MaxMints

\* PENDING and DISPATCHED are "open"; QC_REJECTED and BLOCKED "failed".
Statuses == {"open", "completed", "failed", "abandoned"}

\* The goal: "settled" is COMPLETED or INCOMPLETE.
GoalStatuses == {"live", "settled", "abandoned"}

\* mint: decompose_mint.mint_id, 0 while there is none; laid: its state is
\* children_materialized; told: its disclosure is "emitted"; by: minted_by.
Records == [status : Statuses, spent : 0..Attempts, claimed : BOOLEAN, by : 0..MaxMints,
            mint : 0..MaxMints, laid : BOOLEAN, told : BOOLEAN]
NoRecord == [status |-> "absent"]
Slots == Records \cup {NoRecord}

Fresh(m, s) == [status |-> "open", spent |-> s, claimed |-> FALSE, by |-> m,
                mint |-> 0, laid |-> FALSE, told |-> FALSE]

Places == {"idle", "enter", "produce", "overflow", "emit", "mark", "kids", "loop",
           "waiting", "done"}

VARIABLES
  disk, goal,       \* the task records of the run's directory, and the goal's status
  obj,              \* the object a frame, or the merge, holds of a task
  listed, queue,    \* the records a lane loaded, and the tasks it has yet to go through
  pc, at,           \* per task: where its frame is, the child its loop is at
  lane, worker,     \* the run: "idle", "scan", "run" or "merge"; in a wave worker?
  buffer,           \* children a worker leaves for the merge; then what is to be merged
  totell, emitted,  \* mints the startup scan has yet to disclose; _emitted_mint_ids
  rows,             \* per mint id, its rows in audit.jsonl
  stopped,          \* abort_event
  minted,           \* mint ids drawn
  \* history: producer calls per task, mints whose append failed in this run,
  \* whether a crash cut a merge short, and the counters of what is bounded
  calls, missed, torn, passes, reopens, crashes, faults

stores == <<disk, rows, goal>>
frames == <<pc, at, obj>>
bounds == <<torn, passes, reopens, crashes, faults>>
vars == <<disk, goal, obj, listed, queue, pc, at, lane, worker, buffer, totell, emitted, rows,
          stopped, minted, calls, missed, torn, passes, reopens, crashes, faults>>

AllIdle == [t \in Tasks |-> "idle"]
AllOne == [t \in Tasks |-> 1]
Nothing == [t \in Tasks |-> NoRecord]

Init ==
  /\ disk = [Nothing EXCEPT ![Root] = Fresh(0, 0)] /\ goal = "live"
  /\ obj = Nothing /\ listed = Nothing /\ queue = <<>>
  /\ pc = AllIdle /\ at = AllOne
  /\ lane = "idle" /\ worker = FALSE /\ buffer = <<>>
  /\ totell = {} /\ emitted = {} /\ rows = [m \in Mints |-> 0]
  /\ stopped = FALSE /\ minted = 0
  /\ calls = [t \in Tasks |-> 0] /\ missed = {} /\ torn = FALSE
  /\ passes = 0 /\ reopens = 0 /\ crashes = 0 /\ faults = 0

Present(t) == disk[t] # NoRecord
Quiet == pc = AllIdle
Terminal(r) == r.status \in {"completed", "failed", "abandoned"}
MayFail == faults < MaxFaults
Fault == faults' = faults + 1

\* The frame of t moves on with its object changed to r.
Move(t, r, place) == obj' = [obj EXCEPT ![t] = r] /\ pc' = [pc EXCEPT ![t] = place]
Settle(t, status) == Move(t, [obj[t] EXCEPT !.status = status], "done")

-----------------------------------------------------------------------------
(* The seam of the producer: _run_task_with_redo_inner. *)

\* A minted container never sees the producer again: its record is replayed.
Resume(t) ==
  /\ pc[t] = "enter" /\ obj[t].mint # 0
  /\ pc' = [pc EXCEPT ![t] = "emit"]
  /\ UNCHANGED <<stores, obj, listed, queue, at, lane, worker, buffer, totell, emitted, stopped,
                 minted, calls, missed, bounds>>

\* The loop's first test: a stopped run starts no further attempt.
Bail(t) ==
  /\ pc[t] = "enter" /\ obj[t].mint = 0 /\ stopped
  /\ pc' = [pc EXCEPT ![t] = "done"]
  /\ UNCHANGED <<stores, obj, listed, queue, at, lane, worker, buffer, totell, emitted, stopped,
                 minted, calls, missed, bounds>>

\* _claim_and_count of a planned task: the plain increment, in memory only.
Count(t) ==
  /\ pc[t] = "enter" /\ obj[t].mint = 0 /\ ~stopped
  /\ obj[t].by = 0 /\ obj[t].spent < Attempts
  /\ Move(t, [obj[t] EXCEPT !.spent = @ + 1], "produce")
  /\ calls' = [calls EXCEPT ![t] = @ + 1]
  /\ UNCHANGED <<stores, listed, queue, at, lane, worker, buffer, totell, emitted, stopped,
                 minted, missed, bounds>>

\* What a claim leaves in the child: the id of the attempt, and the budget spent.
Claimed(r) == [r EXCEPT !.claimed = TRUE, !.spent = Attempts]

\* Mutant of Claim: its save is left to the merge, like a worker's other saves.
ClaimDeferred(t) ==
  /\ pc[t] = "enter" /\ obj[t].mint = 0 /\ ~stopped
  /\ obj[t].by # 0 /\ obj[t].spent < Attempts
  /\ Move(t, Claimed(obj[t]), "produce")
  /\ calls' = [calls EXCEPT ![t] = @ + 1]
  /\ UNCHANGED <<stores, listed, queue, at, lane, worker, buffer, totell, emitted, stopped,
                 minted, missed, bounds>>

\* _claim_and_count of a minted child: saved, also in a worker, before the
\* producer runs.  (One whose attempt is claimed has no budget left, so that it
\* does not come to this seam.)
Claim(t) ==
  /\ pc[t] = "enter" /\ obj[t].mint = 0 /\ ~stopped
  /\ obj[t].by # 0 /\ obj[t].spent < Attempts
  /\ Move(t, Claimed(obj[t]), "produce")
  /\ disk' = [disk EXCEPT ![t] = Claimed(obj[t])]
  /\ calls' = [calls EXCEPT ![t] = @ + 1]
  /\ UNCHANGED <<rows, goal, listed, queue, at, lane, worker, buffer, totell, emitted, stopped,
                 minted, missed, bounds>>

\* The claim's save fails: an exception of the attempt, the only one, is final.
ClaimFails(t) ==
  /\ pc[t] = "enter" /\ obj[t].mint = 0 /\ ~stopped /\ MayFail
  /\ obj[t].by # 0 /\ obj[t].spent < Attempts
  /\ Move(t, [Claimed(obj[t]) EXCEPT !.status = "failed"], "done")
  /\ Fault
  /\ UNCHANGED <<stores, listed, queue, at, lane, worker, buffer, totell, emitted, stopped,
                 minted, calls, missed, torn, passes, reopens, crashes>>

\* No attempt is left: QC fixes the draft, or the task ends rejected or blocked.
QCFix(t) ==
  /\ pc[t] = "enter" /\ obj[t].mint = 0 /\ obj[t].spent >= Attempts
  /\ \E s \in {"completed", "failed"} :
       IF stopped THEN Move(t, obj[t], "done") ELSE Settle(t, s)
  /\ UNCHANGED <<stores, listed, queue, at, lane, worker, buffer, totell, emitted, stopped,
                 minted, calls, missed, bounds>>

\* The attempt ends: QC passes the draft; it is blocked for the environment; it
\* is rejected or raised, and the loop goes on; or the call was too big.
Produced(t) ==
  /\ pc[t] = "produce"
  /\ \/ \E s \in {"completed", "failed"} : Settle(t, s)
     \/ \E place \in {"enter", "overflow"} : Move(t, obj[t], place)
  /\ UNCHANGED <<stores, listed, queue, at, lane, worker, buffer, totell, emitted, stopped,
                 minted, calls, missed, bounds>>

-----------------------------------------------------------------------------
(* The mint. *)

\* The split is refused (depth, width, paths, the planner's answer), or its
\* commit fails and is rolled back: the task is blocked and nothing is minted.
Refuse(t) ==
  /\ pc[t] = "overflow"
  /\ Settle(t, "failed")
  /\ UNCHANGED <<stores, listed, queue, at, lane, worker, buffer, totell, emitted, stopped,
                 minted, calls, missed, bounds>>

\* Mutant of Committed: the counter is left for a later save.
CommittedUnspent(r, m) == [r EXCEPT !.mint = m, !.laid = FALSE, !.told = FALSE]

\* The committed parent: the record and the spent counter together.
Committed(r, m) == [r EXCEPT !.mint = m, !.laid = FALSE, !.told = FALSE, !.spent = Attempts]

\* _commit_decompose_mint: one atomic save, also in a worker.
Commit(t) ==
  /\ pc[t] = "overflow" /\ Kids[t] # <<>> /\ minted < MaxMints
  /\ minted' = minted + 1
  /\ Move(t, Committed(obj[t], minted'), "emit")
  /\ disk' = [disk EXCEPT ![t] = Committed(obj[t], minted')]
  /\ UNCHANGED <<rows, goal, listed, queue, at, lane, worker, buffer, totell, emitted, stopped,
                 calls, missed, bounds>>

AfterEmit == IF lane = "scan" THEN "idle" ELSE "kids"

Told(t) == obj[t].told \/ obj[t].mint \in emitted

\* _emit_decompose_mint: a mint already disclosed is left alone.
SkipEmit(t) ==
  /\ pc[t] = "emit" /\ Told(t)
  /\ pc' = [pc EXCEPT ![t] = AfterEmit]
  /\ UNCHANGED <<stores, obj, listed, queue, at, lane, worker, buffer, totell, emitted, stopped,
                 minted, calls, missed, bounds>>

\* Mutant of Appended: the file is not searched for the row.
AppendedBlindly(m) == [rows EXCEPT ![m] = @ + 1]

\* The rows of the file once mint m is disclosed: the append finds its own row.
Appended(m) == IF rows[m] > 0 THEN rows ELSE [rows EXCEPT ![m] = 1]

Emit(t) ==
  /\ pc[t] = "emit" /\ ~Told(t)
  /\ rows' = Appended(obj[t].mint)
  /\ emitted' = emitted \cup {obj[t].mint}
  /\ Move(t, [obj[t] EXCEPT !.told = TRUE], "mark")
  /\ UNCHANGED <<disk, goal, listed, queue, at, lane, worker, buffer, totell, stopped, minted,
                 calls, missed, bounds>>

\* The append fails: the mark on the record stays for the next kickoff's scan.
EmitFails(t) ==
  /\ pc[t] = "emit" /\ ~Told(t) /\ MayFail /\ Fault
  /\ missed' = missed \cup {obj[t].mint}
  /\ pc' = [pc EXCEPT ![t] = AfterEmit]
  /\ UNCHANGED <<stores, obj, listed, queue, at, lane, worker, buffer, totell, emitted, stopped,
                 minted, calls, torn, passes, reopens, crashes>>

\* The advance of the record after the row: a save that may fail and be lost.
Mark(t) ==
  /\ pc[t] = "mark"
  /\ \/ disk' = [disk EXCEPT ![t] = obj[t]] /\ UNCHANGED faults
     \/ MayFail /\ Fault /\ UNCHANGED disk
  /\ pc' = [pc EXCEPT ![t] = AfterEmit]
  /\ UNCHANGED <<rows, goal, obj, listed, queue, at, lane, worker, buffer, totell, emitted,
                 stopped, minted, calls, missed, torn, passes, reopens, crashes>>

-----------------------------------------------------------------------------
(* The children: _run_mint_children. *)

KidSet(t) == {Kids[t][i] : i \in DOMAIN Kids[t]}

\* An id of the record that lives under another mint: DecomposeMintConflict.
Conflict(t) == \E k \in KidSet(t) : Present(k) /\ disk[k].by # obj[t].mint

\* Mutant of Create: a replay lays the children out anew.
CreateAnew(t) ==
  /\ pc[t] = "kids" /\ ~Conflict(t)
  /\ \E k \in KidSet(t) : disk' = [disk EXCEPT ![k] = Fresh(obj[t].mint, Attempts - 1)]
  /\ UNCHANGED <<rows, goal, frames, listed, queue, lane, worker, buffer, totell, emitted,
                 stopped, minted, calls, missed, bounds>>

\* _materialize_mint_children, a child the store does not have: born with one
\* attempt left, saved also in a worker.
Create(t) ==
  /\ pc[t] = "kids" /\ ~Conflict(t)
  /\ \E i \in DOMAIN Kids[t] :
       /\ ~Present(Kids[t][i]) /\ \A j \in 1..(i - 1) : Present(Kids[t][j])
       /\ disk' = [disk EXCEPT ![Kids[t][i]] = Fresh(obj[t].mint, Attempts - 1)]
  /\ UNCHANGED <<rows, goal, frames, listed, queue, lane, worker, buffer, totell, emitted,
                 stopped, minted, calls, missed, bounds>>

\* Every child is there: the loop gets the records as they are, and the first
\* time the parent's state advances, in a save that a worker leaves out and that
\* may fail.
Load(t) ==
  LET parent == [obj[t] EXCEPT !.laid = TRUE] IN
  /\ pc[t] = "kids" /\ ~Conflict(t) /\ \A k \in KidSet(t) : Present(k)
  /\ obj' = [u \in Tasks |-> IF u = t THEN parent
                             ELSE IF u \in KidSet(t) THEN disk[u] ELSE obj[u]]
  /\ pc' = [pc EXCEPT ![t] = "loop"] /\ at' = [at EXCEPT ![t] = 1]
  /\ \/ (worker \/ obj[t].laid) /\ UNCHANGED <<disk, faults>>
     \/ ~worker /\ ~obj[t].laid /\ disk' = [disk EXCEPT ![t] = parent] /\ UNCHANGED faults
     \/ ~worker /\ ~obj[t].laid /\ MayFail /\ Fault /\ UNCHANGED disk
  /\ UNCHANGED <<rows, goal, listed, queue, lane, worker, buffer, totell, emitted, stopped,
                 minted, calls, missed, torn, passes, reopens, crashes>>

ChildAt(t) == Kids[t][at[t]]
InLoop(t) == pc[t] = "loop" /\ at[t] <= Len(Kids[t])
NextChild(t) == at' = [at EXCEPT ![t] = @ + 1]

\* _persist_child_task: a worker leaves the child to the merge.
Persist(k, r) ==
  IF worker
  THEN /\ buffer' = IF k \in {buffer[i] : i \in DOMAIN buffer} THEN buffer ELSE Append(buffer, k)
       /\ UNCHANGED disk
  ELSE disk' = [disk EXCEPT ![k] = r] /\ UNCHANGED buffer

\* A settled child is preserved.
Preserve(t) ==
  /\ InLoop(t) /\ Terminal(obj[ChildAt(t)])
  /\ NextChild(t)
  /\ UNCHANGED <<stores, obj, pc, listed, queue, lane, worker, buffer, totell, emitted, stopped,
                 minted, calls, missed, bounds>>

\* _settle_interrupted_claim: the attempt was claimed and has not ended, so it is
\* spent; QC completes its draft or the child is blocked.
SettleClaim(t) ==
  LET k == ChildAt(t) IN
  /\ InLoop(t) /\ ~Terminal(obj[k]) /\ obj[k].claimed
  /\ \E s \in {"completed", "failed"} :
       /\ obj' = [obj EXCEPT ![k].status = s]
       /\ Persist(k, [obj[k] EXCEPT !.status = s])
  /\ NextChild(t)
  /\ UNCHANGED <<rows, goal, pc, listed, queue, lane, worker, totell, emitted, stopped, minted,
                 calls, missed, bounds>>

\* Whether the loop hands a child to the redo path.
Runs(r) == ~Terminal(r) /\ ~r.claimed

RunChild(t) ==
  /\ InLoop(t) /\ Runs(obj[ChildAt(t)])
  /\ pc' = [pc EXCEPT ![t] = "waiting", ![ChildAt(t)] = "enter"]
  /\ UNCHANGED <<stores, obj, at, listed, queue, lane, worker, buffer, totell, emitted, stopped,
                 minted, calls, missed, bounds>>

ChildDone(t) ==
  LET k == ChildAt(t) IN
  /\ pc[t] = "waiting" /\ pc[k] = "done"
  /\ Persist(k, obj[k])
  /\ pc' = [pc EXCEPT ![t] = "loop", ![k] = "idle"]
  /\ NextChild(t)
  /\ UNCHANGED <<rows, goal, obj, listed, queue, lane, worker, totell, emitted, stopped, minted,
                 calls, missed, bounds>>

\* Mutant of Outcome: the last child decides.
OutcomeOfLast(t) == obj[Kids[t][Len(Kids[t])]].status

\* What the container comes to, from what its children came to.
Outcome(t) ==
  IF \A k \in KidSet(t) : obj[k].status = "completed" THEN "completed" ELSE "failed"

Container(t) ==
  /\ pc[t] = "loop" /\ at[t] > Len(Kids[t])
  /\ Settle(t, Outcome(t))
  /\ UNCHANGED <<stores, listed, queue, at, lane, worker, buffer, totell, emitted, stopped,
                 minted, calls, missed, bounds>>

Frame(t) ==
  \/ Resume(t) \/ Bail(t) \/ Count(t) \/ Claim(t) \/ ClaimFails(t) \/ QCFix(t) \/ Produced(t)
  \/ Refuse(t) \/ Commit(t) \/ SkipEmit(t) \/ Emit(t) \/ EmitFails(t) \/ Mark(t)
  \/ Create(t) \/ Load(t) \/ Preserve(t) \/ SettleClaim(t) \/ RunChild(t) \/ ChildDone(t)
  \/ Container(t)

-----------------------------------------------------------------------------
(* The lanes: kickoff, the wave worker, _run_reopened_tasks. *)

\* A kickoff: the abort is cleared, and the mints without a row are listed.
Kickoff ==
  /\ lane = "idle" /\ passes < MaxPasses
  /\ lane' = "scan" /\ passes' = passes + 1 /\ stopped' = FALSE /\ missed' = {}
  /\ totell' = {t \in Tasks : Present(t) /\ disk[t].mint # 0 /\ ~disk[t].told}
  /\ UNCHANGED <<stores, frames, listed, queue, worker, buffer, emitted, minted, calls, torn,
                 reopens, crashes, faults>>

\* _recover_pending_mint_disclosures, one record.
Recover(t) ==
  /\ lane = "scan" /\ Quiet /\ t \in totell
  /\ totell' = totell \ {t}
  /\ Move(t, disk[t], "emit")
  /\ UNCHANGED <<stores, at, listed, queue, lane, worker, buffer, emitted, stopped, minted, calls,
                 missed, bounds>>

Scanned == lane = "scan" /\ Quiet /\ totell = {}

\* _reopen_affected leaves a task alone that was abandoned.
Reset(r) == [r EXCEPT !.status = IF @ = "abandoned" THEN @ ELSE "open"]

\* The plan's tasks are dispatched, to a wave worker or in sequence, for the
\* first time or reset by the leader's redo: Root alone is listed.  One that is
\* abandoned is not runnable.
Dispatch ==
  /\ Scanned /\ goal = "live" /\ disk[Root].status # "abandoned"
  /\ disk' = [disk EXCEPT ![Root] = Reset(@)]
  /\ listed' = [Nothing EXCEPT ![Root] = Reset(disk[Root])] /\ queue' = <<Root>>
  /\ lane' = "run" /\ worker' \in BOOLEAN
  /\ UNCHANGED <<rows, goal, frames, buffer, totell, emitted, stopped, minted, calls, missed,
                 bounds>>

\* Tasks that a ticket may name: it was opened when they failed.
Ticketed == {t \in Tasks : Present(t) /\ disk[t].status \in {"failed", "abandoned"}}

\* Tickets were denied: the tasks they name are reset, and a goal that was settled
\* is in progress again when one names the goal.  _reexecute_goal, which passes over a
\* settled goal, lists every record of the goal before it runs one.
Reopen ==
  /\ Scanned /\ goal # "abandoned" /\ reopens < MaxReopens
  /\ reopens' = reopens + 1 /\ goal' = "live"
  /\ \E S \in SUBSET Ticketed :
       /\ goal = "settled" \/ S # {}
       /\ disk' = [t \in Tasks |-> IF t \in S THEN Reset(disk[t]) ELSE disk[t]]
  /\ listed' = disk' /\ queue' = LaneOrder
  /\ lane' = "run" /\ worker' = FALSE
  /\ UNCHANGED <<rows, frames, buffer, totell, emitted, stopped, minted, calls, missed,
                 torn, passes, crashes, faults>>

\* The next record that is runnable, as it was listed.
Begin ==
  /\ lane = "run" /\ Quiet /\ queue # <<>> /\ listed[Head(queue)].status = "open"
  /\ ~(stopped /\ ~worker)
  /\ Move(Head(queue), listed[Head(queue)], "enter")
  /\ UNCHANGED <<stores, at, listed, queue, lane, worker, buffer, totell, emitted, stopped,
                 minted, calls, missed, bounds>>

\* One that is settled, or was not there, is passed over; a stopped lane drops the rest.
Skip ==
  /\ lane = "run" /\ Quiet /\ queue # <<>>
  /\ \/ stopped /\ ~worker /\ queue' = <<>>
     \/ ~stopped /\ listed[Head(queue)].status # "open" /\ queue' = Tail(queue)
  /\ UNCHANGED <<stores, frames, listed, lane, worker, buffer, totell, emitted, stopped, minted,
                 calls, missed, bounds>>

\* The lane saves the task it has run; a worker hands it over, children after it.
TaskDone ==
  /\ lane = "run" /\ queue # <<>> /\ pc[Head(queue)] = "done"
  /\ pc' = AllIdle /\ queue' = Tail(queue)
  /\ \/ /\ worker /\ lane' = "merge" /\ buffer' = <<Head(queue)>> \o buffer /\ UNCHANGED disk
     \/ /\ ~worker /\ disk' = [disk EXCEPT ![Head(queue)] = obj[Head(queue)]]
        /\ UNCHANGED <<lane, buffer>>
  /\ UNCHANGED <<rows, goal, obj, at, listed, worker, totell, emitted, stopped, minted, calls,
                 missed, bounds>>

\* save_task_monotonic: what the barriers wrote is never taken back, and a
\* settled record stands.
Merged(cur, new) ==
  IF Terminal(cur) /\ ~Terminal(new) THEN cur
  ELSE [new EXCEPT !.claimed = @ \/ cur.claimed,
                   !.spent = IF cur.spent > @ THEN cur.spent ELSE @,
                   !.mint = IF cur.mint # 0 THEN cur.mint ELSE @,
                   !.laid = IF cur.mint # 0 THEN cur.laid ELSE @,
                   !.told = IF cur.mint # 0 THEN cur.told ELSE @]

Merge ==
  /\ lane = "merge" /\ buffer # <<>>
  /\ disk' = [disk EXCEPT ![Head(buffer)] = Merged(@, obj[Head(buffer)])]
  /\ buffer' = Tail(buffer)
  /\ UNCHANGED <<rows, goal, frames, listed, queue, lane, worker, totell, emitted, stopped,
                 minted, calls, missed, bounds>>

\* The run lets go of what it held.
Forget ==
  /\ obj' = Nothing /\ listed' = Nothing /\ queue' = <<>> /\ buffer' = <<>>
  /\ pc' = AllIdle /\ at' = AllOne /\ totell' = {}
  /\ lane' = "idle" /\ worker' = FALSE

LaneOver ==
  \/ lane = "run" /\ Quiet /\ queue = <<>>
  \/ lane = "merge" /\ buffer = <<>>

\* The goal is settled, or left live: a redo follows, or the Leader is not to be had.
LaneEnds ==
  /\ LaneOver /\ ~stopped
  /\ Forget /\ goal' \in {"live", "settled"}
  /\ UNCHANGED <<disk, rows, emitted, stopped, minted, calls, missed, bounds>>

Unfinished == {t \in Tasks : Present(t) /\ disk[t].status # "completed"}

Abandon(S) ==
  disk' = [t \in Tasks |-> IF t \in S THEN [disk[t] EXCEPT !.status = "abandoned"] ELSE disk[t]]

\* _teardown_run, the end of a kickoff that was stopped: the tasks not completed
\* are abandoned, then the goal; a save that fails leaves the others as they are.
Teardown ==
  /\ LaneOver /\ stopped
  /\ Forget
  /\ \/ Abandon(Unfinished) /\ goal' = "abandoned" /\ UNCHANGED faults
     \/ MayFail /\ Fault /\ (\E S \in SUBSET Unfinished : Abandon(S)) /\ UNCHANGED goal
  /\ UNCHANGED <<rows, emitted, stopped, minted, calls, missed, torn, passes, reopens, crashes>>

\* _settle_goals_on_fatal: a kickoff that dies settles its live goals as incomplete.
SettleOnFatal == Forget /\ goal' = "settled"

\* What an exception that leaves the redo path does: a worker's task is blocked
\* and what it had buffered is merged; in sequence it ends the kickoff.
Escape ==
  IF worker
  THEN /\ lane' = "merge" /\ buffer' = <<Root>> \o buffer /\ queue' = <<>>
       /\ obj' = [obj EXCEPT ![Root].status = "failed"] /\ pc' = AllIdle
       /\ UNCHANGED <<goal, at, listed, worker, totell>>
  ELSE SettleOnFatal

\* A child cannot be created, or not be saved when it is done.
Raise ==
  /\ lane = "run" /\ MayFail /\ Fault
  /\ \E t \in Tasks : \/ pc[t] = "kids" /\ \E k \in KidSet(t) : ~Present(k)
                      \/ pc[t] = "waiting" /\ pc[ChildAt(t)] = "done"
  /\ Escape
  /\ UNCHANGED <<disk, rows, emitted, stopped, minted, calls, missed, torn, passes, reopens,
                 crashes>>

\* DecomposeMintConflict.
Foreign ==
  /\ \E t \in Tasks : pc[t] = "kids" /\ Conflict(t)
  /\ Escape
  /\ UNCHANGED <<disk, rows, emitted, stopped, minted, calls, missed, bounds>>

\* The operator stops the run (F8).
Stop ==
  /\ lane \in {"run", "merge"} /\ ~stopped /\ stopped' = TRUE
  /\ UNCHANGED <<stores, frames, listed, queue, lane, worker, buffer, totell, emitted, minted,
                 calls, missed, bounds>>

\* The process dies: the store and the audit file remain.
Crash ==
  /\ lane # "idle" /\ crashes < MaxCrashes /\ crashes' = crashes + 1
  /\ Forget /\ emitted' = {} /\ stopped' = FALSE /\ torn' = (torn \/ lane = "merge")
  /\ UNCHANGED <<stores, minted, calls, missed, passes, reopens, faults>>

\* What a kickoff goes on to do once it has begun.
Work ==
  \/ \E t \in Tasks : Frame(t) \/ Recover(t)
  \/ Dispatch \/ Reopen \/ Begin \/ Skip \/ TaskDone \/ Merge \/ LaneEnds \/ Teardown
  \/ Foreign

Next == Work \/ Kickoff \/ Raise \/ Stop \/ Crash

Spec == Init /\ [][Next]_vars

-----------------------------------------------------------------------------
(* What must hold. *)

TypeOK ==
  /\ disk \in [Tasks -> Slots] /\ goal \in GoalStatuses
  /\ obj \in [Tasks -> Slots] /\ listed \in [Tasks -> Slots]
  /\ queue \in Seq(Tasks) /\ buffer \in Seq(Tasks)
  /\ pc \in [Tasks -> Places] /\ at \in [Tasks -> Nat \ {0}]
  /\ lane \in {"idle", "scan", "run", "merge"} /\ worker \in BOOLEAN /\ stopped \in BOOLEAN
  /\ torn \in BOOLEAN /\ totell \subseteq Tasks
  /\ emitted \subseteq Mints /\ missed \subseteq Mints
  /\ rows \in [Mints -> Nat] /\ minted \in 0..MaxMints /\ calls \in [Tasks -> Nat]
  /\ passes \in Nat /\ reopens \in Nat /\ crashes \in Nat /\ faults \in Nat

\* A minted child has its producer called at most once, whatever dies or fails in
\* between (CHANGELOG.md:139-146).
AttemptedOnce == \A t \in Tasks \ {Root} : calls[t] <= 1

\* ... and it has, as long as no lane that lists a whole goal has run.
ReplayAttemptsOnce == reopens = 0 => AttemptedOnce

\* No task file says it minted without saying that its budget is spent, and, while
\* no goal was reopened, none exists of a child without the file of a parent that
\* says it minted.
MintIsSpent ==
  \A t \in {u \in Tasks : Present(u)} :
    /\ disk[t].mint # 0 => disk[t].spent = Attempts
    /\ reopens = 0 /\ disk[t].by # 0 =>
         \E u \in Tasks : Present(u) /\ t \in KidSet(u) /\ disk[u].mint # 0

\* When a run has ended, none was cut short while it merged and no goal was
\* reopened, a plan's task whose file says that it minted and is completed has all
\* its children completed in theirs, whoever saved them and in which order.
ContainerFollowsChildren ==
  LET r == disk[Root] IN
  lane = "idle" /\ ~torn /\ reopens = 0 /\ r.mint # 0 /\ r.status = "completed" =>
    \A k \in KidSet(Root) : Present(k) /\ disk[k].status = "completed"

\* The mint's record owns the disposition of a container from the commit on
\* (orchestration.py:12620-12625): a child that minted is completed by its own
\* children.
MintOwnsDisposition ==
  \A t \in {u \in Tasks : Present(u)} :
    disk[t].by # 0 /\ disk[t].mint # 0 /\ disk[t].status = "completed" =>
      \A k \in KidSet(t) : Present(k) /\ disk[k].status = "completed"

\* A mint has one row in the audit file at most, and while a lane runs there is
\* none without its row but the one being disclosed and those whose append failed
\* in this very run.
Disclosed ==
  /\ \A m \in Mints : rows[m] <= 1
  /\ lane \in {"run", "merge"} =>
       \A t \in {u \in Tasks : Present(u) /\ disk[u].mint # 0} :
         \/ rows[disk[t].mint] = 1 \/ pc[t] = "emit" \/ disk[t].mint \in missed

\* A record that has lost nothing of another: its mint, its claim, its spent budget.
Ahead(new, old) ==
  /\ old.mint # 0 => new.mint = old.mint
  /\ old.claimed => new.claimed
  /\ new.spent >= old.spent

\* What was committed stays: no step takes a mint, a claim or spent budget back
\* from a task file, while no goal was reopened.
NothingIsTakenBack ==
  [][reopens' = 0 => \A t \in {u \in Tasks : Present(u)} : Ahead(disk'[t], disk[t])]_vars
=============================================================================
