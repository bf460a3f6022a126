---------------------------- MODULE PlanExecution ----------------------------
(***************************************************************************)
(* One plan file, the daemons that execute it and the operator processes   *)
(* that approve, deny or cancel it.                                        *)
(*                                                                         *)
(* A step is one atomic replacement of the plan file (plans.py holds a     *)
(* flock across each read-modify-write), one write of a ticket file, or    *)
(* one lock-free read on which the code branches; everything between two   *)
(* of these is local to its process.  The frontmatter of the plan is the   *)
(* first group of variables; what a daemon keeps in memory is lost when it *)
(* crashes.                                                                *)
(***************************************************************************)
EXTENDS Naturals, Sequences

CONSTANTS
  Executors,         \* daemon processes, one start_execution each at a time
  Deciders,          \* processes in which an operator decides or cancels
  NoOne,             \* nobody holds the plan's lock
  FaultProne,        \* the processes in which a crash or a failing write may hit
  BodySizes,         \* how many sub-objectives a plan body may parse to
  MaxSubObjectives,  \* max_sub_objectives, 32 in the code
  TokenCap,          \* the plan's max_tokens, one unit per model call
  Outcomes,          \* the reflection outcomes the Leader may emit
  TicketBound        \* bound: no approval once this many tickets exist

Statuses == {"draft", "approved", "paused", "declined", "executing", "done"}
Terminal == {"declined", "done"}
Advancing == {"continue", "revise-minor"}
Pausing == {"revise-major", "pause"}
ReflectOutcomes == Advancing \cup Pausing \cup {"abort"}

ASSUME PlanAssumption ==
  /\ NoOne \notin Executors \cup Deciders
  /\ Executors \cap Deciders = {}
  /\ FaultProne \subseteq Executors \cup Deciders
  /\ BodySizes \subseteq Nat /\ MaxSubObjectives \in Nat
  /\ TokenCap \in Nat /\ TicketBound \in Nat
  /\ Outcomes \subseteq ReflectOutcomes

VARIABLES
  \* the plan file: what extract_sub_objectives finds in its body, and its
  \* frontmatter
  size,
  status,    \* status
  history,   \* status_transitions, the target of each
  index,     \* current_index
  started,   \* execution_started_at is set
  tokens,    \* tokens_used
  spawned,   \* spawned_kickoffs, the sub-objective of each
  log,       \* reflection_log: [after, outcome]
  \* the tickets linked to the plan, in order of creation: their decision
  tickets,
  lock,      \* who holds <plan-id>.lock across several writes
  \* the executors
  pc, at,    \* where each is, and the sub-objectives it counts as completed
  tracker,   \* tokens its BudgetTracker has counted
  \* the deciders
  dpc, job   \* where each is, and the ticket and decision it works on

plan == <<size, status, history, index, started, tokens, spawned, log>>
locals == <<pc, at, tracker>>
deciding == <<dpc, job>>
vars == <<plan, tickets, lock, locals, deciding>>

ExecutorPCs == {"idle", "picked", "malformed", "stamped", "top", "kickoff",
                "reflect", "advance", "ticket", "pausing", "abort", "cap",
                "capticket"}
DeciderPCs == {"idle", "write", "flip", "cancel", "recheck", "decline"}
Decisions == {"none", "approved", "denied"}
NoJob == [ticket |-> 0, decision |-> "none"]
Job(t, c) == [ticket |-> t, decision |-> c]

\* start_execution refuses a body that parses to nothing or to too much.
WellFormed == size \in 1..MaxSubObjectives

\* find_pending_approval_ticket_for_plan: open and undecided.
Pending == {t \in DOMAIN tickets : tickets[t] = "none"}

\* The executors between their claim and the last thing they do for the run.
Running == {e \in Executors : pc[e] \in
              {"top", "kickoff", "reflect", "advance", "ticket", "abort",
               "cap", "capticket"}}

Init ==
  /\ size \in BodySizes
  /\ status = "draft" /\ history = <<>> /\ index = 0 /\ started = FALSE
  /\ tokens = 0 /\ spawned = <<>> /\ log = <<>>
  /\ tickets = <<"none">>      \* opened with the plan by the chat pane
  /\ lock = NoOne
  /\ pc = [e \in Executors |-> "idle"]
  /\ at = [e \in Executors |-> 0] /\ tracker = [e \in Executors |-> 0]
  /\ dpc = [d \in Deciders |-> "idle"] /\ job = [d \in Deciders |-> NoJob]

-----------------------------------------------------------------------------
(* plans.set_status: any status may follow any other. *)
SetStatus(s) ==
  /\ lock = NoOne
  /\ status' = s /\ history' = Append(history, s)
  /\ UNCHANGED <<size, index, started, tokens, spawned, log>>

(* _open_pause_ticket: one more undecided ticket. *)
OpenPauseTicket ==
  tickets' = Append(tickets, "none") /\ UNCHANGED plan

Goto(e, l) == pc' = [pc EXCEPT ![e] = l] /\ UNCHANGED <<at, tracker>>

\* start_execution returns or raises; its locals are gone.
Leave(e) ==
  /\ pc' = [pc EXCEPT ![e] = "idle"]
  /\ at' = [at EXCEPT ![e] = 0] /\ tracker' = [tracker EXCEPT ![e] = 0]

-----------------------------------------------------------------------------
(* Claiming: tick, then the head of start_execution. *)

\* Mutant of Pick: resumed plans are overlooked.
PickFreshOnly(e) ==
  /\ pc[e] = "idle" /\ status = "approved" /\ ~started
  /\ Goto(e, "picked")
  /\ UNCHANGED <<plan, tickets, lock, deciding>>

\* find_approved_plans, the reload in tick and the one in start_execution:
\* three lock-free reads with the same guard.
Pick(e) ==
  /\ pc[e] = "idle" /\ status = "approved"
  /\ Goto(e, IF WellFormed THEN "picked" ELSE "malformed")
  /\ UNCHANGED <<plan, tickets, lock, deciding>>

\* Nothing parses, or too much: paused without looking at the status again.
RejectBody(e) ==
  /\ pc[e] = "malformed"
  /\ SetStatus("paused") /\ Goto(e, "capticket")
  /\ UNCHANGED <<tickets, lock, deciding>>

\* Under the lock the plan turns out to be no longer approved.
ClaimLost(e) ==
  /\ pc[e] = "picked" /\ lock = NoOne
  /\ status # "approved"
  /\ Leave(e)
  /\ UNCHANGED <<plan, tickets, lock, deciding>>

\* Mutant of ClaimStamp: the status is not read again under the lock.
ClaimUnchecked(e) ==
  /\ pc[e] = "picked" /\ lock = NoOne
  /\ lock' = e /\ started' = TRUE
  /\ Goto(e, "stamped")
  /\ UNCHANGED <<size, status, history, index, tokens, spawned, log,
                 tickets, deciding>>

\* Mutant of ClaimStamp: the start time is not stamped.
ClaimUnstamped(e) ==
  /\ pc[e] = "picked" /\ lock = NoOne
  /\ status = "approved"
  /\ lock' = e
  /\ Goto(e, "stamped")
  /\ UNCHANGED <<plan, tickets, deciding>>

\* Still approved: stamp execution_started_at, keeping the lock.
ClaimStamp(e) ==
  /\ pc[e] = "picked" /\ lock = NoOne
  /\ status = "approved"
  /\ lock' = e /\ started' = TRUE
  /\ Goto(e, "stamped")
  /\ UNCHANGED <<size, status, history, index, tokens, spawned, log,
                 tickets, deciding>>

\* Mutant of ClaimFlip: every run starts the plan from the beginning.
FlipFromScratch(e) ==
  /\ pc[e] = "stamped" /\ lock = e
  /\ status' = "executing" /\ history' = Append(history, "executing")
  /\ lock' = NoOne
  /\ Goto(e, "top")
  /\ UNCHANGED <<size, index, started, tokens, spawned, log,
                 tickets, deciding>>

\* Mutant of ClaimFlip: the lock is not released.
FlipKeepsLock(e) ==
  /\ pc[e] = "stamped" /\ lock = e
  /\ status' = "executing" /\ history' = Append(history, "executing")
  /\ pc' = [pc EXCEPT ![e] = "top"]
  /\ at' = [at EXCEPT ![e] = index]
  /\ tracker' = [tracker EXCEPT ![e] = tokens]
  /\ UNCHANGED <<size, index, started, tokens, spawned, log,
                 tickets, lock, deciding>>

\* Flip to executing, release, and resume from what the file says.
ClaimFlip(e) ==
  /\ pc[e] = "stamped" /\ lock = e
  /\ status' = "executing" /\ history' = Append(history, "executing")
  /\ lock' = NoOne
  /\ pc' = [pc EXCEPT ![e] = "top"]
  /\ at' = [at EXCEPT ![e] = index]
  /\ tracker' = [tracker EXCEPT ![e] = tokens]
  /\ UNCHANGED <<size, index, started, tokens, spawned, log,
                 tickets, deciding>>

-----------------------------------------------------------------------------
(* The loop of _run_execution_loop. *)

AtTop(e) == pc[e] = "top" /\ at[e] < size

\* The live status is terminal: halt before the next sub-objective.
Halt(e) ==
  /\ AtTop(e) /\ status \in Terminal
  /\ Leave(e)
  /\ UNCHANGED <<plan, tickets, lock, deciding>>

\* max_wall_clock_min is exceeded (when is up to the clock).
WallClockCap(e) ==
  /\ AtTop(e) /\ status \notin Terminal
  /\ Goto(e, "cap")
  /\ UNCHANGED <<plan, tickets, lock, deciding>>

\* over_cap: snapshot the totals first.
BudgetCap(e) ==
  /\ AtTop(e) /\ status \notin Terminal /\ lock = NoOne
  /\ tracker[e] > TokenCap
  /\ tokens' = tracker[e] /\ Goto(e, "cap")
  /\ UNCHANGED <<size, status, history, index, started, spawned, log,
                 tickets, lock, deciding>>

\* Cap pauses flip the status first and open the ticket second.
CapPause(e) ==
  /\ pc[e] = "cap"
  /\ SetStatus("paused") /\ Goto(e, "capticket")
  /\ UNCHANGED <<tickets, lock, deciding>>

CapTicket(e) ==
  /\ pc[e] = "capticket"
  /\ OpenPauseTicket /\ Leave(e)
  /\ UNCHANGED <<lock, deciding>>

StartKickoff(e) ==
  /\ AtTop(e) /\ status \notin Terminal /\ tracker[e] <= TokenCap
  /\ Goto(e, "kickoff")
  /\ UNCHANGED <<plan, tickets, lock, deciding>>

\* Mutant of RecordKickoff: the kickoff is counted twice.
RecordTwice(e) ==
  /\ pc[e] = "kickoff" /\ lock = NoOne
  /\ pc' = [pc EXCEPT ![e] = "reflect"]
  /\ tracker' = [tracker EXCEPT ![e] = @ + 2]
  /\ spawned' = Append(spawned, at[e] + 1) /\ tokens' = tracker[e] + 2
  /\ UNCHANGED <<size, status, history, index, started, log, at,
                 tickets, lock, deciding>>

\* The kickoff is over, successful or FAILED: record it with its spend.
RecordKickoff(e) ==
  /\ pc[e] = "kickoff" /\ lock = NoOne
  /\ pc' = [pc EXCEPT ![e] = "reflect"]
  /\ tracker' = [tracker EXCEPT ![e] = @ + 1]
  /\ spawned' = Append(spawned, at[e] + 1) /\ tokens' = tracker[e] + 1
  /\ UNCHANGED <<size, status, history, index, started, log, at,
                 tickets, lock, deciding>>

\* Mutant of AfterReflect: a major revision advances the plan too.
AdvanceUnlessAborted(o) == IF o = "abort" THEN "abort" ELSE "advance"

AfterReflect(o) ==
  IF o \in Advancing THEN "advance" ELSE IF o \in Pausing THEN "ticket" ELSE "abort"

\* The reflection parsed: append it to the log, then act on its outcome.
RecordReflection(e, o) ==
  /\ pc[e] = "reflect" /\ lock = NoOne
  /\ pc' = [pc EXCEPT ![e] = AfterReflect(o)]
  /\ tracker' = [tracker EXCEPT ![e] = @ + 1]
  /\ log' = Append(log, [after |-> at[e] + 1, outcome |-> o])
  /\ UNCHANGED <<size, status, history, index, started, tokens, spawned, at,
                 tickets, lock, deciding>>

\* It overflowed the context or did not parse: straight to the ticket.
ReflectFails(e) ==
  /\ pc[e] = "reflect"
  /\ OpenPauseTicket /\ Goto(e, "pausing")
  /\ UNCHANGED <<lock, deciding>>

Advance(e) ==
  /\ pc[e] = "advance" /\ lock = NoOne
  /\ index' = at[e] + 1
  /\ at' = [at EXCEPT ![e] = @ + 1]
  /\ pc' = [pc EXCEPT ![e] = "top"]
  /\ UNCHANGED <<size, status, history, started, tokens, spawned, log, tracker,
                 tickets, lock, deciding>>

\* revise-major and pause open the ticket first and flip the status second.
OpenTicket(e) ==
  /\ pc[e] = "ticket"
  /\ OpenPauseTicket /\ Goto(e, "pausing")
  /\ UNCHANGED <<lock, deciding>>

PauseAfterTicket(e) ==
  /\ pc[e] = "pausing"
  /\ SetStatus("paused") /\ Leave(e)
  /\ UNCHANGED <<tickets, lock, deciding>>

Abort(e) ==
  /\ pc[e] = "abort"
  /\ SetStatus("done") /\ Leave(e)
  /\ UNCHANGED <<tickets, lock, deciding>>

\* Every sub-objective is completed: done, whatever the status is by now.
Finish(e) ==
  /\ pc[e] = "top" /\ at[e] >= size
  /\ SetStatus("done") /\ Leave(e)
  /\ UNCHANGED <<tickets, lock, deciding>>

\* The daemon dies, or a write raises out of start_execution and tick
\* swallows it; the kernel drops the flock.
Crash(e) ==
  /\ e \in FaultProne /\ pc[e] # "idle"
  /\ Leave(e)
  /\ lock' = IF lock = e THEN NoOne ELSE lock
  /\ UNCHANGED <<plan, tickets, deciding>>

-----------------------------------------------------------------------------
(* Deciding: store.update_ticket_approval and plans.cancel. *)

DGoto(d, l, j) == dpc' = [dpc EXCEPT ![d] = l] /\ job' = [job EXCEPT ![d] = j]
DLeave(d) == DGoto(d, "idle", NoJob)

\* update_ticket_approval reads the ticket and finds it undecided.
BeginDecision(d, t, decision) ==
  /\ dpc[d] = "idle" /\ tickets[t] = "none"
  /\ decision = "approved" => Len(tickets) < TicketBound
  /\ DGoto(d, "write", Job(t, decision))
  /\ UNCHANGED <<plan, tickets, lock, locals>>

\* It writes the ticket; the lock it holds is that of its own process.
WriteDecision(d) ==
  /\ dpc[d] = "write"
  /\ tickets' = [tickets EXCEPT ![job[d].ticket] = job[d].decision]
  /\ DGoto(d, "flip", job[d])
  /\ UNCHANGED <<plan, lock, locals>>

\* mark_approved or mark_declined, whatever the plan's status is by now.
FlipPlan(d) ==
  /\ dpc[d] = "flip"
  /\ SetStatus(IF job[d].decision = "approved" THEN "approved" ELSE "declined")
  /\ DLeave(d)
  /\ UNCHANGED <<tickets, lock, locals>>

\* The flip raised and is tolerated: ticket decided, plan unreconciled.
FlipFails(d) ==
  /\ d \in FaultProne /\ dpc[d] = "flip"
  /\ DLeave(d)
  /\ UNCHANGED <<plan, tickets, lock, locals>>

\* plans.cancel: a lock-free read of the status ...
CancelLoad(d) ==
  /\ dpc[d] = "idle" /\ status \notin Terminal
  /\ DGoto(d, "cancel", NoJob)
  /\ UNCHANGED <<plan, tickets, lock, locals>>

\* ... then a scan for the plan's pending ticket ...
CancelFind(d) ==
  /\ dpc[d] = "cancel"
  /\ \/ \E t \in Pending : DGoto(d, "recheck", Job(t, "denied"))
     \/ Pending = {} /\ DGoto(d, "decline", NoJob)
  /\ UNCHANGED <<plan, tickets, lock, locals>>

\* ... which is denied, unless it was decided meanwhile and that raises.
CancelDecide(d) ==
  /\ dpc[d] = "recheck"
  /\ IF tickets[job[d].ticket] = "none" THEN DGoto(d, "write", job[d])
                                    ELSE DLeave(d)
  /\ UNCHANGED <<plan, tickets, lock, locals>>

\* Without one the plan itself is declined.
CancelDecline(d) ==
  /\ dpc[d] = "decline"
  /\ SetStatus("declined") /\ DLeave(d)
  /\ UNCHANGED <<tickets, lock, locals>>

DeciderCrash(d) ==
  /\ d \in FaultProne /\ dpc[d] # "idle"
  /\ DLeave(d)
  /\ UNCHANGED <<plan, tickets, lock, locals>>

-----------------------------------------------------------------------------
ExecutorStep(e) ==
  \/ Pick(e) \/ RejectBody(e) \/ ClaimLost(e) \/ ClaimStamp(e) \/ ClaimFlip(e)
  \/ Halt(e) \/ WallClockCap(e) \/ BudgetCap(e) \/ CapPause(e) \/ CapTicket(e)
  \/ StartKickoff(e) \/ RecordKickoff(e)
  \/ \E o \in Outcomes : RecordReflection(e, o)
  \/ ReflectFails(e) \/ Advance(e) \/ OpenTicket(e) \/ PauseAfterTicket(e)
  \/ Abort(e) \/ Finish(e)

\* What a decider goes on to do once an operator has asked for it.
DeciderStep(d) ==
  \/ WriteDecision(d) \/ FlipPlan(d) \/ FlipFails(d)
  \/ CancelFind(d) \/ CancelDecide(d) \/ CancelDecline(d)

OperatorAsks(d) ==
  \/ \E t \in DOMAIN tickets, c \in {"approved", "denied"} : BeginDecision(d, t, c)
  \/ CancelLoad(d)

Next ==
  \/ \E e \in Executors : ExecutorStep(e) \/ Crash(e)
  \/ \E d \in Deciders : DeciderStep(d) \/ OperatorAsks(d) \/ DeciderCrash(d)

Spec == Init /\ [][Next]_vars

\* A live daemon keeps ticking and a call in progress goes on; nobody is
\* obliged to decide anything, and a cap need never be exceeded.
Fairness ==
  /\ \A e \in Executors : WF_vars(ExecutorStep(e))
  /\ \A d \in Deciders : WF_vars(DeciderStep(d))

FairSpec == Spec /\ Fairness

-----------------------------------------------------------------------------
(* Properties. *)

\* Every variable has its type.
TypeOK ==
  /\ status \in Statuses /\ history \in Seq(Statuses)
  /\ index \in 0..size /\ started \in BOOLEAN /\ tokens \in Nat
  /\ spawned \in Seq(1..size)
  /\ log \in Seq([after : 1..size, outcome : ReflectOutcomes])
  /\ tickets \in Seq(Decisions)
  /\ lock \in Executors \cup {NoOne}
  /\ pc \in [Executors -> ExecutorPCs]
  /\ at \in [Executors -> 0..size]
  /\ tracker \in [Executors -> Nat]
  /\ dpc \in [Deciders -> DeciderPCs]
  /\ job \in [Deciders -> [ticket : Nat, decision : Decisions]]

\* At most one daemon runs the plan, from its claim to the last thing it does
\* for the run: what the flock around the read-and-flip is for.
SingleRunner == \A e, f \in Running : e = f

\* In the plan's own audit trail every claim answers an approval of its own:
\* no approval is executed twice, and none is executed after something else
\* happened to the plan.
ExecutionFollowsApproval ==
  \A i \in DOMAIN history : history[i] = "executing" =>
    i > 1 /\ history[i - 1] = "approved"

\* Whoever runs the plan is exactly where its file says, so a resume neither
\* repeats a completed sub-objective nor skips one; and a plan that reads
\* executing has its execution_started_at, so a crash in the middle of a claim
\* cannot switch the wall-clock cap off for the run that resumes.
AtResumePoint == \A e \in Running : at[e] = index
ExecutingIsStamped == status = "executing" => started
ResumePoint == AtResumePoint /\ ExecutingIsStamped

Accepted(i) == \E k \in DOMAIN log : log[k].after = i /\ log[k].outcome \in Advancing
Fired(i) == \E k \in DOMAIN spawned : spawned[k] = i

\* Behind the resume point every sub-objective was fired and accepted by a
\* reflection, whatever crashed or paused; and a plan is marked done only when
\* nothing is left of it, or when the Leader aborted it.
Passed == \A i \in 1..index : Fired(i) /\ Accepted(i)
DoneMeansFinished ==
  status = "done" =>
    \/ index = size
    \/ \E k \in DOMAIN log : log[k].outcome = "abort"
NothingSkipped == Passed /\ DoneMeansFinished

\* The persisted spend never exceeds the model calls on record, and never
\* goes back: a resume continues the count.
SpendIsBacked == tokens <= Len(spawned) + Len(log)
SpendNeverResets == [][tokens' >= tokens]_tokens

\* A decision on a ticket is final (update_ticket_approval).
DecisionsAreFinal ==
  [][\A t \in DOMAIN tickets : tickets[t] # "none" => tickets'[t] = tickets[t]]_tickets

\* The plan's life is one of PlanGrant: one permit, one worker at a time, the
\* resume point moving one sub-objective at a time and only by the worker.
Approving == {d \in Deciders : dpc[d] = "flip" /\ job[d].decision = "approved"}
permitNow == IF Pending # {} THEN "asked"
             ELSE IF status = "approved" \/ Approving # {} THEN "granted"
             ELSE "none"
workerNow == IF Running = {} THEN NoOne ELSE CHOOSE e \in Running : TRUE

PG == INSTANCE PlanGrant WITH
        Workers <- Executors, NoWorker <- NoOne, MaxSteps <- MaxSubObjectives,
        permit <- permitNow, worker <- workerNow, done <- index
ImplementsGrant == PG!GrantSpec

\* Every run a daemon starts comes to an end.
RunsEnd == \A e \in Executors : pc[e] # "idle" ~> pc[e] = "idle"

\* An approved plan does not stay unclaimed while a daemon lives.
ApprovedIsPickedUp == status = "approved" ~> status # "approved"

-----------------------------------------------------------------------------
(* What the comments and the documentation say, and the code does not do. *)

\* plans.py, on the status values: declined and done are terminal.
DeclinedIsTerminal == [][status = "declined" => status' = "declined"]_status

\* plans.py: while a plan is paused a resumption ticket is open.  Asked only
\* when nobody is in the middle of anything.
Quiet == (\A e \in Executors : pc[e] = "idle") /\ (\A d \in Deciders : dpc[d] = "idle")
PausedHasTicket == Quiet /\ status = "paused" => Pending # {}

\* 20-daemon.md: after a crash a restarted daemon claims the plan again.
CrashedPlanIsResumed == status = "executing" ~> status # "executing"

=============================================================================
