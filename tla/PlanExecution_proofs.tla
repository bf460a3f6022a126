------------------------ MODULE PlanExecution_proofs ------------------------
(* Proofs about PlanExecution, for every value of its constants. *)
EXTENDS PlanExecution, TLAPS

-----------------------------------------------------------------------------
(* Types. *)

\* An executor inside an iteration of the loop has a sub-objective to work on.
InLoop == {"kickoff", "reflect", "advance", "ticket", "abort", "cap"}
LoopInv == \A e \in Executors : pc[e] \in InLoop => at[e] < size

\* A decider about to write a ticket works on one that exists.
JobInv == \A d \in Deciders :
  dpc[d] \in {"write", "recheck", "flip"} => job[d].ticket \in DOMAIN tickets

TypeInv == TypeOK /\ size \in Nat /\ LoopInv /\ JobInv

LEMMA TypeInit == Init => TypeInv
<1> SUFFICES ASSUME Init PROVE TypeInv
  OBVIOUS
<1> USE DEF Init
<1>1. size \in Nat  BY PlanAssumption
<1>2. /\ history \in Seq(Statuses) /\ status \in Statuses
      /\ spawned \in Seq(1..size)
      /\ log \in Seq([after : 1..size, outcome : ReflectOutcomes])
  BY DEF Statuses
<1>3. tickets \in Seq(Decisions)  BY DEF Decisions
<1>4. /\ pc \in [Executors -> ExecutorPCs] /\ dpc \in [Deciders -> DeciderPCs]
      /\ job \in [Deciders -> [ticket : Nat, decision : Decisions]]
  BY DEF ExecutorPCs, DeciderPCs, NoJob, Decisions
<1>5. started \in BOOLEAN /\ lock \in Executors \cup {NoOne}
  OBVIOUS
<1>6. 0 \in 0..size  BY <1>1
<1>7. /\ index \in 0..size /\ tokens \in Nat
      /\ at \in [Executors -> 0..size] /\ tracker \in [Executors -> Nat]
  BY <1>6
<1>8. LoopInv /\ JobInv  BY DEF LoopInv, JobInv, InLoop
<1> HIDE DEF Init
<1> QED BY <1>1, <1>2, <1>3, <1>4, <1>5, <1>7, <1>8 DEF TypeInv, TypeOK

LEMMA TypeExecutor ==
  ASSUME TypeInv, NEW e \in Executors, ExecutorStep(e) \/ Crash(e)
  PROVE  TypeInv'
<1> USE PlanAssumption DEF TypeInv, TypeOK, LoopInv, JobInv, InLoop,
        ExecutorPCs, plan, locals, deciding, Goto, Leave
<1>1. CASE Pick(e)  BY <1>1 DEF Pick
<1>2. CASE RejectBody(e)  BY <1>2 DEF RejectBody, SetStatus, Statuses
<1>3. CASE ClaimLost(e)  BY <1>3 DEF ClaimLost
<1>4. CASE ClaimStamp(e)  BY <1>4 DEF ClaimStamp
<1>5. CASE ClaimFlip(e)  BY <1>5 DEF ClaimFlip, Statuses
<1>6. CASE Halt(e)  BY <1>6 DEF Halt
<1>7. CASE WallClockCap(e)  BY <1>7 DEF WallClockCap, AtTop
<1>8. CASE BudgetCap(e)  BY <1>8 DEF BudgetCap, AtTop
<1>9. CASE CapPause(e)  BY <1>9 DEF CapPause, SetStatus, Statuses
<1>10. CASE CapTicket(e)  BY <1>10 DEF CapTicket, OpenPauseTicket, Decisions
<1>11. CASE StartKickoff(e)  BY <1>11 DEF StartKickoff, AtTop
<1>12. CASE RecordKickoff(e)
  <2>1. at[e] + 1 \in 1..size /\ tracker[e] + 1 \in Nat  BY <1>12 DEF RecordKickoff
  <2>2. spawned' \in Seq(1..size)  BY <2>1, <1>12 DEF RecordKickoff
  <2> QED BY <2>1, <2>2, <1>12 DEF RecordKickoff
<1>13. ASSUME NEW o \in Outcomes, RecordReflection(e, o)  PROVE TypeInv'
  <2>1. at[e] + 1 \in 1..size /\ o \in ReflectOutcomes  BY <1>13 DEF RecordReflection
  <2>2. log' \in Seq([after : 1..size, outcome : ReflectOutcomes])
    BY <2>1, <1>13 DEF RecordReflection
  <2>3. AfterReflect(o) \in {"advance", "ticket", "abort"}  BY DEF AfterReflect
  <2> QED BY SMTT(30), <2>2, <2>3, <1>13 DEF RecordReflection
<1>14. CASE ReflectFails(e)  BY <1>14 DEF ReflectFails, OpenPauseTicket, Decisions
<1>15. CASE Advance(e)  BY <1>15 DEF Advance
<1>16. CASE OpenTicket(e)  BY <1>16 DEF OpenTicket, OpenPauseTicket, Decisions
<1>17. CASE PauseAfterTicket(e)  BY <1>17 DEF PauseAfterTicket, SetStatus, Statuses
<1>18. CASE Abort(e)  BY <1>18 DEF Abort, SetStatus, Statuses
<1>19. CASE Finish(e)  BY <1>19 DEF Finish, SetStatus, Statuses
<1>20. CASE Crash(e)  BY <1>20 DEF Crash
<1> QED BY <1>1, <1>2, <1>3, <1>4, <1>5, <1>6, <1>7, <1>8, <1>9, <1>10, <1>11,
           <1>12, <1>13, <1>14, <1>15, <1>16, <1>17, <1>18, <1>19, <1>20
        DEF ExecutorStep

LEMMA TypeDecider ==
  ASSUME TypeInv, NEW d \in Deciders,
         DeciderStep(d) \/ OperatorAsks(d) \/ DeciderCrash(d)
  PROVE  TypeInv'
<1> USE PlanAssumption DEF TypeInv, TypeOK, LoopInv, JobInv, InLoop, DeciderPCs,
        plan, locals, deciding, DGoto, DLeave, NoJob, Job, Decisions
<1>1. CASE WriteDecision(d)  BY <1>1 DEF WriteDecision
<1>2. CASE FlipPlan(d)  BY <1>2 DEF FlipPlan, SetStatus, Statuses
<1>3. CASE FlipFails(d)  BY <1>3 DEF FlipFails
<1>4. CASE CancelFind(d)
  <2>1. ASSUME NEW t \in Pending, DGoto(d, "recheck", Job(t, "denied"))
        PROVE  TypeInv'
    <3>1. t \in DOMAIN tickets /\ t \in Nat  BY DEF Pending
    <3> QED BY <2>1, <3>1, <1>4 DEF CancelFind
  <2>2. ASSUME DGoto(d, "decline", NoJob)  PROVE TypeInv'
    BY <2>2, <1>4 DEF CancelFind
  <2> QED BY <2>1, <2>2, <1>4 DEF CancelFind
<1>5. CASE CancelDecide(d)
  <2>1. job[d] \in [ticket : Nat, decision : Decisions]  OBVIOUS
  <2>2. CASE DGoto(d, "write", job[d])  BY <2>1, <2>2, <1>5 DEF CancelDecide
  <2>3. CASE DLeave(d)  BY <2>3, <1>5 DEF CancelDecide
  <2> QED BY <2>2, <2>3, <1>5 DEF CancelDecide
<1>6. CASE CancelDecline(d)  BY <1>6 DEF CancelDecline, SetStatus, Statuses
<1>7. ASSUME NEW t \in DOMAIN tickets, NEW c \in {"approved", "denied"},
             BeginDecision(d, t, c)
      PROVE  TypeInv'
  BY <1>7 DEF BeginDecision
<1>8. CASE CancelLoad(d)  BY <1>8 DEF CancelLoad
<1>9. CASE DeciderCrash(d)  BY <1>9 DEF DeciderCrash
<1> HIDE DEF TypeInv, TypeOK, LoopInv, JobInv, plan, locals, deciding
<1> QED BY <1>1, <1>2, <1>3, <1>4, <1>5, <1>6, <1>7, <1>8, <1>9
        DEF DeciderStep, OperatorAsks

LEMMA TypeStep == TypeInv /\ [Next]_vars => TypeInv'
<1> SUFFICES ASSUME TypeInv, [Next]_vars PROVE TypeInv'
  OBVIOUS
<1>1. CASE UNCHANGED vars
  BY <1>1 DEF vars, plan, locals, deciding, TypeInv, TypeOK, LoopInv, JobInv
<1> QED BY <1>1, TypeExecutor, TypeDecider DEF Next

\* Every reachable state is well typed, whatever crashes.
THEOREM TypeCorrect == Spec => []TypeOK
<1>1. TypeInv => TypeOK  BY DEF TypeInv
<1> QED BY <1>1, TypeInit, TypeStep, PTL DEF Spec

-----------------------------------------------------------------------------
(* What the flock around the claim gives: the audit trail and the stamp.    *)

LEMMA AppendFacts ==
  ASSUME NEW S, NEW q \in Seq(S), NEW x \in S
  PROVE  /\ Append(q, x) \in Seq(S) /\ Len(Append(q, x)) = Len(q) + 1
         /\ DOMAIN Append(q, x) = 1..(Len(q) + 1) /\ DOMAIN q = 1..Len(q)
         /\ Append(q, x)[Len(q) + 1] = x /\ Len(q) \in Nat
         /\ \A i \in 1..Len(q) : Append(q, x)[i] = q[i]
  OBVIOUS

LastIs(s) == history # <<>> /\ history[Len(history)] = s

\* While somebody is between the stamp and the flip, the lock is theirs and
\* the plan is still the approved one they read.
LockInv ==
  /\ \A e \in Executors : pc[e] = "stamped" <=> lock = e
  /\ lock # NoOne => status = "approved" /\ started

TrailInv ==
  /\ ExecutionFollowsApproval /\ ExecutingIsStamped /\ LockInv
  /\ status = "approved" => LastIs("approved")

LEMMA TrailAppend ==
  ASSUME TypeOK, ExecutionFollowsApproval, NEW s \in Statuses,
         s = "executing" => LastIs("approved"), history' = Append(history, s)
  PROVE  ExecutionFollowsApproval' /\ LastIs(s)'
<1>1. /\ Len(history) \in Nat /\ DOMAIN history = 1..Len(history)
      /\ DOMAIN history' = 1..(Len(history) + 1) /\ Len(history') = Len(history) + 1
      /\ history'[Len(history) + 1] = s
      /\ \A i \in 1..Len(history) : history'[i] = history[i]
      /\ history \in Seq(Statuses)
  BY AppendFacts DEF TypeOK
<1>2. LastIs(s)'
  BY <1>1 DEF LastIs
<1>3. ASSUME NEW i \in DOMAIN history', history'[i] = "executing"
      PROVE  i > 1 /\ history'[i - 1] = "approved"
  <2>1. CASE i = Len(history) + 1
    <3>1. s = "executing" /\ LastIs("approved")  BY <1>1, <1>3, <2>1
    <3>2. Len(history) > 0  BY <1>1, <3>1 DEF LastIs
    <3>3. history[Len(history)] = "approved"  BY <3>1 DEF LastIs
    <3>4. history'[Len(history)] = "approved"
      <4>1. Len(history) \in 1..Len(history)  BY <1>1, <3>2
      <4>2. \A k \in 1..Len(history) : history'[k] = history[k]  BY <1>1
      <4>3. history'[Len(history)] = history[Len(history)]  BY <4>1, <4>2, Zenon
      <4> QED BY <4>3, <3>3
    <3>5. i > 1 /\ i - 1 = Len(history)  BY <1>1, <2>1, <3>2
    <3> QED BY <3>4, <3>5
  <2>2. CASE i # Len(history) + 1
    <3>1. i \in 1..Len(history)  BY <1>1, <2>2
    <3>2. i > 1 /\ history[i - 1] = "approved"
      BY <1>1, <1>3, <3>1 DEF ExecutionFollowsApproval
    <3> QED BY <1>1, <3>1, <3>2
  <2> QED BY <2>1, <2>2
<1> QED BY <1>2, <1>3 DEF ExecutionFollowsApproval

LEMMA TrailSame ==
  ASSUME TrailInv, UNCHANGED <<status, history>>, started' = started \/ started' = TRUE,
         LockInv'
  PROVE  TrailInv'
BY DEF TrailInv, ExecutionFollowsApproval, ExecutingIsStamped, LastIs

\* A status is set without the lock by everything but the claim.
LEMMA TrailSet ==
  ASSUME TypeOK, TrailInv, NEW s \in Statuses \ {"executing"}, SetStatus(s), LockInv'
  PROVE  TrailInv'
<1>1. ExecutionFollowsApproval' /\ LastIs(s)'
  BY TrailAppend DEF TrailInv, SetStatus
<1>2. status' = s  BY DEF SetStatus
<1> QED BY <1>1, <1>2 DEF TrailInv, ExecutingIsStamped

LEMMA TrailInit == Init => TrailInv
<1> SUFFICES ASSUME Init PROVE TrailInv
  OBVIOUS
<1>1. history = <<>> /\ status = "draft"  BY DEF Init
<1>2. LockInv  BY PlanAssumption DEF Init, LockInv
<1> QED BY <1>1, <1>2 DEF TrailInv, ExecutionFollowsApproval, ExecutingIsStamped

LEMMA TrailStep == TypeInv /\ TrailInv /\ [Next]_vars => TrailInv'
<1> SUFFICES ASSUME TypeInv, TrailInv, [Next]_vars PROVE TrailInv'
  OBVIOUS
<1>0. TypeOK /\ LockInv  BY DEF TypeInv, TrailInv
<1>1. CASE UNCHANGED vars
  BY <1>1, <1>0, TrailSame DEF vars, plan, locals, LockInv
<1>2. ASSUME NEW d \in Deciders, DeciderStep(d) \/ OperatorAsks(d) \/ DeciderCrash(d)
      PROVE  TrailInv'
  <2>1. lock' = lock /\ pc' = pc
    BY <1>2 DEF DeciderStep, OperatorAsks, DeciderCrash, WriteDecision, FlipPlan,
       FlipFails, CancelFind, CancelDecide, CancelDecline, BeginDecision, CancelLoad, locals
  <2>2. CASE FlipPlan(d) \/ CancelDecline(d)
    <3>1. PICK s \in {"approved", "declined"} : SetStatus(s)
      BY <2>2 DEF FlipPlan, CancelDecline
    <3>2. LockInv'  BY <1>0, <2>1, <3>1 DEF LockInv, SetStatus
    <3> QED BY <1>0, <3>1, <3>2, TrailSet DEF Statuses
  <2>3. CASE ~(FlipPlan(d) \/ CancelDecline(d))
    <3>1. UNCHANGED plan
      BY <1>2, <2>3 DEF DeciderStep, OperatorAsks, DeciderCrash, WriteDecision,
         FlipFails, CancelFind, CancelDecide, BeginDecision, CancelLoad
    <3> QED BY <1>0, <2>1, <3>1, TrailSame DEF plan, LockInv
  <2> QED BY <2>2, <2>3
<1>3. ASSUME NEW e \in Executors, ExecutorStep(e) \/ Crash(e)
      PROVE  TrailInv'
  <2> USE <1>0, PlanAssumption DEF Goto, Leave
  <2>1. pc \in [Executors -> ExecutorPCs]  BY DEF TypeOK
  <2>2. CASE RejectBody(e) \/ CapPause(e) \/ PauseAfterTicket(e) \/ Abort(e) \/ Finish(e)
    <3>1. PICK s \in {"paused", "done"} : SetStatus(s)
      BY <2>2 DEF RejectBody, CapPause, PauseAfterTicket, Abort, Finish
    <3>2. lock' = NoOne /\ lock = NoOne /\ pc[e] # "stamped" /\ pc'[e] # "stamped"
          /\ \A f \in Executors \ {e} : pc'[f] = pc[f]
      BY <2>1, <2>2 DEF RejectBody, CapPause, PauseAfterTicket, Abort, Finish, SetStatus
    <3>3. LockInv'  BY <3>2 DEF LockInv
    <3> QED BY <3>1, <3>3, TrailSet DEF Statuses
  <2>3. CASE ClaimStamp(e)
    <3>1. LockInv'  BY <2>1, <2>3 DEF ClaimStamp, LockInv
    <3> QED BY <2>3, <3>1, TrailSame DEF ClaimStamp
  <2>4. CASE ClaimFlip(e)
    <3>1. LastIs("approved") /\ started  BY <2>4 DEF ClaimFlip, LockInv, TrailInv
    <3>2. ExecutionFollowsApproval'
      BY <2>4, <3>1, TrailAppend DEF ClaimFlip, TrailInv, Statuses
    <3>3. LockInv'  BY <2>1, <2>4 DEF ClaimFlip, LockInv
    <3> QED BY <2>4, <3>1, <3>2, <3>3 DEF ClaimFlip, TrailInv, ExecutingIsStamped
  <2>5. CASE Crash(e)
    <3>1. LockInv'  BY <2>1, <2>5 DEF Crash, LockInv, plan
    <3> QED BY <2>5, <3>1, TrailSame DEF Crash, plan
  <2>6. CASE \/ Pick(e) \/ ClaimLost(e) \/ Halt(e) \/ WallClockCap(e) \/ CapTicket(e)
             \/ StartKickoff(e) \/ ReflectFails(e) \/ OpenTicket(e)
    <3>1. UNCHANGED plan /\ lock' = lock /\ pc[e] # "stamped" /\ pc'[e] # "stamped"
          /\ \A f \in Executors \ {e} : pc'[f] = pc[f]
      BY <2>1, <2>6 DEF Pick, ClaimLost, Halt, WallClockCap, CapTicket, StartKickoff,
         ReflectFails, OpenTicket, OpenPauseTicket, AtTop
    <3>2. LockInv'  BY <3>1 DEF LockInv, plan
    <3> QED BY <3>1, <3>2, TrailSame DEF plan
  <2>7. CASE \/ BudgetCap(e) \/ RecordKickoff(e) \/ Advance(e)
             \/ \E o \in Outcomes : RecordReflection(e, o)
    <3>1. UNCHANGED <<status, history, started, lock>>
          /\ pc[e] # "stamped" /\ pc'[e] # "stamped"
          /\ \A f \in Executors \ {e} : pc'[f] = pc[f]
      BY <2>1, <2>7 DEF BudgetCap, RecordKickoff, Advance, RecordReflection, AtTop,
         AfterReflect
    <3>2. LockInv'  BY <3>1 DEF LockInv
    <3> QED BY <3>1, <3>2, TrailSame
  <2> QED BY <1>3, <2>2, <2>3, <2>4, <2>5, <2>6, <2>7 DEF ExecutorStep
<1> QED BY <1>1, <1>2, <1>3 DEF Next

\* Every claim in the audit trail of the plan answers an approval of its own:
\* however many daemons and operators there are, whatever crashes, and even
\* when a ticket is decided twice, the check under the flock is enough.
THEOREM ClaimsAnswerApprovals == Spec => []ExecutionFollowsApproval
<1>1. TrailInv => ExecutionFollowsApproval  BY DEF TrailInv
<1> QED BY <1>1, TypeInit, TypeStep, TrailInit, TrailStep, PTL DEF Spec

\* A plan that reads executing has its start time, so the wall-clock cap is
\* in force after a crash at any point of the claim.
THEOREM ExecutingStamped == Spec => []ExecutingIsStamped
<1>1. TrailInv => ExecutingIsStamped  BY DEF TrailInv
<1> QED BY <1>1, TypeInit, TypeStep, TrailInit, TrailStep, PTL DEF Spec

-----------------------------------------------------------------------------
(* What the approval gate gives: one permit, one runner.                    *)

\* What start_execution and the in-process store lock take for granted: a body
\* that parses, and operators who all use the same process.
OneGate ==
  /\ BodySizes \subseteq 1..MaxSubObjectives
  /\ \A c, d \in Deciders : c = d

\* Somebody may start the plan, or is about to be allowed to.
Granted == status = "approved" \/ Approving # {}

\* The right to run the plan is at one place at a time: in a ticket nobody has
\* decided, in an approval on its way to the plan file, in the file, or with
\* the daemon that claimed it.
GateInv ==
  /\ WellFormed /\ \A e \in Executors : pc[e] # "malformed"
  /\ SingleRunner
  /\ \A s, t \in Pending : s = t
  /\ Running # {} => Pending = {}
  /\ Granted => Pending = {} /\ Running = {}
  /\ Approving # {} => status # "approved"
  /\ \A d \in Deciders : dpc[d] = "write" => tickets[job[d].ticket] = "none"

LEMMA GateInit == OneGate /\ Init => GateInv
<1> SUFFICES ASSUME OneGate, Init PROVE GateInv
  OBVIOUS
<1>1. WellFormed /\ \A e \in Executors : pc[e] # "malformed"
  BY DEF OneGate, Init, WellFormed
<1>2. Running = {} /\ ~Granted
  BY DEF Init, Running, Granted, Approving
<1>3. \A s, t \in Pending : s = t
  BY DEF Init, Pending
<1>4. Approving = {} /\ \A d \in Deciders : dpc[d] # "write"
  BY DEF Init, Approving
<1> QED BY <1>1, <1>2, <1>3, <1>4 DEF GateInv, SingleRunner

\* A runner that goes on or stops, without asking for anything.
LEMMA GateQuiet ==
  ASSUME GateInv, Running' \subseteq Running,
         status' = status \/ status' # "approved",
         UNCHANGED <<size, tickets, dpc, job>>,
         \A e \in Executors : pc'[e] # "malformed"
  PROVE  GateInv'
<1>1. Pending' = Pending /\ Approving' = Approving /\ WellFormed'
  BY DEF GateInv, Pending, Approving, WellFormed
<1>2. Granted' => Granted  BY <1>1 DEF Granted
<1> QED BY <1>1, <1>2 DEF GateInv, SingleRunner

\* The runner stops and asks for a new approval.
LEMMA GateAsk ==
  ASSUME TypeOK, GateInv, NEW e \in Running, Running' = Running \ {e},
         tickets' = Append(tickets, "none"),
         UNCHANGED <<size, status, dpc, job>>,
         \A d \in Deciders : dpc[d] = "write" => job[d].ticket \in DOMAIN tickets,
         \A f \in Executors : pc'[f] # "malformed"
  PROVE  GateInv'
<1>1. Running' = {} /\ Pending = {} /\ ~Granted  BY DEF GateInv, SingleRunner
<1>2. /\ DOMAIN tickets' = 1..(Len(tickets) + 1) /\ DOMAIN tickets = 1..Len(tickets)
      /\ Len(tickets) \in Nat
      /\ \A i \in 1..Len(tickets) : tickets'[i] = tickets[i]
  BY AppendFacts DEF TypeOK, Decisions
<1>3. \A t \in Pending' : t = Len(tickets) + 1  BY <1>1, <1>2 DEF Pending
<1>4. Approving' = Approving /\ ~Granted'  BY <1>1 DEF Approving, Granted
<1>5. \A d \in Deciders : dpc'[d] = "write" => tickets'[job'[d].ticket] = "none"
  BY <1>2 DEF GateInv
<1> QED BY <1>1, <1>3, <1>4, <1>5 DEF GateInv, WellFormed, SingleRunner, Granted

LEMMA GateExecutor ==
  ASSUME TypeInv, TrailInv, GateInv, NEW e \in Executors, ExecutorStep(e) \/ Crash(e)
  PROVE  GateInv'
<1> USE DEF Goto, Leave
<1>1. /\ pc \in [Executors -> ExecutorPCs] /\ TypeOK /\ WellFormed
      /\ \A f \in Executors : pc[f] # "malformed"
      /\ \A d \in Deciders : dpc[d] = "write" => job[d].ticket \in DOMAIN tickets
  BY DEF TypeInv, TypeOK, GateInv, JobInv
<1>2. CASE \/ Pick(e) \/ ClaimLost(e) \/ Halt(e) \/ WallClockCap(e) \/ StartKickoff(e)
           \/ Crash(e) \/ BudgetCap(e) \/ RecordKickoff(e) \/ Advance(e) \/ ClaimStamp(e)
           \/ \E o \in Outcomes : RecordReflection(e, o)
  <2>1. UNCHANGED <<size, status, tickets, dpc, job>>
    BY <1>2 DEF Pick, ClaimLost, Halt, WallClockCap, StartKickoff, Crash, BudgetCap,
       RecordKickoff, Advance, ClaimStamp, RecordReflection, plan, deciding
  <2>2. pc'[e] # "malformed" /\ \A f \in Executors \ {e} : pc'[f] = pc[f]
    BY <1>1, <1>2 DEF Pick, ClaimLost, Halt, WallClockCap, StartKickoff, Crash, BudgetCap,
       RecordKickoff, Advance, ClaimStamp, RecordReflection, AfterReflect
  <2>3. e \in Running' => e \in Running
    BY <1>1, <1>2 DEF Pick, ClaimLost, Halt, WallClockCap, StartKickoff, Crash, BudgetCap,
       RecordKickoff, Advance, ClaimStamp, RecordReflection, AfterReflect, AtTop, Running
  <2>4. Running' \subseteq Running  BY <2>2, <2>3 DEF Running
  <2> QED BY <1>1, <2>1, <2>2, <2>4, GateQuiet
<1>3. CASE CapPause(e) \/ PauseAfterTicket(e) \/ Abort(e) \/ Finish(e)
  <2>1. UNCHANGED <<size, tickets, dpc, job>> /\ status' # "approved"
    BY <1>3 DEF CapPause, PauseAfterTicket, Abort, Finish, SetStatus, deciding
  <2>2. pc'[e] # "malformed" /\ \A f \in Executors \ {e} : pc'[f] = pc[f]
    BY <1>1, <1>3 DEF CapPause, PauseAfterTicket, Abort, Finish
  <2>3. e \in Running' => e \in Running
    BY <1>1, <1>3 DEF CapPause, PauseAfterTicket, Abort, Finish, Running
  <2>4. Running' \subseteq Running  BY <2>2, <2>3 DEF Running
  <2> QED BY <1>1, <2>1, <2>2, <2>4, GateQuiet
<1>4. CASE CapTicket(e) \/ ReflectFails(e) \/ OpenTicket(e)
  <2>1. tickets' = Append(tickets, "none") /\ UNCHANGED <<size, status, dpc, job>>
    BY <1>4 DEF CapTicket, ReflectFails, OpenTicket, OpenPauseTicket, plan, deciding
  <2>2. /\ pc[e] \in {"capticket", "reflect", "ticket"} /\ pc'[e] \in {"idle", "pausing"}
        /\ \A f \in Executors \ {e} : pc'[f] = pc[f]
    BY <1>1, <1>4 DEF CapTicket, ReflectFails, OpenTicket
  <2>3. e \in Running /\ Running' = Running \ {e}  BY <2>2 DEF Running
  <2> QED BY <1>1, <2>1, <2>2, <2>3, GateAsk
<1>5. CASE ClaimFlip(e)
  <2>1. status = "approved"  BY <1>5, PlanAssumption DEF ClaimFlip, TrailInv, LockInv
  <2>2. Pending = {} /\ Running = {} /\ Approving = {}
    BY <2>1 DEF GateInv, Granted
  <2>3. pc'[e] = "top" /\ \A f \in Executors \ {e} : pc'[f] = pc[f]
    BY <1>1, <1>5 DEF ClaimFlip
  <2>4. Running' = {e}  BY <2>2, <2>3 DEF Running
  <2>5. Pending' = {} /\ Approving' = {} /\ status' = "executing" /\ WellFormed'
    BY <1>1, <1>5, <2>2 DEF ClaimFlip, Pending, Approving, deciding, WellFormed
  <2>6. \A d \in Deciders : dpc'[d] = "write" => tickets'[job'[d].ticket] = "none"
    BY <1>5 DEF ClaimFlip, deciding, GateInv
  <2> QED BY <1>1, <2>3, <2>4, <2>5, <2>6 DEF GateInv, SingleRunner, Granted
<1>6. ~RejectBody(e)  BY <1>1 DEF RejectBody
<1> QED BY <1>2, <1>3, <1>4, <1>5, <1>6 DEF ExecutorStep

LEMMA GateDecider ==
  ASSUME OneGate, TypeInv, GateInv, NEW d \in Deciders,
         DeciderStep(d) \/ OperatorAsks(d) \/ DeciderCrash(d)
  PROVE  GateInv'
<1> USE DEF DGoto, DLeave, NoJob, Job
<1>1. /\ dpc \in [Deciders -> DeciderPCs] /\ TypeOK /\ WellFormed
      /\ job \in [Deciders -> [ticket : Nat, decision : Decisions]]
      /\ \A c \in Deciders : c = d
      /\ dpc[d] \in {"write", "recheck", "flip"} => job[d].ticket \in DOMAIN tickets
  BY DEF TypeInv, TypeOK, GateInv, JobInv, OneGate
<1>2. UNCHANGED <<size, pc>>
  BY DEF DeciderStep, OperatorAsks, DeciderCrash, WriteDecision, FlipPlan,
     FlipFails, CancelFind, CancelDecide, CancelDecline, BeginDecision, CancelLoad,
     locals, plan, SetStatus
<1>3. /\ WellFormed' /\ \A e \in Executors : pc'[e] # "malformed"
      /\ Running' = Running /\ SingleRunner'
  BY <1>2 DEF GateInv, WellFormed, Running, SingleRunner
<1>4. CASE WriteDecision(d)
  <2> DEFINE t == job[d].ticket
  <2>1. tickets[t] = "none" /\ t \in DOMAIN tickets /\ dpc[d] = "write"
    BY <1>1, <1>4 DEF WriteDecision, GateInv
  <2>2. Pending = {t}  BY <2>1 DEF Pending, GateInv
  <2>3. Running = {} /\ ~Granted  BY <2>2 DEF GateInv
  <2>4. /\ DOMAIN tickets' = DOMAIN tickets
        /\ \A s \in DOMAIN tickets \ {t} : tickets'[s] = tickets[s]
        /\ tickets'[t] = job[d].decision
    BY <1>1, <1>4, <2>1 DEF WriteDecision, TypeOK
  <2>5. Pending' \subseteq {t}  BY <2>2, <2>4 DEF Pending
  <2>6. status' = status /\ dpc'[d] = "flip" /\ job'[d] = job[d]
    BY <1>1, <1>4 DEF WriteDecision, plan
  <2>7. Approving' # {} => job[d].decision = "approved"
    BY <1>1, <2>6 DEF Approving
  <2>8. Approving' # {} => Pending' = {}
    BY <2>4, <2>5, <2>7 DEF Pending
  <2> QED BY <1>1, <1>3, <2>3, <2>5, <2>6, <2>8 DEF GateInv, Granted
<1>5. CASE FlipPlan(d)
  <2>1. /\ Pending' = Pending /\ dpc'[d] = "idle" /\ Approving' = {}
        /\ status' \in {"approved", "declined"}
        /\ status' = "approved" => d \in Approving
    BY <1>1, <1>5 DEF FlipPlan, Pending, Approving, SetStatus
  <2> QED BY <1>1, <1>3, <2>1 DEF GateInv, Granted
<1>6. CASE CancelDecline(d)
  <2>1. Pending' = Pending /\ dpc'[d] = "idle" /\ Approving' = {} /\ status' = "declined"
    BY <1>1, <1>6 DEF CancelDecline, Pending, Approving, SetStatus
  <2> QED BY <1>1, <1>3, <2>1 DEF GateInv, Granted
<1>7. CASE \/ FlipFails(d) \/ CancelFind(d) \/ CancelDecide(d) \/ CancelLoad(d)
           \/ DeciderCrash(d)
           \/ \E t \in DOMAIN tickets, c \in {"approved", "denied"} : BeginDecision(d, t, c)
  <2>1. UNCHANGED <<status, tickets>>
    BY <1>7 DEF FlipFails, CancelFind, CancelDecide, CancelLoad, DeciderCrash,
       BeginDecision, plan
  <2>2. dpc'[d] # "flip"
    BY <1>1, <1>7 DEF FlipFails, CancelFind, CancelDecide, CancelLoad, DeciderCrash,
       BeginDecision
  <2>3. dpc'[d] = "write" => tickets[job'[d].ticket] = "none"
    BY <1>1, <1>7 DEF FlipFails, CancelFind, CancelDecide, CancelLoad, DeciderCrash,
       BeginDecision
  <2>4. Pending' = Pending /\ Approving' = {}  BY <1>1, <2>1, <2>2 DEF Pending, Approving
  <2> QED BY <1>1, <1>3, <2>1, <2>3, <2>4 DEF GateInv, Granted
<1> QED BY <1>4, <1>5, <1>6, <1>7 DEF DeciderStep, OperatorAsks

LEMMA GateStep == OneGate /\ TypeInv /\ TrailInv /\ GateInv /\ [Next]_vars => GateInv'
<1> SUFFICES ASSUME OneGate, TypeInv, TrailInv, GateInv, [Next]_vars PROVE GateInv'
  OBVIOUS
<1>1. CASE UNCHANGED vars
  <2>1. UNCHANGED <<size, status, tickets, pc, dpc, job>>
    BY <1>1 DEF vars, plan, locals, deciding
  <2>2. Running' = Running /\ \A e \in Executors : pc'[e] # "malformed"
    BY <2>1 DEF Running, GateInv
  <2> QED BY <2>1, <2>2, GateQuiet
<1> QED BY <1>1, GateExecutor, GateDecider DEF Next

\* With one operator process and a body that parses, two daemons never run the
\* plan at the same time, whatever crashes and however the steps interleave.
THEOREM OneRunner == ASSUME OneGate PROVE Spec => []SingleRunner
<1>1. GateInv => SingleRunner  BY DEF GateInv
<1>2. Init => GateInv  BY OneGate, GateInit
<1>3. TypeInv /\ TrailInv /\ GateInv /\ [Next]_vars => GateInv'  BY OneGate, GateStep
<1> QED BY <1>1, <1>2, <1>3, TypeInit, TypeStep, TrailInit, TrailStep, PTL DEF Spec

LEMMA FinalStep == OneGate /\ TypeInv /\ GateInv /\ [Next]_vars =>
  [\A t \in DOMAIN tickets : tickets[t] # "none" => tickets'[t] = tickets[t]]_tickets
<1> SUFFICES ASSUME TypeInv, GateInv, [Next]_vars, tickets' # tickets,
                    NEW t \in DOMAIN tickets, tickets[t] # "none"
             PROVE  tickets'[t] = tickets[t]
  OBVIOUS
<1>1. CASE tickets' = Append(tickets, "none")
  BY <1>1, AppendFacts DEF TypeInv, TypeOK, Decisions
<1>2. ASSUME NEW d \in Deciders, WriteDecision(d)  PROVE tickets'[t] = tickets[t]
  BY <1>2 DEF WriteDecision, GateInv, TypeInv, TypeOK
<1>3. CASE \E e \in Executors : ExecutorStep(e) \/ Crash(e)
  BY <1>1, <1>3 DEF ExecutorStep, Crash, Pick, RejectBody, ClaimLost, ClaimStamp, ClaimFlip,
     Halt, WallClockCap, BudgetCap, CapPause, CapTicket, StartKickoff, RecordKickoff,
     RecordReflection, ReflectFails, Advance, OpenTicket, PauseAfterTicket, Abort, Finish,
     OpenPauseTicket
<1>4. CASE \E d \in Deciders : DeciderStep(d) \/ OperatorAsks(d) \/ DeciderCrash(d)
  BY <1>2, <1>4 DEF DeciderStep, OperatorAsks, DeciderCrash, FlipPlan, FlipFails, CancelFind,
     CancelDecide, CancelDecline, BeginDecision, CancelLoad
<1>5. CASE UNCHANGED vars  BY <1>5 DEF vars
<1> QED BY <1>3, <1>4, <1>5 DEF Next

\* With one operator process a decided ticket keeps its decision.
THEOREM DecisionsFinal == ASSUME OneGate PROVE Spec => DecisionsAreFinal
<1>2. Init => GateInv  BY OneGate, GateInit
<1>3. TypeInv /\ TrailInv /\ GateInv /\ [Next]_vars => GateInv'  BY OneGate, GateStep
<1>4. TypeInv /\ GateInv /\ [Next]_vars =>
        [\A t \in DOMAIN tickets : tickets[t] # "none" => tickets'[t] = tickets[t]]_tickets
  BY OneGate, FinalStep
<1> QED BY <1>2, <1>3, <1>4, TypeInit, TypeStep, TrailInit, TrailStep, PTL
        DEF Spec, DecisionsAreFinal

-----------------------------------------------------------------------------
(* What the runner does with it: the resume point, the records, the spend.  *)

Aborted == \E k \in DOMAIN log : log[k].outcome = "abort"

\* The one runner agrees with the file about where it is and what it has spent,
\* and has put on record what its place in the loop presupposes.
WorkInv ==
  /\ AtResumePoint /\ Passed /\ DoneMeansFinished /\ SpendIsBacked
  /\ \A e \in Running : tokens <= tracker[e] /\ tracker[e] <= Len(spawned) + Len(log)
  /\ \A e \in Executors :
       /\ pc[e] \in {"reflect", "advance"} => Fired(at[e] + 1)
       /\ pc[e] = "advance" => Accepted(at[e] + 1)
       /\ pc[e] = "abort" => Aborted

LEMMA WorkInit == Init => WorkInv
<1> SUFFICES ASSUME Init PROVE WorkInv
  OBVIOUS
<1>1. Running = {} /\ \A e \in Executors : pc[e] = "idle"  BY DEF Init, Running
<1>2. Passed /\ DoneMeansFinished  BY DEF Init, Passed, DoneMeansFinished
<1>3. SpendIsBacked  BY DEF Init, SpendIsBacked
<1> QED BY <1>1, <1>2, <1>3 DEF WorkInv, AtResumePoint

\* Steps that leave the records alone and let at most the runner stop.
LEMMA WorkQuiet ==
  ASSUME WorkInv, UNCHANGED <<size, index, tokens, spawned, log>>,
         status' = status \/ status' # "done",
         \A e \in Executors :
           \/ pc'[e] = pc[e] /\ at'[e] = at[e] /\ tracker'[e] = tracker[e]
           \/ pc'[e] \in {"kickoff", "cap", "capticket"} /\ e \in Running
              /\ at'[e] = at[e] /\ tracker'[e] = tracker[e]
           \/ e \notin Running' /\ pc'[e] \notin {"reflect", "advance", "abort"}
  PROVE  WorkInv'
<1>1. \A e \in Running' : e \in Running /\ at'[e] = at[e] /\ tracker'[e] = tracker[e]
  BY DEF Running
<1>2. AtResumePoint' /\ SpendIsBacked' /\ DoneMeansFinished'
  BY <1>1 DEF WorkInv, AtResumePoint, SpendIsBacked, DoneMeansFinished
<1>3. \A i : (Fired(i) => Fired(i)') /\ (Accepted(i) => Accepted(i)')
  BY DEF Fired, Accepted
<1>4. Passed'  BY <1>3 DEF WorkInv, Passed
<1>5. Aborted => Aborted'  BY DEF Aborted
<1>6. \A e \in Running' : tokens' <= tracker'[e] /\ tracker'[e] <= Len(spawned') + Len(log')
  BY <1>1 DEF WorkInv
<1>7. \A e \in Executors :
       /\ pc'[e] \in {"reflect", "advance"} => Fired(at[e] + 1)' /\ at'[e] = at[e]
       /\ pc'[e] = "advance" => Accepted(at[e] + 1)'
       /\ pc'[e] = "abort" => Aborted'
  BY <1>3, <1>5 DEF WorkInv, Fired, Accepted
<1> QED BY <1>2, <1>4, <1>6, <1>7 DEF WorkInv, Fired, Accepted

\* A step of the runner itself: what has to be checked for nobody else.
LEMMA WorkRun ==
  ASSUME GateInv, WorkInv, NEW e \in Running,
         \A f \in Executors \ {e} : pc'[f] = pc[f],
         e \in Running' => at'[e] = index' /\ tokens' <= tracker'[e]
                           /\ tracker'[e] <= Len(spawned') + Len(log'),
         Passed', DoneMeansFinished', SpendIsBacked',
         pc'[e] \in {"reflect", "advance"} => Fired(at[e] + 1)',
         pc'[e] = "advance" => Accepted(at[e] + 1)',
         pc'[e] = "abort" => Aborted'
  PROVE  WorkInv'
<1>1. \A f \in Executors \ {e} : f \notin Running  BY DEF GateInv, SingleRunner
<1>2. \A f \in Running' : f = e  BY <1>1 DEF Running
<1>3. \A f \in Executors \ {e} : pc'[f] \notin {"reflect", "advance", "abort"}
  BY <1>1 DEF Running
<1>4. AtResumePoint'  BY <1>2 DEF AtResumePoint
<1> QED BY <1>2, <1>3, <1>4 DEF WorkInv, Running

\* What is on record stays on record.
LEMMA RecordsStay ==
  ASSUME TypeOK,
         spawned' = spawned \/ \E i \in 1..size : spawned' = Append(spawned, i),
         log' = log \/ \E r \in [after : 1..size, outcome : ReflectOutcomes] : log' = Append(log, r)
  PROVE  /\ \A i : (\E k \in DOMAIN spawned : spawned[k] = i)
                   => (\E k \in DOMAIN spawned' : spawned'[k] = i)
         /\ \A k \in DOMAIN log : k \in DOMAIN log' /\ log'[k] = log[k]
<1>1. ASSUME NEW S, NEW q \in Seq(S), NEW x \in S, NEW k \in DOMAIN q
      PROVE  k \in DOMAIN Append(q, x) /\ Append(q, x)[k] = q[k]
  BY <1>1, AppendFacts
<1>2. \A k \in DOMAIN spawned : k \in DOMAIN spawned' /\ spawned'[k] = spawned[k]
  <2>1. ASSUME NEW i \in 1..size, spawned' = Append(spawned, i), NEW k \in DOMAIN spawned
        PROVE  k \in DOMAIN spawned' /\ spawned'[k] = spawned[k]
    <3>1. spawned \in Seq(1..size)  BY DEF TypeOK
    <3> QED BY <1>1, <2>1, <3>1
  <2> QED BY <2>1
<1>3. \A k \in DOMAIN log : k \in DOMAIN log' /\ log'[k] = log[k]
  <2> DEFINE R == [after : 1..size, outcome : ReflectOutcomes]
  <2>1. ASSUME NEW r \in R, log' = Append(log, r), NEW k \in DOMAIN log
        PROVE  k \in DOMAIN log' /\ log'[k] = log[k]
    <3>1. log \in Seq(R)  BY DEF TypeOK
    <3> HIDE DEF R
    <3> QED BY <1>1, <2>1, <3>1
  <2> QED BY <2>1
<1> QED BY <1>2, <1>3

LEMMA WorkExecutor ==
  ASSUME TypeInv, GateInv, WorkInv, NEW e \in Executors, ExecutorStep(e) \/ Crash(e)
  PROVE  WorkInv'
<1> USE DEF Goto, Leave
<1>1. /\ pc \in [Executors -> ExecutorPCs] /\ at \in [Executors -> 0..size]
      /\ tracker \in [Executors -> Nat] /\ TypeOK /\ size \in Nat /\ index \in Nat
      /\ at[e] \in Nat /\ tracker[e] \in Nat /\ tokens \in Nat
      /\ \A f \in Executors : pc[f] # "malformed"
  BY DEF TypeInv, TypeOK, GateInv
<1>2. \A f \in Running : e \in Running => f = e  BY DEF GateInv, SingleRunner
<1>3. CASE \/ Pick(e) \/ ClaimLost(e) \/ Halt(e) \/ WallClockCap(e) \/ StartKickoff(e)
           \/ Crash(e) \/ ClaimStamp(e) \/ CapPause(e) \/ PauseAfterTicket(e)
           \/ CapTicket(e) \/ ReflectFails(e) \/ OpenTicket(e)
  <2>1. UNCHANGED <<size, index, tokens, spawned, log>> /\ (status' = status \/ status' # "done")
    BY <1>3 DEF Pick, ClaimLost, Halt, WallClockCap, StartKickoff, Crash, ClaimStamp,
       CapPause, PauseAfterTicket, CapTicket, ReflectFails, OpenTicket, SetStatus,
       OpenPauseTicket, plan
  <2>2. \A f \in Executors \ {e} : pc'[f] = pc[f] /\ at'[f] = at[f] /\ tracker'[f] = tracker[f]
    BY <1>1, <1>3 DEF Pick, ClaimLost, Halt, WallClockCap, StartKickoff, Crash, ClaimStamp,
       CapPause, PauseAfterTicket, CapTicket, ReflectFails, OpenTicket
  <2>3. \/ pc'[e] \in {"kickoff", "cap", "capticket"} /\ e \in Running
           /\ at'[e] = at[e] /\ tracker'[e] = tracker[e]
        \/ e \notin Running' /\ pc'[e] \notin {"reflect", "advance", "abort"}
    BY <1>1, <1>3 DEF Pick, ClaimLost, Halt, WallClockCap, StartKickoff, Crash, ClaimStamp,
       CapPause, PauseAfterTicket, CapTicket, ReflectFails, OpenTicket, AtTop, Running
  <2> QED BY <2>1, <2>2, <2>3, WorkQuiet
<1>4. CASE ClaimFlip(e)
  <2>1. /\ UNCHANGED <<size, index, tokens, spawned, log>> /\ status' = "executing"
        /\ pc'[e] = "top" /\ at'[e] = index /\ tracker'[e] = tokens
        /\ \A f \in Executors \ {e} : pc'[f] = pc[f] /\ at'[f] = at[f] /\ tracker'[f] = tracker[f]
    BY <1>1, <1>4 DEF ClaimFlip
  <2>2. \A f \in Running' : f = e \/ f \in Running  BY <2>1 DEF Running
  <2>3. AtResumePoint' /\ SpendIsBacked' /\ DoneMeansFinished'
    BY <2>1, <2>2 DEF WorkInv, AtResumePoint, SpendIsBacked, DoneMeansFinished, Running
  <2>4. Passed'  BY <2>1 DEF WorkInv, Passed, Fired, Accepted
  <2>5. \A f \in Running' : tokens' <= tracker'[f] /\ tracker'[f] <= Len(spawned') + Len(log')
    BY <1>1, <2>1, <2>2 DEF WorkInv, SpendIsBacked, Running
  <2>6. \A f \in Executors :
       /\ pc'[f] \in {"reflect", "advance"} => Fired(at[f] + 1)' /\ at'[f] = at[f]
       /\ pc'[f] = "advance" => Accepted(at[f] + 1)'
       /\ pc'[f] = "abort" => Aborted'
    BY <2>1 DEF WorkInv, Fired, Accepted, Aborted
  <2> QED BY <2>3, <2>4, <2>5, <2>6 DEF WorkInv, Fired, Accepted
<1>5. CASE \/ BudgetCap(e) \/ RecordKickoff(e) \/ Advance(e) \/ Abort(e) \/ Finish(e)
           \/ \E o \in Outcomes : RecordReflection(e, o)
  <2>1. e \in Running /\ at[e] = index /\ tokens <= tracker[e]
        /\ tracker[e] <= Len(spawned) + Len(log)
    <3>1. e \in Running
      BY <1>5 DEF BudgetCap, RecordKickoff, Advance, Abort, Finish, RecordReflection, AtTop, Running
    <3> QED BY <3>1 DEF WorkInv, AtResumePoint
  <2>2. \A f \in Executors \ {e} : pc'[f] = pc[f]
    BY <1>1, <1>5 DEF BudgetCap, RecordKickoff, Advance, Abort, Finish, RecordReflection
  <2>3. Len(spawned) \in Nat /\ Len(log) \in Nat
    BY <1>1 DEF TypeOK
  <2>4. CASE BudgetCap(e)
    <3>1. /\ UNCHANGED <<size, status, index, spawned, log, at, tracker>> /\ pc'[e] = "cap"
          /\ tokens' = tracker[e]
      BY <1>1, <2>4 DEF BudgetCap
    <3>2. Passed' /\ DoneMeansFinished' /\ SpendIsBacked'
      BY <2>1, <3>1 DEF WorkInv, Passed, DoneMeansFinished, SpendIsBacked, Fired, Accepted
    <3> QED BY <1>1, <2>1, <2>2, <3>1, <3>2, WorkRun
  <2>5. CASE Abort(e) \/ Finish(e)
    <3>1. /\ UNCHANGED <<size, index, spawned, log, tokens>> /\ pc'[e] = "idle" /\ status' = "done"
      BY <1>1, <2>5 DEF Abort, Finish, SetStatus
    <3>2. Passed' /\ SpendIsBacked'
      BY <3>1 DEF WorkInv, Passed, SpendIsBacked, Fired, Accepted
    <3>3. index = size \/ Aborted
      <4>1. CASE Abort(e)  BY <4>1 DEF Abort, WorkInv
      <4>2. CASE Finish(e)  BY <1>1, <2>1, <4>2 DEF Finish, TypeOK
      <4> QED BY <2>5, <4>1, <4>2
    <3>4. DoneMeansFinished'  BY <3>1, <3>3 DEF DoneMeansFinished, Aborted
    <3>5. e \notin Running'  BY <3>1 DEF Running
    <3> QED BY <2>1, <2>2, <3>1, <3>2, <3>4, <3>5, WorkRun
  <2>6. CASE RecordKickoff(e)
    <3>1. at[e] + 1 \in 1..size  BY <1>1, <2>6 DEF RecordKickoff, TypeInv, LoopInv, InLoop
    <3>2. /\ UNCHANGED <<size, status, index, log, at>> /\ pc'[e] = "reflect"
          /\ tracker'[e] = tracker[e] + 1 /\ tokens' = tracker[e] + 1
          /\ spawned' = Append(spawned, at[e] + 1)
      BY <1>1, <2>6 DEF RecordKickoff
    <3>3. Len(spawned') = Len(spawned) + 1 /\ Fired(at[e] + 1)'
      <4>1. /\ Len(spawned') = Len(spawned) + 1 /\ Len(spawned') \in DOMAIN spawned'
            /\ spawned'[Len(spawned')] = at[e] + 1
        BY <1>1, <3>1, <3>2, AppendFacts DEF TypeOK
      <4> QED BY <3>2, <4>1 DEF Fired
    <3>4. \A i : Fired(i) => (\E k \in DOMAIN spawned' : spawned'[k] = i)
      BY <1>1, <3>1, <3>2, RecordsStay DEF Fired
    <3>5. Passed' /\ DoneMeansFinished'
      BY <3>2, <3>4 DEF WorkInv, Passed, DoneMeansFinished, Fired, Accepted
    <3>6. tokens' <= Len(spawned') + Len(log')  BY <1>1, <2>1, <2>3, <3>2, <3>3
    <3>7. SpendIsBacked'  BY <3>6 DEF SpendIsBacked
    <3>8. at'[e] = index' /\ tokens' <= tracker'[e] /\ tracker'[e] <= Len(spawned') + Len(log')
      BY <1>1, <2>1, <3>2, <3>6
    <3> QED BY <2>1, <2>2, <3>2, <3>3, <3>5, <3>7, <3>8, WorkRun
  <2>7. ASSUME NEW o \in Outcomes, RecordReflection(e, o)  PROVE WorkInv'
    <3> DEFINE r == [after |-> at[e] + 1, outcome |-> o]
    <3>1. at[e] + 1 \in 1..size /\ pc[e] = "reflect"
      BY <1>1, <2>7 DEF RecordReflection, TypeInv, LoopInv, InLoop
    <3>2. /\ UNCHANGED <<size, status, index, spawned, tokens, at>>
          /\ pc'[e] = AfterReflect(o)
          /\ tracker'[e] = tracker[e] + 1 /\ log' = Append(log, r)
      BY <1>1, <2>7 DEF RecordReflection
    <3>3. r \in [after : 1..size, outcome : ReflectOutcomes]
      BY <3>1, PlanAssumption
    <3>4. /\ Len(log') = Len(log) + 1 /\ Len(log') \in DOMAIN log' /\ log'[Len(log')] = r
      BY <1>1, <3>2, <3>3, AppendFacts DEF TypeOK
    <3>5. \A k \in DOMAIN log : k \in DOMAIN log' /\ log'[k] = log[k]
      BY <1>1, <3>2, <3>3, RecordsStay
    <3>6. Passed' /\ DoneMeansFinished'
      BY <3>2, <3>5 DEF WorkInv, Passed, DoneMeansFinished, Fired, Accepted
    <3>7. /\ pc'[e] \in {"advance", "ticket", "abort"}
          /\ pc'[e] = "advance" => o \in Advancing
          /\ pc'[e] = "abort" => o = "abort"
      BY <3>2, PlanAssumption DEF AfterReflect, ReflectOutcomes
    <3>8. Fired(at[e] + 1)'  BY <3>1, <3>2 DEF WorkInv, Fired
    <3>9. pc'[e] = "advance" => Accepted(at[e] + 1)'  BY <3>2, <3>4, <3>7 DEF Accepted
    <3>10. pc'[e] = "abort" => Aborted'  BY <3>4, <3>7 DEF Aborted
    <3>11. SpendIsBacked' /\ tokens' <= tracker'[e] /\ tracker'[e] <= Len(spawned') + Len(log')
      BY <1>1, <2>1, <2>3, <3>2, <3>4 DEF SpendIsBacked
    <3> QED BY <2>1, <2>2, <3>2, <3>6, <3>8, <3>9, <3>10, <3>11, WorkRun
  <2>8. CASE Advance(e)
    <3>1. pc[e] = "advance" /\ at[e] < size
      BY <2>8 DEF Advance, TypeInv, LoopInv, InLoop
    <3>2. /\ UNCHANGED <<size, status, spawned, log, tokens, tracker>> /\ pc'[e] = "top"
          /\ at'[e] = at[e] + 1 /\ index' = at[e] + 1
      BY <1>1, <2>8 DEF Advance
    <3>3. Fired(index + 1) /\ Accepted(index + 1)  BY <2>1, <3>1 DEF WorkInv
    <3>4. \A i \in 1..index' : i \in 1..index \/ i = index + 1  BY <1>1, <2>1, <3>2
    <3>5. Passed'
      BY <3>2, <3>3, <3>4 DEF WorkInv, Passed, Fired, Accepted
    <3>6. DoneMeansFinished'
      BY <2>1, <3>1, <3>2, <1>1 DEF WorkInv, DoneMeansFinished
    <3>7. SpendIsBacked'  BY <3>2 DEF WorkInv, SpendIsBacked
    <3> QED BY <2>1, <2>2, <3>2, <3>5, <3>6, <3>7, WorkRun
  <2> QED BY <1>5, <2>4, <2>5, <2>6, <2>7, <2>8
<1>6. ~RejectBody(e)  BY <1>1 DEF RejectBody
<1> QED BY <1>3, <1>4, <1>5, <1>6 DEF ExecutorStep

LEMMA WorkStep == TypeInv /\ GateInv /\ WorkInv /\ [Next]_vars => WorkInv'
<1> SUFFICES ASSUME TypeInv, GateInv, WorkInv, [Next]_vars PROVE WorkInv'
  OBVIOUS
<1>1. CASE UNCHANGED vars
  BY <1>1, WorkQuiet DEF vars, plan, locals
<1>2. ASSUME NEW d \in Deciders, DeciderStep(d) \/ OperatorAsks(d) \/ DeciderCrash(d)
      PROVE  WorkInv'
  <2>1. UNCHANGED <<size, index, tokens, spawned, log, pc, at, tracker>>
        /\ (status' = status \/ status' # "done")
    BY <1>2 DEF DeciderStep, OperatorAsks, DeciderCrash, WriteDecision, FlipPlan,
       FlipFails, CancelFind, CancelDecide, CancelDecline, BeginDecision, CancelLoad,
       SetStatus, locals, plan
  <2> QED BY <2>1, WorkQuiet
<1> QED BY <1>1, <1>2, WorkExecutor DEF Next

\* ResumePoint: whoever runs the plan is where its file says, and the file has
\* the start time, after any crash or pause.
THEOREM ResumesWhereItStopped == ASSUME OneGate PROVE Spec => []ResumePoint
<1>1. TrailInv /\ WorkInv => ResumePoint  BY DEF TrailInv, WorkInv, ResumePoint
<1>2. Init => GateInv  BY OneGate, GateInit
<1>3. TypeInv /\ TrailInv /\ GateInv /\ [Next]_vars => GateInv'  BY OneGate, GateStep
<1> QED BY <1>1, <1>2, <1>3, TypeInit, TypeStep, TrailInit, TrailStep, WorkInit, WorkStep,
           PTL DEF Spec

\* NothingSkipped: no sub-objective is left behind the resume point without a
\* kickoff and an accepting reflection, and no plan is done early.
THEOREM CompletesEverything == ASSUME OneGate PROVE Spec => []NothingSkipped
<1>1. WorkInv => NothingSkipped  BY DEF WorkInv, NothingSkipped
<1>2. Init => GateInv  BY OneGate, GateInit
<1>3. TypeInv /\ TrailInv /\ GateInv /\ [Next]_vars => GateInv'  BY OneGate, GateStep
<1> QED BY <1>1, <1>2, <1>3, TypeInit, TypeStep, TrailInit, TrailStep, WorkInit, WorkStep,
           PTL DEF Spec

\* The persisted spend is never more than the calls on record.
THEOREM SpendBacked == ASSUME OneGate PROVE Spec => []SpendIsBacked
<1>1. WorkInv => SpendIsBacked  BY DEF WorkInv
<1>2. Init => GateInv  BY OneGate, GateInit
<1>3. TypeInv /\ TrailInv /\ GateInv /\ [Next]_vars => GateInv'  BY OneGate, GateStep
<1> QED BY <1>1, <1>2, <1>3, TypeInit, TypeStep, TrailInit, TrailStep, WorkInit, WorkStep,
           PTL DEF Spec

LEMMA SpendStep == TypeInv /\ WorkInv /\ [Next]_vars => [tokens' >= tokens]_tokens
<1> SUFFICES ASSUME TypeInv, WorkInv, [Next]_vars, tokens' # tokens  PROVE tokens' >= tokens
  OBVIOUS
<1>1. PICK e \in Executors : BudgetCap(e) \/ RecordKickoff(e)
  <2>1. CASE \E e \in Executors : ExecutorStep(e) \/ Crash(e)
    BY <2>1 DEF ExecutorStep, Crash, Pick, RejectBody, ClaimLost, ClaimStamp, ClaimFlip,
       Halt, WallClockCap, CapPause, CapTicket, StartKickoff,
       RecordReflection, ReflectFails, Advance, OpenTicket, PauseAfterTicket, Abort, Finish,
       OpenPauseTicket, SetStatus, plan
  <2>2. CASE \E d \in Deciders : DeciderStep(d) \/ OperatorAsks(d) \/ DeciderCrash(d)
    BY <2>2 DEF DeciderStep, OperatorAsks, DeciderCrash, WriteDecision, FlipPlan, FlipFails,
       CancelFind, CancelDecide, CancelDecline, BeginDecision, CancelLoad, SetStatus, plan
  <2>3. CASE UNCHANGED vars  BY <2>3 DEF vars, plan
  <2> QED BY <2>1, <2>2, <2>3 DEF Next
<1>2. e \in Running  BY <1>1 DEF BudgetCap, RecordKickoff, AtTop, Running
<1>3. tokens <= tracker[e] /\ tokens \in Nat /\ tracker[e] \in Nat
  BY <1>2 DEF WorkInv, TypeInv, TypeOK
<1>4. tokens' = tracker[e] \/ tokens' = tracker[e] + 1
  BY <1>1 DEF BudgetCap, RecordKickoff
<1> QED BY <1>3, <1>4

\* A pause, a crash and a resume never make the persisted spend go back.
THEOREM SpendOnlyGrows == ASSUME OneGate PROVE Spec => SpendNeverResets
<1>1. Init => GateInv  BY OneGate, GateInit
<1>2. TypeInv /\ TrailInv /\ GateInv /\ [Next]_vars => GateInv'  BY OneGate, GateStep
<1> QED BY <1>1, <1>2, TypeInit, TypeStep, TrailInit, TrailStep, WorkInit, WorkStep, SpendStep,
           PTL DEF Spec, SpendNeverResets

-----------------------------------------------------------------------------
(* The plan file, its tickets and its lock implement PlanGrant.             *)

LEMMA WorkerIs ==
  ASSUME GateInv
  PROVE  /\ \A e \in Running : workerNow = e /\ workerNow # NoOne
         /\ Running = {} => workerNow = NoOne
<1>1. ASSUME NEW e \in Running  PROVE workerNow = e
  <2>1. \A f \in Running : f = e  BY DEF GateInv, SingleRunner
  <2>2. (CHOOSE f \in Running : TRUE) \in Running  OBVIOUS
  <2> QED BY <2>1, <2>2 DEF workerNow
<1>2. \A e \in Running : e # NoOne  BY PlanAssumption DEF Running
<1> QED BY <1>1, <1>2 DEF workerNow

LEMMA GrantInitially == OneGate /\ Init => PG!GrantInit
<1> SUFFICES ASSUME Init PROVE PG!GrantInit
  OBVIOUS
<1>1. 1 \in Pending  BY DEF Init, Pending
<1>2. Running = {}  BY DEF Init, Running
<1> QED BY <1>1, <1>2 DEF Init, PG!GrantInit, permitNow, workerNow

\* At most an approval is lost on the way.
LEMMA MapWithdraw ==
  ASSUME Running' = Running, Pending' = Pending, index' = index, Granted' => Granted
  PROVE  [PG!GrantNext]_PG!gvars
<1>1. workerNow' = workerNow  BY DEF workerNow
<1>2. permitNow' = permitNow \/ (permitNow = "granted" /\ permitNow' = "none")
  BY DEF permitNow, Granted
<1> QED BY <1>1, <1>2 DEF PG!GrantNext, PG!Withdraw, PG!gvars

\* The runner leaves, with a ticket or without.
LEMMA MapLeave ==
  ASSUME GateInv, GateInv', NEW e \in Running, Running' = Running \ {e},
         index' = index, ~Granted'
  PROVE  PG!GrantNext
<1>1. Running' = {}  BY DEF GateInv, SingleRunner
<1>2. workerNow # NoOne  BY WorkerIs
<1>3. workerNow' = NoOne  BY <1>1 DEF workerNow
<1>4. permitNow = "none"  BY DEF GateInv, permitNow, Granted
<1>5. permitNow' \in {"none", "asked"}  BY DEF permitNow, Granted
<1> QED BY <1>2, <1>3, <1>4, <1>5 DEF PG!GrantNext, PG!Ask, PG!Stop

LEMMA MapExecutor ==
  ASSUME TypeInv, TrailInv, GateInv, GateInv', WorkInv, NEW e \in Executors,
         ExecutorStep(e) \/ Crash(e)
  PROVE  [PG!GrantNext]_PG!gvars
<1> USE DEF Goto, Leave
<1>1. /\ pc \in [Executors -> ExecutorPCs] /\ TypeOK
      /\ \A f \in Executors : pc[f] # "malformed"
  BY DEF TypeInv, TypeOK, GateInv
<1>2. CASE ClaimFlip(e)
  <2>1. status = "approved"  BY <1>2, PlanAssumption DEF ClaimFlip, TrailInv, LockInv
  <2>2. Pending = {} /\ Running = {} /\ Approving = {}
    BY <2>1 DEF GateInv, Granted
  <2>3. /\ pc'[e] = "top" /\ status' = "executing"
        /\ UNCHANGED <<index, tickets, dpc, job>>
    BY <1>1, <1>2 DEF ClaimFlip, deciding
  <2>4. e \in Running'  BY <2>3 DEF Running
  <2>5. Pending' = {} /\ Approving' = {}  BY <2>2, <2>3 DEF Pending, Approving
  <2>6. permitNow = "granted" /\ permitNow' = "none"
    BY <2>1, <2>2, <2>3, <2>5 DEF permitNow
  <2>7. workerNow = NoOne  BY <2>2 DEF workerNow
  <2>8. workerNow' = e
    <3>1. \A f \in Running' : f = e  BY <2>4 DEF GateInv, SingleRunner
    <3>2. (CHOOSE f \in Running' : TRUE) \in Running'  BY <2>4
    <3> QED BY <2>4, <3>1, <3>2 DEF workerNow
  <2> QED BY <2>3, <2>6, <2>7, <2>8 DEF PG!GrantNext, PG!Start
<1>3. CASE Advance(e)
  <2>1. e \in Running /\ at[e] = index /\ at[e] < size /\ size \in 1..MaxSubObjectives
    BY <1>3 DEF Advance, Running, WorkInv, AtResumePoint, TypeInv, LoopInv, InLoop, GateInv, WellFormed
  <2>2. /\ index' = index + 1 /\ UNCHANGED <<status, tickets, dpc, job>> /\ pc'[e] = "top"
        /\ \A f \in Executors \ {e} : pc'[f] = pc[f]
    BY <1>1, <1>3, <2>1 DEF Advance, deciding
  <2>3. Running' = Running  BY <2>1, <2>2 DEF Running
  <2>4. workerNow' = workerNow /\ permitNow' = permitNow
    BY <2>2, <2>3 DEF workerNow, permitNow, Pending, Approving
  <2>5. workerNow # NoOne  BY <2>1, WorkerIs
  <2>6. index < MaxSubObjectives
    BY <1>1, <2>1, PlanAssumption DEF TypeOK
  <2> QED BY <2>2, <2>4, <2>5, <2>6 DEF PG!GrantNext, PG!Complete
<1>4. CASE \/ Pick(e) \/ ClaimLost(e) \/ ClaimStamp(e) \/ WallClockCap(e) \/ StartKickoff(e)
           \/ BudgetCap(e) \/ RecordKickoff(e) \/ CapPause(e) \/ PauseAfterTicket(e)
           \/ \E o \in Outcomes : RecordReflection(e, o)
  <2>1. /\ UNCHANGED <<index, tickets, dpc, job>>
        /\ status' = status \/ status' # "approved"
    BY <1>4 DEF Pick, ClaimLost, ClaimStamp, WallClockCap, StartKickoff, BudgetCap,
       RecordKickoff, CapPause, PauseAfterTicket, RecordReflection, SetStatus, plan, deciding
  <2>2. \A f \in Executors \ {e} : pc'[f] = pc[f]
    BY <1>1, <1>4 DEF Pick, ClaimLost, ClaimStamp, WallClockCap, StartKickoff, BudgetCap,
       RecordKickoff, CapPause, PauseAfterTicket, RecordReflection
  <2>3. e \in Running' <=> e \in Running
    BY <1>1, <1>4 DEF Pick, ClaimLost, ClaimStamp, WallClockCap, StartKickoff, BudgetCap,
       RecordKickoff, CapPause, PauseAfterTicket, RecordReflection, AfterReflect, AtTop, Running
  <2>4. Running' = Running  BY <2>2, <2>3 DEF Running
  <2>5. Pending' = Pending /\ (Granted' => Granted)
    BY <2>1 DEF Pending, Granted, Approving
  <2> QED BY <2>1, <2>4, <2>5, MapWithdraw
<1>5. CASE \/ Halt(e) \/ Crash(e) \/ CapTicket(e) \/ ReflectFails(e) \/ OpenTicket(e)
           \/ Abort(e) \/ Finish(e)
  <2>1. UNCHANGED <<index, dpc, job>> /\ (status' = status \/ status' # "approved")
    BY <1>5 DEF Halt, Crash, CapTicket, ReflectFails, OpenTicket, Abort, Finish, SetStatus,
       OpenPauseTicket, plan, deciding
  <2>2. e \notin Running' /\ \A f \in Executors \ {e} : pc'[f] = pc[f]
    BY <1>1, <1>5 DEF Halt, Crash, CapTicket, ReflectFails, OpenTicket, Abort, Finish, Running
  <2>3. Granted' => Granted  BY <2>1 DEF Granted, Approving
  <2>4. CASE e \in Running
    <3>1. Running' = Running \ {e}  BY <2>2 DEF Running
    <3>2. ~Granted'  BY <2>3, <2>4 DEF GateInv
    <3> QED BY <2>1, <2>4, <3>1, <3>2, MapLeave
  <2>5. CASE e \notin Running
    <3>1. Running' = Running  BY <2>2, <2>5 DEF Running
    <3>2. tickets' = tickets
      BY <1>5, <2>5 DEF Halt, Crash, CapTicket, ReflectFails, OpenTicket, Abort, Finish, Running
    <3>3. Pending' = Pending  BY <3>2 DEF Pending
    <3> QED BY <2>1, <2>3, <3>1, <3>3, MapWithdraw
  <2> QED BY <2>4, <2>5
<1>6. ~RejectBody(e)  BY <1>1 DEF RejectBody
<1> QED BY <1>2, <1>3, <1>4, <1>5, <1>6 DEF ExecutorStep

LEMMA MapDecider ==
  ASSUME OneGate, TypeInv, GateInv, GateInv', NEW d \in Deciders,
         DeciderStep(d) \/ OperatorAsks(d) \/ DeciderCrash(d)
  PROVE  [PG!GrantNext]_PG!gvars
<1> USE DEF DGoto, DLeave, NoJob, Job
<1>1. /\ dpc \in [Deciders -> DeciderPCs] /\ TypeOK
      /\ job \in [Deciders -> [ticket : Nat, decision : Decisions]]
      /\ \A c \in Deciders : c = d
  BY DEF TypeInv, TypeOK, OneGate
<1>2. UNCHANGED <<index, pc>>
  BY DEF DeciderStep, OperatorAsks, DeciderCrash, WriteDecision, FlipPlan,
     FlipFails, CancelFind, CancelDecide, CancelDecline, BeginDecision, CancelLoad,
     locals, plan, SetStatus
<1>3. Running' = Running /\ workerNow' = workerNow  BY <1>2 DEF Running, workerNow
<1>4. CASE WriteDecision(d)
  <2>1. Pending # {}
    BY <1>1, <1>4 DEF WriteDecision, GateInv, Pending, TypeInv, JobInv
  <2>2. Running = {} /\ permitNow = "asked"  BY <2>1 DEF GateInv, permitNow
  <2>3. permitNow' \in {"asked", "granted", "none"}  BY DEF permitNow
  <2> QED BY <1>2, <1>3, <2>2, <2>3 DEF PG!GrantNext, PG!Grant, PG!Withdraw, PG!gvars
<1>5. CASE ~WriteDecision(d)
  <2>1. tickets' = tickets
    BY <1>5 DEF DeciderStep, OperatorAsks, DeciderCrash, FlipPlan, FlipFails, CancelFind,
       CancelDecide, CancelDecline, BeginDecision, CancelLoad
  <2>2. dpc'[d] # "flip"
    BY <1>1, <1>5 DEF DeciderStep, OperatorAsks, DeciderCrash, FlipPlan, FlipFails, CancelFind,
       CancelDecide, CancelDecline, BeginDecision, CancelLoad
  <2>3. status' = "approved" => status = "approved" \/ d \in Approving
    BY <1>1, <1>5 DEF DeciderStep, OperatorAsks, DeciderCrash, FlipPlan, FlipFails, CancelFind,
       CancelDecide, CancelDecline, BeginDecision, CancelLoad, SetStatus, plan, Approving
  <2>4. Approving' = {}  BY <1>1, <2>2 DEF Approving
  <2>5. (Granted' => Granted) /\ Pending' = Pending
    BY <2>1, <2>3, <2>4 DEF Granted, Pending
  <2> QED BY <1>2, <1>3, <2>5, MapWithdraw
<1> QED BY <1>4, <1>5

LEMMA GrantStep ==
  OneGate /\ TypeInv /\ TrailInv /\ GateInv /\ GateInv' /\ WorkInv /\ [Next]_vars
    => [PG!GrantNext]_PG!gvars
<1> SUFFICES ASSUME OneGate, TypeInv, TrailInv, GateInv, GateInv', WorkInv, [Next]_vars
             PROVE  [PG!GrantNext]_PG!gvars
  OBVIOUS
<1>1. CASE UNCHANGED vars
  <2>1. UNCHANGED <<index, status, tickets, pc, dpc, job>>
    BY <1>1 DEF vars, plan, locals, deciding
  <2>2. Running' = Running /\ Pending' = Pending /\ Granted' = Granted
    BY <2>1 DEF Running, Pending, Granted, Approving
  <2> QED BY <2>1, <2>2, MapWithdraw
<1> QED BY <1>1, MapExecutor, MapDecider DEF Next

\* Files, tickets, flock and crashes together keep PlanGrant's promise: every
\* run is started by one worker on one permit, and asks again to go on.
THEOREM PlanImplementsGrant == ASSUME OneGate PROVE Spec => ImplementsGrant
<1>1. Init => GateInv  BY OneGate, GateInit
<1>2. TypeInv /\ TrailInv /\ GateInv /\ [Next]_vars => GateInv'  BY OneGate, GateStep
<1>3. Init => PG!GrantInit  BY OneGate, GrantInitially
<1>4. TypeInv /\ TrailInv /\ GateInv /\ GateInv' /\ WorkInv /\ [Next]_vars
        => [PG!GrantNext]_PG!gvars
  BY OneGate, GrantStep
<1> QED BY <1>1, <1>2, <1>3, <1>4, TypeInit, TypeStep, TrailInit, TrailStep, WorkInit, WorkStep,
           PTL DEF Spec, ImplementsGrant, PG!GrantSpec
=============================================================================
