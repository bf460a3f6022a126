----------------------- MODULE HeartbeatQueue_proofs -----------------------
(* Proofs about HeartbeatQueue, for every value of its constants. *)
EXTENDS HeartbeatQueue, FiniteSetTheorems, TLAPS

-----------------------------------------------------------------------------
(* Types.  The ids never run out, because one is kept for every runner that *)
(* may have to add a task.                                                  *)

InFlight == {r \in Runners : pc[r] \notin {"idle", "swept"}}
TypeInv ==
  /\ TypeOK
  /\ added + Cardinality(InFlight) <= MaxTasks

LEMMA FlightFinite == IsFiniteSet(InFlight) /\ Cardinality(InFlight) \in Nat
<1>1. IsFiniteSet(InFlight)
  BY FS_Subset, QueueAssumption DEF InFlight
<1> QED BY <1>1, FS_CardinalityType

LEMMA RecordType ==
  ASSUME NEW x \in TaskType, NEW s \in Statuses
  PROVE  [x EXCEPT !.status = s] \in TaskType
BY DEF TaskType

LEMMA RecordFlags ==
  ASSUME NEW x \in TaskType, NEW b \in BOOLEAN, NEW n \in Nat
  PROVE  /\ [x EXCEPT !.due = b] \in TaskType
         /\ [x EXCEPT !.stale = b] \in TaskType
         /\ [x EXCEPT !.retries = n] \in TaskType
BY DEF TaskType

LEMMA TypeInit == Init => TypeInv
<1> SUFFICES ASSUME Init PROVE TypeInv
  OBVIOUS
<1> USE QueueAssumption DEF Init
<1>1. NoTask \in TaskType /\ 0 \in 0..MaxTasks
  <2>1. Task(0, FALSE, {}, FALSE) \in TaskType
    BY DEF Task, TaskType, Statuses
  <2>2. NoTask \in TaskType  BY <2>1, RecordType DEF NoTask, Statuses
  <2>3. 0 \in 0..MaxTasks  OBVIOUS
  <2> QED BY <2>2, <2>3
<1>2. InFlight = {}  BY DEF InFlight
<1>3. added + Cardinality(InFlight) <= MaxTasks  BY <1>2, FS_EmptySet
<1>4. task \in [Ids -> TaskType]  BY <1>1
<1>5. held \in [Runners -> [id : 0..MaxTasks, task : TaskType]]
  BY <1>1 DEF Nothing
<1>6. pc \in [Runners -> RunnerPCs] /\ calls \in [Ids -> Nat] /\ root \in [Ids -> Ids]
  BY DEF RunnerPCs
<1>7. \A r \in Runners : pc[r] \in {"idle", "swept"} <=> held[r].id = 0
  BY DEF Nothing
<1>8. added \in 0..MaxTasks /\ succeeded \subseteq Ids /\ axed \subseteq Ids
  BY <1>1
<1> HIDE DEF Init
<1> QED BY <1>3, <1>4, <1>5, <1>6, <1>7, <1>8 DEF TypeInv, TypeOK

\* A runner that sets out keeps an id for itself, one that comes back or adds
\* a task gives it up, and nobody else is concerned.
LEMMA FlightMoves ==
  ASSUME NEW r \in Runners, \A s \in Runners \ {r} : pc'[s] = pc[s]
  PROVE  /\ r \notin InFlight /\ r \in InFlight' => Cardinality(InFlight') = Cardinality(InFlight) + 1
         /\ r \in InFlight /\ r \notin InFlight' => Cardinality(InFlight') = Cardinality(InFlight) - 1
         /\ (r \in InFlight <=> r \in InFlight') => InFlight' = InFlight
<1>1. (r \in InFlight <=> r \in InFlight') => InFlight' = InFlight  BY DEF InFlight
<1>2. ASSUME r \notin InFlight, r \in InFlight'
      PROVE  Cardinality(InFlight') = Cardinality(InFlight) + 1
  <2>1. InFlight' = InFlight \cup {r}  BY <1>2 DEF InFlight
  <2> QED BY <1>2, <2>1, FlightFinite, FS_AddElement
<1>3. ASSUME r \in InFlight, r \notin InFlight'
      PROVE  Cardinality(InFlight') = Cardinality(InFlight) - 1
  <2>1. InFlight' = InFlight \ {r}  BY <1>3 DEF InFlight
  <2> QED BY <1>3, <2>1, FlightFinite, FS_RemoveElement
<1> QED BY <1>1, <1>2, <1>3

\* Steps of the operator and of time: only tasks change.
LEMMA TypeOperator ==
  ASSUME TypeInv,
         \/ Operator
         \/ \E t \in Ids : BecomeDue(t) \/ GrowStale(t)
  PROVE  TypeInv'
<1> USE DEF TypeInv, TypeOK, locals, ghosts
<1>1. ASSUME NEW p \in Priorities, NEW ev \in BOOLEAN, NEW D \in SUBSET Ids, AddTask(p, ev, D)
      PROVE  TypeInv'
  <2>1. InFlight' = InFlight /\ added + Cardinality(InFlight) < MaxTasks
    BY <1>1 DEF AddTask, Room, InFlight
  <2>2. added + 1 + Cardinality(InFlight) <= MaxTasks /\ added + 1 \in 0..MaxTasks
    BY <2>1, FlightFinite, QueueAssumption
  <2>3. Task(p, ev, D, TRUE) \in TaskType
    BY QueueAssumption DEF Task, TaskType, Statuses
  <2>4. task' \in [Ids -> TaskType]  BY <1>1, <2>3 DEF AddTask
  <2> QED BY <1>1, <2>1, <2>2, <2>4 DEF AddTask
<1>2. ASSUME NEW t \in Ids, CancelTask(t)  PROVE TypeInv'
  <2>1. task' \in [Ids -> TaskType]
    <3>2. task' = [task EXCEPT ![t] = [task[t] EXCEPT !.status = "cancelled"]]
      BY <1>2 DEF CancelTask, Write
    <3> QED BY <3>2, RecordType DEF Statuses
  <2>2. InFlight' = InFlight /\ axed' \subseteq Ids  BY <1>2 DEF CancelTask, InFlight
  <2> QED BY <1>2, <2>1, <2>2 DEF CancelTask, Write
<1>3. CASE ClearDone
  <2>1. task' \in [Ids -> TaskType]
    <3>1. \A i \in Ids : task[i] \in TaskType  OBVIOUS
    <3> QED BY <1>3, <3>1, RecordType DEF ClearDone, Statuses
  <2>2. InFlight' = InFlight  BY <1>3 DEF ClearDone, InFlight
  <2> QED BY <1>3, <2>1, <2>2 DEF ClearDone
<1>4. ASSUME NEW t \in Ids, BecomeDue(t) \/ GrowStale(t)  PROVE TypeInv'
  <2>1. task' \in [Ids -> TaskType]
    <3>2. \/ task' = [task EXCEPT ![t] = [task[t] EXCEPT !.due = TRUE]]
          \/ task' = [task EXCEPT ![t] = [task[t] EXCEPT !.stale = TRUE]]
      BY <1>4 DEF BecomeDue, GrowStale
    <3>3. /\ [task[t] EXCEPT !.due = TRUE] \in TaskType
          /\ [task[t] EXCEPT !.stale = TRUE] \in TaskType
      <4>1. task[t] \in TaskType /\ 0 \in Nat /\ TRUE \in BOOLEAN  OBVIOUS
      <4> HIDE DEF TypeInv, TypeOK
      <4> QED BY <4>1, RecordFlags
    <3> QED BY <3>2, <3>3
  <2>2. InFlight' = InFlight  BY <1>4 DEF BecomeDue, GrowStale, InFlight
  <2> QED BY <1>4, <2>1, <2>2 DEF BecomeDue, GrowStale
<1> QED BY <1>1, <1>2, <1>3, <1>4 DEF Operator

HeldType == [id : 0..MaxTasks, task : TaskType]
Away == {"idle", "swept"}

\* A step of a runner that leaves the ids alone.
LEMMA TypeRunner ==
  ASSUME TypeInv, NEW r \in Runners, NEW l \in RunnerPCs, NEW h \in HeldType,
         pc' = [pc EXCEPT ![r] = l], held' = [held EXCEPT ![r] = h],
         l \in Away <=> h.id = 0, l \notin Away => pc[r] \notin Away \/ Room,
         task' \in [Ids -> TaskType], added' = added,
         calls' \in [Ids -> Nat], succeeded' \subseteq Ids, root' = root, axed' = axed
  PROVE  TypeInv'
<1>1. /\ pc \in [Runners -> RunnerPCs] /\ held \in [Runners -> HeldType]
      /\ \A s \in Runners : pc[s] \in Away <=> held[s].id = 0
      /\ added \in 0..MaxTasks /\ root \in [Ids -> Ids] /\ axed \subseteq Ids
  BY DEF TypeInv, TypeOK, HeldType, Away
<1>2. added + Cardinality(InFlight) <= MaxTasks /\ added \in Nat /\ MaxTasks \in Nat
  BY QueueAssumption DEF TypeInv, TypeOK
<1>3. Room => added + Cardinality(InFlight) < MaxTasks  BY DEF Room, InFlight
<1>4. /\ \A s \in Runners \ {r} : pc'[s] = pc[s]
      /\ r \in InFlight <=> pc[r] \notin Away
      /\ r \in InFlight' <=> l \notin Away
  BY <1>1 DEF InFlight, Away
<1>5. added + Cardinality(InFlight') <= MaxTasks
  <2>1. Cardinality(InFlight) \in Nat  BY FlightFinite
  <2>2. CASE r \notin InFlight /\ r \in InFlight'
    <3>1. Cardinality(InFlight') = Cardinality(InFlight) + 1  BY <1>4, <2>2, FlightMoves
    <3>2. Room  BY <1>4, <2>2
    <3> QED BY <1>2, <1>3, <2>1, <3>1, <3>2
  <2>3. CASE r \in InFlight /\ r \notin InFlight'
    <3>1. Cardinality(InFlight') = Cardinality(InFlight) - 1  BY <1>4, <2>3, FlightMoves
    <3> QED BY <1>2, <2>1, <3>1
  <2>4. CASE r \in InFlight <=> r \in InFlight'
    <3>1. InFlight' = InFlight  BY <1>4, <2>4, FlightMoves
    <3> QED BY <1>2, <3>1
  <2> QED BY <2>2, <2>3, <2>4
<1>6. /\ pc' \in [Runners -> RunnerPCs] /\ held' \in [Runners -> HeldType]
      /\ \A s \in Runners : pc'[s] \in Away <=> held'[s].id = 0
  BY <1>1
<1> QED BY <1>1, <1>5, <1>6 DEF TypeInv, TypeOK, HeldType, Away

LEMMA HeldIsTask ==
  ASSUME TypeInv, NEW r \in Runners, pc[r] \notin Away
  PROVE  held[r].id \in Ids /\ held[r].task \in TaskType
<1>1. held[r] \in HeldType /\ held[r].id # 0  BY DEF TypeInv, TypeOK, HeldType, Away
<1> QED BY <1>1, QueueAssumption DEF HeldType, Ids

LEMMA NothingType == Nothing \in HeldType /\ Nothing.id = 0
<1>1. Task(0, FALSE, {}, FALSE) \in TaskType
  BY DEF Task, TaskType, Statuses
<1>2. NoTask \in TaskType  BY <1>1, RecordType DEF NoTask, Statuses
<1>3. 0 \in 0..MaxTasks  BY QueueAssumption
<1> QED BY <1>2, <1>3 DEF Nothing, HeldType

\* The three ways in which a runner writes to the task it holds.
LEMMA WriteType ==
  ASSUME TypeInv, NEW t \in Ids, NEW s \in Statuses, NEW n \in Nat
  PROVE  /\ [task EXCEPT ![t].status = s] \in [Ids -> TaskType]
         /\ [task EXCEPT ![t].status = s, ![t].stale = FALSE] \in [Ids -> TaskType]
         /\ [task EXCEPT ![t].status = s, ![t].retries = n] \in [Ids -> TaskType]
<1> DEFINE x == [task[t] EXCEPT !.status = s]
<1>1. task \in [Ids -> TaskType] /\ task[t] \in TaskType  BY DEF TypeInv, TypeOK
<1>2. x \in TaskType  BY <1>1, RecordType
<1>3. FALSE \in BOOLEAN  OBVIOUS
<1>4. [x EXCEPT !.stale = FALSE] \in TaskType /\ [x EXCEPT !.retries = n] \in TaskType
  <2> HIDE DEF x
  <2> QED BY <1>2, <1>3, RecordFlags
<1>5. [task EXCEPT ![t].status = s] = [task EXCEPT ![t] = x]
  BY <1>1
<1>6. [task EXCEPT ![t].status = s, ![t].stale = FALSE]
        = [task EXCEPT ![t] = [x EXCEPT !.stale = FALSE]]
  BY <1>1
<1>7. [task EXCEPT ![t].status = s, ![t].retries = n]
        = [task EXCEPT ![t] = [x EXCEPT !.retries = n]]
  BY <1>1
<1> HIDE DEF x
<1> QED BY <1>1, <1>2, <1>4, <1>5, <1>6, <1>7

LEMMA TypeTick ==
  ASSUME TypeInv, NEW r \in Runners, RunnerStep(r) \/ Crash(r)
  PROVE  TypeInv'
<1>0. /\ task \in [Ids -> TaskType] /\ held \in [Runners -> HeldType] /\ held[r] \in HeldType
      /\ pc \in [Runners -> RunnerPCs] /\ calls \in [Ids -> Nat] /\ succeeded \subseteq Ids
      /\ held = [held EXCEPT ![r] = held[r]]
      /\ pc[r] \in Away <=> held[r].id = 0
  BY DEF TypeInv, TypeOK, HeldType, Away
<1>1. {"idle", "swept", "claimed", "dispatch", "returned", "raised", "requeue"} = RunnerPCs
      /\ {"pending", "running", "done", "failed", "cancelled"} \subseteq Statuses
  BY DEF RunnerPCs, Statuses
<1>2. CASE RecoverStale(r)
  <2>1. \A t \in Ids : task[t] \in TaskType  BY <1>0
  <2>2. task' \in [Ids -> TaskType]
    BY <1>1, <1>2, <2>1, RecordType DEF RecoverStale
  <2>3. /\ pc' = [pc EXCEPT ![r] = "swept"] /\ held' = [held EXCEPT ![r] = held[r]]
        /\ pc[r] \in Away /\ "swept" \in Away
        /\ UNCHANGED <<added, calls, succeeded, root, axed>>
    BY <1>0, <1>2 DEF RecoverStale, Goto, ghosts, Away
  <2> QED BY <1>0, <1>1, <2>2, <2>3, TypeRunner
<1>3. CASE ClaimNothing(r) \/ Crash(r)
  <2>1. /\ pc' = [pc EXCEPT ![r] = "idle"] /\ held' = [held EXCEPT ![r] = Nothing]
        /\ "idle" \in Away /\ UNCHANGED <<task, added, calls, succeeded, root, axed>>
    BY <1>3 DEF ClaimNothing, Crash, Leave, ghosts, queue, Away
  <2> QED BY <1>0, <1>1, <2>1, NothingType, TypeRunner
<1>4. ASSUME NEW t \in Ids, Claim(r, t)  PROVE TypeInv'
  <2>1. task' \in [Ids -> TaskType]
    <3>1. 0 \in Nat  OBVIOUS
    <3> QED BY <1>1, <1>4, <3>1, WriteType DEF Claim
  <2>2. Room  BY <1>4 DEF Claim, Selected, Eligible
  <2> DEFINE h == [id |-> t, task |-> task'[t]]
  <2>3. h \in HeldType /\ h.id # 0  BY <2>1, QueueAssumption DEF Ids, HeldType
  <2>4. /\ pc' = [pc EXCEPT ![r] = "claimed"] /\ held' = [held EXCEPT ![r] = h]
        /\ "claimed" \notin Away /\ UNCHANGED <<added, calls, succeeded, root, axed>>
    BY <1>4 DEF Claim, ghosts, Away
  <2> HIDE DEF h
  <2> QED BY <1>0, <1>1, <2>1, <2>2, <2>3, <2>4, TypeRunner
<1>5. CASE Dispatch(r) \/ DispatchReturns(r) \/ DispatchRaises(r)
  <2>0. pc[r] \notin Away  BY <1>5 DEF Dispatch, DispatchReturns, DispatchRaises, Away
  <2>1. held[r].id \in Ids  BY <2>0, HeldIsTask
  <2>2. task' \in [Ids -> TaskType]
    <3>1. 0 \in Nat  OBVIOUS
    <3>2. [task EXCEPT ![held[r].id].status = "running", ![held[r].id].stale = FALSE]
            \in [Ids -> TaskType]
      BY <1>1, <2>1, <3>1, WriteType
    <3> QED BY <1>0, <1>5, <3>2 DEF Dispatch, DispatchReturns, DispatchRaises, queue
  <2>3. calls' \in [Ids -> Nat] /\ succeeded' \subseteq Ids
    BY <1>0, <1>5, <2>1 DEF Dispatch, DispatchReturns, DispatchRaises, ghosts
  <2>4. PICK l \in {"dispatch", "returned", "raised"} :
          pc' = [pc EXCEPT ![r] = l] /\ held' = [held EXCEPT ![r] = held[r]]
    BY <1>0, <1>5 DEF Dispatch, DispatchReturns, DispatchRaises, Goto
  <2>5. l \in RunnerPCs /\ l \notin Away  BY DEF RunnerPCs, Away
  <2>6. UNCHANGED <<added, root, axed>>
    BY <1>5 DEF Dispatch, DispatchReturns, DispatchRaises, queue, ghosts
  <2> QED BY <1>0, <2>0, <2>2, <2>3, <2>4, <2>5, <2>6, TypeRunner
<1>6. CASE Retry(r) \/ GiveUp(r) \/ Finish(r)
  <2>0. pc[r] \notin Away  BY <1>6 DEF Retry, GiveUp, Finish, Away
  <2>1. held[r].id \in Ids /\ held[r].task.retries + 1 \in Nat
    BY <2>0, HeldIsTask DEF TaskType
  <2>2. task' \in [Ids -> TaskType]
    <3> DEFINE n == held[r].task.retries + 1
    <3>1. /\ [task EXCEPT ![held[r].id].status = "failed"] \in [Ids -> TaskType]
          /\ [task EXCEPT ![held[r].id].status = "done"] \in [Ids -> TaskType]
          /\ [task EXCEPT ![held[r].id].status = "pending", ![held[r].id].retries = n]
               \in [Ids -> TaskType]
      <4>1. n \in Nat  BY <2>1
      <4> HIDE DEF n
      <4> QED BY <1>1, <2>1, <4>1, WriteType
    <3>2. CASE Retry(r)  BY <1>0, <3>1, <3>2 DEF Retry
    <3>3. CASE GiveUp(r) \/ Finish(r)
      BY <1>0, <3>1, <3>3 DEF GiveUp, Finish, Finalize, Write, queue
    <3> QED BY <1>6, <3>2, <3>3
  <2>3. UNCHANGED <<added, calls, succeeded, root, axed>>
    BY <1>6 DEF Retry, GiveUp, Finish, Finalize, Write, queue, ghosts
  <2>4. \/ pc' = [pc EXCEPT ![r] = "idle"] /\ held' = [held EXCEPT ![r] = Nothing]
        \/ pc' = [pc EXCEPT ![r] = "requeue"] /\ held' = [held EXCEPT ![r] = held[r]]
    BY <1>0, <1>6 DEF Retry, GiveUp, Finish, Leave, Goto
  <2>5. "idle" \in Away /\ "requeue" \notin Away  BY DEF Away
  <2> QED BY <1>0, <1>1, <2>0, <2>2, <2>3, <2>4, <2>5, NothingType, TypeRunner
<1>7. CASE Requeue(r)
  <2>0. pc[r] \notin Away  BY <1>7 DEF Requeue, Away
  <2>1. held[r].id \in Ids /\ held[r].task \in TaskType  BY <2>0, HeldIsTask
  <2>2. /\ pc' = [pc EXCEPT ![r] = "idle"] /\ held' = [held EXCEPT ![r] = Nothing]
        /\ UNCHANGED <<calls, succeeded, axed>>
    BY <1>7 DEF Requeue, Leave
  <2>3. CASE ~held[r].task.every
    <3>1. UNCHANGED <<task, added, root>> /\ "idle" \in Away
      BY <1>7, <2>3 DEF Requeue, queue, Away
    <3> QED BY <1>0, <1>1, <2>2, <3>1, NothingType, TypeRunner
  <2>4. CASE held[r].task.every
    <3>1. r \in InFlight /\ r \notin InFlight' /\ \A s \in Runners \ {r} : pc'[s] = pc[s]
      BY <1>0, <2>0, <2>2 DEF InFlight, Away
    <3>2. Cardinality(InFlight') = Cardinality(InFlight) - 1  BY <3>1, FlightMoves
    <3>3. Cardinality(InFlight) \in Nat /\ Cardinality(InFlight) # 0
      BY <3>1, FlightFinite, FS_EmptySet
    <3>4. added + Cardinality(InFlight) <= MaxTasks /\ added \in Nat /\ MaxTasks \in Nat
      BY QueueAssumption DEF TypeInv, TypeOK
    <3>5. added + 1 \in Ids /\ added + 1 \in 0..MaxTasks
          /\ added + 1 + Cardinality(InFlight') <= MaxTasks
      BY <3>2, <3>3, <3>4 DEF Ids
    <3>6. Task(held[r].task.priority, TRUE, held[r].task.depends_on, FALSE) \in TaskType
      BY <2>1 DEF Task, TaskType, Statuses
    <3>7. /\ added' = added + 1
          /\ task' = [task EXCEPT ![added + 1] =
                        Task(held[r].task.priority, TRUE, held[r].task.depends_on, FALSE)]
          /\ root' = [root EXCEPT ![added + 1] = root[held[r].id]]
      BY <1>7, <2>4 DEF Requeue
    <3>8. root \in [Ids -> Ids] /\ axed \subseteq Ids  BY DEF TypeInv, TypeOK
    <3>9. task' \in [Ids -> TaskType] /\ root' \in [Ids -> Ids]
      BY <1>0, <2>1, <3>6, <3>7, <3>8
    <3>10. /\ pc' \in [Runners -> RunnerPCs] /\ held' \in [Runners -> HeldType]
           /\ \A s \in Runners : pc'[s] \in Away <=> held'[s].id = 0
      BY <1>0, <1>1, <2>2, NothingType DEF TypeInv, TypeOK, Away
    <3> QED BY <1>0, <2>2, <3>5, <3>7, <3>8, <3>9, <3>10 DEF TypeInv, TypeOK, HeldType, Away
  <2> QED BY <2>3, <2>4
<1> QED BY <1>2, <1>3, <1>4, <1>5, <1>6, <1>7 DEF RunnerStep

LEMMA TypeStep == TypeInv /\ [Next]_vars => TypeInv'
<1> SUFFICES ASSUME TypeInv, [Next]_vars PROVE TypeInv'
  OBVIOUS
<1>1. CASE UNCHANGED vars
  BY <1>1 DEF vars, queue, locals, ghosts, TypeInv, TypeOK, InFlight
<1> QED BY <1>1, TypeTick, TypeOperator DEF Next

\* Every reachable state of the queue is well typed.
THEOREM QueueTypeCorrect == Spec => []TypeOK
<1>1. TypeInv => TypeOK  BY DEF TypeInv
<1> QED BY <1>1, TypeInit, TypeStep, PTL DEF Spec

-----------------------------------------------------------------------------
(* Who holds what.                                                          *)

\* Ids that have not been handed out are nobody's, and a task whose next
\* instance is about to be added is over.
HoldInv ==
  /\ NoDoubleDispatch
  /\ \A r \in Runners : held[r].id <= added
  /\ \A t \in Ids : t > added => task[t].status = "absent"
  /\ \A r \in Runners : pc[r] = "requeue" =>
        task[held[r].id].status \notin {"pending", "running"}

LEMMA HoldInit == Init => HoldInv
<1> SUFFICES ASSUME Init PROVE HoldInv
  OBVIOUS
<1>1. /\ added = 0 /\ \A t \in Ids : task[t].status = "absent"
      /\ \A r \in Runners : held[r].id = 0 /\ pc[r] = "idle"
  BY DEF Init, NoTask, Task, Nothing
<1>2. 0 \notin Ids  BY DEF Ids
<1> QED BY <1>1, <1>2 DEF HoldInv, NoDoubleDispatch, Holds

\* Nobody takes a task, and only tasks nobody keeps become pending.
LEMMA HoldQuiet ==
  ASSUME TypeInv, HoldInv, added' \in Nat, added <= added',
         \A r \in Runners : held'[r].id = held[r].id \/ held'[r].id = 0,
         \A r \in Runners : pc'[r] = "requeue" => held'[r].id \in Ids /\
            \/ pc[r] = "requeue" /\ held'[r].id = held[r].id
            \/ task'[held'[r].id].status \notin {"pending", "running"},
         \A t \in Ids : task'[t].status = "pending" =>
            \/ task[t].status = "pending" \/ t > added
            \/ \A r \in Runners : held'[r].id # t,
         \A t \in Ids : \A r \in Runners : pc[r] = "requeue" /\ held[r].id = t
            /\ task'[t].status \in {"pending", "running"} => task[t].status \in {"pending", "running"},
         \A t \in Ids : t > added' => task'[t].status = "absent"
  PROVE  HoldInv'
<1>1. added \in Nat /\ Ids \subseteq Nat /\ \A r \in Runners : held[r].id \in Nat
  BY DEF TypeInv, TypeOK, Ids
<1>2. \A r \in Runners : held[r].id <= added  BY DEF HoldInv
<1>3. \A r \in Runners : held'[r].id <= added'
  BY <1>1, <1>2
<1>4. ASSUME NEW t \in Ids, NEW r \in Runners, held'[r].id = t
      PROVE  held[r].id = t /\ t <= added
  <2>1. t # 0  BY DEF Ids
  <2> QED BY <1>2, <1>4, <2>1
<1>5. NoDoubleDispatch'
  <2>1. ASSUME NEW t \in Ids, NEW r \in Runners, NEW s \in Runners,
               held'[r].id = t, held'[s].id = t
        PROVE  r = s
    BY <1>4, <2>1 DEF HoldInv, NoDoubleDispatch, Holds
  <2>2. ASSUME NEW t \in Ids, task'[t].status = "pending", NEW r \in Runners, held'[r].id = t
        PROVE  FALSE
    <3>1. held[r].id = t /\ ~(t > added)  BY <1>1, <1>4, <2>2
    <3>2. task[t].status = "pending"  BY <2>2, <3>1
    <3> QED BY <3>1, <3>2 DEF HoldInv, NoDoubleDispatch, Holds
  <2> QED BY <2>1, <2>2 DEF NoDoubleDispatch, Holds
<1>6. ASSUME NEW r \in Runners, pc'[r] = "requeue"
      PROVE  task'[held'[r].id].status \notin {"pending", "running"}
  BY <1>6 DEF HoldInv
<1> QED BY <1>3, <1>5, <1>6 DEF HoldInv

LEMMA HoldStep == TypeInv /\ HoldInv /\ [Next]_vars => HoldInv'
<1> SUFFICES ASSUME TypeInv, HoldInv, [Next]_vars PROVE HoldInv'
  OBVIOUS
<1>0. /\ task \in [Ids -> TaskType] /\ held \in [Runners -> HeldType]
      /\ pc \in [Runners -> RunnerPCs] /\ added \in Nat /\ Ids \subseteq Nat /\ 0 \notin Ids
      /\ \A r \in Runners : pc[r] \notin Away => held[r].id \in Ids
      /\ \A r \in Runners : pc[r] = "requeue" => held[r].id \in Ids
  <2>1. \A r \in Runners : pc[r] \notin Away => held[r].id \in Ids  BY HeldIsTask
  <2>2. \A r \in Runners : pc[r] = "requeue" => pc[r] \notin Away  BY DEF Away
  <2>3. added \in Nat /\ Ids \subseteq Nat /\ 0 \notin Ids
    BY QueueAssumption DEF TypeInv, TypeOK, Ids
  <2> QED BY <2>1, <2>2, <2>3 DEF TypeInv, TypeOK, HeldType
<1>1. /\ \A t \in Ids : t > added => task[t].status = "absent"
      /\ \A r \in Runners : pc[r] = "requeue" =>
           task[held[r].id].status \notin {"pending", "running"}
  BY DEF HoldInv
<1>2. CASE UNCHANGED vars
  BY <1>0, <1>1, <1>2, HoldQuiet DEF vars, queue, locals
<1>3. CASE \/ \E t \in Ids : CancelTask(t) \/ BecomeDue(t) \/ GrowStale(t)
           \/ ClearDone \/ \E r \in Runners : RecoverStale(r)
  <2>1. added' = added /\ held' = held
        /\ \A r \in Runners : pc'[r] = "requeue" => pc[r] = "requeue"
    BY <1>0, <1>3 DEF CancelTask, BecomeDue, GrowStale, ClearDone, RecoverStale, Write, Goto, locals
  <2>2. \A t \in Ids :
         /\ task'[t].status = "pending" => task[t].status = "pending"
         /\ task'[t].status = "running" => task[t].status = "running"
         /\ task[t].status = "absent" => task'[t].status = "absent"
    <3>1. CASE \E t \in Ids : CancelTask(t) \/ BecomeDue(t) \/ GrowStale(t)
      <4>1. ASSUME NEW i \in Ids, CancelTask(i)
            PROVE  task' = [task EXCEPT ![i].status = "cancelled"] /\ task[i].status # "absent"
        BY <4>1 DEF CancelTask, Write, Listed
      <4>2. ASSUME NEW i \in Ids, BecomeDue(i) \/ GrowStale(i)
            PROVE  \/ task' = [task EXCEPT ![i].due = TRUE]
                   \/ task' = [task EXCEPT ![i].stale = TRUE]
        BY <4>2 DEF BecomeDue, GrowStale
      <4>3. ASSUME NEW i \in Ids, CancelTask(i) \/ BecomeDue(i) \/ GrowStale(i), NEW t \in Ids
            PROVE  /\ task'[t].status = "pending" => task[t].status = "pending"
                   /\ task'[t].status = "running" => task[t].status = "running"
                   /\ task[t].status = "absent" => task'[t].status = "absent"
        <5>0. task[t] \in TaskType /\ task[i] \in TaskType  BY <1>0
        <5>1. CASE CancelTask(i)  BY <1>0, <4>1, <5>0, <5>1 DEF TaskType
        <5>2. CASE BecomeDue(i) \/ GrowStale(i)  BY <1>0, <4>2, <5>0, <5>2 DEF TaskType
        <5> QED BY <4>3, <5>1, <5>2
      <4> QED BY <3>1, <4>3
    <3>2. CASE ClearDone  BY <1>0, <3>2 DEF ClearDone
    <3>3. CASE \E r \in Runners : RecoverStale(r)  BY <1>0, <3>3 DEF RecoverStale
    <3> QED BY <1>3, <3>1, <3>2, <3>3
  <2> QED BY <1>0, <1>1, <2>1, <2>2, HoldQuiet
<1>4. ASSUME NEW p \in Priorities, NEW ev \in BOOLEAN, NEW D \in SUBSET Ids, AddTask(p, ev, D)
      PROVE  HoldInv'
  <2>1. added' = added + 1 /\ pc' = pc /\ held' = held
        /\ \A t \in Ids : t # added + 1 => task'[t] = task[t]
    BY <1>0, <1>4 DEF AddTask, locals
  <2>2. \A r \in Runners : held[r].id # added + 1
    BY <1>0 DEF HoldInv, HeldType
  <2> QED BY <1>0, <1>1, <2>1, <2>2, HoldQuiet
<1>5. ASSUME NEW r \in Runners, NEW t \in Ids, Claim(r, t)  PROVE HoldInv'
  <2>1. task[t].status = "pending"  BY <1>5 DEF Claim, Selected, Eligible
  <2>2. \A s \in Runners : held[s].id # t  BY <2>1 DEF HoldInv, NoDoubleDispatch, Holds
  <2>3. t <= added  BY <1>0, <1>1, <2>1
  <2>4. /\ added' = added /\ task'[t].status = "running"
        /\ \A s \in Ids \ {t} : task'[s] = task[s]
        /\ held'[r].id = t /\ pc'[r] = "claimed"
        /\ \A s \in Runners \ {r} : held'[s] = held[s] /\ pc'[s] = pc[s]
    BY <1>0, <1>5 DEF Claim
  <2>5. NoDoubleDispatch'
    BY <2>2, <2>4 DEF HoldInv, NoDoubleDispatch, Holds
  <2>6. \A s \in Runners : held'[s].id <= added'  BY <2>3, <2>4 DEF HoldInv
  <2>7. \A s \in Runners : pc'[s] = "requeue" =>
          task'[held'[s].id].status \notin {"pending", "running"}
    <3>1. ASSUME NEW s \in Runners, pc'[s] = "requeue"
          PROVE  task'[held'[s].id].status \notin {"pending", "running"}
      <4>1. s # r  BY <2>4, <3>1
      <4>2. pc[s] = "requeue" /\ held'[s] = held[s]  BY <2>4, <3>1, <4>1
      <4>3. held[s].id \in Ids \ {t}  BY <1>0, <2>2, <4>2
      <4> QED BY <1>1, <2>4, <4>2, <4>3
    <3> QED BY <3>1
  <2>8. \A s \in Ids : s > added' => task'[s].status = "absent"
    <3>1. \A s \in Ids : s > added => s # t  BY <1>0, <2>3
    <3> QED BY <1>1, <2>4, <3>1
  <2> QED BY <2>5, <2>6, <2>7, <2>8 DEF HoldInv
<1>6. ASSUME NEW r \in Runners,
             \/ ClaimNothing(r) \/ Crash(r) \/ DispatchReturns(r) \/ DispatchRaises(r)
      PROVE  HoldInv'
  <2>1. /\ UNCHANGED <<task, added>>
        /\ \A s \in Runners : held'[s] = held[s] \/ held'[s].id = 0
        /\ \A s \in Runners : pc'[s] = "requeue" => pc[s] = "requeue" /\ held'[s] = held[s]
    BY <1>0, <1>6, NothingType DEF ClaimNothing, Crash, DispatchReturns, DispatchRaises, Goto, Leave, queue
  <2> QED BY <1>0, <1>1, <2>1, HoldQuiet
<1>7. ASSUME NEW r \in Runners, Dispatch(r) \/ Retry(r) \/ GiveUp(r) \/ Finish(r)
      PROVE  HoldInv'
  <2> DEFINE t == held[r].id
  <2>1. pc[r] \in {"claimed", "returned", "raised"} /\ t \in Ids
    BY <1>0, <1>7 DEF Dispatch, Retry, GiveUp, Finish, Away
  <2>2. /\ added' = added /\ \A s \in Ids \ {t} : task'[s] = task[s]
        /\ \A s \in Runners \ {r} : held'[s] = held[s] /\ pc'[s] = pc[s]
    BY <1>0, <1>7 DEF Dispatch, Retry, GiveUp, Finish, Finalize, Write, queue, Goto, Leave
  <2>3. /\ task[t].status = "absent" => task'[t] = task[t]
        /\ held'[r].id = t \/ held'[r].id = 0
    BY <1>0, <1>7, NothingType
       DEF Dispatch, Retry, GiveUp, Finish, Finalize, Write, queue, Goto, Leave, Listed
  <2>4. \A s \in Runners \ {r} : held[s].id # t
    BY <2>1 DEF HoldInv, NoDoubleDispatch, Holds
  <2>5. task'[t].status = "pending" => task[t].status = "pending" \/ held'[r].id = 0
    <3>1. CASE Dispatch(r)  BY <1>0, <2>1, <3>1 DEF Dispatch
    <3>2. CASE Retry(r) \/ GiveUp(r)
      BY <1>0, <3>2, NothingType DEF Retry, GiveUp, Leave
    <3>3. CASE Finish(r)
      <4>1. task' = [task EXCEPT ![t].status = "done"] \/ task' = task
        BY <3>3 DEF Finish, Finalize, Write, queue
      <4>2. task[t] \in TaskType  BY <1>0, <2>1
      <4> QED BY <1>0, <2>1, <4>1, <4>2 DEF TaskType
    <3> QED BY <1>7, <3>1, <3>2, <3>3
  <2>6. pc'[r] = "requeue" =>
          held'[r].id = t /\ task'[t].status \notin {"pending", "running"}
    <3>1. CASE Dispatch(r)  BY <1>0, <3>1 DEF Dispatch, Goto
    <3>2. CASE Retry(r) \/ GiveUp(r)
      BY <1>0, <3>2 DEF Retry, GiveUp, Leave
    <3>3. CASE Finish(r)
      <4>1. CASE task[t].status = "cancelled"  BY <1>0, <3>3, <4>1 DEF Finish, Leave
      <4>2. CASE task[t].status \notin {"cancelled", "absent"}
        <5>1. task' = [task EXCEPT ![t].status = "done"] /\ held' = held
          BY <3>3, <4>2 DEF Finish, Finalize, Write, Listed, Goto
        <5>2. task[t] \in TaskType  BY <1>0, <2>1
        <5> QED BY <1>0, <2>1, <5>1, <5>2 DEF TaskType
      <4>3. CASE task[t].status = "absent"
        BY <1>0, <2>1, <3>3, <4>3 DEF Finish, Finalize, Listed, queue, Goto
      <4> QED BY <4>1, <4>2, <4>3
    <3> QED BY <1>7, <3>1, <3>2, <3>3
  <2> HIDE DEF t
  <2> QED BY <1>0, <1>1, <2>1, <2>2, <2>3, <2>4, <2>5, <2>6, HoldQuiet DEF t
<1>8. ASSUME NEW r \in Runners, Requeue(r)  PROVE HoldInv'
  <2>1. /\ held'[r].id = 0 /\ pc'[r] = "idle"
        /\ \A s \in Runners \ {r} : held'[s] = held[s] /\ pc'[s] = pc[s]
    BY <1>0, <1>8, NothingType DEF Requeue, Leave
  <2>2. /\ added' = added \/ added' = added + 1
        /\ \A t \in Ids : t # added' => task'[t] = task[t]
        /\ added' = added => task' = task
    <3>1. CASE held[r].task.every
      <4>1. PICK x : added' = added + 1 /\ task' = [task EXCEPT ![added + 1] = x]
        BY <1>8, <3>1 DEF Requeue
      <4> QED BY <1>0, <4>1
    <3>2. CASE ~held[r].task.every  BY <1>8, <3>2 DEF Requeue, queue
    <3> QED BY <3>1, <3>2
  <2>3. \A s \in Runners : held[s].id # added + 1
    BY <1>0 DEF HoldInv, HeldType
  <2> QED BY <1>0, <1>1, <2>1, <2>2, <2>3, HoldQuiet
<1> QED BY <1>2, <1>3, <1>4, <1>5, <1>6, <1>7, <1>8 DEF Next, Operator, RunnerStep

\* No task is dispatched by two runners at once, whatever is retried,
\* recovered, cancelled, cleared or killed in between.
THEOREM DispatchIsExclusive == Spec => []NoDoubleDispatch
<1>1. HoldInv => NoDoubleDispatch  BY DEF HoldInv
<1> QED BY <1>1, TypeInit, TypeStep, HoldInit, HoldStep, PTL DEF Spec

-----------------------------------------------------------------------------
(* Recurring chains.                                                        *)

Live(i) == task[i].status \in {"pending", "running"} \/ \E r \in Runners : Holds(r, i)

\* An id starts as a chain of its own, and only ever joins an older one.
ChainInv ==
  /\ ChainIsSingle
  /\ \A t \in Ids : root[t] <= t /\ (t > added => root[t] = t)

LEMMA ChainInit == Init => ChainInv
<1> SUFFICES ASSUME Init PROVE ChainInv
  OBVIOUS
<1>1. \A t \in Ids : root[t] = t  BY DEF Init
<1>2. Ids \subseteq Nat  BY DEF Ids
<1> QED BY <1>1, <1>2 DEF ChainInv, ChainIsSingle

LEMMA ChainQuiet ==
  ASSUME ChainInv, root' = root, added' = added, \A i \in Ids : Live(i)' => Live(i)
  PROVE  ChainInv'
<1>1. \A i \in Ids : (task'[i].status \in {"pending", "running"}
                        \/ \E r \in Runners : held'[r].id = i)
          => (task[i].status \in {"pending", "running"} \/ \E r \in Runners : held[r].id = i)
  BY DEF Live, Holds
<1>2. ChainIsSingle'
  <2> SUFFICES ASSUME NEW s \in Ids, NEW t \in Ids, root'[s] = root'[t],
                      \A i \in {s, t} : \/ task'[i].status \in {"pending", "running"}
                                        \/ \E r \in Runners : held'[r].id = i
               PROVE  s = t
    BY DEF ChainIsSingle, Holds
  <2>1. \A i \in {s, t} : \/ task[i].status \in {"pending", "running"}
                          \/ \E r \in Runners : held[r].id = i
    BY <1>1
  <2>2. root[s] = root[t]  OBVIOUS
  <2> QED BY <2>1, <2>2 DEF ChainInv, ChainIsSingle, Holds
<1> QED BY <1>2 DEF ChainInv

\* A new id n in chain c, in which nothing else is live any more.
LEMMA ChainNew ==
  ASSUME TypeInv, HoldInv, ChainInv, NEW n \in Ids, NEW c \in Ids, n = added + 1, added' = n,
         root' = [root EXCEPT ![n] = c], c <= n,
         \A i \in Ids \ {n} : Live(i)' => Live(i) /\ root[i] # c
  PROVE  ChainInv'
<1>1. root \in [Ids -> Ids] /\ added \in Nat /\ Ids \subseteq Nat  BY DEF TypeInv, TypeOK, Ids
<1>2. \A t \in Ids : root'[t] <= t /\ (t > added' => root'[t] = t)
  <2>1. \A t \in Ids \ {n} : root'[t] = root[t]  BY <1>1
  <2>2. root'[n] = c  BY <1>1
  <2>3. \A t \in Ids : t > added' => t # n /\ t > added  BY <1>1
  <2> QED BY <2>1, <2>2, <2>3, <1>1 DEF ChainInv
<1>3. ChainIsSingle'
  <2> SUFFICES ASSUME NEW s \in Ids, NEW t \in Ids, root'[s] = root'[t],
                      \A i \in {s, t} : \/ task'[i].status \in {"pending", "running"}
                                        \/ \E r \in Runners : held'[r].id = i
               PROVE  s = t
    BY DEF ChainIsSingle, Holds
  <2>1. Live(s)' /\ Live(t)'  BY DEF Live, Holds
  <2>2. CASE s # n /\ t # n
    <3>1. Live(s) /\ Live(t)  BY <2>1, <2>2
    <3>2. root[s] = root[t]  BY <1>1, <2>2
    <3> QED BY <3>1, <3>2 DEF Live, ChainInv, ChainIsSingle, Holds
  <2>3. CASE s = n /\ t # n
    <3>1. root[t] # c /\ root'[t] = root[t] /\ root'[s] = c  BY <1>1, <2>1, <2>3
    <3> QED BY <3>1
  <2>4. CASE s # n /\ t = n
    <3>1. root[s] # c /\ root'[s] = root[s] /\ root'[t] = c  BY <1>1, <2>1, <2>4
    <3> QED BY <3>1
  <2> QED BY <2>2, <2>3, <2>4
<1> QED BY <1>2, <1>3 DEF ChainInv

\* What is live has been handed out.
LEMMA LiveIsAdded ==
  ASSUME TypeInv, HoldInv, NEW i \in Ids, Live(i)  PROVE i <= added
<1>1. added \in Nat /\ Ids \subseteq Nat  BY DEF TypeInv, TypeOK, Ids
<1>2. CASE task[i].status \in {"pending", "running"}  BY <1>1, <1>2 DEF HoldInv
<1>3. CASE \E r \in Runners : Holds(r, i)  BY <1>3 DEF HoldInv, Holds
<1> QED BY <1>2, <1>3 DEF Live

LEMMA ChainStep == TypeInv /\ HoldInv /\ ChainInv /\ [Next]_vars => ChainInv'
<1> SUFFICES ASSUME TypeInv, HoldInv, ChainInv, [Next]_vars PROVE ChainInv'
  OBVIOUS
<1>0. /\ task \in [Ids -> TaskType] /\ \A t \in Ids : task[t] \in TaskType
      /\ held \in [Runners -> HeldType] /\ root \in [Ids -> Ids]
      /\ pc \in [Runners -> RunnerPCs] /\ added \in Nat /\ Ids \subseteq Nat /\ 0 \notin Ids
      /\ Nothing.id = 0
  <2>1. added \in Nat /\ Ids \subseteq Nat /\ 0 \notin Ids
    BY QueueAssumption DEF TypeInv, TypeOK, Ids
  <2>2. task \in [Ids -> TaskType] /\ \A t \in Ids : task[t] \in TaskType
    BY DEF TypeInv, TypeOK
  <2>3. /\ held \in [Runners -> HeldType] /\ root \in [Ids -> Ids]
        /\ pc \in [Runners -> RunnerPCs]
    BY DEF TypeInv, TypeOK, HeldType
  <2> QED BY <2>1, <2>2, <2>3, NothingType
<1>1. CASE UNCHANGED vars
  BY <1>1, ChainQuiet DEF vars, queue, locals, ghosts, Live, Holds
<1>2. CASE \/ \E t \in Ids : CancelTask(t) \/ BecomeDue(t) \/ GrowStale(t)
           \/ ClearDone \/ \E r \in Runners : RecoverStale(r)
  <2>1. added' = added /\ held' = held /\ root' = root
    BY <1>2 DEF CancelTask, BecomeDue, GrowStale, ClearDone, RecoverStale, Write, Goto, locals, ghosts
  <2>2. \A i \in Ids : task'[i].status \in {"pending", "running"}
                        => task[i].status \in {"pending", "running"}
    <3>1. ASSUME NEW t \in Ids, CancelTask(t), NEW i \in Ids,
                 task'[i].status \in {"pending", "running"}
          PROVE  task[i].status \in {"pending", "running"}
      BY <1>0, <3>1 DEF CancelTask, Write, TaskType
    <3>2. ASSUME NEW t \in Ids, BecomeDue(t) \/ GrowStale(t), NEW i \in Ids,
                 task'[i].status \in {"pending", "running"}
          PROVE  task[i].status \in {"pending", "running"}
      BY <1>0, <3>2 DEF BecomeDue, GrowStale, TaskType
    <3>3. CASE ClearDone  BY <1>0, <3>3 DEF ClearDone, TaskType
    <3>4. CASE \E r \in Runners : RecoverStale(r)  BY <1>0, <3>4 DEF RecoverStale, TaskType
    <3> QED BY <1>2, <3>1, <3>2, <3>3, <3>4
  <2>3. \A i \in Ids : Live(i)' => Live(i)  BY <2>1, <2>2 DEF Live, Holds
  <2> QED BY <2>1, <2>3, ChainQuiet
<1>3. ASSUME NEW p \in Priorities, NEW ev \in BOOLEAN, NEW D \in SUBSET Ids, AddTask(p, ev, D)
      PROVE  ChainInv'
  <2> DEFINE n == added + 1
  <2>1. n \in Ids
    <3>1. added + Cardinality(InFlight) < MaxTasks /\ Cardinality(InFlight) \in Nat
      BY <1>3, FlightFinite DEF AddTask, Room, InFlight
    <3> QED BY <1>0, <3>1, QueueAssumption DEF Ids
  <2>2. /\ added' = n /\ held' = held /\ root' = root /\ root[n] = n
        /\ \A i \in Ids \ {n} : task'[i] = task[i]
    BY <1>0, <1>3, <2>1 DEF AddTask, locals, ghosts, ChainInv
  <2>3. root' = [root EXCEPT ![n] = n]  BY <1>0, <2>1, <2>2
  <2>4. \A i \in Ids \ {n} : Live(i)' => Live(i)  BY <2>2 DEF Live, Holds
  <2>5. \A i \in Ids : Live(i) => root[i] # n
    <3>1. \A i \in Ids : root[i] <= i /\ root[i] \in Nat  BY <1>0 DEF ChainInv
    <3>2. \A i \in Ids : Live(i) => i <= added  BY LiveIsAdded
    <3> QED BY <1>0, <3>1, <3>2
  <2>6. \A i \in Ids \ {n} : Live(i)' => Live(i) /\ root[i] # n  BY <2>4, <2>5
  <2>7. n = added + 1 /\ n <= n  BY <1>0
  <2>8. added' = n  BY <2>2
  <2> HIDE DEF n
  <2> QED BY <2>1, <2>3, <2>6, <2>7, <2>8, ChainNew
<1>4. ASSUME NEW r \in Runners, NEW t \in Ids, Claim(r, t)  PROVE ChainInv'
  <2>1. Live(t)  BY <1>4 DEF Claim, Selected, Eligible, Live
  <2>2. /\ added' = added /\ root' = root /\ held'[r].id = t
        /\ \A i \in Ids \ {t} : task'[i] = task[i]
        /\ \A s \in Runners \ {r} : held'[s] = held[s]
    BY <1>0, <1>4 DEF Claim, ghosts
  <2>3. \A i \in Ids \ {t} : Live(i)' => Live(i)  BY <2>2 DEF Live, Holds
  <2> QED BY <2>1, <2>2, <2>3, ChainQuiet
<1>5. ASSUME NEW r \in Runners,
             \/ ClaimNothing(r) \/ Crash(r) \/ DispatchReturns(r) \/ DispatchRaises(r)
      PROVE  ChainInv'
  <2>1. /\ UNCHANGED <<task, added, root>>
        /\ \A s \in Runners : held'[s].id = held[s].id \/ held'[s].id = 0
    BY <1>0, <1>5
       DEF ClaimNothing, Crash, DispatchReturns, DispatchRaises, Goto, Leave, queue, ghosts
  <2>2. \A i \in Ids : Live(i)' => Live(i)  BY <1>0, <2>1 DEF Live, Holds
  <2> QED BY <2>1, <2>2, ChainQuiet
<1>6. ASSUME NEW r \in Runners, Dispatch(r) \/ Retry(r) \/ GiveUp(r) \/ Finish(r)
      PROVE  ChainInv'
  <2> DEFINE t == held[r].id
  <2>1. t \in Ids  BY <1>6, HeldIsTask DEF Dispatch, Retry, GiveUp, Finish, Away
  <2>2. Live(t)  BY DEF Live, Holds
  <2>3. /\ added' = added /\ root' = root
        /\ \A i \in Ids \ {t} : task'[i] = task[i]
    BY <1>0, <1>6 DEF Dispatch, Retry, GiveUp, Finish, Finalize, Write, queue, ghosts
  <2>4. \A s \in Runners : held'[s].id = held[s].id \/ held'[s].id = 0
    BY <1>0, <1>6 DEF Dispatch, Retry, GiveUp, Finish, Goto, Leave
  <2>5. \A i \in Ids \ {t} : Live(i)' => Live(i)  BY <1>0, <2>3, <2>4 DEF Live, Holds
  <2> QED BY <2>2, <2>3, <2>5, ChainQuiet
<1>7. ASSUME NEW r \in Runners, Requeue(r)  PROVE ChainInv'
  <2> DEFINE t == held[r].id  n == added + 1
  <2>1. t \in Ids  BY <1>7, HeldIsTask DEF Requeue, Away
  <2>2. /\ task[t].status \notin {"pending", "running"} /\ t <= added
        /\ \A s \in Runners \ {r} : held[s].id # t
    BY <1>7, <2>1 DEF HoldInv, NoDoubleDispatch, Holds, Requeue
  <2>3. /\ held'[r].id = 0 /\ \A s \in Runners \ {r} : held'[s] = held[s]
    BY <1>0, <1>7 DEF Requeue, Leave
  <2>4. CASE ~held[r].task.every
    <3>1. UNCHANGED <<task, added, root>>  BY <1>7, <2>4 DEF Requeue, queue
    <3>2. \A i \in Ids : Live(i)' => Live(i)  BY <1>0, <2>3, <3>1 DEF Live, Holds
    <3> QED BY <3>1, <3>2, ChainQuiet
  <2>5. CASE held[r].task.every
    <3>1. /\ added' = n /\ root' = [root EXCEPT ![n] = root[t]]
          /\ \A i \in Ids \ {n} : task'[i] = task[i]
      BY <1>0, <1>7, <2>5 DEF Requeue
    <3>2. n \in Ids
      <4>1. added' \in 0..MaxTasks  BY TypeStep DEF TypeInv, TypeOK
      <4> QED BY <1>0, <3>1, <4>1, QueueAssumption DEF Ids
    <3>3. root[t] \in Ids /\ root[t] <= n
      <4>1. root[t] \in Ids  BY <1>0, <2>1
      <4>2. root[t] <= t  BY <2>1 DEF ChainInv
      <4>3. t <= added  BY <2>2
      <4>4. root[t] \in Nat /\ t \in Nat  BY <1>0, <2>1, <4>1
      <4> HIDE DEF t
      <4> QED BY <1>0, <4>1, <4>2, <4>3, <4>4
    <3>4. \A i \in Ids \ {n} : Live(i)' => Live(i) /\ i # t
      BY <1>0, <2>1, <2>2, <2>3, <3>1 DEF Live, Holds
    <3>5. Live(t)  BY DEF Live, Holds
    <3>6. \A i \in Ids : Live(i) /\ i # t => root[i] # root[t]
      BY <2>1, <3>5 DEF Live, ChainInv, ChainIsSingle
    <3> QED BY <3>1, <3>2, <3>3, <3>4, <3>6, ChainNew
  <2> QED BY <2>4, <2>5
<1> QED BY <1>1, <1>2, <1>3, <1>4, <1>5, <1>6, <1>7 DEF Next, Operator, RunnerStep

\* A recurring chain never forks, even when a task is declared stale under a
\* live runner and finished afterwards.
THEOREM ChainsStaySingle == Spec => []ChainIsSingle
<1>1. ChainInv => ChainIsSingle  BY DEF ChainInv
<1> QED BY <1>1, TypeInit, TypeStep, HoldInit, HoldStep, ChainInit, ChainStep, PTL DEF Spec

-----------------------------------------------------------------------------
(* How often, and after what, a task is dispatched.                         *)

\* A runner between its claim and the end of its dispatch.
Busy == {"dispatch", "returned", "raised", "requeue"}

\* The count in the file of a task that is up for grabs, or in the copy of the
\* runner that has it, is never behind the dispatches that really began.
AttemptInv ==
  /\ AttemptsBounded
  /\ \A t \in Ids :
       /\ task[t].status = "pending" => calls[t] <= task[t].retries /\ task[t].retries < MaxRetries
       /\ t > added => calls[t] = 0
  /\ \A r \in Runners :
       /\ pc[r] = "claimed" => /\ calls[held[r].id] <= held[r].task.retries
                               /\ held[r].task.retries < MaxRetries
       /\ pc[r] \in Busy => calls[held[r].id] <= held[r].task.retries + 1

\* A task is done only when it succeeded, and nobody holds a task one of whose
\* dependencies did not.
DependInv ==
  /\ DependenciesFirst
  /\ \A t \in Ids : task[t].status = "done" => t \in succeeded
  /\ \A r \in Runners :
       /\ pc[r] \in {"returned", "requeue"} => held[r].id \in succeeded
       /\ pc[r] \notin Away => task[held[r].id].depends_on \subseteq succeeded

LEMMA DispatchInit == Init => AttemptInv /\ DependInv
<1> SUFFICES ASSUME Init PROVE AttemptInv /\ DependInv
  OBVIOUS
<1>1. /\ \A t \in Ids : task[t].status = "absent" /\ calls[t] = 0
      /\ \A r \in Runners : pc[r] = "idle"
  BY DEF Init, NoTask, Task
<1>2. AttemptInv
  BY <1>1, QueueAssumption DEF AttemptInv, AttemptsBounded, Busy
<1>3. DependInv
  BY <1>1 DEF DependInv, DependenciesFirst, Away
<1> QED BY <1>2, <1>3

\* No dispatch begins and no task becomes pending.
LEMMA AttemptQuiet ==
  ASSUME TypeInv, AttemptInv, calls' = calls, added' \in Nat, added <= added',
         \A t \in Ids : task'[t].status = "pending" =>
            \/ task[t].status = "pending" /\ task'[t].retries = task[t].retries
            \/ t > added /\ task'[t].retries = 0,
         \A r \in Runners :
            /\ pc'[r] = "claimed" => pc[r] = "claimed" /\ held'[r] = held[r]
            /\ pc'[r] \in Busy => pc[r] \in Busy /\ held'[r] = held[r]
  PROVE  AttemptInv'
<1>1. added \in Nat /\ Ids \subseteq Nat /\ \A t \in Ids : calls[t] \in Nat
  BY DEF TypeInv, TypeOK, Ids
<1>2. AttemptsBounded'  BY DEF AttemptInv, AttemptsBounded
<1>3. ASSUME NEW t \in Ids
      PROVE  /\ task'[t].status = "pending" => calls[t] <= task'[t].retries /\ task'[t].retries < MaxRetries
             /\ t > added' => calls[t] = 0
  <2>1. t > added' => t > added  BY <1>1
  <2> QED BY <2>1, <1>1, QueueAssumption DEF AttemptInv
<1>4. ASSUME NEW r \in Runners
      PROVE  /\ pc'[r] = "claimed" => /\ calls[held'[r].id] <= held'[r].task.retries
                                      /\ held'[r].task.retries < MaxRetries
             /\ pc'[r] \in Busy => calls[held'[r].id] <= held'[r].task.retries + 1
  BY DEF AttemptInv
<1> QED BY <1>2, <1>3, <1>4 DEF AttemptInv

\* No dispatch begins, no task becomes done without its success, and nobody
\* takes a task.
LEMMA DependQuiet ==
  ASSUME TypeInv, DependInv, HoldInv, calls' = calls, succeeded \subseteq succeeded',
         \A t \in Ids : task'[t].depends_on = task[t].depends_on
                          \/ (t > added /\ calls[t] = 0 /\ \A r \in Runners : held'[r].id # t),
         \A t \in Ids : task'[t].status = "done" => task[t].status = "done" \/ t \in succeeded',
         \A r \in Runners :
            /\ pc'[r] \notin Away => pc[r] \notin Away /\ held'[r] = held[r]
            /\ pc'[r] \in {"returned", "requeue"} =>
                 pc[r] \in {"returned", "requeue"} \/ held'[r].id \in succeeded'
  PROVE  DependInv'
<1>1. DependenciesFirst'
  <2> SUFFICES ASSUME NEW t \in Ids, calls[t] > 0 PROVE task'[t].depends_on \subseteq succeeded'
    BY DEF DependenciesFirst
  <2>1. task'[t].depends_on = task[t].depends_on  OBVIOUS
  <2>2. task[t].depends_on \subseteq succeeded  BY DEF DependInv, DependenciesFirst
  <2> QED BY <2>1, <2>2
<1>2. \A t \in Ids : task'[t].status = "done" => t \in succeeded'
  BY DEF DependInv
<1>3. ASSUME NEW r \in Runners, pc'[r] \in {"returned", "requeue"}
      PROVE  held'[r].id \in succeeded'
  <2>1. held'[r] = held[r]  BY <1>3 DEF Away
  <2> QED BY <1>3, <2>1 DEF DependInv
<1>4. ASSUME NEW r \in Runners, pc'[r] \notin Away
      PROVE  task'[held'[r].id].depends_on \subseteq succeeded'
  <2>1. pc[r] \notin Away /\ held'[r] = held[r]  BY <1>4
  <2>2. held[r].id \in Ids  BY <2>1, HeldIsTask
  <2>3. task'[held[r].id].depends_on = task[held[r].id].depends_on  BY <2>1, <2>2
  <2> QED BY <2>1, <2>3 DEF DependInv
<1> QED BY <1>1, <1>2, <1>3, <1>4 DEF DependInv

\* What the operator, time and the stale sweep do: nothing becomes pending,
\* running or done, and nobody moves on.
LEMMA Sweeps ==
  ASSUME TypeInv, \/ \E t \in Ids : CancelTask(t) \/ BecomeDue(t) \/ GrowStale(t)
                  \/ ClearDone \/ \E r \in Runners : RecoverStale(r)
  PROVE  /\ UNCHANGED <<calls, succeeded, added, held>>
         /\ \A r \in Runners : pc'[r] = pc[r] \/ pc'[r] \in Away
         /\ \A t \in Ids : /\ task'[t].status \in {"pending", "done"} => task[t].status = task'[t].status
                           /\ task'[t].retries = task[t].retries
                           /\ task'[t].depends_on = task[t].depends_on
<1>0. /\ task \in [Ids -> TaskType] /\ \A t \in Ids : task[t] \in TaskType
      /\ pc \in [Runners -> RunnerPCs]
  BY DEF TypeInv, TypeOK
<1>1. /\ UNCHANGED <<calls, succeeded, added, held>>
      /\ \A r \in Runners : pc'[r] = pc[r] \/ pc'[r] \in Away
  BY <1>0 DEF CancelTask, BecomeDue, GrowStale, ClearDone, RecoverStale, Write, Goto, locals,
     ghosts, Away
<1>2. ASSUME NEW t \in Ids
      PROVE  /\ task'[t].status \in {"pending", "done"} => task[t].status = task'[t].status
             /\ task'[t].retries = task[t].retries
             /\ task'[t].depends_on = task[t].depends_on
  <2>1. ASSUME NEW i \in Ids, CancelTask(i)
        PROVE  /\ task'[t].status \in {"pending", "done"} => task[t].status = task'[t].status
               /\ task'[t].retries = task[t].retries
               /\ task'[t].depends_on = task[t].depends_on
    BY <1>0, <2>1 DEF CancelTask, Write, TaskType
  <2>2. ASSUME NEW i \in Ids, BecomeDue(i) \/ GrowStale(i)
        PROVE  /\ task'[t].status \in {"pending", "done"} => task[t].status = task'[t].status
               /\ task'[t].retries = task[t].retries
               /\ task'[t].depends_on = task[t].depends_on
    BY <1>0, <2>2 DEF BecomeDue, GrowStale, TaskType
  <2>3. CASE ClearDone  BY <1>0, <2>3 DEF ClearDone, TaskType
  <2>4. CASE \E r \in Runners : RecoverStale(r)  BY <1>0, <2>4 DEF RecoverStale, TaskType
  <2> QED BY <2>1, <2>2, <2>3, <2>4
<1> QED BY <1>1, <1>2

\* A task is written down as done by whoever saw it succeed, and by nobody else.
LEMMA Leaves ==
  ASSUME TypeInv, NEW r \in Runners,
         \/ ClaimNothing(r) \/ Crash(r) \/ DispatchReturns(r) \/ DispatchRaises(r)
         \/ GiveUp(r) \/ Finish(r)
  PROVE  /\ UNCHANGED <<calls, added>> /\ succeeded \subseteq succeeded'
         /\ \A s \in Runners \ {r} : pc'[s] = pc[s] /\ held'[s] = held[s]
         /\ pc'[r] \notin Away => pc'[r] \in Busy /\ pc[r] \in Busy /\ held'[r] = held[r]
         /\ pc'[r] \in {"returned", "requeue"} =>
              pc[r] \in {"returned", "requeue"} \/ held'[r].id \in succeeded'
         /\ \A t \in Ids : /\ task'[t].status = "pending" => task[t].status = "pending"
                           /\ task'[t].status = "done" => \/ task[t].status = "done"
                                                          \/ pc[r] = "returned" /\ t = held[r].id
                           /\ task'[t].retries = task[t].retries
                           /\ task'[t].depends_on = task[t].depends_on
<1>0. /\ task \in [Ids -> TaskType] /\ \A t \in Ids : task[t] \in TaskType
      /\ pc \in [Runners -> RunnerPCs] /\ held \in [Runners -> HeldType]
  BY DEF TypeInv, TypeOK, HeldType
<1>1. CASE ClaimNothing(r) \/ Crash(r) \/ DispatchReturns(r) \/ DispatchRaises(r)
  BY <1>0, <1>1 DEF ClaimNothing, Crash, DispatchReturns, DispatchRaises, Goto, Leave, queue,
     ghosts, Away, Busy
<1>2. CASE GiveUp(r) \/ Finish(r)
  <2>1. /\ UNCHANGED <<calls, succeeded, added>>
        /\ \A s \in Runners \ {r} : pc'[s] = pc[s] /\ held'[s] = held[s]
        /\ pc'[r] \notin Away => pc'[r] = "requeue" /\ pc[r] = "returned" /\ held'[r] = held[r]
    BY <1>0, <1>2 DEF GiveUp, Finish, Finalize, Write, queue, ghosts, Goto, Leave, Away
  <2>2. \/ task' = task
        \/ task' = [task EXCEPT ![held[r].id].status = "failed"]
        \/ task' = [task EXCEPT ![held[r].id].status = "done"] /\ pc[r] = "returned"
    BY <1>2 DEF GiveUp, Finish, Finalize, Write, queue
  <2>3. \A t \in Ids : /\ task'[t].status = "pending" => task[t].status = "pending"
                       /\ task'[t].status = "done" => \/ task[t].status = "done"
                                                      \/ pc[r] = "returned" /\ t = held[r].id
                       /\ task'[t].retries = task[t].retries
                       /\ task'[t].depends_on = task[t].depends_on
    BY <1>0, <2>2 DEF TaskType
  <2>4. /\ pc'[r] \notin Away => pc'[r] \in Busy /\ pc[r] \in Busy /\ held'[r] = held[r]
        /\ pc'[r] \in {"returned", "requeue"} => pc[r] \in {"returned", "requeue"}
    BY <2>1 DEF Busy, Away
  <2> QED BY <2>1, <2>3, <2>4
<1> QED BY <1>1, <1>2

LEMMA AttemptStep == TypeInv /\ HoldInv /\ AttemptInv /\ [Next]_vars => AttemptInv'
<1> SUFFICES ASSUME TypeInv, HoldInv, AttemptInv, [Next]_vars PROVE AttemptInv'
  OBVIOUS
<1>0. /\ task \in [Ids -> TaskType] /\ \A t \in Ids : task[t] \in TaskType
      /\ pc \in [Runners -> RunnerPCs] /\ held \in [Runners -> HeldType] /\ calls \in [Ids -> Nat]
      /\ added \in Nat /\ Ids \subseteq Nat /\ \A r \in Runners : held[r].id <= added
      /\ MaxRetries \in Nat /\ \A r \in Runners : held[r] \in HeldType
  <2>1. /\ held \in [Runners -> HeldType] /\ \A r \in Runners : held[r] \in HeldType
        /\ pc \in [Runners -> RunnerPCs] /\ calls \in [Ids -> Nat]
    BY DEF TypeInv, TypeOK, HeldType
  <2>2. task \in [Ids -> TaskType] /\ \A t \in Ids : task[t] \in TaskType
    BY DEF TypeInv, TypeOK
  <2>3. added \in Nat /\ Ids \subseteq Nat /\ MaxRetries \in Nat
    BY QueueAssumption DEF TypeInv, TypeOK, Ids
  <2>4. \A r \in Runners : held[r].id <= added  BY DEF HoldInv
  <2> QED BY <2>1, <2>2, <2>3, <2>4
<1>1. CASE UNCHANGED vars
  <2>1. \A t \in Ids : task'[t] = task[t]  BY <1>1 DEF vars, queue
  <2>2. \A r \in Runners : pc'[r] = pc[r] /\ held'[r] = held[r]  BY <1>1 DEF vars, locals
  <2>3. calls' = calls /\ added' = added  BY <1>1 DEF vars, queue, ghosts
  <2>4. added' \in Nat /\ added <= added'  BY <1>0, <2>3
  <2> QED BY <2>1, <2>2, <2>3, <2>4, AttemptQuiet
<1>2. CASE \/ \E t \in Ids : CancelTask(t) \/ BecomeDue(t) \/ GrowStale(t)
           \/ ClearDone \/ \E r \in Runners : RecoverStale(r)
  <2>1. /\ calls' = calls /\ added' = added
        /\ \A t \in Ids : task'[t].status = "pending" =>
             task[t].status = "pending" /\ task'[t].retries = task[t].retries
    BY <1>2, Sweeps
  <2>2. \A r \in Runners :
            /\ pc'[r] = "claimed" => pc[r] = "claimed" /\ held'[r] = held[r]
            /\ pc'[r] \in Busy => pc[r] \in Busy /\ held'[r] = held[r]
    BY <1>2, Sweeps DEF Away, Busy
  <2>3. added' \in Nat /\ added <= added'  BY <1>0, <2>1
  <2> QED BY <2>1, <2>2, <2>3, AttemptQuiet
<1>3. ASSUME NEW p \in Priorities, NEW ev \in BOOLEAN, NEW D \in SUBSET Ids, AddTask(p, ev, D)
      PROVE  AttemptInv'
  <2>1. /\ added' = added + 1 /\ pc' = pc /\ held' = held /\ calls' = calls
        /\ \A t \in Ids : t # added + 1 => task'[t] = task[t]
        /\ \A t \in Ids : t = added + 1 => task'[t].retries = 0
    BY <1>0, <1>3 DEF AddTask, locals, ghosts, Task
  <2>2. added' \in Nat /\ added <= added'  BY <1>0, <2>1
  <2>3. \A t \in Ids : task'[t].status = "pending" =>
           \/ task[t].status = "pending" /\ task'[t].retries = task[t].retries
           \/ t > added /\ task'[t].retries = 0
    BY <1>0, <2>1
  <2> QED BY <2>1, <2>2, <2>3, AttemptQuiet
<1>4. ASSUME NEW r \in Runners, NEW t \in Ids, Claim(r, t)  PROVE AttemptInv'
  <2>1. task[t].status = "pending"  BY <1>4 DEF Claim, Selected, Eligible
  <2>2. calls[t] <= task[t].retries /\ task[t].retries < MaxRetries
    BY <2>1 DEF AttemptInv
  <2>3. /\ added' = added /\ calls' = calls /\ task'[t].status = "running"
        /\ task'[t].retries = task[t].retries
        /\ \A s \in Ids \ {t} : task'[s] = task[s]
        /\ held'[r] = [id |-> t, task |-> task'[t]] /\ pc'[r] = "claimed"
        /\ \A s \in Runners \ {r} : held'[s] = held[s] /\ pc'[s] = pc[s]
    BY <1>0, <1>4 DEF Claim, TaskType, ghosts
  <2>4. AttemptsBounded'  BY <2>3 DEF AttemptInv, AttemptsBounded
  <2>5. \A s \in Ids :
          /\ task'[s].status = "pending" => calls'[s] <= task'[s].retries /\ task'[s].retries < MaxRetries
          /\ s > added' => calls'[s] = 0
    BY <2>3 DEF AttemptInv
  <2>6. ASSUME NEW s \in Runners
        PROVE  /\ pc'[s] = "claimed" => /\ calls'[held'[s].id] <= held'[s].task.retries
                                        /\ held'[s].task.retries < MaxRetries
               /\ pc'[s] \in Busy => calls'[held'[s].id] <= held'[s].task.retries + 1
    <3>1. CASE s = r  BY <2>2, <2>3, <3>1 DEF Busy
    <3>2. CASE s # r  BY <2>3, <3>2 DEF AttemptInv
    <3> QED BY <3>1, <3>2
  <2> QED BY <2>4, <2>5, <2>6 DEF AttemptInv
<1>5. ASSUME NEW r \in Runners,
             \/ ClaimNothing(r) \/ Crash(r) \/ DispatchReturns(r) \/ DispatchRaises(r)
             \/ GiveUp(r) \/ Finish(r)
      PROVE  AttemptInv'
  <2>1. /\ calls' = calls /\ added' = added
        /\ \A t \in Ids : task'[t].status = "pending" =>
             task[t].status = "pending" /\ task'[t].retries = task[t].retries
    BY <1>5, Leaves
  <2>2. ASSUME NEW s \in Runners
        PROVE  /\ pc'[s] = "claimed" => pc[s] = "claimed" /\ held'[s] = held[s]
               /\ pc'[s] \in Busy => pc[s] \in Busy /\ held'[s] = held[s]
    <3>1. CASE s = r  BY <1>5, <3>1, Leaves DEF Away, Busy
    <3>2. CASE s # r  BY <1>5, <3>2, Leaves
    <3> QED BY <3>1, <3>2
  <2> QED BY <1>0, <2>1, <2>2, AttemptQuiet
<1>6. ASSUME NEW r \in Runners, Dispatch(r)  PROVE AttemptInv'
  <2> DEFINE t == held[r].id
  <2>1. pc[r] = "claimed" /\ t \in Ids /\ t <= added
    BY <1>0, <1>6, HeldIsTask DEF Dispatch, Away
  <2>2. calls[t] <= held[r].task.retries /\ held[r].task.retries < MaxRetries
    BY <2>1 DEF AttemptInv
  <2>3. /\ added' = added /\ held' = held /\ pc'[r] = "dispatch"
        /\ calls'[t] = calls[t] + 1 /\ task'[t].status # "pending"
        /\ \A s \in Ids \ {t} : calls'[s] = calls[s] /\ task'[s] = task[s]
        /\ \A s \in Runners \ {r} : pc'[s] = pc[s]
    BY <1>0, <1>6, <2>1 DEF Dispatch, Goto, Listed, TaskType
  <2>4. \A s \in Runners \ {r} : held[s].id # t
    BY <2>1 DEF HoldInv, NoDoubleDispatch, Holds
  <2>5. held[r].task.retries \in Nat /\ calls[t] \in Nat
    BY <1>0, <2>1, HeldIsTask DEF Away, TaskType
  <2>6. AttemptsBounded'
    <3>1. \A s \in Ids \ {t} : calls'[s] <= MaxRetries  BY <2>3 DEF AttemptInv, AttemptsBounded
    <3>2. calls'[t] <= MaxRetries  BY <1>0, <2>2, <2>3, <2>5
    <3> QED BY <3>1, <3>2 DEF AttemptsBounded
  <2>7. ASSUME NEW s \in Ids
        PROVE  /\ task'[s].status = "pending" => calls'[s] <= task'[s].retries /\ task'[s].retries < MaxRetries
               /\ s > added' => calls'[s] = 0
    <3>1. CASE s = t  BY <1>0, <2>1, <2>3, <3>1
    <3>2. CASE s # t  BY <2>3, <3>2 DEF AttemptInv
    <3> QED BY <3>1, <3>2
  <2>8. ASSUME NEW s \in Runners
        PROVE  /\ pc'[s] = "claimed" => /\ calls'[held'[s].id] <= held'[s].task.retries
                                        /\ held'[s].task.retries < MaxRetries
               /\ pc'[s] \in Busy => calls'[held'[s].id] <= held'[s].task.retries + 1
    <3>1. CASE s = r
      <4>1. calls'[t] <= held[r].task.retries + 1  BY <2>2, <2>3, <2>5
      <4> QED BY <2>3, <3>1, <4>1
    <3>2. CASE s # r /\ pc[s] \notin Away
      <4>1. held[s].id \in Ids \ {t}  BY <2>4, <3>2, HeldIsTask
      <4>2. calls'[held[s].id] = calls[held[s].id]  BY <2>3, <4>1
      <4>3. pc'[s] = pc[s] /\ held'[s] = held[s]  BY <2>3, <3>2
      <4> HIDE DEF t
      <4> QED BY <4>2, <4>3 DEF AttemptInv
    <3>3. CASE s # r /\ pc[s] \in Away  BY <2>3, <3>3 DEF Away, Busy
    <3> QED BY <3>1, <3>2, <3>3
  <2> HIDE DEF t
  <2> QED BY <2>6, <2>7, <2>8 DEF AttemptInv
<1>7. ASSUME NEW r \in Runners, Retry(r)  PROVE AttemptInv'
  <2> DEFINE t == held[r].id  n == held[r].task.retries + 1
  <2>1. pc[r] = "raised" /\ t \in Ids /\ n < MaxRetries /\ held[r].task \in TaskType
    BY <1>7, HeldIsTask DEF Retry, Away
  <2>2. calls[t] <= n  BY <2>1 DEF AttemptInv, Busy
  <2>3. /\ added' = added /\ calls' = calls /\ pc'[r] = "idle"
        /\ \A s \in Ids \ {t} : task'[s] = task[s]
        /\ task'[t] = task[t] \/ task'[t].retries = n
        /\ \A s \in Runners \ {r} : held'[s] = held[s] /\ pc'[s] = pc[s]
    BY <1>0, <1>7, <2>1 DEF Retry, Leave, ghosts, TaskType
  <2>4. AttemptsBounded'  BY <2>3 DEF AttemptInv, AttemptsBounded
  <2>5. ASSUME NEW s \in Ids
        PROVE  /\ task'[s].status = "pending" => calls'[s] <= task'[s].retries /\ task'[s].retries < MaxRetries
               /\ s > added' => calls'[s] = 0
    <3>1. CASE task'[s] = task[s]  BY <2>3, <3>1 DEF AttemptInv
    <3>2. CASE task'[s] # task[s]
      <4>1. s = t /\ task'[s].retries = n  BY <2>3, <3>2
      <4> HIDE DEF t, n
      <4> QED BY <2>1, <2>2, <2>3, <4>1 DEF AttemptInv
    <3> QED BY <3>1, <3>2
  <2>6. \A s \in Runners :
          /\ pc'[s] = "claimed" => /\ calls'[held'[s].id] <= held'[s].task.retries
                                   /\ held'[s].task.retries < MaxRetries
          /\ pc'[s] \in Busy => calls'[held'[s].id] <= held'[s].task.retries + 1
    BY <2>3 DEF AttemptInv, Busy
  <2> HIDE DEF t, n
  <2> QED BY <2>4, <2>5, <2>6 DEF AttemptInv
<1>8. ASSUME NEW r \in Runners, Requeue(r)  PROVE AttemptInv'
  <2>1. /\ calls' = calls /\ pc'[r] = "idle"
        /\ \A s \in Runners \ {r} : held'[s] = held[s] /\ pc'[s] = pc[s]
    BY <1>0, <1>8 DEF Requeue, Leave
  <2>2. CASE held[r].task.every
    <3>1. /\ added' = added + 1
          /\ \A t \in Ids : t # added + 1 => task'[t] = task[t]
          /\ \A t \in Ids : t = added + 1 => task'[t].retries = 0
      BY <1>0, <1>8, <2>2 DEF Requeue, Task
    <3> QED BY <1>0, <2>1, <3>1, AttemptQuiet DEF Busy
  <2>3. CASE ~held[r].task.every
    <3>1. added' = added /\ task' = task  BY <1>8, <2>3 DEF Requeue, queue
    <3> QED BY <1>0, <2>1, <3>1, AttemptQuiet DEF Busy
  <2> QED BY <2>2, <2>3
<1> QED BY <1>1, <1>2, <1>3, <1>4, <1>5, <1>6, <1>7, <1>8 DEF Next, Operator, RunnerStep

\* AttemptsBounded: no task is dispatched more often than its max_retries allow,
\* whichever runners take it, lose it or die with it.
THEOREM AttemptsAreBounded == Spec => []AttemptsBounded
<1>1. AttemptInv => AttemptsBounded  BY DEF AttemptInv
<1>2. Init => AttemptInv  BY DispatchInit
<1> QED BY <1>1, <1>2, TypeInit, TypeStep, HoldInit, HoldStep, AttemptStep, PTL DEF Spec

LEMMA DependStep == TypeInv /\ HoldInv /\ AttemptInv /\ DependInv /\ [Next]_vars => DependInv'
<1> SUFFICES ASSUME TypeInv, HoldInv, AttemptInv, DependInv, [Next]_vars PROVE DependInv'
  OBVIOUS
<1>0. /\ task \in [Ids -> TaskType] /\ \A t \in Ids : task[t] \in TaskType
      /\ pc \in [Runners -> RunnerPCs] /\ held \in [Runners -> HeldType] /\ calls \in [Ids -> Nat]
      /\ added \in Nat /\ Ids \subseteq Nat /\ \A r \in Runners : held[r].id <= added
  <2>1. held \in [Runners -> HeldType] /\ pc \in [Runners -> RunnerPCs] /\ calls \in [Ids -> Nat]
    BY DEF TypeInv, TypeOK, HeldType
  <2>2. task \in [Ids -> TaskType] /\ \A t \in Ids : task[t] \in TaskType
    BY DEF TypeInv, TypeOK
  <2>3. added \in Nat /\ Ids \subseteq Nat  BY QueueAssumption DEF TypeInv, TypeOK, Ids
  <2>4. \A r \in Runners : held[r].id <= added  BY DEF HoldInv
  <2> QED BY <2>1, <2>2, <2>3, <2>4
<1>1. CASE UNCHANGED vars
  <2>1. \A t \in Ids : task'[t] = task[t]  BY <1>1 DEF vars, queue
  <2>2. \A r \in Runners : pc'[r] = pc[r] /\ held'[r] = held[r]  BY <1>1 DEF vars, locals
  <2>3. calls' = calls /\ succeeded' = succeeded  BY <1>1 DEF vars, ghosts
  <2> QED BY <2>1, <2>2, <2>3, DependQuiet
<1>2. CASE \/ \E t \in Ids : CancelTask(t) \/ BecomeDue(t) \/ GrowStale(t)
           \/ ClearDone \/ \E r \in Runners : RecoverStale(r)
  <2>1. /\ calls' = calls /\ succeeded \subseteq succeeded' /\ held' = held
        /\ \A t \in Ids : task'[t].depends_on = task[t].depends_on
        /\ \A t \in Ids : task'[t].status = "done" => task[t].status = "done"
    BY <1>2, Sweeps
  <2>2. \A r \in Runners :
            /\ pc'[r] \notin Away => pc[r] \notin Away /\ held'[r] = held[r]
            /\ pc'[r] \in {"returned", "requeue"} => pc[r] \in {"returned", "requeue"}
    BY <1>2, Sweeps DEF Away
  <2> QED BY <2>1, <2>2, DependQuiet
<1>3. ASSUME NEW p \in Priorities, NEW ev \in BOOLEAN, NEW D \in SUBSET Ids, AddTask(p, ev, D)
      PROVE  DependInv'
  <2>1. /\ pc' = pc /\ held' = held /\ calls' = calls /\ succeeded' = succeeded
        /\ \A t \in Ids : t # added + 1 => task'[t] = task[t]
        /\ \A t \in Ids : t = added + 1 => task'[t].status = "pending"
    BY <1>0, <1>3 DEF AddTask, locals, ghosts, Task
  <2>2. \A t \in Ids : t = added + 1 => calls[t] = 0 /\ t > added /\ \A r \in Runners : held[r].id # t
    <3>1. ASSUME NEW t \in Ids, t = added + 1
          PROVE  calls[t] = 0 /\ t > added /\ \A r \in Runners : held[r].id # t
      <4>1. t > added  BY <1>0, <3>1
      <4>2. calls[t] = 0  BY <4>1 DEF AttemptInv
      <4>3. \A r \in Runners : held[r].id \in Nat  BY <1>0 DEF HeldType
      <4>4. \A r \in Runners : held[r].id # t  BY <1>0, <3>1, <4>3
      <4> QED BY <4>1, <4>2, <4>4
    <3> QED BY <3>1
  <2> QED BY <2>1, <2>2, DependQuiet
<1>4. ASSUME NEW r \in Runners, NEW t \in Ids, Claim(r, t)  PROVE DependInv'
  <2>1. \A d \in task[t].depends_on : task[d].status = "done"
    BY <1>4 DEF Claim, Selected, Eligible
  <2>2. task[t].depends_on \subseteq succeeded
    <3>1. task[t].depends_on \subseteq Ids  BY <1>0 DEF TaskType
    <3> QED BY <2>1, <3>1 DEF DependInv
  <2>3. /\ calls' = calls /\ succeeded' = succeeded /\ task'[t].status = "running"
        /\ task'[t].depends_on = task[t].depends_on
        /\ \A s \in Ids \ {t} : task'[s] = task[s]
        /\ held'[r].id = t /\ pc'[r] = "claimed"
        /\ \A s \in Runners \ {r} : held'[s] = held[s] /\ pc'[s] = pc[s]
    BY <1>0, <1>4 DEF Claim, TaskType, ghosts
  <2>4. DependenciesFirst'
    <3>1. \A s \in Ids : task'[s].depends_on = task[s].depends_on  BY <2>3
    <3> QED BY <2>3, <3>1 DEF DependInv, DependenciesFirst
  <2>5. \A s \in Ids : task'[s].status = "done" => s \in succeeded'
    BY <2>3 DEF DependInv
  <2>6. ASSUME NEW s \in Runners
        PROVE  /\ pc'[s] \in {"returned", "requeue"} => held'[s].id \in succeeded'
               /\ pc'[s] \notin Away => task'[held'[s].id].depends_on \subseteq succeeded'
    <3>1. CASE s = r  BY <2>2, <2>3, <3>1
    <3>2. CASE s # r /\ pc[s] \notin Away
      <4>1. held[s].id \in Ids  BY <3>2, HeldIsTask
      <4>2. task'[held[s].id].depends_on = task[held[s].id].depends_on  BY <2>3, <4>1
      <4> QED BY <2>3, <3>2, <4>2 DEF DependInv
    <3>3. CASE s # r /\ pc[s] \in Away  BY <2>3, <3>3 DEF Away
    <3> QED BY <3>1, <3>2, <3>3
  <2> QED BY <2>4, <2>5, <2>6 DEF DependInv
<1>5. ASSUME NEW r \in Runners,
             \/ ClaimNothing(r) \/ Crash(r) \/ DispatchReturns(r) \/ DispatchRaises(r)
             \/ GiveUp(r) \/ Finish(r)
      PROVE  DependInv'
  <2>1. /\ calls' = calls /\ succeeded \subseteq succeeded'
        /\ \A t \in Ids : task'[t].depends_on = task[t].depends_on
    BY <1>5, Leaves
  <2>2. \A t \in Ids : task'[t].status = "done" => task[t].status = "done" \/ t \in succeeded'
    <3>1. pc[r] = "returned" => held[r].id \in succeeded  BY DEF DependInv
    <3> QED BY <1>5, <2>1, <3>1, Leaves
  <2>3. ASSUME NEW s \in Runners
        PROVE  /\ pc'[s] \notin Away => pc[s] \notin Away /\ held'[s] = held[s]
               /\ pc'[s] \in {"returned", "requeue"} =>
                    pc[s] \in {"returned", "requeue"} \/ held'[s].id \in succeeded'
    <3>1. CASE s = r
      <4>1. pc'[r] \notin Away => pc[r] \in Busy /\ held'[r] = held[r]  BY <1>5, Leaves
      <4>2. pc'[r] \in {"returned", "requeue"} =>
              pc[r] \in {"returned", "requeue"} \/ held'[r].id \in succeeded'
        BY <1>5, Leaves
      <4> QED BY <3>1, <4>1, <4>2 DEF Busy, Away
    <3>2. CASE s # r  BY <1>5, <3>2, Leaves
    <3> QED BY <3>1, <3>2
  <2> QED BY <2>1, <2>2, <2>3, DependQuiet
<1>6. ASSUME NEW r \in Runners, Dispatch(r)  PROVE DependInv'
  <2> DEFINE t == held[r].id
  <2>1. pc[r] = "claimed" /\ t \in Ids /\ task[t].depends_on \subseteq succeeded
    BY <1>6, HeldIsTask DEF Dispatch, Away, DependInv
  <2>2. /\ held' = held /\ pc'[r] = "dispatch" /\ succeeded' = succeeded
        /\ \A s \in Ids \ {t} : calls'[s] = calls[s]
        /\ \A s \in Ids : /\ task'[s].depends_on = task[s].depends_on
                          /\ task'[s].status = "done" => task[s].status = "done"
        /\ \A s \in Runners \ {r} : pc'[s] = pc[s]
    BY <1>0, <1>6, <2>1 DEF Dispatch, Goto, TaskType
  <2>3. DependenciesFirst'
    <3>1. ASSUME NEW s \in Ids, calls'[s] > 0  PROVE task'[s].depends_on \subseteq succeeded'
      <4>1. CASE s = t  BY <2>1, <2>2, <4>1
      <4>2. CASE s # t
        <5>1. calls[s] > 0  BY <2>2, <3>1, <4>2
        <5> QED BY <2>2, <5>1 DEF DependInv, DependenciesFirst
      <4> QED BY <4>1, <4>2
    <3> QED BY <3>1 DEF DependenciesFirst
  <2>4. \A s \in Ids : task'[s].status = "done" => s \in succeeded'
    BY <2>2 DEF DependInv
  <2>5. ASSUME NEW s \in Runners
        PROVE  /\ pc'[s] \in {"returned", "requeue"} => held'[s].id \in succeeded'
               /\ pc'[s] \notin Away => task'[held'[s].id].depends_on \subseteq succeeded'
    <3>1. CASE s = r  BY <2>1, <2>2, <3>1
    <3>2. CASE s # r /\ pc[s] \notin Away
      <4>1. held[s].id \in Ids  BY <3>2, HeldIsTask
      <4>2. task'[held[s].id].depends_on = task[held[s].id].depends_on  BY <2>2, <4>1
      <4> QED BY <2>2, <3>2, <4>2 DEF DependInv
    <3>3. CASE s # r /\ pc[s] \in Away  BY <2>2, <3>3 DEF Away
    <3> QED BY <3>1, <3>2, <3>3
  <2> HIDE DEF t
  <2> QED BY <2>3, <2>4, <2>5 DEF DependInv
<1>7. ASSUME NEW r \in Runners, Retry(r)  PROVE DependInv'
  <2>1. held[r].id \in Ids  BY <1>7, HeldIsTask DEF Retry, Away
  <2>2. \A s \in Ids : /\ task'[s].depends_on = task[s].depends_on
                       /\ task'[s].status = "done" => task[s].status = "done"
    <3>1. \/ task' = task
          \/ \E n \in Nat : task' = [task EXCEPT ![held[r].id].status = "pending", ![held[r].id].retries = n]
      <4>1. held[r].task.retries + 1 \in Nat
        BY <1>7, HeldIsTask DEF Retry, Away, TaskType
      <4> QED BY <1>7, <4>1 DEF Retry
    <3>2. ASSUME NEW t \in Ids, NEW n \in Nat,
                 task' = [task EXCEPT ![t].status = "pending", ![t].retries = n], NEW s \in Ids
          PROVE  /\ task'[s].depends_on = task[s].depends_on
                 /\ task'[s].status = "done" => task[s].status = "done"
      <4>1. CASE s = t
        <5>1. task'[s] = [[task[s] EXCEPT !.status = "pending"] EXCEPT !.retries = n]
          BY <1>0, <3>2, <4>1
        <5> QED BY <1>0, <5>1 DEF TaskType
      <4>2. CASE s # t
        <5>1. task'[s] = task[s]  BY <1>0, <3>2, <4>2
        <5> QED BY <5>1
      <4> QED BY <4>1, <4>2
    <3> QED BY <2>1, <3>1, <3>2
  <2>3. /\ calls' = calls /\ succeeded' = succeeded /\ pc'[r] = "idle"
        /\ \A s \in Runners \ {r} : held'[s] = held[s] /\ pc'[s] = pc[s]
    BY <1>0, <1>7 DEF Retry, Leave, ghosts
  <2>4. \A s \in Runners :
            /\ pc'[s] \notin Away => pc[s] \notin Away /\ held'[s] = held[s]
            /\ pc'[s] \in {"returned", "requeue"} => pc[s] \in {"returned", "requeue"}
    BY <2>3 DEF Away
  <2> QED BY <2>2, <2>3, <2>4, DependQuiet
<1>8. ASSUME NEW r \in Runners, Requeue(r)  PROVE DependInv'
  <2>1. /\ calls' = calls /\ succeeded' = succeeded /\ held'[r].id = 0 /\ pc'[r] = "idle"
        /\ \A s \in Runners \ {r} : held'[s] = held[s] /\ pc'[s] = pc[s]
    BY <1>0, <1>8, NothingType DEF Requeue, Leave
  <2>2. \A t \in Ids : t # added + 1 => task'[t] = task[t]
    BY <1>0, <1>8 DEF Requeue, queue
  <2>3. \A t \in Ids : t = added + 1 => task'[t].status = "pending" \/ task'[t] = task[t]
    BY <1>0, <1>8 DEF Requeue, queue, Task
  <2>4. \A t \in Ids : t = added + 1 => calls[t] = 0 /\ t > added /\ \A s \in Runners : held'[s].id # t
    <3>1. ASSUME NEW t \in Ids, t = added + 1
          PROVE  calls[t] = 0 /\ t > added /\ \A s \in Runners : held'[s].id # t
      <4>1. t > added  BY <1>0, <3>1
      <4>2. calls[t] = 0  BY <4>1 DEF AttemptInv
      <4>3. \A s \in Runners : held[s].id \in Nat  BY <1>0 DEF HeldType
      <4>4. \A s \in Runners : held[s].id # t  BY <1>0, <3>1, <4>3
      <4>5. t # 0  BY <1>0, <3>1
      <4> QED BY <2>1, <4>1, <4>2, <4>4, <4>5
    <3> QED BY <3>1
  <2>5. \A s \in Runners :
            /\ pc'[s] \notin Away => pc[s] \notin Away /\ held'[s] = held[s]
            /\ pc'[s] \in {"returned", "requeue"} => pc[s] \in {"returned", "requeue"}
    BY <2>1 DEF Away
  <2> QED BY <2>1, <2>2, <2>3, <2>4, <2>5, DependQuiet
<1> QED BY <1>1, <1>2, <1>3, <1>4, <1>5, <1>6, <1>7, <1>8 DEF Next, Operator, RunnerStep

\* DependenciesFirst: whatever is dispatched, everything it depends on has
\* succeeded; a failed, cancelled or cleared predecessor never passes for done.
THEOREM DependenciesComeFirst == Spec => []DependenciesFirst
<1>1. DependInv => DependenciesFirst  BY DEF DependInv
<1>2. Init => AttemptInv /\ DependInv  BY DispatchInit
<1> QED BY <1>1, <1>2, TypeInit, TypeStep, HoldInit, HoldStep, AttemptStep, DependStep,
           PTL DEF Spec

-----------------------------------------------------------------------------
(* A cancelled task.                                                        *)

\* Whoever writes a cancelled task's status leaves it or clears the task, but for the
\* runner that has claimed the task and is about to dispatch it.
Cancelled(t) ==
  task[t].status = "cancelled" =>
    \/ task'[t].status \in {"cancelled", "absent"}
    \/ \E r \in Runners : pc[r] = "claimed" /\ held[r].id = t

LEMMA CancelStep ==
  ASSUME TypeInv, HoldInv, [Next]_vars, NEW t \in Ids
  PROVE  Cancelled(t)
<1>0. /\ task \in [Ids -> TaskType] /\ \A i \in Ids : task[i] \in TaskType
      /\ pc \in [Runners -> RunnerPCs] /\ held \in [Runners -> HeldType] /\ added \in Nat
  BY DEF TypeInv, TypeOK, HeldType
<1> SUFFICES ASSUME task[t].status = "cancelled"
             PROVE  \/ task'[t].status \in {"cancelled", "absent"}
                    \/ \E r \in Runners : pc[r] = "claimed" /\ held[r].id = t
  BY DEF Cancelled
\* An id that has been cancelled was handed out, so no new task gets it.
<1>1. t # added + 1
  BY <1>0 DEF HoldInv, Ids
<1>2. CASE UNCHANGED vars
  BY <1>2 DEF vars, queue
<1>3. ASSUME NEW p \in Priorities, NEW ev \in BOOLEAN, NEW D \in SUBSET Ids, AddTask(p, ev, D)
      PROVE  task'[t].status = "cancelled"
  BY <1>0, <1>1, <1>3 DEF AddTask
<1>4. ASSUME NEW i \in Ids, CancelTask(i)
      PROVE  task'[t].status = "cancelled"
  BY <1>0, <1>4 DEF CancelTask, Write, TaskType
<1>5. CASE ClearDone
  BY <1>0, <1>5 DEF ClearDone, TaskType
<1>6. ASSUME NEW i \in Ids, BecomeDue(i) \/ GrowStale(i)
      PROVE  task'[t].status = "cancelled"
  BY <1>0, <1>6 DEF BecomeDue, GrowStale, TaskType
<1>7. ASSUME NEW r \in Runners, RecoverStale(r)
      PROVE  task'[t].status = "cancelled"
  BY <1>0, <1>7 DEF RecoverStale
<1>8. ASSUME NEW r \in Runners, NEW i \in Ids, Claim(r, i)
      PROVE  task'[t].status = "cancelled"
  <2>1. i # t
    BY <1>8 DEF Claim, Selected, Eligible
  <2> QED BY <1>0, <1>8, <2>1 DEF Claim
<1>9. ASSUME NEW r \in Runners, Dispatch(r)
      PROVE  \/ task'[t].status = "cancelled"
             \/ pc[r] = "claimed" /\ held[r].id = t
  BY <1>0, <1>9 DEF Dispatch
<1>10. ASSUME NEW r \in Runners, Retry(r)
       PROVE  task'[t].status = "cancelled"
  BY <1>0, <1>10 DEF Retry
<1>11. ASSUME NEW r \in Runners, GiveUp(r) \/ Finish(r)
       PROVE  task'[t].status = "cancelled"
  BY <1>0, <1>11 DEF GiveUp, Finish, Finalize, Write, queue
<1>12. ASSUME NEW r \in Runners, Requeue(r)
       PROVE  task'[t].status = "cancelled"
  BY <1>0, <1>1, <1>12 DEF Requeue, queue
<1>13. ASSUME NEW r \in Runners, ClaimNothing(r) \/ DispatchReturns(r) \/ DispatchRaises(r) \/ Crash(r)
       PROVE  task'[t].status = "cancelled"
  BY <1>13 DEF ClaimNothing, DispatchReturns, DispatchRaises, Crash, queue
<1> QED BY <1>2, <1>3, <1>4, <1>5, <1>6, <1>7, <1>8, <1>9, <1>10, <1>11, <1>12, <1>13
        DEF Next, Operator, RunnerStep

\* CancelSticks: a cancel that came before the claim, or after the dispatch began, is
\* never written over, by no retry, outcome, sweep or new task, of whichever process.
THEOREM CancelIsKept == Spec => CancelSticks
<1>1. TypeInv /\ HoldInv /\ [Next]_vars => [\A t \in Ids : Cancelled(t)]_task
  BY CancelStep
<1>2. Spec => [](TypeInv /\ HoldInv)
  BY TypeInit, TypeStep, HoldInit, HoldStep, PTL DEF Spec
<1>3. Spec => [][\A t \in Ids : Cancelled(t)]_task
  BY <1>1, <1>2, PTL DEF Spec
<1> QED BY <1>3 DEF CancelSticks, Cancelled
=============================================================================
