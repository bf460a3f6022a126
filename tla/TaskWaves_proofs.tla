------------------------- MODULE TaskWaves_proofs -------------------------
(***************************************************************************)
(* Theorems about TaskWaves, for every set of tasks, dependencies, paths,  *)
(* producers and capacities.  Sound says what one call keeps in order as   *)
(* it goes, RunApart among it; Cause says what the passes of the main      *)
(* thread have established when no worker is left.                         *)
(***************************************************************************)
EXTENDS TaskWaves, FiniteSetTheorems, TLAPS

\* in_flight and futures are two books of the same tasks.
Slots == \A t \in Tasks : seat[t] = NoAgent <=> fut[t] = "idle"

\* What is to be collected has ended.
DueDone == \A t \in due : fut[t] \in {"returned", "unseeded"}

Sound == TypeOK /\ Slots /\ DueDone /\ RunApart

-----------------------------------------------------------------------------
(* Sets of tasks and of agents are finite. *)

LEMMA TasksFinite ==
  ASSUME NEW S \in SUBSET Tasks
  PROVE  IsFiniteSet(S) /\ Cardinality(S) \in Nat
BY WavesAssumption, FS_Subset, FS_CardinalityType

LEMMA TasksShrink ==
  ASSUME NEW S \in SUBSET Tasks, NEW R \in SUBSET S
  PROVE  Cardinality(R) <= Cardinality(S)
BY TasksFinite, FS_Subset

LEMMA TasksJoin ==
  ASSUME NEW S \in SUBSET Tasks, NEW R \in SUBSET Tasks
  PROVE  Cardinality(S \cup R) <= Cardinality(S) + Cardinality(R)
<1>1. IsFiniteSet(S) /\ IsFiniteSet(R) /\ S \cap R \in SUBSET Tasks
  BY TasksFinite
<1>2. Cardinality(S) \in Nat /\ Cardinality(R) \in Nat /\ Cardinality(S \cap R) \in Nat
  BY <1>1, TasksFinite
<1>3. Cardinality(S \cup R) = Cardinality(S) + Cardinality(R) - Cardinality(S \cap R)
  BY <1>1, FS_Union
<1> QED BY <1>2, <1>3

LEMMA TasksNone == \A S \in SUBSET Tasks : Cardinality(S) = 0 <=> S = {}
BY TasksFinite, FS_EmptySet

\* The tasks a seat holds.
On(a) == {t \in Tasks : seat[t] = a}

LEMMA BoundsMeans ==
  /\ InFlight \in SUBSET Tasks /\ Futures \in SUBSET Tasks
  /\ \A a \in Agents : On(a) \in SUBSET Tasks /\ Free(a) = Cap[a] - Cardinality(On(a))
BY DEF InFlight, Futures, On, Free

-----------------------------------------------------------------------------
(* Three kinds of steps: those that leave the books alone, those that take *)
(* a task out of them, and the pump.                                       *)

\* Nobody gets or gives up a seat; a task in flight stays in flight, and a result
\* stays a result.
Quiet ==
  /\ seat' = seat
  /\ \A t \in Tasks : fut'[t] = "idle" <=> fut[t] = "idle"

LEMMA QuietKeepsApart ==
  ASSUME RunApart, Quiet
  PROVE  RunApart'
<1>1. InFlight' = InFlight
  BY DEF Quiet, InFlight
<1>2. Futures' = Futures
  BY DEF Quiet, Futures
<1>3. \A a \in Agents : Free(a)' = Free(a)
  BY DEF Quiet, Free
<1> QED BY <1>1, <1>2, <1>3 DEF RunApart

LEMMA ReleaseKeepsApart ==
  ASSUME TypeOK, RunApart, NEW t \in Tasks, Release(t)
  PROVE  RunApart'
<1>1. seat' = [seat EXCEPT ![t] = NoAgent] /\ fut' = [fut EXCEPT ![t] = "idle"]
  BY DEF Release
<1>2. InFlight' \in SUBSET InFlight /\ Futures' \in SUBSET Futures
  BY <1>1 DEF TypeOK, InFlight, Futures
<1>3. \A u, v \in InFlight' : Path[u] = Path[v] => u = v
  BY <1>2 DEF RunApart
<1>4. \A a \in Agents : Free(a)' >= 0
  <2> SUFFICES ASSUME NEW a \in Agents PROVE Free(a)' >= 0
    OBVIOUS
  <2>1. On(a)' \in SUBSET On(a)
    BY <1>1, WavesAssumption DEF TypeOK, On
  <2>2. Cardinality(On(a)') <= Cardinality(On(a))
    BY <2>1, BoundsMeans, TasksShrink
  <2>3. Cardinality(On(a)) \in Nat /\ Cardinality(On(a)') \in Nat
    BY <2>1, BoundsMeans, TasksFinite
  <2>4. Cap[a] \in Nat
    BY WavesAssumption
  <2>5. Free(a) = Cap[a] - Cardinality(On(a)) /\ Free(a)' = Cap[a] - Cardinality(On(a)')
    BY DEF Free, On
  <2>6. Free(a) >= 0
    BY DEF RunApart
  <2> QED BY <2>2, <2>3, <2>4, <2>5, <2>6
<1>5. Cardinality(InFlight') <= Cardinality(InFlight) /\ Cardinality(Futures') <= Cardinality(Futures)
  BY <1>2, BoundsMeans, TasksShrink
<1>6. /\ Cardinality(InFlight) \in Nat /\ Cardinality(InFlight') \in Nat
      /\ Cardinality(Futures) \in Nat /\ Cardinality(Futures') \in Nat
  BY <1>2, BoundsMeans, TasksFinite
<1>7. Cardinality(InFlight') <= GlobalCap /\ Cardinality(Futures') <= PoolSize
  BY <1>5, <1>6, WavesAssumption DEF RunApart
<1> QED BY <1>3, <1>4, <1>7 DEF RunApart

\* What the pump hands out: nothing that clashes, and no more than there is room for.
LEMMA SubmitKeepsApart ==
  ASSUME TypeOK, RunApart,
         NEW S \in SUBSET (Ready \ Conflicts), NEW asg \in [S -> Pool], NEW D \in SUBSET S,
         Assignment(asg, Ready \ Conflicts),
         Cardinality(D) = Fewer(Cardinality(S), PoolSize - Cardinality(Futures)),
         Submit(D, asg)
  PROVE  RunApart'
<1>1. /\ seat' = [u \in Tasks |-> IF u \in D THEN asg[u] ELSE seat[u]]
      /\ fut' = [u \in Tasks |-> IF u \in D THEN "queued" ELSE fut[u]]
  BY DEF Submit
<1>2. Ready \in SUBSET Tasks /\ S \in SUBSET Tasks /\ D \in SUBSET Tasks
  BY DEF Ready
<1>3. Pool \in SUBSET Agents /\ DOMAIN asg = S
  BY DEF Pool
<1>4. InFlight' = InFlight \cup D
  BY <1>1, <1>2, <1>3, WavesAssumption DEF InFlight, TypeOK
<1>5. Futures' = Futures \cup D
  BY <1>1, <1>2 DEF Futures, TypeOK
<1>6. \A u, v \in InFlight' : Path[u] = Path[v] => u = v
  <2>1. \A u \in D, v \in InFlight : Path[u] # Path[v]
    BY DEF Conflicts, Clashing, Held, Ready
  <2>2. \A u, v \in D : Path[u] = Path[v] => u = v
    BY DEF Conflicts, Clashing, Ready
  <2> QED BY <1>4, <2>1, <2>2 DEF RunApart
<1>7. \A a \in Agents : Free(a)' >= 0
  <2> SUFFICES ASSUME NEW a \in Agents PROVE Free(a)' >= 0
    OBVIOUS
  <2> DEFINE Given == {t \in S : asg[t] = a}
             New == {t \in D : asg[t] = a}
  <2>1. Free(a) = Cap[a] - Cardinality(On(a)) /\ Free(a)' = Cap[a] - Cardinality(On(a)')
    BY DEF Free, On
  <2>2. Free(a) >= 0
    BY DEF RunApart
  <2>3. On(a)' = On(a) \cup New
    BY <1>1, <1>2, WavesAssumption DEF On, TypeOK, Ready, InFlight
  <2>4. New \in SUBSET Tasks /\ Given \in SUBSET Tasks /\ New \in SUBSET Given
    BY <1>2
  <2>5. Cardinality(New) <= Cardinality(Given)
    BY <2>4, TasksShrink
  <2>6. Cardinality(On(a)') <= Cardinality(On(a)) + Cardinality(New)
    BY <2>3, <2>4, BoundsMeans, TasksJoin
  <2>7. /\ Cardinality(On(a)) \in Nat /\ Cardinality(New) \in Nat /\ Cardinality(Given) \in Nat
        /\ Cap[a] \in Nat
    BY <2>4, BoundsMeans, TasksFinite, WavesAssumption
  <2>8. Cardinality(On(a)') \in Nat
    BY <2>3, <2>4, BoundsMeans, TasksFinite
  <2>9. CASE a \in Pool
    <3>1. Cardinality(Given) <= Free(a)
      BY <2>9, <1>3 DEF Assignment
    <3> QED BY <3>1, <2>1, <2>5, <2>6, <2>7, <2>8
  <2>10. CASE a \notin Pool
    <3>1. New = {}
      BY <2>10
    <3>2. On(a)' = On(a)
      BY <2>3, <3>1
    <3> QED BY <3>2, <2>1, <2>2
  <2> QED BY <2>9, <2>10
<1>8. /\ Cardinality(InFlight) \in Nat /\ Cardinality(Futures) \in Nat
      /\ Cardinality(S) \in Nat /\ Cardinality(D) \in Nat
      /\ GlobalCap \in Nat /\ PoolSize \in Nat
  BY <1>2, BoundsMeans, TasksFinite, WavesAssumption
<1>9. Cardinality(InFlight') <= GlobalCap
  <2>1. Cardinality(InFlight') <= Cardinality(InFlight) + Cardinality(D)
    BY <1>2, <1>4, BoundsMeans, TasksJoin
  <2>2. Cardinality(D) <= Cardinality(S)
    BY <1>2, TasksShrink
  <2>3. Cardinality(S) <= GlobalCap - Cardinality(InFlight)
    BY <1>3 DEF Assignment, GlobalFree
  <2>4. Cardinality(InFlight') \in Nat
    BY <1>2, <1>4, BoundsMeans, TasksFinite
  <2> QED BY <1>8, <2>1, <2>2, <2>3, <2>4
<1>10. Cardinality(Futures') <= PoolSize
  <2>1. Cardinality(Futures') <= Cardinality(Futures) + Cardinality(D)
    BY <1>2, <1>5, BoundsMeans, TasksJoin
  <2>2. Cardinality(D) <= PoolSize - Cardinality(Futures)
    BY <1>8 DEF Fewer
  <2>3. Cardinality(Futures') \in Nat
    BY <1>2, <1>5, BoundsMeans, TasksFinite
  <2> QED BY <1>8, <2>1, <2>2, <2>3
<1> QED BY <1>6, <1>7, <1>9, <1>10 DEF RunApart

-----------------------------------------------------------------------------
(* Every step is sound. *)

LEMMA SoundInit ==
  ASSUME Init
  PROVE  Sound
<1>1. TypeOK
  <2>1. status \in [Tasks -> Statuses]
    <3>1. CASE status \in [Tasks -> {"dispatched", "blocked"}]
      BY <3>1 DEF Statuses, Terminal, FailedStates, Runnable
    <3>2. CASE status = [t \in Tasks |-> "pending"]
      BY <3>2 DEF Statuses, Terminal, FailedStates, Runnable
    <3> QED BY <3>1, <3>2 DEF Init
  <2>2. store \in [Tasks -> Statuses]
    BY <2>1 DEF Init
  <2>3. upsets \in 0..MaxUpsets
    BY WavesAssumption DEF Init
  <2> QED BY <2>1, <2>2, <2>3 DEF Init, TypeOK
<1>2. Slots /\ DueDone
  BY DEF Init, Slots, DueDone
<1>3. InFlight = {} /\ Futures = {} /\ \A a \in Agents : On(a) = {}
  BY WavesAssumption DEF Init, InFlight, Futures, On
<1>4. \A a \in Agents : Free(a) >= 0
  BY <1>3, BoundsMeans, TasksNone, WavesAssumption
<1>5. Cardinality(InFlight) <= GlobalCap /\ Cardinality(Futures) <= PoolSize
  BY <1>3, TasksNone, WavesAssumption
<1> QED BY <1>1, <1>2, <1>3, <1>4, <1>5 DEF Sound, RunApart

LEMMA KeptIsStatus ==
  ASSUME TypeOK, NEW t \in Tasks, NEW s \in Statuses
  PROVE  Kept(t, s) \in Statuses
BY DEF Kept, TypeOK

LEMMA OutcomeIsStatus ==
  ASSUME TypeOK, NEW t \in Tasks
  PROVE  Outcome(t) \in Statuses /\ Persisted(t) \in Statuses
BY KeptIsStatus DEF Outcome, Persisted, Kept, TypeOK, Statuses, Terminal, FailedStates, Runnable

LEMMA QuietIsSound ==
  ASSUME Sound, TypeOK', DueDone', Quiet
  PROVE  Sound'
<1>1. Slots'
  BY DEF Sound, Slots, Quiet
<1> QED BY <1>1, QuietKeepsApart DEF Sound

LEMMA ReleaseIsSound ==
  ASSUME Sound, TypeOK', NEW t \in Tasks, Release(t)
  PROVE  Sound'
<1>1. Slots'
  BY WavesAssumption DEF Sound, Slots, Release, TypeOK
<1>2. DueDone'
  BY DEF Sound, DueDone, Release, TypeOK
<1> QED BY <1>1, <1>2, ReleaseKeepsApart DEF Sound

\* The steps of the main thread.
LEMMA MainIsSound ==
  ASSUME Sound, Main
  PROVE  Sound'
<1> USE DEF Statuses, Terminal, FailedStates, Runnable
<1>1. TypeOK /\ Slots /\ DueDone /\ RunApart
  BY DEF Sound
<1>2. CASE Revive
  <2>1. TypeOK'
    BY <1>1, <1>2 DEF Revive, TypeOK, workers
  <2>2. Quiet /\ DueDone'
    BY <1>1, <1>2 DEF Revive, Quiet, DueDone, workers
  <2> QED BY <2>1, <2>2, QuietIsSound
<1>3. CASE Cascade
  <2>1. TypeOK'
    BY <1>1, <1>3 DEF Cascade, Block, TypeOK, workers
  <2>2. Quiet /\ DueDone'
    BY <1>1, <1>3 DEF Cascade, Quiet, DueDone, workers
  <2> QED BY <2>1, <2>2, QuietIsSound
<1>4. CASE Reflect
  <2>1. TypeOK'
    BY <1>1, <1>4 DEF Reflect, TypeOK, workers
  <2>2. Quiet /\ DueDone'
    BY <1>1, <1>4 DEF Reflect, Quiet, DueDone, workers
  <2> QED BY <2>1, <2>2, QuietIsSound
<1>5. CASE Pump
  <2>1. /\ UNCHANGED <<sees, shared, merged, dropped, cooling, abort, before, due, upsets>>
        /\ pc' = "loop"
    BY <1>5 DEF Pump
  <2>2. CASE abort
    <3>1. UNCHANGED <<tasks, fut, seat>>
      BY <1>5, <2>2 DEF Pump
    <3>2. TypeOK'
      BY <1>1, <2>1, <3>1 DEF TypeOK, tasks
    <3>3. Quiet /\ DueDone'
      BY <1>1, <2>1, <3>1 DEF Quiet, DueDone
    <3> QED BY <3>2, <3>3, QuietIsSound
  <2>3. CASE ~abort
    <3>1. PICK S \in SUBSET (Ready \ Conflicts) : \E asg \in [S -> Pool], D \in SUBSET S :
            /\ Assignment(asg, Ready \ Conflicts)
            /\ Cardinality(D) = Fewer(Cardinality(S), PoolSize - Cardinality(Futures))
            /\ Submit(D, asg)
      BY <1>5, <2>3 DEF Pump
    <3>2. PICK asg \in [S -> Pool], D \in SUBSET S :
            /\ Assignment(asg, Ready \ Conflicts)
            /\ Cardinality(D) = Fewer(Cardinality(S), PoolSize - Cardinality(Futures))
            /\ Submit(D, asg)
      BY <3>1
    <3>3. RunApart'
      BY <1>1, <3>2, SubmitKeepsApart
    <3>4. /\ seat' = [t \in Tasks |-> IF t \in D THEN asg[t] ELSE seat[t]]
          /\ fut' = [t \in Tasks |-> IF t \in D THEN "queued" ELSE fut[t]]
      BY <3>2 DEF Submit
    <3>5. Pool \in SUBSET Agents /\ D \in SUBSET Tasks /\ \A t \in D : seat[t] = NoAgent
      BY DEF Pool, Ready, InFlight
    <3>6. \A t \in D : asg[t] \in Agents
      BY <3>5
    <3>7. \A t \in Tasks : Kept(t, "dispatched") \in Statuses
      BY <1>1, KeptIsStatus
    <3>8. status' \in [Tasks -> Statuses] /\ store' \in [Tasks -> Statuses]
      BY <1>1, <3>2, <3>7 DEF Submit, TypeOK
    <3>9. why' \in [Tasks -> {"other", "dep", "path", "full"}]
      BY <1>1, <3>2 DEF Submit, TypeOK
    <3>10. TypeOK'
      BY <1>1, <2>1, <3>4, <3>6, <3>8, <3>9 DEF TypeOK
    <3>11. Slots'
      BY <1>1, <3>4, <3>6, WavesAssumption DEF Slots, TypeOK
    <3>12. DueDone'
      BY <1>1, <2>1, <3>4, <3>5 DEF DueDone, Slots, TypeOK
    <3> QED BY <3>3, <3>10, <3>11, <3>12 DEF Sound
  <2> QED BY <2>2, <2>3
<1>6. CASE Loop
  <2>1. TypeOK'
    BY <1>1, <1>6 DEF Loop, Block, TypeOK, workers, tasks, Ready
  <2>2. Quiet /\ DueDone'
    BY <1>1, <1>6 DEF Loop, Quiet, DueDone, workers
  <2> QED BY <2>1, <2>2, QuietIsSound
<1>7. CASE Wake
  <2>1. TypeOK'
    BY <1>1, <1>7 DEF Wake, Finished, TypeOK, workers, tasks
  <2>2. Quiet /\ DueDone'
    BY <1>1, <1>7 DEF Wake, Finished, Quiet, DueDone, workers
  <2> QED BY <2>1, <2>2, QuietIsSound
<1>8. CASE Drained
  <2>1. TypeOK'
    BY <1>1, <1>8 DEF Drained, TypeOK, workers, tasks
  <2>2. Quiet /\ DueDone'
    BY <1>1, <1>8 DEF Drained, Quiet, DueDone, workers
  <2> QED BY <2>1, <2>2, QuietIsSound
<1>9. ASSUME NEW t \in Tasks, Collect(t) PROVE Sound'
  <2>1. Outcome(t) \in Statuses /\ Persisted(t) \in Statuses /\ Kept(t, Outcome(t)) \in Statuses
    BY <1>1, OutcomeIsStatus, KeptIsStatus
  <2>2. status' \in [Tasks -> Statuses] /\ store' \in [Tasks -> Statuses]
    BY <1>1, <1>9, <2>1 DEF Collect, TypeOK
  <2>3. TypeOK'
    BY <1>1, <1>9, <2>2 DEF Collect, Release, TypeOK
  <2> QED BY <1>9, <2>3, ReleaseIsSound DEF Collect
<1> QED BY <1>2, <1>3, <1>4, <1>5, <1>6, <1>7, <1>8, <1>9 DEF Main

\* The steps of a worker: they never touch the books.
LEMMA WorkerIsSound ==
  ASSUME Sound, NEW t \in Tasks, Worker(t)
  PROVE  Sound'
<1> USE DEF Statuses, Terminal, FailedStates, Runnable
<1>1. TypeOK /\ Slots /\ DueDone
  BY DEF Sound
<1>2. TypeOK'
  <2>1. CASE Start(t)
    BY <1>1, <2>1 DEF Start, TypeOK, tasks, others, main
  <2>2. CASE Settle(t)
    BY <1>1, <2>2 DEF Settle, TypeOK, tasks, others, main
  <2>3. CASE Return(t)
    BY <1>1, <2>3 DEF Return, TypeOK, tasks, others, main
  <2>4. CASE SeedFails(t)
    BY <1>1, <2>4, WavesAssumption DEF SeedFails, TypeOK, tasks, others, main
  <2>5. CASE Retry(t)
    <3>1. seat[t] \in Agents
      BY <1>1, <2>5 DEF Retry, Slots, TypeOK
    <3> QED BY <1>1, <2>5, <3>1 DEF Retry, TypeOK, tasks, others, main
  <2>6. CASE Stop(t)
    BY <1>1, <2>6 DEF Stop, TypeOK, tasks, others, main
  <2>7. CASE Escape(t)
    BY <1>1, <2>7, WavesAssumption DEF Escape, TypeOK, tasks, others, main
  <2> QED BY <2>1, <2>2, <2>3, <2>4, <2>5, <2>6, <2>7 DEF Worker, Proceeds
<1>3. Quiet /\ DueDone'
  <2>1. due' = due /\ seat' = seat
    BY DEF Worker, Proceeds, Start, Settle, Return, SeedFails, Retry, Stop, Escape, others, main
  <2>2. fut[t] \in {"queued", "running", "settled"}
    BY DEF Worker, Proceeds, Start, Settle, Return, SeedFails, Retry, Stop, Escape
  <2>3. \/ fut' = fut
        \/ \E s \in {"running", "settled", "returned", "unseeded"} : fut' = [fut EXCEPT ![t] = s]
    BY DEF Worker, Proceeds, Start, Settle, Return, SeedFails, Retry, Stop, Escape
  <2>4. t \notin due
    BY <1>1, <2>2 DEF DueDone
  <2> QED BY <1>1, <2>1, <2>2, <2>3, <2>4 DEF Quiet, DueDone, TypeOK
<1> QED BY <1>2, <1>3, QuietIsSound

LEMMA SoundStep ==
  ASSUME Sound, [Next]_vars
  PROVE  Sound'
<1> USE DEF Statuses, Terminal, FailedStates, Runnable
<1>1. TypeOK /\ Slots /\ DueDone
  BY DEF Sound
<1>2. CASE Main
  BY <1>2, MainIsSound
<1>3. CASE Abort
  <2>1. TypeOK'
    BY <1>1, <1>3 DEF Abort, TypeOK, workers, tasks, main
  <2>2. Quiet /\ DueDone'
    BY <1>1, <1>3 DEF Abort, Quiet, DueDone, workers, main
  <2> QED BY <2>1, <2>2, QuietIsSound
<1>4. ASSUME NEW t \in Tasks, Worker(t) PROVE Sound'
  BY <1>4, WorkerIsSound
<1>5. ASSUME NEW t \in Tasks, MergeRaises(t) PROVE Sound'
  <2>1. TypeOK'
    BY <1>1, <1>5, WavesAssumption DEF MergeRaises, Release, TypeOK, tasks
  <2> QED BY <1>5, <2>1, ReleaseIsSound DEF MergeRaises
<1>6. ASSUME NEW t \in Tasks, Rescue(t) PROVE Sound'
  <2>1. TypeOK'
    BY <1>1, <1>6, WavesAssumption DEF Rescue, TypeOK, workers, main
  <2>2. Quiet /\ DueDone'
    BY <1>1, <1>6 DEF Rescue, Quiet, DueDone, workers, main
  <2> QED BY <2>1, <2>2, QuietIsSound
<1>7. ASSUME NEW a \in Agents, Warm(a) PROVE Sound'
  <2>1. TypeOK'
    BY <1>1, <1>7 DEF Warm, TypeOK, workers, tasks, main
  <2>2. Quiet /\ DueDone'
    BY <1>1, <1>7 DEF Warm, Quiet, DueDone, workers, main
  <2> QED BY <2>1, <2>2, QuietIsSound
<1>8. CASE UNCHANGED vars
  <2>1. TypeOK'
    BY <1>1, <1>8 DEF vars, TypeOK, workers, tasks, main
  <2>2. Quiet /\ DueDone'
    BY <1>1, <1>8 DEF vars, Quiet, DueDone, workers, main
  <2> QED BY <2>1, <2>2, QuietIsSound
<1> QED BY <1>2, <1>3, <1>4, <1>5, <1>6, <1>7, <1>8 DEF Next

\* The strengthening behind the two theorems below, and behind the third.
THEOREM CallIsSound == Spec => []Sound
<1>1. Init => Sound
  BY SoundInit
<1>2. Sound /\ [Next]_vars => Sound'
  BY SoundStep
<1> QED BY <1>1, <1>2, PTL DEF Spec

\* Every variable of a call has its type, whatever the goal and the roster.
THEOREM WavesTypes == Spec => []TypeOK
<1>1. Sound => TypeOK
  BY DEF Sound
<1> QED BY <1>1, CallIsSound, PTL

\* Tasks in flight never share a path, no producer has more than its capacity, and the
\* pool and the global cap hold, whatever the goal and the roster.
THEOREM WavesRunApart == Spec => []RunApart
<1>1. Sound => RunApart
  BY DEF Sound
<1> QED BY <1>1, CallIsSound, PTL

-----------------------------------------------------------------------------
(* What a call has established when nobody works any more. *)

\* A task blocked for a dependency has one that failed.
DepBlocked == \A t \in Tasks : status[t] = "blocked" /\ why[t] = "dep" => DepFailed(t)

\* What the pump could not place has to wait for a task that is not there.
Stuck == \A t \in Tasks : status[t] \in Runnable =>
           \E d \in Deps[t] : status[d] # "completed"

Behind == {"cascade", "reflect", "pump", "loop"}

Cause ==
  /\ pc # "done" => \A t \in Tasks : why[t] # "full"
  /\ pc = "done" => Futures = {}
  /\ pc \in Behind /\ Futures = {} => DepBlocked
  /\ pc = "loop" /\ Futures = {} /\ ~abort => Stuck
  /\ GivenUpForCause

\* Steps that leave the tasks alone, and the books as empty as they were.
LEMMA CauseStays ==
  ASSUME Cause, UNCHANGED tasks, Futures' = {} => Futures = {}, Futures = {} => Futures' = {},
         pc' = pc, abort => abort'
  PROVE  Cause'
BY DEF Cause, DepBlocked, Stuck, GivenUpForCause, DepFailed, tasks

\* While a worker is at it there is nothing to show.
LEMMA CauseWhileBusy ==
  ASSUME pc \notin {"done"}, pc' = pc, Futures' # {}, \A t \in Tasks : why'[t] # "full"
  PROVE  Cause'
BY DEF Cause, GivenUpForCause

LEMMA CauseInit ==
  ASSUME Init
  PROVE  Cause
BY DEF Init, Cause, GivenUpForCause, Behind

LEMMA CauseByRevive ==
  ASSUME Cause, TypeOK, Revive
  PROVE  Cause'
<1>1. PICK S \in SUBSET Tasks :
       /\ Revived(S)
       /\ status' = [t \in Tasks |-> IF t \in S THEN "pending" ELSE status[t]]
       /\ why' = [t \in Tasks |-> IF t \in S THEN "other" ELSE why[t]]
  BY DEF Revive
<1>2. pc = "revive" /\ pc' = "cascade"
  BY DEF Revive
<1>3. DepBlocked'
  <2> SUFFICES ASSUME NEW t \in Tasks, status'[t] = "blocked", why'[t] = "dep"
               PROVE  \E d \in Deps[t] : status'[d] \in FailedStates
    BY DEF DepBlocked, DepFailed
  <2>1. t \notin S /\ status[t] = "blocked" /\ why[t] = "dep"
    BY <1>1
  <2>2. PICK d \in Deps[t] : status[d] \in FailedStates /\ d \notin S
    BY <1>1, <2>1 DEF Revived
  <2>3. d \in Tasks
    BY WavesAssumption
  <2> QED BY <1>1, <2>2, <2>3
<1>4. \A t \in Tasks : why'[t] # "full"
  BY <1>1, <1>2 DEF Cause
<1> QED BY <1>2, <1>3, <1>4 DEF Cause, GivenUpForCause

LEMMA CauseByCascade ==
  ASSUME Cause, TypeOK, Cascade
  PROVE  Cause'
<1>1. PICK S \in SUBSET Tasks : Cascaded(S) /\ Block(S, "dep")
  BY DEF Cascade
<1>2. pc = "cascade" /\ pc' = "reflect" /\ fut' = fut
  BY DEF Cascade, workers
<1>3. /\ status' = [t \in Tasks |-> IF t \in S THEN "blocked" ELSE status[t]]
      /\ why' = [t \in Tasks |-> IF t \in S THEN "dep" ELSE why[t]]
  BY <1>1 DEF Block
<1>4. ASSUME Futures' = {} PROVE DepBlocked'
  <2>1. DepBlocked
    BY <1>2, <1>4 DEF Cause, Behind, Futures
  <2> SUFFICES ASSUME NEW t \in Tasks, status'[t] = "blocked", why'[t] = "dep"
               PROVE  \E d \in Deps[t] : status'[d] \in FailedStates
    BY DEF DepBlocked, DepFailed
  <2>2. \E d \in Deps[t] : status[d] \in FailedStates \/ d \in S
    <3>1. CASE t \in S
      BY <1>1, <3>1 DEF Cascaded
    <3>2. CASE t \notin S
      BY <1>3, <2>1, <3>2 DEF DepBlocked, DepFailed
    <3> QED BY <3>1, <3>2
  <2>3. Deps[t] \in SUBSET Tasks
    BY WavesAssumption
  <2> QED BY <1>3, <2>2, <2>3 DEF FailedStates
<1>5. \A t \in Tasks : why'[t] # "full"
  BY <1>2, <1>3 DEF Cause
<1> QED BY <1>2, <1>4, <1>5 DEF Cause, GivenUpForCause

LEMMA CauseByReflect ==
  ASSUME Cause, TypeOK, Reflect
  PROVE  Cause'
<1>1. PICK S \in SUBSET {t \in Tasks \ InFlight : status[t] = "pending"} :
       /\ status' = [t \in Tasks |-> IF t \in S THEN "abandoned" ELSE status[t]]
       /\ why' = [t \in Tasks |-> IF t \in S THEN "other" ELSE why[t]]
  BY DEF Reflect
<1>2. pc = "reflect" /\ pc' = "pump" /\ fut' = fut
  BY DEF Reflect, workers
<1>3. ASSUME Futures' = {} PROVE DepBlocked'
  <2>1. DepBlocked
    BY <1>2, <1>3 DEF Cause, Behind, Futures
  <2>2. \A t \in Tasks : Deps[t] \in SUBSET Tasks
    BY WavesAssumption
  <2> QED BY <1>1, <2>1, <2>2 DEF DepBlocked, DepFailed, FailedStates
<1>4. \A t \in Tasks : why'[t] # "full"
  BY <1>1, <1>2 DEF Cause
<1> QED BY <1>2, <1>3, <1>4 DEF Cause, GivenUpForCause

\* A pump that submits nothing to an idle pool found nothing to submit.
LEMMA NothingToSubmit ==
  ASSUME NEW S \in SUBSET (Ready \ Conflicts), NEW asg \in [S -> Pool],
         Assignment(asg, Ready \ Conflicts),
         Fewer(Cardinality(S), PoolSize - Cardinality(Futures)) = 0,
         Futures = {}, InFlight = {}, cooling \subseteq Agents
  PROVE  Ready \ Conflicts = {}
<1>1. Ready \in SUBSET Tasks /\ S \in SUBSET Tasks /\ DOMAIN asg = S
  BY DEF Ready
<1>2. Cardinality({}) = 0 /\ Cardinality(S) \in Nat
  BY <1>1, TasksNone, TasksFinite
<1>3. Cardinality(S) = 0
  BY <1>2, WavesAssumption DEF Fewer
<1>4. S = {}
  BY <1>1, <1>3, TasksNone
<1>5. PICK a \in Pool : TRUE
  BY WavesAssumption DEF Pool
<1>6. a \in Agents
  BY DEF Pool
<1>7. Free(a) # 0
  <2>1. On(a) = {}
    BY <1>6, WavesAssumption DEF On, InFlight
  <2>2. Free(a) = Cap[a] - 0
    BY <1>2, <1>6, <2>1, BoundsMeans
  <2> QED BY <1>6, <2>2, WavesAssumption
<1>8. GlobalFree # 0
  BY <1>2, WavesAssumption DEF GlobalFree
<1>9. Cardinality({t \in S : asg[t] = a}) = 0
  BY <1>2, <1>4
<1> QED BY <1>1, <1>3, <1>4, <1>7, <1>8, <1>9 DEF Assignment

LEMMA CauseByPump ==
  ASSUME Cause, TypeOK, Slots, Pump
  PROVE  Cause'
<1>1. pc = "pump" /\ pc' = "loop" /\ abort' = abort
  BY DEF Pump
<1>2. CASE abort
  <2>1. UNCHANGED <<tasks, fut>>
    BY <1>2 DEF Pump
  <2>2. Futures' = Futures
    BY <2>1 DEF Futures
  <2>3. \A t \in Tasks : why'[t] # "full"
    BY <1>1, <2>1 DEF Cause, tasks
  <2>4. ASSUME Futures' = {} PROVE DepBlocked'
    BY <1>1, <2>1, <2>2, <2>4 DEF Cause, Behind, DepBlocked, DepFailed, tasks
  <2> QED BY <1>1, <1>2, <2>3, <2>4 DEF Cause, GivenUpForCause
<1>3. CASE ~abort
  <2>1. PICK S \in SUBSET (Ready \ Conflicts) : \E asg \in [S -> Pool], D \in SUBSET S :
          /\ Assignment(asg, Ready \ Conflicts)
          /\ Cardinality(D) = Fewer(Cardinality(S), PoolSize - Cardinality(Futures))
          /\ Submit(D, asg)
    BY <1>3 DEF Pump
  <2>2. PICK asg \in [S -> Pool], D \in SUBSET S :
          /\ Assignment(asg, Ready \ Conflicts)
          /\ Cardinality(D) = Fewer(Cardinality(S), PoolSize - Cardinality(Futures))
          /\ Submit(D, asg)
    BY <2>1
  <2>3. /\ why' = [t \in Tasks |-> IF t \in D THEN "other"
                             ELSE IF t \in Conflicts THEN "path" ELSE why[t]]
        /\ fut' = [t \in Tasks |-> IF t \in D THEN "queued" ELSE fut[t]]
    BY <2>2 DEF Submit
  <2>4. \A t \in Tasks : why'[t] # "full"
    BY <1>1, <2>3 DEF Cause
  <2>5. ASSUME Futures' = {} PROVE DepBlocked' /\ Stuck'
    <3>1. D = {}
      BY <2>3, <2>5 DEF Futures, Ready
    <3>2. Futures = {} /\ InFlight = {}
      BY <2>3, <2>5, <3>1 DEF Futures, InFlight, Slots
    <3>3. DepBlocked
      BY <1>1, <3>2 DEF Cause, Behind
    <3>4. status' = [t \in Tasks |-> IF t \in Conflicts THEN "blocked" ELSE status[t]]
      BY <2>2, <3>1 DEF Submit
    <3>5. why' = [t \in Tasks |-> IF t \in Conflicts THEN "path" ELSE why[t]]
      BY <2>3, <3>1
    <3>6. \A t \in Conflicts : status[t] \in Runnable
      BY DEF Conflicts, Clashing, Ready
    <3>7. \A t \in Tasks : Deps[t] \in SUBSET Tasks
      BY WavesAssumption
    <3>8. DepBlocked'
      BY <3>3, <3>4, <3>5, <3>6, <3>7 DEF DepBlocked, DepFailed, Runnable, FailedStates
    <3>9. Ready \ Conflicts = {}
      <4>1. Fewer(Cardinality(S), PoolSize - Cardinality(Futures)) = 0
        BY <2>2, <3>1, TasksNone
      <4> QED BY <2>2, <3>2, <4>1, NothingToSubmit DEF TypeOK
    <3>10. Stuck'
      <4> SUFFICES ASSUME NEW t \in Tasks, status'[t] \in Runnable,
                          \A d \in Deps[t] : status'[d] = "completed"
                   PROVE  FALSE
        BY DEF Stuck
      <4>1. t \notin Conflicts /\ status[t] \in Runnable
        BY <3>4 DEF Runnable
      <4>2. \A d \in Deps[t] : status[d] = "completed"
        BY <3>4, <3>7
      <4>3. t \in Ready
        BY <3>2, <4>1, <4>2 DEF Ready
      <4> QED BY <3>9, <4>1, <4>3
    <3> QED BY <3>8, <3>10
  <2> QED BY <1>1, <2>4, <2>5 DEF Cause, GivenUpForCause
<1> QED BY <1>2, <1>3

LEMMA CauseByLoop ==
  ASSUME Cause, TypeOK, Loop
  PROVE  Cause'
<1>1. pc = "loop" /\ fut' = fut /\ abort' = abort
  BY DEF Loop, workers
<1>2. Futures' = Futures
  BY <1>1 DEF Futures
<1>3. CASE Futures # {}
  <2>1. pc' = "wait" /\ UNCHANGED tasks
    BY <1>3 DEF Loop
  <2> QED BY <1>1, <2>1 DEF Cause, GivenUpForCause, Behind, tasks
<1>4. CASE Futures = {}
  <2>1. pc' = "done" /\ DepBlocked
    BY <1>1, <1>4 DEF Loop, Cause, Behind
  <2>2. \A t \in Tasks : why[t] # "full"
    BY <1>1 DEF Cause
  <2>3. CASE abort
    <3>1. UNCHANGED tasks
      BY <1>4, <2>3 DEF Loop
    <3>2. GivenUpForCause'
      BY <2>1, <2>2, <3>1 DEF GivenUpForCause, DepBlocked, DepFailed, tasks
    <3> QED BY <1>2, <1>4, <2>1, <3>2 DEF Cause, Behind
  <2>4. CASE ~abort
    <3> DEFINE S == {t \in Tasks : status[t] \in Runnable}
    <3>1. Block(S, "full")
      BY <1>4, <2>4 DEF Loop
    <3>2. /\ status' = [t \in Tasks |-> IF t \in S THEN "blocked" ELSE status[t]]
          /\ why' = [t \in Tasks |-> IF t \in S THEN "full" ELSE why[t]]
      BY <3>1 DEF Block
    <3>3. Stuck
      BY <1>1, <1>4, <2>4 DEF Cause
    <3>4. \A t \in Tasks : Deps[t] \in SUBSET Tasks
      BY WavesAssumption
    <3>5. \A d \in Tasks : status[d] # "completed" => status'[d] \in FailedStates
      BY <3>2 DEF TypeOK, Statuses, Terminal, FailedStates
    <3>6. \A d \in Tasks : status[d] \in FailedStates => status[d] # "completed"
      BY DEF FailedStates
    <3>7. GivenUpForCause'
      <4> SUFFICES ASSUME NEW t \in Tasks, status'[t] = "blocked", why'[t] \in {"dep", "full"}
                   PROVE  \E d \in Deps[t] : status'[d] \in FailedStates
        BY DEF GivenUpForCause, DepFailed
      <4>1. CASE t \in S
        BY <3>3, <3>4, <3>5, <4>1 DEF Stuck
      <4>2. CASE t \notin S
        <5>1. status[t] = "blocked" /\ why[t] = "dep"
          BY <2>2, <3>2, <4>2
        <5> QED BY <2>1, <3>4, <3>5, <3>6, <5>1 DEF DepBlocked, DepFailed
      <4> QED BY <4>1, <4>2
    <3> QED BY <1>2, <1>4, <2>1, <3>7 DEF Cause, Behind
  <2> QED BY <2>3, <2>4
<1> QED BY <1>3, <1>4

\* Collecting is no part of what has to be shown; the passes that follow are.
LEMMA CauseOutside ==
  ASSUME pc' \notin Behind \cup {"done"}, \A t \in Tasks : why'[t] # "full"
  PROVE  Cause'
BY DEF Cause, GivenUpForCause, Behind

LEMMA CauseStep ==
  ASSUME Cause, Sound, [Next]_vars
  PROVE  Cause'
<1>1. TypeOK /\ Slots
  BY DEF Sound
<1>2. CASE Revive
  BY <1>1, <1>2, CauseByRevive
<1>3. CASE Cascade
  BY <1>1, <1>3, CauseByCascade
<1>4. CASE Reflect
  BY <1>1, <1>4, CauseByReflect
<1>5. CASE Pump
  BY <1>1, <1>5, CauseByPump
<1>6. CASE Loop
  BY <1>1, <1>6, CauseByLoop
<1>7. CASE Wake \/ Drained \/ \E t \in Tasks : Collect(t) \/ MergeRaises(t)
  <2>1. pc \in {"wait", "collect"} /\ pc' \in {"collect", "revive", "raised"} /\ why' = why
    BY <1>7 DEF Wake, Drained, Collect, MergeRaises, tasks
  <2>2. \A t \in Tasks : why'[t] # "full"
    BY <2>1 DEF Cause
  <2> QED BY <2>1, <2>2, CauseOutside DEF Behind
<1>8. ASSUME NEW t \in Tasks, Worker(t) PROVE Cause'
  <2>1. pc' = pc
    BY <1>8 DEF Worker, Proceeds, Start, Settle, Return, SeedFails, Retry, Stop, Escape, others, main
  <2>2. fut[t] # "idle" /\ fut'[t] # "idle"
    BY <1>1, <1>8 DEF Worker, Proceeds, Start, Settle, Return, SeedFails, Retry, Stop, Escape, TypeOK
  <2>3. Futures # {} /\ Futures' # {}
    BY <2>2 DEF Futures
  <2>4. pc # "done"
    BY <2>3 DEF Cause
  <2>5. why' = why \/ why' = [why EXCEPT ![t] = "other"]
    BY <1>8 DEF Worker, Proceeds, Start, Settle, Return, SeedFails, Retry, Stop, Escape, tasks
  <2>6. \A u \in Tasks : why'[u] # "full"
    BY <1>1, <2>4, <2>5 DEF Cause, TypeOK
  <2> QED BY <2>1, <2>3, <2>4, <2>6, CauseWhileBusy
<1>9. ASSUME NEW t \in Tasks, Rescue(t) PROVE Cause'
  <2>1. pc' = pc /\ fut' = fut /\ why' = [why EXCEPT ![t] = "other"]
    BY <1>9 DEF Rescue, workers, main
  <2>2. Futures # {} /\ Futures' # {}
    BY <1>9, <2>1 DEF Rescue, Futures
  <2>3. pc # "done"
    BY <2>2 DEF Cause
  <2>4. \A u \in Tasks : why'[u] # "full"
    BY <1>1, <2>1, <2>3 DEF Cause, TypeOK
  <2> QED BY <2>1, <2>2, <2>3, <2>4, CauseWhileBusy
<1>10. CASE Abort \/ (\E a \in Agents : Warm(a)) \/ UNCHANGED vars
  <2>1. UNCHANGED tasks /\ fut' = fut /\ pc' = pc /\ (abort => abort')
    BY <1>10 DEF Abort, Warm, vars, workers, main
  <2>2. Futures' = Futures
    BY <2>1 DEF Futures
  <2> QED BY <2>1, <2>2, CauseStays
<1> QED BY <1>2, <1>3, <1>4, <1>5, <1>6, <1>7, <1>8, <1>9, <1>10 DEF Next, Main

\* When a call ends, whatever it gave up has a dependency that failed; in particular no
\* task is left over for want of a seat, on any roster with a producer.
THEOREM WavesGiveUpForCause == Spec => []GivenUpForCause
<1>1. Init => Cause
  BY CauseInit
<1>2. Cause /\ Sound /\ [Next]_vars => Cause'
  BY CauseStep
<1>3. Cause => GivenUpForCause
  BY DEF Cause
<1> QED BY <1>1, <1>2, <1>3, CallIsSound, PTL DEF Spec

-----------------------------------------------------------------------------
(* Memory and record. *)

\* Who does not run has in its record what its object says, but for the tasks of
\* which the merge dropped a result.
Agree == pc # "raised" => \A t \in Tasks : fut[t] = "idle" /\ t \notin dropped => store[t] = status[t]

\* A call that ended by itself has nothing left to run.
Rest == pc = "done" /\ ~abort => \A t \in Tasks : status[t] \in Terminal

\* A pass that writes the object and the record of the same tasks alike.
LEMMA AlikeAgrees ==
  ASSUME Agree, pc # "raised", UNCHANGED <<fut, dropped>>,
         \A t \in Tasks : \/ status'[t] = status[t] /\ store'[t] = store[t]
                          \/ status'[t] = store'[t]
  PROVE  Agree'
BY DEF Agree

LEMMA MainAgrees ==
  ASSUME Agree, Sound, Main
  PROVE  Agree'
<1>1. TypeOK
  BY DEF Sound
<1>2. CASE Revive
  <2>1. pc # "raised" /\ UNCHANGED <<fut, dropped>>
    BY <1>2 DEF Revive, workers
  <2>2. PICK S \in SUBSET Tasks :
          /\ status' = [t \in Tasks |-> IF t \in S THEN "pending" ELSE status[t]]
          /\ store' = [t \in Tasks |-> IF t \in S THEN "pending" ELSE store[t]]
    BY <1>2 DEF Revive
  <2> QED BY <2>1, <2>2, AlikeAgrees
<1>3. CASE Cascade
  <2>1. pc # "raised" /\ UNCHANGED <<fut, dropped>>
    BY <1>3 DEF Cascade, workers
  <2>2. PICK S \in SUBSET Tasks : Block(S, "dep")
    BY <1>3 DEF Cascade
  <2> QED BY <2>1, <2>2, AlikeAgrees DEF Block
<1>4. CASE Reflect
  <2>1. pc # "raised" /\ UNCHANGED <<fut, dropped>>
    BY <1>4 DEF Reflect, workers
  <2>2. PICK S \in SUBSET Tasks :
          /\ status' = [t \in Tasks |-> IF t \in S THEN "abandoned" ELSE status[t]]
          /\ store' = [t \in Tasks |-> IF t \in S THEN "abandoned" ELSE store[t]]
    BY <1>4 DEF Reflect
  <2> QED BY <2>1, <2>2, AlikeAgrees
<1>5. CASE Pump
  <2>1. pc = "pump" /\ dropped' = dropped
    BY <1>5 DEF Pump
  <2>2. CASE abort
    BY <1>5, <2>1, <2>2, AlikeAgrees DEF Pump, tasks
  <2>3. CASE ~abort
    <3>1. PICK S \in SUBSET (Ready \ Conflicts) :
            \E asg \in [S -> Pool], D \in SUBSET S : Submit(D, asg)
      BY <1>5, <2>3 DEF Pump
    <3>2. PICK asg \in [S -> Pool], D \in SUBSET S : Submit(D, asg)
      BY <3>1
    <3>3. \A t \in Tasks : fut'[t] = "idle" => fut[t] = "idle" /\ t \notin D
      BY <3>2 DEF Submit
    <3>4. \A t \in Tasks : t \notin D => \/ status'[t] = status[t] /\ store'[t] = store[t]
                                         \/ status'[t] = store'[t]
      BY <3>2 DEF Submit
    <3> QED BY <2>1, <3>3, <3>4 DEF Agree
  <2> QED BY <2>2, <2>3
<1>6. CASE Loop
  <2>1. pc = "loop" /\ UNCHANGED <<fut, dropped>>
    BY <1>6 DEF Loop, workers
  <2>2. UNCHANGED tasks \/ \E S \in SUBSET Tasks : Block(S, "full")
    BY <1>6 DEF Loop
  <2> QED BY <2>1, <2>2, AlikeAgrees DEF Block, tasks
<1>7. CASE Wake \/ Drained
  <2>1. pc # "raised" /\ UNCHANGED <<fut, dropped, status, store>>
    BY <1>7 DEF Wake, Drained, workers, tasks
  <2> QED BY <2>1, AlikeAgrees
<1>8. ASSUME NEW t \in Tasks, Collect(t) PROVE Agree'
  <2>1. /\ pc = "collect" /\ fut' = [fut EXCEPT ![t] = "idle"]
        /\ status' = [status EXCEPT ![t] = IF t \in merged THEN Outcome(t) ELSE Kept(t, Outcome(t))]
        /\ store' = [store EXCEPT ![t] = Persisted(t)]
        /\ dropped' = IF t \in merged THEN dropped \cup {t} ELSE dropped
    BY <1>8 DEF Collect, Release
  <2>2. t \notin merged => Persisted(t) = Kept(t, Outcome(t))
    BY DEF Persisted
  <2> QED BY <1>1, <2>1, <2>2 DEF Agree, TypeOK
<1> QED BY <1>2, <1>3, <1>4, <1>5, <1>6, <1>7, <1>8 DEF Main

LEMMA AgreeStep ==
  ASSUME Agree, Sound, [Next]_vars
  PROVE  Agree'
<1>1. TypeOK
  BY DEF Sound
<1>2. CASE Main
  BY <1>2, MainAgrees
<1>3. ASSUME NEW t \in Tasks, Worker(t) PROVE Agree'
  <2>1. UNCHANGED <<pc, store, dropped>>
    BY <1>3 DEF Worker, Proceeds, Start, Settle, Return, SeedFails, Retry, Stop, Escape, others,
                main, tasks
  <2>2. fut[t] # "idle" /\ fut'[t] # "idle" /\ \A u \in Tasks \ {t} : fut'[u] = fut[u]
    BY <1>1, <1>3 DEF Worker, Proceeds, Start, Settle, Return, SeedFails, Retry, Stop, Escape, TypeOK
  <2>3. \A u \in Tasks \ {t} : status'[u] = status[u]
    BY <1>1, <1>3 DEF Worker, Proceeds, Start, Settle, Return, SeedFails, Retry, Stop, Escape,
                      TypeOK, tasks
  <2> QED BY <2>1, <2>2, <2>3 DEF Agree
<1>4. ASSUME NEW t \in Tasks, MergeRaises(t) PROVE Agree'
  BY <1>4 DEF MergeRaises, Agree
<1>5. ASSUME NEW t \in Tasks, Rescue(t) PROVE Agree'
  BY <1>1, <1>5 DEF Rescue, Agree, TypeOK, workers, main
<1>6. CASE Abort \/ (\E a \in Agents : Warm(a)) \/ UNCHANGED vars
  BY <1>6 DEF Abort, Warm, vars, workers, tasks, main, Agree
<1> QED BY <1>2, <1>3, <1>4, <1>5, <1>6 DEF Next

\* Once the call has ended only the operator still acts.
LEMMA RestStep ==
  ASSUME Rest, Cause, Sound, [Next]_vars
  PROVE  Rest'
<1>1. TypeOK
  BY DEF Sound
<1>2. CASE pc = "done"
  <2>1. Futures = {}
    BY <1>2 DEF Cause
  <2>2. ~Main /\ \A t \in Tasks : ~MergeRaises(t)
    BY <1>2 DEF Main, Revive, Cascade, Reflect, Pump, Loop, Wake, Drained, Collect, MergeRaises
  <2>3. \A t \in Tasks : ~Worker(t) /\ ~Rescue(t)
    BY <2>1 DEF Futures, Worker, Proceeds, Start, Settle, Return, SeedFails, Retry, Stop, Escape,
                Rescue
  <2>4. Abort \/ (\E a \in Agents : Warm(a)) \/ UNCHANGED vars
    BY <2>2, <2>3 DEF Next
  <2> QED BY <1>2, <2>4 DEF Abort, Warm, vars, tasks, main, Rest
<1>3. CASE pc # "done" /\ pc' = "done"
  <2>1. Loop
    BY <1>3 DEF Next, Main, Revive, Cascade, Reflect, Pump, Wake, Drained, Collect, MergeRaises,
                Worker, Proceeds, Start, Settle, Return, SeedFails, Retry, Stop, Escape, others,
                Rescue, Abort, Warm, vars, main
  <2>2. CASE ~abort
    <3>1. Block({t \in Tasks : status[t] \in Runnable}, "full")
      BY <1>3, <2>1, <2>2 DEF Loop
    <3> QED BY <1>1, <3>1 DEF Rest, Block, TypeOK, Statuses, Terminal, FailedStates
  <2>3. CASE abort
    BY <2>1, <2>3 DEF Loop, Rest
  <2> QED BY <2>2, <2>3
<1>4. CASE pc' # "done"
  BY <1>4 DEF Rest
<1> QED BY <1>2, <1>3, <1>4

\* A call that ends by itself leaves every task settled in memory, and its record
\* saying the same but where the merge dropped a second result, whatever fails on the
\* way and however often.
THEOREM WavesSettle == Spec => []EverythingSettles
<1>1. Init => Agree /\ Rest
  BY DEF Init, Agree, Rest
<1>2. Agree /\ Rest /\ Cause /\ Sound /\ [Next]_vars => (Agree /\ Rest)'
  BY AgreeStep, RestStep
<1>3. Agree /\ Rest /\ Sound /\ Cause => EverythingSettles
  <2>1. Cause /\ Sound /\ pc = "done" => \A t \in Tasks : fut[t] = "idle"
    BY DEF Cause, Futures
  <2> QED BY <2>1 DEF Agree, Rest, EverythingSettles
<1>4. Spec => [](Sound /\ Cause)
  BY CauseInit, CauseStep, CallIsSound, PTL DEF Spec
<1> QED BY <1>1, <1>2, <1>3, <1>4, PTL DEF Spec

-----------------------------------------------------------------------------
(* A call without faults and without rescues. *)

\* Nothing that was completed is undone, so that whoever was placed keeps the inputs it
\* was placed for, and is not blocked for one after it has settled; nobody runs twice.
Placed(t) == t \in InFlight \cup merged

Clean ==
  upsets = 0 =>
    /\ dropped = {} /\ pc # "raised"
    /\ \A t \in Tasks : fut[t] # "unseeded"
    /\ \A t \in Tasks : fut[t] \in {"queued", "running"} => status[t] # "completed"
    /\ \A t \in Tasks : Placed(t) => \A d \in Deps[t] : status[d] = "completed"
    /\ \A t \in Tasks : t \in merged => t \notin InFlight
    /\ \A t \in Tasks : fut[t] \in {"settled", "returned"} \/ t \in merged =>
         abort \/ (status[t] \in Terminal /\ ~(status[t] = "blocked" /\ why[t] = "dep"))

\* What is completed stays so in a step that is neither fault nor rescue.
LEMMA CompletedStays ==
  ASSUME Clean, Agree, Sound, [Next]_vars, upsets' = 0
  PROVE  \A t \in Tasks : status[t] = "completed" => status'[t] = "completed"
<1>1. TypeOK /\ upsets = 0
  BY WavesAssumption DEF Sound, TypeOK, Next, Main, Revive, Cascade, Reflect, Pump, Loop, Wake,
       Drained, Collect, MergeRaises, Worker, Proceeds, Start, Settle, Return, SeedFails, Retry,
       Stop, Escape, Rescue, Abort, Warm, vars
<1>2. CASE Revive
  BY <1>1, <1>2 DEF Revive, Revived, TypeOK
<1>3. CASE Cascade
  BY <1>1, <1>3 DEF Cascade, Cascaded, Block, TypeOK, Runnable
<1>4. CASE Reflect
  BY <1>1, <1>4 DEF Reflect, TypeOK
<1>5. CASE Pump
  <2>1. CASE abort
    BY <1>5, <2>1 DEF Pump, tasks
  <2>2. CASE ~abort
    <3>1. PICK S \in SUBSET (Ready \ Conflicts) :
            \E asg \in [S -> Pool], D \in SUBSET S : Submit(D, asg)
      BY <1>5, <2>2 DEF Pump
    <3>2. PICK asg \in [S -> Pool], D \in SUBSET S : Submit(D, asg)
      BY <3>1
    <3>3. \A t \in Ready : status[t] # "completed"
      BY DEF Ready, Runnable
    <3>4. Conflicts \in SUBSET Ready
      BY DEF Conflicts, Clashing
    <3> QED BY <3>2, <3>3, <3>4 DEF Submit
  <2> QED BY <2>1, <2>2
<1>6. CASE Loop
  BY <1>1, <1>6 DEF Loop, Block, TypeOK, Runnable, tasks
<1>7. CASE Wake \/ Drained \/ Abort \/ (\E a \in Agents : Warm(a)) \/ UNCHANGED vars
  BY <1>7 DEF Wake, Drained, Abort, Warm, vars, tasks
<1>8. ASSUME NEW t \in Tasks, Collect(t)
      PROVE \A u \in Tasks : status[u] = "completed" => status'[u] = "completed"
  <2>1. fut[t] # "unseeded"
    BY <1>1 DEF Clean
  <2>2. Outcome(t) = status[t]
    BY <2>1 DEF Outcome
  <2>3. status[t] = "completed" => Kept(t, Outcome(t)) = "completed"
    BY <2>2 DEF Kept, Terminal
  <2> QED BY <1>1, <1>8, <2>2, <2>3 DEF Collect, TypeOK
<1>9. ASSUME NEW t \in Tasks, Worker(t)
      PROVE \A u \in Tasks : status[u] = "completed" => status'[u] = "completed"
  <2>1. ~Escape(t)
    BY <1>1, WavesAssumption DEF Escape, TypeOK
  <2>2. CASE fut[t] = "running"
    <3>1. status[t] # "completed"
      BY <1>1, <2>2 DEF Clean
    <3>2. \A u \in Tasks \ {t} : status'[u] = status[u]
      BY <1>1, <1>9 DEF Worker, Proceeds, Start, Settle, Return, SeedFails, Retry, Stop, Escape,
                        TypeOK, tasks
    <3> QED BY <3>1, <3>2
  <2>3. CASE fut[t] # "running"
    BY <1>9, <2>1, <2>3 DEF Worker, Proceeds, Start, Settle, Return, SeedFails, Retry, Stop, tasks
  <2> QED BY <2>2, <2>3
<1>10. \A t \in Tasks : ~MergeRaises(t) /\ ~Rescue(t)
  BY <1>1, WavesAssumption DEF MergeRaises, Rescue, TypeOK
<1> QED BY <1>2, <1>3, <1>4, <1>5, <1>6, <1>7, <1>8, <1>9, <1>10 DEF Next, Main

\* A pass over tasks that are blocked for a dependency or runnable, which leaves the
\* books alone.
LEMMA PassIsClean ==
  ASSUME Clean, Agree, Sound, upsets = 0,
         UNCHANGED <<upsets, dropped, fut, seat, merged, abort>>, pc' # "raised",
         \A t \in Tasks : status[t] = "completed" => status'[t] = "completed",
         \A t \in Tasks : status'[t] = "completed" => status[t] = "completed",
         NEW S \in SUBSET Tasks,
         \A t \in S : status[t] \in Runnable \/ (status[t] = "blocked" /\ why[t] = "dep"),
         \A t \in Tasks \ S : status'[t] = status[t] /\ why'[t] = why[t]
  PROVE  Clean'
<1>1. InFlight' = InFlight
  BY DEF InFlight
<1>2. Deps \in [Tasks -> SUBSET Tasks]
  BY WavesAssumption
<1>3. \A t \in Tasks : Placed(t)' => \A d \in Deps[t] : status'[d] = "completed"
  BY <1>1, <1>2 DEF Clean, Placed
<1>4. \A t \in Tasks : fut'[t] \in {"settled", "returned"} \/ t \in merged' =>
        abort' \/ (status'[t] \in Terminal /\ ~(status'[t] = "blocked" /\ why'[t] = "dep"))
  <2> SUFFICES ASSUME NEW t \in Tasks, fut[t] \in {"settled", "returned"} \/ t \in merged, ~abort
               PROVE  status'[t] \in Terminal /\ ~(status'[t] = "blocked" /\ why'[t] = "dep")
    OBVIOUS
  <2>1. status[t] \in Terminal /\ ~(status[t] = "blocked" /\ why[t] = "dep")
    BY DEF Clean
  <2>2. t \notin S
    BY <2>1 DEF Terminal, FailedStates, Runnable
  <2> QED BY <2>1, <2>2
<1> QED BY <1>1, <1>3, <1>4 DEF Clean

LEMMA PumpIsClean ==
  ASSUME Clean, Agree, Sound, upsets = 0, Pump,
         \A t \in Tasks : status[t] = "completed" => status'[t] = "completed"
  PROVE  Clean'
<1>1. /\ pc = "pump" /\ pc' = "loop" /\ UNCHANGED <<upsets, dropped, merged, abort>>
  BY DEF Pump
<1>2. CASE abort
  <2>1. UNCHANGED <<status, why, fut, seat>>
    BY <1>2 DEF Pump, tasks
  <2> QED BY <1>1, <2>1 DEF Clean, Placed, InFlight
<1>3. CASE ~abort
  <2>1. PICK S \in SUBSET (Ready \ Conflicts) :
          \E asg \in [S -> Pool], D \in SUBSET S : Submit(D, asg)
    BY <1>3 DEF Pump
  <2>2. PICK asg \in [S -> Pool], D \in SUBSET S : Submit(D, asg)
    BY <2>1
  <2>3. /\ status' = [t \in Tasks |-> IF t \in D THEN Kept(t, "dispatched")
                                     ELSE IF t \in Conflicts THEN "blocked" ELSE status[t]]
        /\ why' = [t \in Tasks |-> IF t \in D THEN "other"
                                  ELSE IF t \in Conflicts THEN "path" ELSE why[t]]
        /\ seat' = [t \in Tasks |-> IF t \in D THEN asg[t] ELSE seat[t]]
        /\ fut' = [t \in Tasks |-> IF t \in D THEN "queued" ELSE fut[t]]
    BY <2>2 DEF Submit
  <2>4. /\ D \in SUBSET Tasks /\ Conflicts \in SUBSET Tasks
        /\ \A t \in D \cup Conflicts : status[t] \in Runnable /\ t \notin InFlight
        /\ \A t \in D : \A d \in Deps[t] : status[d] = "completed"
    BY DEF Ready, Conflicts, Clashing
  <2>5. \A t \in D : fut[t] = "idle"
    BY <2>4 DEF Sound, Slots, InFlight
  <2>6. \A t \in D : status'[t] # "completed"
    <3>1. \A t \in D : store[t] = status[t]
      BY <1>1, <2>4, <2>5 DEF Clean, Agree
    <3> QED BY <2>3, <2>4, <3>1 DEF Kept, Runnable
  <2>7. \A t \in D \cup Conflicts : t \notin merged
    BY <1>3, <2>4 DEF Clean, Terminal, FailedStates, Runnable
  <2>8. InFlight' \subseteq InFlight \cup D
    BY <2>3 DEF InFlight
  <2>9. \A t \in Tasks : Placed(t)' => \A d \in Deps[t] : status'[d] = "completed"
    <3>1. \A t \in Tasks : Deps[t] \in SUBSET Tasks
      BY WavesAssumption
    <3> QED BY <1>1, <2>4, <2>8, <3>1 DEF Clean, Placed
  <2>10. \A t \in Tasks : t \in merged' => t \notin InFlight'
    BY <1>1, <2>7, <2>8 DEF Clean
  <2>11. \A t \in Tasks : fut'[t] \in {"queued", "running"} => status'[t] # "completed"
    BY <2>3, <2>4, <2>6 DEF Clean
  <2>12. \A t \in Tasks : fut'[t] \in {"settled", "returned"} \/ t \in merged' =>
           abort' \/ (status'[t] \in Terminal /\ ~(status'[t] = "blocked" /\ why'[t] = "dep"))
    BY <1>1, <2>3, <2>7 DEF Clean, Terminal, FailedStates
  <2>13. \A t \in Tasks : fut'[t] # "unseeded"
    BY <2>3 DEF Clean
  <2> QED BY <1>1, <2>9, <2>10, <2>11, <2>12, <2>13 DEF Clean
<1> QED BY <1>2, <1>3

LEMMA CollectIsClean ==
  ASSUME Clean, Sound, upsets = 0, NEW t \in Tasks, Collect(t),
         \A u \in Tasks : status[u] = "completed" => status'[u] = "completed"
  PROVE  Clean'
<1>1. /\ t \in due /\ pc' = pc /\ UNCHANGED <<upsets, why, abort>>
      /\ fut' = [fut EXCEPT ![t] = "idle"] /\ seat' = [seat EXCEPT ![t] = NoAgent]
      /\ merged' = merged \cup {t} /\ due \subseteq Tasks
  BY DEF Collect, Release, Sound, TypeOK
<1>2. TypeOK /\ fut[t] = "returned" /\ t \in InFlight
  BY <1>1 DEF Sound, Slots, DueDone, InFlight, Clean
<1>3. t \notin merged /\ dropped' = dropped
  BY <1>2 DEF Clean, Collect
<1>4. status' = [status EXCEPT ![t] = Kept(t, status[t])]
  BY <1>2, <1>3 DEF Collect, Outcome
<1>5. ~abort => /\ status[t] \in Terminal /\ ~(status[t] = "blocked" /\ why[t] = "dep")
                /\ status'[t] = status[t]
  BY <1>2, <1>4 DEF Clean, Kept, TypeOK
<1>6. InFlight' = InFlight \ {t}
  BY <1>1, <1>2 DEF InFlight, TypeOK
<1>7. \A u \in Tasks : Placed(u)' => \A d \in Deps[u] : status'[d] = "completed"
  <2>1. \A u \in Tasks : Deps[u] \in SUBSET Tasks
    BY WavesAssumption
  <2> QED BY <1>1, <1>2, <1>6, <2>1 DEF Clean, Placed
<1>8. \A u \in Tasks \ {t} : status'[u] = status[u] /\ fut'[u] = fut[u]
  BY <1>1, <1>2, <1>4 DEF TypeOK
<1>9. fut'[t] = "idle"
  BY <1>1, <1>2 DEF TypeOK
<1>10. \A u \in Tasks : fut'[u] \in {"settled", "returned"} \/ u \in merged' =>
         abort' \/ (status'[u] \in Terminal /\ ~(status'[u] = "blocked" /\ why'[u] = "dep"))
  BY <1>1, <1>5, <1>8, <1>9 DEF Clean
<1> QED BY <1>1, <1>3, <1>6, <1>7, <1>8, <1>9, <1>10 DEF Clean

LEMMA WorkerIsClean ==
  ASSUME Clean, Sound, upsets = 0, upsets' = 0, NEW t \in Tasks, Worker(t),
         \A u \in Tasks : status[u] = "completed" => status'[u] = "completed"
  PROVE  Clean'
<1>1. TypeOK /\ ~SeedFails(t) /\ ~Escape(t)
  BY WavesAssumption DEF Sound, SeedFails, Escape, TypeOK
<1>2. Start(t) \/ Settle(t) \/ Return(t) \/ Retry(t) \/ Stop(t)
  BY <1>1 DEF Worker, Proceeds
<1>3. UNCHANGED <<seat, merged, dropped, abort, pc>>
  BY <1>2 DEF Start, Settle, Return, Retry, Stop, others, main
<1>4. \A u \in Tasks \ {t} : status'[u] = status[u] /\ why'[u] = why[u] /\ fut'[u] = fut[u]
  BY <1>1, <1>2 DEF Start, Settle, Return, Retry, Stop, TypeOK, tasks
<1>5. InFlight' = InFlight
  BY <1>3 DEF InFlight
<1>6. t \in InFlight /\ t \notin merged
  BY <1>2 DEF Start, Settle, Return, Retry, Stop, Sound, Slots, InFlight, Clean
<1>7. \A u \in Tasks : Placed(u)' => \A d \in Deps[u] : status'[d] = "completed"
  <2>1. \A u \in Tasks : Deps[u] \in SUBSET Tasks
    BY WavesAssumption
  <2> QED BY <1>3, <1>5, <2>1 DEF Clean, Placed
<1>8. /\ fut'[t] # "unseeded"
      /\ fut'[t] \in {"queued", "running"} => status'[t] # "completed"
      /\ fut'[t] \in {"settled", "returned"} =>
           abort \/ (status'[t] \in Terminal /\ ~(status'[t] = "blocked" /\ why'[t] = "dep"))
  <2>1. CASE Start(t) \/ Stop(t)
    BY <1>1, <2>1 DEF Start, Stop, Clean, TypeOK, tasks
  <2>2. CASE Settle(t)
    BY <1>1, <2>2 DEF Settle, TypeOK, Terminal, FailedStates
  <2>3. CASE Return(t)
    BY <1>1, <2>3 DEF Return, Clean, TypeOK, tasks
  <2>4. CASE Retry(t)
    BY <1>1, <2>4 DEF Retry, TypeOK
  <2> QED BY <1>2, <2>1, <2>2, <2>3, <2>4
<1> QED BY <1>3, <1>4, <1>5, <1>6, <1>7, <1>8 DEF Clean

LEMMA CleanStep ==
  ASSUME Clean, Agree, Sound, [Next]_vars
  PROVE  Clean'
<1>1. CASE upsets' # 0
  BY <1>1 DEF Clean
<1>2. CASE upsets' = 0
  <2>1. \A t \in Tasks : status[t] = "completed" => status'[t] = "completed"
    BY <1>2, CompletedStays
  <2>2. TypeOK /\ upsets = 0
    BY <1>2, WavesAssumption DEF Sound, TypeOK, Next, Main, Revive, Cascade, Reflect, Pump, Loop,
         Wake, Drained, Collect, MergeRaises, Worker, Proceeds, Start, Settle, Return, SeedFails,
         Retry, Stop, Escape, Rescue, Abort, Warm, vars
  <2>3. CASE Revive
    <3>1. PICK S \in SUBSET Tasks :
           /\ Revived(S)
           /\ status' = [t \in Tasks |-> IF t \in S THEN "pending" ELSE status[t]]
           /\ why' = [t \in Tasks |-> IF t \in S THEN "other" ELSE why[t]]
      BY <2>3 DEF Revive
    <3>2. UNCHANGED <<upsets, dropped, fut, seat, merged, abort>> /\ pc' # "raised"
      BY <2>3 DEF Revive, workers
    <3>3. \A t \in S : status[t] = "blocked" /\ why[t] = "dep"
      BY <3>1 DEF Revived
    <3> QED BY <2>1, <2>2, <3>1, <3>2, <3>3, PassIsClean
  <2>4. CASE Cascade
    <3>1. PICK S \in SUBSET Tasks : Cascaded(S) /\ Block(S, "dep")
      BY <2>4 DEF Cascade
    <3>2. UNCHANGED <<upsets, dropped, fut, seat, merged, abort>> /\ pc' # "raised"
      BY <2>4 DEF Cascade, workers
    <3>3. \A t \in S : status[t] \in Runnable
      BY <3>1 DEF Cascaded
    <3> QED BY <2>1, <2>2, <3>1, <3>2, <3>3, PassIsClean DEF Block
  <2>5. CASE Reflect
    <3>1. PICK S \in SUBSET {t \in Tasks \ InFlight : status[t] = "pending"} :
           /\ status' = [t \in Tasks |-> IF t \in S THEN "abandoned" ELSE status[t]]
           /\ why' = [t \in Tasks |-> IF t \in S THEN "other" ELSE why[t]]
      BY <2>5 DEF Reflect
    <3>2. UNCHANGED <<upsets, dropped, fut, seat, merged, abort>> /\ pc' # "raised"
      BY <2>5 DEF Reflect, workers
    <3>3. \A t \in S : status[t] \in Runnable
      BY DEF Runnable
    <3>4. S \in SUBSET Tasks
      OBVIOUS
    <3> QED BY <2>1, <2>2, <3>1, <3>2, <3>3, <3>4, PassIsClean
  <2>6. CASE Pump
    BY <2>1, <2>2, <2>6, PumpIsClean
  <2>7. CASE Loop
    <3> DEFINE S == {t \in Tasks : status[t] \in Runnable}
    <3>1. UNCHANGED tasks \/ Block(S, "full")
      BY <2>7 DEF Loop
    <3>2. UNCHANGED <<upsets, dropped, fut, seat, merged, abort>> /\ pc' # "raised"
      BY <2>7 DEF Loop, workers
    <3> HIDE DEF S
    <3>3. S \in SUBSET Tasks /\ \A t \in S : status[t] \in Runnable
      BY DEF S
    <3> QED BY <2>1, <2>2, <3>1, <3>2, <3>3, PassIsClean DEF Block, tasks
  <2>8. CASE Wake \/ Drained \/ Abort \/ (\E a \in Agents : Warm(a)) \/ UNCHANGED vars
    <3>1. /\ UNCHANGED <<status, why, upsets, dropped, fut, seat, merged>> /\ (abort => abort')
          /\ pc' # "raised" \/ pc' = pc
      BY <2>8 DEF Wake, Drained, Abort, Warm, vars, tasks, workers, main
    <3> QED BY <2>2, <3>1 DEF Clean, Placed, InFlight
  <2>9. ASSUME NEW t \in Tasks, Collect(t) PROVE Clean'
    BY <2>1, <2>2, <2>9, CollectIsClean
  <2>10. ASSUME NEW t \in Tasks, Worker(t) PROVE Clean'
    BY <1>2, <2>1, <2>2, <2>10, WorkerIsClean
  <2>11. \A t \in Tasks : ~MergeRaises(t) /\ ~Rescue(t)
    BY <1>2, <2>2, WavesAssumption DEF MergeRaises, Rescue, TypeOK
  <2> QED BY <2>3, <2>4, <2>5, <2>6, <2>7, <2>8, <2>9, <2>10, <2>11 DEF Next, Main
<1> QED BY <1>1, <1>2

LEMMA CleanInit ==
  ASSUME Init
  PROVE  Clean
<1>1. InFlight = {} /\ merged = {}
  BY DEF Init, InFlight
<1> QED BY <1>1 DEF Init, Clean, Placed

\* In a call without faults and rescues no task runs twice: the merge drops nothing, and
\* what _run_task_waves leaves in the records is what the tasks came to.
THEOREM WavesDropNothing == Spec => [](upsets = 0 => dropped = {})
<1>1. Init => Agree /\ Clean
  BY CleanInit DEF Init, Agree
<1>2. Agree /\ Clean /\ Sound /\ [Next]_vars => (Agree /\ Clean)'
  BY AgreeStep, CleanStep
<1>3. Clean => (upsets = 0 => dropped = {})
  BY DEF Clean
<1> QED BY <1>1, <1>2, <1>3, CallIsSound, PTL DEF Spec

=============================================================================
