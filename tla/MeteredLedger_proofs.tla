------------------------ MODULE MeteredLedger_proofs ------------------------
(* Proofs about MeteredLedger, for every value of its constants. *)
EXTENDS MeteredLedger, FiniteSetTheorems, TLAPS

USE MeteredAssumption

\* Sets of positions in the ledger are finite, and grow by one line at a time.
LEMMA CountType ==
  ASSUME NEW n \in Nat, NEW A \in SUBSET (1..n)
  PROVE  IsFiniteSet(A) /\ Cardinality(A) \in Nat
<1>1. IsFiniteSet(1..n)  BY FS_Interval
<1>2. IsFiniteSet(A)  BY <1>1, FS_Subset
<1> QED BY <1>2, FS_CardinalityType

LEMMA CountMore ==
  ASSUME NEW n \in Nat, NEW A \in SUBSET (1..n)
  PROVE  Cardinality(A \cup {n + 1}) = Cardinality(A) + 1
<1>1. IsFiniteSet(A)  BY CountType
<1>2. n + 1 \notin A  OBVIOUS
<1> QED BY <1>1, <1>2, FS_AddElement

-----------------------------------------------------------------------------
(* Types. *)

\* A loop at work has a task, one that has asked has a call; no cap that was
\* loaded is higher than the highest declared.
TypeInv ==
  /\ TypeOK
  /\ \A l \in Loops : /\ pc[l] # "idle" => job[l].task \in Tasks
                      /\ pc[l] \notin {"idle", "loop"} => job[l].key \in Keys
                      /\ budget[l] <= highest
  /\ cap # None => cap <= highest

LEMMA TypeInit == Init => TypeInv
<1> SUFFICES ASSUME Init PROVE TypeInv
  OBVIOUS
<1>1. highest \in Nat /\ (cap # None => cap <= highest)  BY DEF Init
<1>2. ledger \in Seq(Line) /\ today \in Days  BY DEF Init, Days
<1>3. NoJob \in Jobs  BY DEF NoJob, Jobs
<1>4. job \in [Loops -> Jobs] /\ pc \in [Loops -> PCs]
  BY <1>3 DEF Init, PCs
<1>5. \A l \in Loops : pc[l] = "idle" /\ lock # l  BY DEF Init
<1> QED BY <1>1, <1>2, <1>4, <1>5 DEF TypeInv, TypeOK, Init, Critical

\* The ways in which a loop gives up its call, alone or with the attempt.
LEMMA TypeAnswered ==
  ASSUME TypeInv, NEW l \in Loops, Answered(l) \/ Leave(l), Release(l),
         cache' \in [Loops -> SUBSET Keys], paid' \in [Days -> Nat],
         UNCHANGED <<cap, ledger, today, highest>>,
         pc[l] \notin {"idle"}
  PROVE  TypeInv'
<1> DEFINE j == IF Answered(l) THEN [job[l] EXCEPT !.key = None] ELSE NoJob
           p == IF Answered(l) THEN "loop" ELSE "idle"
<1>0. /\ pc \in [Loops -> PCs] /\ job \in [Loops -> Jobs] /\ highest \in Nat
      /\ budget \in [Loops -> Nat] /\ count \in [Loops -> Nat]
      /\ \A m \in Loops : budget[m] <= highest
  BY DEF TypeInv, TypeOK
<1>a. /\ pc' = [pc EXCEPT ![l] = p] /\ job' = [job EXCEPT ![l] = j]
      /\ budget' = [budget EXCEPT ![l] = 0] /\ count' = [count EXCEPT ![l] = 0]
  <2>1. CASE Answered(l)  BY <2>1 DEF Answered, Cleared
  <2>2. CASE ~Answered(l)
    <3>1. Leave(l)  BY <2>2
    <3> QED BY <2>2, <3>1 DEF Leave, Cleared
  <2> QED BY <2>1, <2>2
<1>b. j \in Jobs /\ p \in PCs /\ (p = "loop" => j.task = job[l].task)
  <2>1. [job[l] EXCEPT !.key = None] \in Jobs
    BY <1>0 DEF Jobs
  <2>2. [job[l] EXCEPT !.key = None].task = job[l].task  BY <1>0 DEF Jobs
  <2>3. NoJob \in Jobs  BY DEF NoJob, Jobs
  <2> QED BY <2>1, <2>2, <2>3 DEF PCs
<1> HIDE DEF j, p
<1>1. pc' \in [Loops -> PCs] /\ budget' \in [Loops -> Nat] /\ count' \in [Loops -> Nat]
  BY <1>0, <1>a, <1>b
<1>2. job' \in [Loops -> Jobs]  BY <1>0, <1>a, <1>b
<1>3. lock' \in Loops \cup {None} /\ lock' # l
  BY DEF TypeInv, TypeOK, Release
<1>4. pc'[l] \in {"idle", "loop"} /\ (pc'[l] = "loop" => job'[l].task = job[l].task)
  BY <1>0, <1>a, <1>b DEF p
<1>5. \A m \in Loops \ {l} : pc'[m] = pc[m] /\ job'[m] = job[m] /\ (lock' = m <=> lock = m)
  BY <1>0, <1>a DEF Release
<1>6. \A m \in Loops : budget'[m] <= highest'
  BY <1>0, <1>a
<1>7. \A m \in Loops : pc'[m] \in Critical <=> lock' = m
  BY <1>3, <1>4, <1>5 DEF TypeInv, TypeOK, Critical
<1>8. \A m \in Loops : /\ pc'[m] # "idle" => job'[m].task \in Tasks
                       /\ pc'[m] \notin {"idle", "loop"} => job'[m].key \in Keys
  BY <1>4, <1>5 DEF TypeInv
<1> QED BY <1>1, <1>2, <1>3, <1>6, <1>7, <1>8 DEF TypeInv, TypeOK

\* A loop goes on with the same call.
LEMMA TypeGoto ==
  ASSUME TypeInv, NEW l \in Loops, NEW p \in PCs \ {"idle"},
         pc[l] \notin {"idle", "loop"}, pc' = [pc EXCEPT ![l] = p],
         lock' = IF p \in Critical THEN l ELSE IF lock = l THEN None ELSE lock,
         p \in Critical => lock \in {l, None},
         ledger' \in Seq(Line), budget' \in [Loops -> Nat], count' \in [Loops -> Nat],
         \A m \in Loops : budget'[m] <= budget[m],
         UNCHANGED <<cap, today, job, cache, ghosts>>
  PROVE  TypeInv'
<1>1. pc' \in [Loops -> PCs] /\ lock' \in Loops \cup {None}
  BY DEF TypeInv, TypeOK
<1>2. \A m \in Loops : pc'[m] \in Critical <=> lock' = m
  BY DEF TypeInv, TypeOK, Critical
<1>3. \A m \in Loops : budget'[m] <= highest'
  <2>1. /\ highest \in Nat /\ budget \in [Loops -> Nat] /\ highest' = highest
        /\ \A m \in Loops : budget[m] <= highest
    BY DEF TypeInv, TypeOK, ghosts
  <2> QED BY <2>1
<1>4. \A m \in Loops : /\ pc'[m] # "idle" => job'[m].task \in Tasks
                       /\ pc'[m] \notin {"idle", "loop"} => job'[m].key \in Keys
  BY DEF TypeInv, TypeOK
<1> QED BY <1>1, <1>2, <1>3, <1>4 DEF TypeInv, TypeOK, ghosts

LEMMA TypeStep == TypeInv /\ [Next]_vars => TypeInv'
<1> SUFFICES ASSUME TypeInv, [Next]_vars PROVE TypeInv'
  OBVIOUS
<1>1. ASSUME NEW l \in Loops, NEW t \in Tasks, NEW lane \in Lanes, StartAttempt(l, t, lane)
      PROVE  TypeInv'
  <2>1. [task |-> t, lane |-> lane, key |-> None] \in Jobs  BY DEF Jobs
  <2>2. job' \in [Loops -> Jobs] /\ pc' \in [Loops -> PCs]
    BY <1>1, <2>1 DEF StartAttempt, TypeInv, TypeOK, PCs
  <2>3. \A m \in Loops : pc'[m] \in Critical <=> lock' = m
    BY <1>1 DEF StartAttempt, TypeInv, TypeOK, Critical, file
  <2>4. \A m \in Loops : /\ pc'[m] # "idle" => job'[m].task \in Tasks
                         /\ pc'[m] \notin {"idle", "loop"} => job'[m].key \in Keys
    BY <1>1 DEF StartAttempt, TypeInv, TypeOK
  <2> QED BY <1>1, <2>2, <2>3, <2>4 DEF StartAttempt, TypeInv, TypeOK, file, ghosts
<1>2. ASSUME NEW l \in Loops, NEW k \in Keys, Ask(l, k) PROVE TypeInv'
  <2>0. job[l] \in Jobs  BY DEF TypeInv, TypeOK
  <2>1. [job[l] EXCEPT !.key = k] \in Jobs  BY <2>0 DEF Jobs
  <2>2. job' \in [Loops -> Jobs] /\ pc' \in [Loops -> PCs] /\ budget' \in [Loops -> Nat]
    BY <1>2, <2>1 DEF Ask, TypeInv, TypeOK, PCs
  <2>3. \A m \in Loops : pc'[m] \in Critical <=> lock' = m
    BY <1>2 DEF Ask, TypeInv, TypeOK, Critical, file
  <2>4. \A m \in Loops : /\ pc'[m] # "idle" => job'[m].task \in Tasks
                         /\ pc'[m] \notin {"idle", "loop"} => job'[m].key \in Keys
    BY <1>2 DEF Ask, TypeInv, TypeOK, Jobs
  <2>5. \A m \in Loops : budget'[m] <= highest'
    BY <1>2 DEF Ask, TypeInv, TypeOK, ghosts
  <2> QED BY <1>2, <2>2, <2>3, <2>4, <2>5 DEF Ask, TypeInv, TypeOK, file, ghosts
<1>3. ASSUME NEW l \in Loops, EndAttempt(l) PROVE TypeInv'
  <2>1. lock # l  BY <1>3 DEF EndAttempt, TypeInv, TypeOK, Critical
  <2>2. Release(l)  BY <1>3, <2>1 DEF EndAttempt, Release, file
  <2>3. cache' \in [Loops -> SUBSET Keys]  BY <1>3 DEF EndAttempt, Leave, TypeInv, TypeOK
  <2> QED BY <1>3, <2>2, <2>3, TypeAnswered DEF EndAttempt, file, ghosts, TypeInv, TypeOK
<1>4. ASSUME NEW l \in Loops, Acquire(l) PROVE TypeInv'
  BY <1>4, TypeGoto DEF Acquire, Goto, PCs, Critical, ghosts, TypeInv, TypeOK
<1>5. ASSUME NEW l \in Loops, LockTimeout(l) PROVE TypeInv'
  <2>1. lock # l  BY <1>5 DEF LockTimeout, TypeInv, TypeOK, Critical
  <2>2. Release(l)  BY <1>5, <2>1 DEF LockTimeout, Release, file
  <2> QED BY <1>5, <2>2, TypeAnswered DEF LockTimeout, Denied, file, ghosts, TypeInv, TypeOK
<1>6. ASSUME NEW l \in Loops, Scan(l) PROVE TypeInv'
  <2>1. lock = l  BY <1>6 DEF Scan, TypeInv, TypeOK, Critical
  <2>2. Cardinality(On(today)) \in Nat
    <3>1. On(today) \subseteq 1..Len(ledger) /\ Len(ledger) \in Nat  BY DEF On, TypeInv, TypeOK
    <3> QED BY <3>1, CountType
  <2>3. CASE Release(l) /\ Goto(l, "reuse")
    BY <1>6, <2>1, <2>3, TypeGoto DEF Scan, Goto, Release, PCs, Critical, ghosts, TypeInv, TypeOK
  <2>4. CASE Release(l) /\ Denied(l)
    BY <1>6, <2>1, <2>4, TypeAnswered DEF Scan, Denied, ghosts, TypeInv, TypeOK
  <2>5. CASE /\ pc' = [pc EXCEPT ![l] = "counted"]
             /\ count' = [count EXCEPT ![l] = Cardinality(On(today))]
             /\ UNCHANGED <<lock, job, budget, cache>>
    BY <1>6, <2>1, <2>2, <2>5, TypeGoto DEF Scan, PCs, Critical, ghosts, TypeInv, TypeOK
  <2> QED BY <1>6, <2>3, <2>4, <2>5 DEF Scan
<1>7. ASSUME NEW l \in Loops, CountLegacy(l) PROVE TypeInv'
  <2>1. lock = l  BY <1>7 DEF CountLegacy, TypeInv, TypeOK, Critical
  <2>2. CASE Release(l) /\ Denied(l)
    BY <1>7, <2>1, <2>2, TypeAnswered DEF CountLegacy, Denied, ghosts, TypeInv, TypeOK
  <2>3. CASE UNCHANGED <<lock, job, cache>> /\ Cleared(l) /\ pc' = [pc EXCEPT ![l] = "append"]
    BY <1>7, <2>1, <2>3, TypeGoto DEF CountLegacy, Cleared, PCs, Critical, ghosts, TypeInv, TypeOK
  <2> QED BY <1>7, <2>2, <2>3 DEF CountLegacy
<1>8. ASSUME NEW l \in Loops, AppendLine(l) PROVE TypeInv'
  <2>1. lock = l  BY <1>8 DEF AppendLine, TypeInv, TypeOK, Critical
  <2>2. ledger' \in Seq(Line)  BY <1>8 DEF AppendLine, TypeInv, TypeOK, Line, Jobs
  <2> QED BY <1>8, <2>1, <2>2, TypeGoto
          DEF AppendLine, Goto, Release, PCs, Critical, ghosts, TypeInv, TypeOK
<1>9. ASSUME NEW l \in Loops, Invoke(l) PROVE TypeInv'
  <2>1. lock # l  BY <1>9 DEF Invoke, TypeInv, TypeOK, Critical
  <2>2. Release(l)  BY <1>9, <2>1 DEF Invoke, Release, file
  <2>a. /\ cache \in [Loops -> SUBSET Keys] /\ paid \in [Days -> Nat] /\ today \in Days
        /\ job[l].key \in Keys
    BY <1>9 DEF Invoke, TypeInv, TypeOK
  <2>3. cache' \in [Loops -> SUBSET Keys]  BY <1>9, <2>a DEF Invoke
  <2>4. paid' \in [Days -> Nat]  BY <1>9, <2>a DEF Invoke
  <2> QED BY <1>9, <2>2, <2>3, <2>4, TypeAnswered DEF Invoke, file
<1>10. ASSUME NEW l \in Loops, Reuse(l) PROVE TypeInv'
  <2>1. lock # l  BY <1>10 DEF Reuse, TypeInv, TypeOK, Critical
  <2>2. CASE Denied(l)
    BY <1>10, <2>1, <2>2, TypeAnswered DEF Reuse, Denied, Release, file, ghosts, TypeInv, TypeOK
  <2>3. CASE Goto(l, "invoke")
    BY <1>10, <2>1, <2>3, TypeGoto DEF Reuse, Goto, PCs, Critical, file, ghosts, TypeInv, TypeOK
  <2> QED BY <1>10, <2>2, <2>3 DEF Reuse
<1>11. ASSUME NEW l \in Loops, Raise(l) PROVE TypeInv'
  BY <1>11, TypeAnswered DEF Raise, Denied, Critical, ghosts, TypeInv, TypeOK
<1>12. ASSUME NEW l \in Loops, Crash(l) PROVE TypeInv'
  <2>1. cache' \in [Loops -> SUBSET Keys]  BY <1>12 DEF Crash, Leave, TypeInv, TypeOK
  <2> QED BY <1>12, <2>1, TypeAnswered DEF Crash, ghosts, TypeInv, TypeOK
<1>13. ASSUME NEW c \in Caps, SetCap(c) PROVE TypeInv'
  BY <1>13 DEF SetCap, TypeInv, TypeOK, locals
<1>14. CASE NextDay
  BY <1>14 DEF NextDay, TypeInv, TypeOK, locals, ghosts, Days
<1>15. CASE UNCHANGED vars
  BY <1>15 DEF vars, file, locals, ghosts, TypeInv, TypeOK
<1> QED BY <1>1, <1>2, <1>3, <1>4, <1>5, <1>6, <1>7, <1>8, <1>9, <1>10, <1>11,
           <1>12, <1>13, <1>14, <1>15 DEF Next, Proceed

\* TypeOK of MeteredLedger: every variable keeps its type and the lock is
\* always with whoever is between its count and its line.
THEOREM LedgerTypeCorrect == Spec => []TypeOK
<1>1. TypeInv => TypeOK  BY DEF TypeInv
<1> QED BY <1>1, TypeInit, TypeStep, PTL DEF Spec

-----------------------------------------------------------------------------
(* The ledger. *)

\* What a loop has seen of the ledger under the lock still holds on the day it
\* looked, however many midnights ago that was.
Seen(l, d) ==
  /\ d <= today /\ \A i \in DOMAIN ledger : ledger[i].day <= d
  /\ ~Charged(d, job[l].task, job[l].key)
  /\ LaneAllows(job[l].lane, Cardinality(OfTask(d, job[l].task)))

AtLedger(l) ==
  pc[l] \in {"counted", "append"} =>
    \E d \in Days :
      /\ Seen(l, d)
      /\ pc[l] = "counted" => count[l] = Cardinality(On(d))
      /\ pc[l] = "append" => Cardinality(On(d)) + LegacyOn(today) < highest

CallCharged(l) ==
  pc[l] \in {"invoke", "reuse"} => \E d \in Days : Charged(d, job[l].task, job[l].key)

LedgerInv ==
  /\ DailyCapHolds /\ TaskCapHolds /\ ChargedOnce
  /\ \A i \in DOMAIN ledger : ledger[i].day <= today
  /\ \A l \in Loops : AtLedger(l) /\ CallCharged(l)

LEMMA LedgerInit == Init => LedgerInv
<1> SUFFICES ASSUME Init PROVE LedgerInv
  OBVIOUS
<1>1. DOMAIN ledger = {}  BY DEF Init
<1>2. (\A d \in Days : On(d) = {}) /\ (\A d \in Days, t \in Tasks : OfTask(d, t) = {})
  BY <1>1 DEF On, OfTask
<1>3. Cardinality({}) = 0  BY FS_EmptySet
<1>4. DailyCapHolds /\ ChargedOnce
  <2>1. DailyCapHolds  BY <1>2 DEF DailyCapHolds
  <2>2. ChargedOnce  BY <1>1 DEF ChargedOnce
  <2> QED BY <2>1, <2>2
<1>5. TaskCapHolds
  <2> SUFFICES ASSUME NEW d \in Days, NEW t \in Tasks
               PROVE  /\ Cardinality({i \in OfTask(d, t) : ledger[i].lane = "producer"}) <= TaskCap
                      /\ Cardinality({i \in OfTask(d, t) : ledger[i].lane # "converse"}) <= QCCap
    BY DEF TaskCapHolds
  <2>1. /\ {i \in OfTask(d, t) : ledger[i].lane = "producer"} = {}
        /\ {i \in OfTask(d, t) : ledger[i].lane # "converse"} = {}
    BY <1>2
  <2>2. 0 <= TaskCap /\ 0 <= QCCap  OBVIOUS
  <2> QED BY <2>1, <2>2, <1>3
<1>6. \A l \in Loops : AtLedger(l) /\ CallCharged(l)
  BY DEF Init, AtLedger, CallCharged
<1> QED BY <1>1, <1>4, <1>5, <1>6 DEF LedgerInv

\* A step that leaves the ledger alone: only what a loop that moved now claims
\* to know is in question.
LEMMA LedgerSame ==
  ASSUME TypeInv, LedgerInv, ledger' = ledger, today' \in Days, today <= today',
         highest' \in Nat, highest <= highest',
         \A l \in Loops :
           \/ (AtLedger(l) /\ CallCharged(l))'
           \/ pc'[l] = pc[l] /\ job'[l] = job[l] /\ count'[l] = count[l]
  PROVE  LedgerInv'
<1>0. today \in Nat /\ today' \in Nat /\ highest \in Nat /\ ledger \in Seq(Line)
  BY DEF TypeInv, TypeOK, Days
<1>1. /\ \A d : On(d)' = On(d)
      /\ \A d, t : OfTask(d, t)' = OfTask(d, t)
      /\ \A d, t, k : Charged(d, t, k)' <=> Charged(d, t, k)
  BY DEF On, OfTask, Charged
<1>2. \A d \in Days : On(d) \subseteq 1..Len(ledger) /\ Len(ledger) \in Nat
  BY <1>0 DEF On
<1>3. \A d \in Days : Cardinality(On(d)) \in Nat /\ LegacyOn(d) \in Nat
  BY <1>2, CountType DEF LegacyOn
<1>4. DailyCapHolds'
  <2> SUFFICES ASSUME NEW d \in Days, On(d) # {}
               PROVE  Cardinality(On(d)) + LegacyOn(d) <= highest'
    BY <1>1 DEF DailyCapHolds, LegacyOn
  <2>1. Cardinality(On(d)) + LegacyOn(d) <= highest  BY DEF LedgerInv, DailyCapHolds
  <2> QED BY <2>1, <1>0, <1>3
<1>5. TaskCapHolds' /\ ChargedOnce'
  BY <1>1 DEF LedgerInv, TaskCapHolds, ChargedOnce
<1>6. \A i \in DOMAIN ledger' : ledger'[i].day <= today'
  <2> SUFFICES ASSUME NEW i \in DOMAIN ledger PROVE ledger[i].day <= today'
    OBVIOUS
  <2>0. ledger[i] \in Line  BY <1>0
  <2>1. ledger[i].day <= today /\ ledger[i].day \in Nat
    BY <2>0 DEF LedgerInv, Line, Days
  <2> QED BY <2>1, <1>0
<1>7. ASSUME NEW l \in Loops, pc'[l] = pc[l] /\ job'[l] = job[l] /\ count'[l] = count[l]
      PROVE  (AtLedger(l) /\ CallCharged(l))'
  <2>1. AtLedger(l) /\ CallCharged(l)  BY DEF LedgerInv
  <2>2. CallCharged(l)'  BY <2>1, <1>1, <1>7 DEF CallCharged
  <2>3. ASSUME NEW d \in Days, Seen(l, d) PROVE Seen(l, d)'
    <3>1. d <= today'  BY <2>3, <1>0 DEF Seen, Days
    <3> QED BY <2>3, <3>1, <1>1, <1>7 DEF Seen, LaneAllows
  <2>4. LegacyOn(today') <= LegacyOn(today)  BY <1>0 DEF LegacyOn
  <2>5. ASSUME NEW d \in Days, Cardinality(On(d)) + LegacyOn(today) < highest
        PROVE  Cardinality(On(d)) + LegacyOn(today') < highest'
    <3>1. /\ Cardinality(On(d)) \in Nat
          /\ LegacyOn(today) \in Nat /\ LegacyOn(today') \in Nat
      BY <1>3 DEF LegacyOn
    <3> QED BY <2>4, <2>5, <3>1, <1>0
  <2>6. AtLedger(l)'
    BY <2>1, <2>3, <2>5, <1>1, <1>7 DEF AtLedger, LegacyOn
  <2> QED BY <2>2, <2>6
<1> QED BY <1>4, <1>5, <1>6, <1>7 DEF LedgerInv

\* What a loop saw when it looked holds on the day it writes: either midnight has not
\* fallen since, or the day is new and has no line.
LEMMA AppendIsAllowed ==
  ASSUME TypeInv, LedgerInv, NEW l \in Loops, AppendLine(l)
  PROVE  /\ \A i \in DOMAIN ledger : ledger[i].day <= today
         /\ ~Charged(today, job[l].task, job[l].key)
         /\ LaneAllows(job[l].lane, Cardinality(OfTask(today, job[l].task)))
         /\ Cardinality(On(today)) + LegacyOn(today) < highest
<1>1. /\ ledger \in Seq(Line) /\ today \in Days /\ today \in Nat /\ highest \in Nat
      /\ Len(ledger) \in Nat /\ DOMAIN ledger = 1..Len(ledger) /\ pc[l] = "append"
      /\ TaskCap \in Nat /\ QCCap \in Nat
  BY MeteredAssumption DEF TypeInv, TypeOK, Days, AppendLine
<1>2. PICK d \in Days : Seen(l, d) /\ Cardinality(On(d)) + LegacyOn(today) < highest
  BY <1>1 DEF LedgerInv, AtLedger
<1>3. \A i \in DOMAIN ledger : ledger[i].day \in Nat /\ ledger[i].day <= d
  <2> SUFFICES ASSUME NEW i \in DOMAIN ledger PROVE ledger[i].day \in Nat /\ ledger[i].day <= d
    OBVIOUS
  <2>1. ledger[i] \in Line  BY <1>1
  <2>2. ledger[i].day <= d  BY <1>2 DEF Seen
  <2> QED BY <2>1, <2>2 DEF Line, Days
<1>4. d \in Nat /\ d <= today  BY <1>2 DEF Seen, Days
<1>5. \A i \in DOMAIN ledger : ledger[i].day <= today  BY <1>1, <1>3, <1>4
<1>6. CASE d = today  BY <1>2, <1>5, <1>6 DEF Seen
<1>7. CASE d # today
  <2>1. \A i \in DOMAIN ledger : ledger[i].day # today  BY <1>1, <1>3, <1>4, <1>7
  <2>2. On(today) = {} /\ OfTask(today, job[l].task) = {}  BY <2>1 DEF On, OfTask
  <2>3. Cardinality(On(today)) = 0 /\ Cardinality(OfTask(today, job[l].task)) = 0
    BY <2>2, FS_EmptySet
  <2>4. Cardinality(On(d)) \in Nat /\ Cardinality(OfTask(d, job[l].task)) \in Nat
    <3>1. On(d) \in SUBSET (1..Len(ledger)) /\ OfTask(d, job[l].task) \in SUBSET (1..Len(ledger))
      BY <1>1 DEF On, OfTask
    <3> QED BY <1>1, <3>1, CountType
  <2>5. ~Charged(today, job[l].task, job[l].key)  BY <2>2 DEF Charged
  <2>6. LaneAllows(job[l].lane, Cardinality(OfTask(today, job[l].task)))
    BY <1>1, <1>2, <2>3, <2>4 DEF Seen, LaneAllows
  <2>7. LegacyOn(today) \in Nat  BY MeteredAssumption DEF LegacyOn
  <2> QED BY <1>1, <1>2, <1>5, <2>3, <2>4, <2>5, <2>6, <2>7
<1> QED BY <1>6, <1>7

\* Only the holder of the lock has counted, so the line it adds is still within
\* every cap, and new.
LEMMA LedgerGrows ==
  ASSUME TypeInv, LedgerInv, NEW l \in Loops, AppendLine(l)
  PROVE  LedgerInv'
<1> DEFINE x == [day |-> today, task |-> job[l].task, key |-> job[l].key, lane |-> job[l].lane]
           n == Len(ledger)
<1>0. /\ ledger \in Seq(Line) /\ today \in Days /\ today \in Nat /\ highest \in Nat
      /\ n \in Nat /\ pc[l] = "append" /\ pc \in [Loops -> PCs]
      /\ job[l].task \in Tasks /\ job[l].key \in Keys /\ job[l].lane \in Lanes
  BY SMTT(30) DEF TypeInv, TypeOK, Days, AppendLine, Jobs
<1>1. /\ DOMAIN ledger = 1..n /\ DOMAIN ledger' = 1..(n + 1) /\ ledger'[n + 1] = x
      /\ \A i \in 1..n : ledger'[i] = ledger[i]
  BY <1>0 DEF AppendLine
<1>2. UNCHANGED <<today, highest, job>>  BY DEF AppendLine, Goto, ghosts
<1>3. /\ ~Charged(today, job[l].task, job[l].key)
      /\ LaneAllows(job[l].lane, Cardinality(OfTask(today, job[l].task)))
      /\ Cardinality(On(today)) + LegacyOn(today) < highest
  BY AppendIsAllowed
<1>4. \A i \in 1..n : ledger[i].day \in Nat /\ ledger[i].day <= today
  <2> SUFFICES ASSUME NEW i \in 1..n PROVE ledger[i].day \in Nat /\ ledger[i].day <= today
    OBVIOUS
  <2>1. ledger[i] \in Line  BY <1>0
  <2>2. ledger[i].day <= today  BY <1>1, AppendIsAllowed
  <2> QED BY <2>1, <2>2 DEF Line, Days
<1>5. /\ \A e : On(e)' = IF e = today THEN On(e) \cup {n + 1} ELSE On(e)
      /\ \A e, t : OfTask(e, t)' = IF e = today /\ t = job[l].task
                                     THEN OfTask(e, t) \cup {n + 1} ELSE OfTask(e, t)
      /\ \A e, t, k : Charged(e, t, k) => Charged(e, t, k)'
  <2>1. \A e : On(e)' = IF e = today THEN On(e) \cup {n + 1} ELSE On(e)
    BY <1>0, <1>1 DEF On
  <2>2. \A e, t : OfTask(e, t)' = IF e = today /\ t = job[l].task
                                   THEN OfTask(e, t) \cup {n + 1} ELSE OfTask(e, t)
    BY <1>0, <1>1, <2>1 DEF OfTask, On
  <2>3. ASSUME NEW e, NEW t, NEW k, Charged(e, t, k) PROVE Charged(e, t, k)'
    <3>1. PICK i \in OfTask(e, t) : ledger[i].key = k  BY <2>3 DEF Charged
    <3>2. i \in 1..n /\ i \in OfTask(e, t)'  BY <1>1, <2>2 DEF OfTask, On
    <3> QED BY <3>1, <3>2, <1>1 DEF Charged
  <2> QED BY <2>1, <2>2, <2>3
<1>6. /\ \A e \in Days : On(e) \in SUBSET (1..n) /\ Cardinality(On(e)) \in Nat
      /\ \A e \in Days, t \in Tasks : OfTask(e, t) \in SUBSET (1..n)
  <2>1. /\ \A e \in Days : On(e) \in SUBSET (1..n)
        /\ \A e \in Days, t \in Tasks : OfTask(e, t) \in SUBSET (1..n)
    BY <1>1 DEF On, OfTask
  <2> QED BY <2>1, <1>0, CountType
<1>8. DailyCapHolds'
  <2> SUFFICES ASSUME NEW e \in Days, On(e)' # {}
               PROVE  Cardinality(On(e)') + LegacyOn(e) <= highest
    BY <1>2 DEF DailyCapHolds, LegacyOn
  <2>1. CASE e # today  BY <2>1, <1>5 DEF LedgerInv, DailyCapHolds
  <2>2. CASE e = today
    <3>1. Cardinality(On(e)') = Cardinality(On(today)) + 1
      BY <2>2, <1>0, <1>5, <1>6, CountMore
    <3>3. LegacyOn(today) \in Nat  BY DEF LegacyOn
    <3> QED BY <2>2, <3>1, <3>3, <1>0, <1>3, <1>6
  <2> QED BY <2>1, <2>2
<1>9. TaskCapHolds'
  <2> SUFFICES ASSUME NEW e \in Days, NEW t \in Tasks
               PROVE  /\ Cardinality({i \in OfTask(e, t)' : ledger'[i].lane = "producer"}) <= TaskCap
                      /\ Cardinality({i \in OfTask(e, t)' : ledger'[i].lane # "converse"}) <= QCCap
    BY DEF TaskCapHolds
  <2> DEFINE P == {i \in OfTask(e, t) : ledger[i].lane = "producer"}
             Q == {i \in OfTask(e, t) : ledger[i].lane # "converse"}
             Pn == {i \in OfTask(e, t)' : ledger'[i].lane = "producer"}
             Qn == {i \in OfTask(e, t)' : ledger'[i].lane # "converse"}
  <2>1. /\ P \in SUBSET (1..n) /\ Q \in SUBSET (1..n)
        /\ Cardinality(P) <= TaskCap /\ Cardinality(Q) <= QCCap
    BY <1>6 DEF LedgerInv, TaskCapHolds
  <2>2. CASE ~(e = today /\ t = job[l].task)
    <3>1. Pn = P /\ Qn = Q  BY <2>2, <1>1, <1>5, <1>6
    <3> QED BY <2>1, <3>1
  <2>3. CASE e = today /\ t = job[l].task
    <3>1. /\ Pn = IF job[l].lane = "producer" THEN P \cup {n + 1} ELSE P
          /\ Qn = IF job[l].lane # "converse" THEN Q \cup {n + 1} ELSE Q
      BY <2>3, <1>0, <1>1, <1>5, <1>6
    <3>2. LaneAllows(job[l].lane, Cardinality(OfTask(e, t)))  BY <1>3, <2>3
    <3>3. /\ Cardinality(P) \in Nat /\ Cardinality(Q) \in Nat
          /\ Cardinality(P) <= Cardinality(OfTask(e, t))
          /\ Cardinality(Q) <= Cardinality(OfTask(e, t))
      <4>1. IsFiniteSet(OfTask(e, t))  BY <1>0, <1>6, CountType
      <4> QED BY <4>1, <2>1, <1>0, CountType, FS_Subset
    <3>5. Cardinality(OfTask(e, t)) \in Nat  BY <1>0, <1>6, CountType
    <3>6. Cardinality(P \cup {n + 1}) = Cardinality(P) + 1
      BY <1>0, <2>1, CountMore
    <3>7. Cardinality(Q \cup {n + 1}) = Cardinality(Q) + 1
      BY <1>0, <2>1, CountMore
    <3> HIDE DEF P, Q, Pn, Qn
    <3>8. Cardinality(Pn) <= TaskCap
      BY <3>1, <3>2, <3>3, <3>5, <3>6, <2>1 DEF LaneAllows
    <3>9. Cardinality(Qn) <= QCCap
      BY <3>1, <3>2, <3>3, <3>5, <3>7, <2>1 DEF LaneAllows
    <3> QED BY <3>8, <3>9 DEF Pn, Qn
  <2> QED BY <2>2, <2>3
<1>10. ChargedOnce'
  <2>1. \A i \in 1..n : ~(/\ ledger[i].day = today /\ ledger[i].task = job[l].task
                          /\ ledger[i].key = job[l].key)
    <3> SUFFICES ASSUME NEW i \in 1..n, ledger[i].day = today,
                        ledger[i].task = job[l].task, ledger[i].key = job[l].key
                 PROVE  FALSE
      OBVIOUS
    <3>1. i \in On(today) /\ i \in OfTask(today, job[l].task)  BY <1>1 DEF On, OfTask
    <3> QED BY <3>1, <1>3 DEF Charged
  <2>2. \A i, j \in 1..n : /\ ledger[i].day = ledger[j].day
                            /\ ledger[i].task = ledger[j].task /\ ledger[i].key = ledger[j].key
                            => i = j
    BY <1>1 DEF LedgerInv, ChargedOnce
  <2>3. \A i \in 1..(n + 1) : i = n + 1 \/ i \in 1..n  BY <1>0
  <2>4. x.day = today /\ x.task = job[l].task /\ x.key = job[l].key  OBVIOUS
  <2> HIDE DEF x
  <2> SUFFICES ASSUME NEW i \in 1..(n + 1), NEW j \in 1..(n + 1),
                      ledger'[i].day = ledger'[j].day,
                      ledger'[i].task = ledger'[j].task, ledger'[i].key = ledger'[j].key
               PROVE  i = j
    BY <1>1 DEF ChargedOnce
  <2>5. CASE i \in 1..n /\ j \in 1..n  BY <2>5, <2>2, <1>1
  <2>6. CASE i = n + 1 /\ j \in 1..n  BY <2>6, <2>1, <2>4, <1>1
  <2>7. CASE i \in 1..n /\ j = n + 1  BY <2>7, <2>1, <2>4, <1>1
  <2> QED BY <2>3, <2>5, <2>6, <2>7
<1>11. \A i \in DOMAIN ledger' : ledger'[i].day <= today'
  <2>2. \A i \in 1..n : ledger'[i].day <= today  BY <1>1, <1>4
  <2>3. ledger'[n + 1].day <= today  BY <1>0, <1>1
  <2> QED BY <2>2, <2>3, <1>0, <1>1, <1>2
<1>12. ASSUME NEW m \in Loops PROVE (AtLedger(m) /\ CallCharged(m))'
  <2>1. CASE m = l
    <3>1. pc'[l] = "invoke"  BY <1>0 DEF AppendLine, Goto
    <3>2. n + 1 \in OfTask(today, job[l].task)'  BY <1>0, <1>2, <1>5
    <3>3. Charged(today, job[l].task, job[l].key)'  BY <3>2, <1>1, <1>2 DEF Charged
    <3> QED BY <2>1, <3>1, <3>3, <1>0, <1>2 DEF AtLedger, CallCharged
  <2>2. CASE m # l
    <3>1. lock = l  BY <1>0 DEF TypeInv, TypeOK, Critical
    <3>2. pc[m] \notin Critical  BY <2>2, <3>1 DEF TypeInv, TypeOK
    <3>3. pc'[m] = pc[m]  BY <2>2, <1>0 DEF AppendLine, Goto
    <3>4. AtLedger(m)'  BY <3>2, <3>3 DEF AtLedger, Critical
    <3>5. CallCharged(m)'
      BY <3>3, <1>2, <1>5 DEF CallCharged, LedgerInv
    <3> QED BY <3>4, <3>5
  <2> QED BY <2>1, <2>2
<1> QED BY <1>8, <1>9, <1>10, <1>11, <1>12 DEF LedgerInv

LEMMA LedgerStep == TypeInv /\ LedgerInv /\ [Next]_vars => LedgerInv'
<1> SUFFICES ASSUME TypeInv, LedgerInv, [Next]_vars PROVE LedgerInv'
  OBVIOUS
<1>0. /\ today \in Days /\ today \in Nat /\ highest \in Nat /\ ledger \in Seq(Line)
      /\ pc \in [Loops -> PCs] /\ job \in [Loops -> Jobs]
      /\ count \in [Loops -> Nat] /\ budget \in [Loops -> Nat]
  BY DEF TypeInv, TypeOK, Days
<1>1. ASSUME NEW l \in Loops, pc'[l] \in {"idle", "loop", "asked", "locked"},
             \A m \in Loops \ {l} : pc'[m] = pc[m] /\ job'[m] = job[m] /\ count'[m] = count[m],
             UNCHANGED <<ledger, today, highest>>
      PROVE  LedgerInv'
  <2>1. (AtLedger(l) /\ CallCharged(l))'  BY <1>1 DEF AtLedger, CallCharged
  <2> QED BY <2>1, <1>0, <1>1, LedgerSame
<1>2. ASSUME NEW l \in Loops, \/ EndAttempt(l) \/ Acquire(l) \/ LockTimeout(l) \/ Invoke(l)
                               \/ Raise(l) \/ Crash(l)
      PROVE  LedgerInv'
  BY <1>0, <1>1, <1>2
     DEF EndAttempt, Acquire, LockTimeout, Invoke, Raise, Crash,
         Answered, Denied, Leave, Cleared, Goto, file, ghosts
<1>a. ASSUME NEW l \in Loops, NEW k \in Keys, Ask(l, k) PROVE LedgerInv'
  BY <1>0, <1>1, <1>a DEF Ask, file, ghosts
<1>b. ASSUME NEW l \in Loops, NEW t \in Tasks, NEW lane \in Lanes, StartAttempt(l, t, lane)
      PROVE  LedgerInv'
  BY <1>0, <1>1, <1>b DEF StartAttempt, file, ghosts
<1>3. ASSUME NEW l \in Loops, Scan(l) PROVE LedgerInv'
  <2>0. /\ UNCHANGED <<ledger, today, highest>>
        /\ \A m \in Loops \ {l} : pc'[m] = pc[m] /\ job'[m] = job[m] /\ count'[m] = count[m]
    BY <1>0, <1>3 DEF Scan, Goto, Denied, Answered, Cleared, ghosts
  <2>1. CASE Charged(today, job[l].task, job[l].key) /\ Goto(l, "reuse")
    <3>1. pc'[l] = "reuse" /\ job'[l] = job[l]  BY <2>1, <1>0 DEF Goto
    <3>2. Charged(today, job[l].task, job[l].key)'
      BY <2>0, <2>1, <3>1 DEF Charged, OfTask, On, Goto
    <3>3. (AtLedger(l) /\ CallCharged(l))'
      BY <2>0, <3>1, <3>2, <1>0 DEF AtLedger, CallCharged
    <3> QED BY <2>0, <3>3, <1>0, LedgerSame
  <2>2. CASE Denied(l)
    BY <2>0, <2>2, <1>0, <1>1 DEF Denied, Answered
  <2>3. CASE /\ ~Charged(today, job[l].task, job[l].key)
             /\ LaneAllows(job[l].lane, Cardinality(OfTask(today, job[l].task)))
             /\ pc' = [pc EXCEPT ![l] = "counted"]
             /\ count' = [count EXCEPT ![l] = Cardinality(On(today))]
             /\ UNCHANGED <<lock, job, budget, cache>>
    <3>1. pc'[l] = "counted" /\ job' = job /\ count'[l] = Cardinality(On(today))
      BY <2>3, <1>0
    <3>2. Seen(l, today)'
      <4>1. \A i \in DOMAIN ledger : ledger[i].day <= today  BY DEF LedgerInv
      <4> QED BY <2>0, <2>3, <3>1, <4>1, <1>0 DEF Seen, Charged, OfTask, On, LaneAllows
    <3>3. On(today)' = On(today)  BY <2>0 DEF On
    <3>4. (AtLedger(l) /\ CallCharged(l))'
      BY <2>0, <3>1, <3>2, <3>3, <1>0 DEF AtLedger, CallCharged
    <3> QED BY <2>0, <3>4, <1>0, LedgerSame
  <2> QED BY <1>3, <2>1, <2>2, <2>3 DEF Scan
<1>4. ASSUME NEW l \in Loops, CountLegacy(l) PROVE LedgerInv'
  <2>0. /\ UNCHANGED <<ledger, today, highest>>
        /\ \A m \in Loops \ {l} : pc'[m] = pc[m] /\ job'[m] = job[m] /\ count'[m] = count[m]
    BY <1>0, <1>4 DEF CountLegacy, Denied, Answered, Cleared, ghosts
  <2>1. CASE Denied(l)
    BY <2>0, <2>1, <1>0, <1>1 DEF Denied, Answered
  <2>2. CASE /\ ~(count[l] + LegacyOn(today) >= budget[l])
             /\ job' = job /\ pc' = [pc EXCEPT ![l] = "append"]
    <3>1. pc'[l] = "append"  BY <2>2, <1>0
    <3>2. PICK d \in Days : Seen(l, d) /\ count[l] = Cardinality(On(d))
      BY <1>4 DEF CountLegacy, LedgerInv, AtLedger
    <3>3. LegacyOn(today) \in Nat /\ budget[l] <= highest  BY DEF LegacyOn, TypeInv
    <3>4. Cardinality(On(d)) + LegacyOn(today) < highest
      BY <2>2, <3>2, <3>3, <1>0
    <3>5. Seen(l, d)' /\ (Cardinality(On(d)) + LegacyOn(today) < highest)'
      BY <2>0, <2>2, <3>2, <3>4 DEF Seen, Charged, OfTask, On, LaneAllows, LegacyOn
    <3>6. (AtLedger(l) /\ CallCharged(l))'
      BY <3>1, <3>5 DEF AtLedger, CallCharged
    <3> QED BY <2>0, <3>6, <1>0, LedgerSame
  <2> QED BY <1>4, <2>1, <2>2 DEF CountLegacy
<1>5. ASSUME NEW l \in Loops, Reuse(l) PROVE LedgerInv'
  <2>0. /\ UNCHANGED <<ledger, today, highest>>
        /\ \A m \in Loops \ {l} : pc'[m] = pc[m] /\ job'[m] = job[m] /\ count'[m] = count[m]
    BY <1>0, <1>5 DEF Reuse, Goto, Denied, Answered, Cleared, file, ghosts
  <2>1. CASE Denied(l)
    BY <2>0, <2>1, <1>0, <1>1 DEF Denied, Answered
  <2>2. CASE Goto(l, "invoke")
    <3>1. pc'[l] = "invoke" /\ job' = job  BY <2>2, <1>0 DEF Goto
    <3>2. \E d \in Days : Charged(d, job[l].task, job[l].key)
      BY <1>5 DEF Reuse, LedgerInv, CallCharged
    <3>3. (AtLedger(l) /\ CallCharged(l))'
      BY <2>0, <3>1, <3>2 DEF AtLedger, CallCharged, Charged, OfTask, On
    <3> QED BY <2>0, <3>3, <1>0, LedgerSame
  <2> QED BY <1>5, <2>1, <2>2 DEF Reuse
<1>6. ASSUME NEW c \in Caps, SetCap(c) PROVE LedgerInv'
  BY <1>0, <1>6, LedgerSame DEF SetCap, locals
<1>7. CASE NextDay
  <2>1. today' \in Days /\ today <= today' /\ UNCHANGED <<ledger, highest, pc, job, count>>
    BY <1>0, <1>7 DEF NextDay, Days, locals, ghosts
  <2> QED BY <2>1, <1>0, LedgerSame
<1>8. CASE UNCHANGED vars
  BY <1>0, <1>8, LedgerSame DEF vars, file, locals, ghosts
<1>9. ASSUME NEW l \in Loops, AppendLine(l) PROVE LedgerInv'  BY <1>9, LedgerGrows
<1> QED BY <1>2, <1>a, <1>b, <1>3, <1>4, <1>5, <1>6, <1>7, <1>8, <1>9 DEF Next, Proceed

\* DailyCapHolds: no day's lines exceed the highest cap declared, for any number
\* of loops, any caps and any time a loop takes between its readings.
THEOREM DailyCapIsKept == Spec => []DailyCapHolds
<1>1. TypeInv /\ LedgerInv => DailyCapHolds  BY DEF LedgerInv
<1> QED BY <1>1, TypeInit, TypeStep, LedgerInit, LedgerStep, PTL DEF Spec

\* TaskCapHolds: no task exceeds the cap of its lane, over any number of
\* attempts and loops.
THEOREM TaskCapIsKept == Spec => []TaskCapHolds
<1>1. TypeInv /\ LedgerInv => TaskCapHolds  BY DEF LedgerInv
<1> QED BY <1>1, TypeInit, TypeStep, LedgerInit, LedgerStep, PTL DEF Spec

\* ChargedOnce: no call of a task is charged twice a day.
THEOREM ChargedOnceIsKept == Spec => []ChargedOnce
<1>1. TypeInv /\ LedgerInv => ChargedOnce  BY DEF LedgerInv
<1> QED BY <1>1, TypeInit, TypeStep, LedgerInit, LedgerStep, PTL DEF Spec

\* NothingUncharged: what reaches the provider is on the ledger.
THEOREM EveryCallIsCharged == Spec => []NothingUncharged
<1>1. TypeInv /\ LedgerInv => NothingUncharged
  BY DEF LedgerInv, CallCharged, NothingUncharged
<1> QED BY <1>1, TypeInit, TypeStep, LedgerInit, LedgerStep, PTL DEF Spec

-----------------------------------------------------------------------------
(* The ledger implements the spend authority. *)

\* The count of the instance is the count.
LEMMA SameCount == \A S : SA!Cardinality(S) = Cardinality(S)
BY DEF SA!Cardinality, Cardinality

\* A loop that moves, away from the call or towards it: the permits of the others stay.
LEMMA PermitMoves ==
  ASSUME NEW l \in Loops, \A m \in Loops \ {l} : pc'[m] = pc[m] /\ job'[m] = job[m]
  PROVE  /\ pc'[l] # "invoke" => permitsNow' = [permitsNow EXCEPT ![l] = {}]
         /\ pc'[l] = "invoke" =>
              permitsNow' = [permitsNow EXCEPT ![l] = {<<job'[l].task, job'[l].key>>}]
BY DEF permitsNow

\* Whoever does not call before or after a step shows nothing of it.
LEMMA Unseen ==
  ASSUME NEW l \in Loops, \A m \in Loops \ {l} : pc'[m] = pc[m] /\ job'[m] = job[m],
         ledger' = ledger, highest' = highest, pc[l] # "invoke", pc'[l] # "invoke"
  PROVE  [SA!AuthorityNext]_SA!avars
<1>1. permitsNow' = permitsNow  BY DEF permitsNow
<1> QED BY <1>1 DEF SA!avars

\* A line is a charge, decided and written as if in one step.
LEMMA LineIsCharge ==
  ASSUME TypeInv, LedgerInv, NEW l \in Loops, AppendLine(l)
  PROVE  SA!Charge(l)
<1> DEFINE x == [day |-> today, task |-> job[l].task, key |-> job[l].key, lane |-> job[l].lane]
<1>1. /\ pc[l] = "append" /\ pc'[l] = "invoke" /\ job' = job /\ highest' = highest
      /\ \A m \in Loops \ {l} : pc'[m] = pc[m]
      /\ ledger' = Append(ledger, x)
  BY DEF AppendLine, Goto, TypeInv, TypeOK, ghosts
<1>2. x \in Line
  <2>1. /\ today \in Days /\ job[l] \in Jobs
        /\ job[l].task \in Tasks /\ job[l].key \in Keys
    BY <1>1 DEF TypeInv, TypeOK
  <2> QED BY <2>1 DEF Line, Jobs
<1>3. x.day = today /\ x.task = job[l].task /\ x.key = job[l].key /\ x.lane = job[l].lane
  OBVIOUS
<1> HIDE DEF x
<1>4. SA!Admitted(x)
  <2>1. SA!Paid(today) = On(today) /\ SA!PaidFor(today, job[l].task) = OfTask(today, job[l].task)
    BY DEF SA!Paid, SA!PaidFor, On, OfTask
  <2>2. SA!Spent(today) = Cardinality(On(today)) + LegacyOn(today)
    BY <2>1, SameCount DEF SA!Spent, LegacyOn
  <2> QED BY <1>3, <2>1, <2>2, AppendIsAllowed, SameCount DEF SA!Admitted, Charged, LaneAllows
<1>5. SA!Gets(l) /\ permitsNow' = [permitsNow EXCEPT ![l] = {SA!Call(x)}]
  <2>1. permitsNow[l] = {} /\ permitsNow'[l] = {SA!Call(x)}
    BY <1>1, <1>3 DEF permitsNow, SA!Call
  <2>2. permitsNow' = [permitsNow EXCEPT ![l] = {SA!Call(x)}]
    BY <1>1, <1>3, PermitMoves DEF SA!Call
  <2> QED BY <2>1, <2>2 DEF SA!Gets
<1> QED BY <1>1, <1>2, <1>4, <1>5 DEF SA!Charge

\* A replay without a cached result calls once more what is on the ledger.
LEMMA ReplayRepeats ==
  ASSUME TypeInv, LedgerInv, NEW l \in Loops, Reuse(l)
  PROVE  [SA!AuthorityNext]_SA!avars
<1>1. /\ pc[l] = "reuse" /\ ledger' = ledger /\ highest' = highest
      /\ \A m \in Loops \ {l} : pc'[m] = pc[m] /\ job'[m] = job[m]
  BY DEF Reuse, Goto, Denied, Answered, TypeInv, TypeOK, file, ghosts
<1>2. CASE Denied(l)
  <2>1. pc'[l] = "loop"  BY <1>2 DEF Denied, Answered, TypeInv, TypeOK
  <2> QED BY <1>1, <2>1, Unseen
<1>3. CASE Goto(l, "invoke")
  <2>1. pc'[l] = "invoke" /\ job' = job  BY <1>3 DEF Goto, TypeInv, TypeOK
  <2>2. PICK d \in Days : Charged(d, job[l].task, job[l].key)
    BY <1>1 DEF LedgerInv, CallCharged
  <2>3. PICK i \in DOMAIN ledger : <<job[l].task, job[l].key>> = SA!Call(ledger[i])
    BY <2>2 DEF Charged, OfTask, On, SA!Call
  <2>4. permitsNow' = [permitsNow EXCEPT ![l] = {SA!Call(ledger[i])}]
    BY <1>1, <2>1, <2>3, PermitMoves
  <2>5. SA!Gets(l)  BY <1>1, <2>1 DEF SA!Gets, permitsNow
  <2>6. SA!Repeat(l)  BY <1>1, <2>4, <2>5 DEF SA!Repeat
  <2> QED BY <2>6 DEF SA!AuthorityNext
<1> QED BY <1>2, <1>3 DEF Reuse

\* A loop whose call returns, raises or dies with its process uses up its permit.
LEMMA CallIsUse ==
  ASSUME TypeInv, NEW l \in Loops, Invoke(l) \/ (Crash(l) /\ pc[l] = "invoke")
  PROVE  SA!Use(l)
<1>1. /\ pc[l] = "invoke" /\ pc'[l] \in {"idle", "loop"} /\ ledger' = ledger /\ highest' = highest
      /\ \A m \in Loops \ {l} : pc'[m] = pc[m] /\ job'[m] = job[m]
  BY DEF Invoke, Crash, Answered, Leave, TypeInv, TypeOK, file, ghosts
<1>2. permitsNow' = [permitsNow EXCEPT ![l] = {}]  BY <1>1, PermitMoves
<1>3. permitsNow[l] # {}  BY <1>1 DEF permitsNow
<1> QED BY <1>1, <1>2, <1>3 DEF SA!Use

LEMMA AuthorityStep == TypeInv /\ LedgerInv /\ [Next]_vars => [SA!AuthorityNext]_SA!avars
<1> SUFFICES ASSUME TypeInv, LedgerInv, [Next]_vars PROVE [SA!AuthorityNext]_SA!avars
  OBVIOUS
<1>0. pc \in [Loops -> PCs] /\ job \in [Loops -> Jobs] /\ highest \in Nat
  BY DEF TypeInv, TypeOK
<1>1. ASSUME NEW l \in Loops,
             \/ \E t \in Tasks, lane \in Lanes : StartAttempt(l, t, lane)
             \/ \E k \in Keys : Ask(l, k)
             \/ EndAttempt(l) \/ Acquire(l) \/ LockTimeout(l) \/ Scan(l) \/ CountLegacy(l) \/ Raise(l)
             \/ Crash(l) /\ pc[l] # "invoke"
      PROVE  [SA!AuthorityNext]_SA!avars
  <2>1. /\ pc[l] # "invoke" /\ pc'[l] # "invoke" /\ ledger' = ledger /\ highest' = highest
        /\ \A m \in Loops \ {l} : pc'[m] = pc[m] /\ job'[m] = job[m]
    BY <1>0, <1>1
       DEF StartAttempt, Ask, EndAttempt, Acquire, LockTimeout, Scan, CountLegacy, Raise, Crash,
           Answered, Denied, Leave, Goto, Critical, file, ghosts
  <2> QED BY <2>1, Unseen
<1>2. ASSUME NEW l \in Loops, AppendLine(l) PROVE [SA!AuthorityNext]_SA!avars
  BY <1>2, LineIsCharge DEF SA!AuthorityNext
<1>3. ASSUME NEW l \in Loops, Invoke(l) \/ (Crash(l) /\ pc[l] = "invoke")
      PROVE  [SA!AuthorityNext]_SA!avars
  BY <1>3, CallIsUse DEF SA!AuthorityNext
<1>4. ASSUME NEW c \in Caps, SetCap(c) PROVE [SA!AuthorityNext]_SA!avars
  <2>1. ledger' = ledger /\ permitsNow' = permitsNow
        /\ highest' = IF c > highest THEN c ELSE highest
    BY <1>4 DEF SetCap, locals, permitsNow
  <2>2. CASE c > highest
    <3>1. SA!Declare  BY <2>1, <2>2 DEF SA!Declare
    <3> QED BY <3>1 DEF SA!AuthorityNext
  <2>3. CASE ~(c > highest)  BY <2>1, <2>3 DEF SA!avars
  <2> QED BY <2>2, <2>3
<1>5. CASE NextDay \/ UNCHANGED vars
  <2>1. UNCHANGED <<ledger, highest, pc, job>>
    BY <1>5 DEF NextDay, vars, file, locals, ghosts
  <2> QED BY <2>1 DEF SA!avars, permitsNow
<1> QED BY <1>1, <1>2, <1>3, <1>4, <1>5, ReplayRepeats DEF Next, Proceed

\* Whatever the order in which loops take the lock, read clock, cap and ledger, raise,
\* die and use their caches (authorize_metered_tool, run_llm_with_tools): it is as if
\* each charge had been decided and recorded in one step on the day it is dated, and
\* only what is on record reaches the provider.
THEOREM LedgerImplementsAuthority == Spec => ImplementsAuthority
<1>1. Init => SA!AuthorityInit
  <2> SUFFICES ASSUME Init PROVE SA!AuthorityInit  OBVIOUS
  <2>1. highest \in Caps \cup {0} /\ ledger = <<>>  BY DEF Init
  <2>2. permitsNow = [l \in Loops |-> {}]  BY DEF Init, permitsNow
  <2> QED BY <2>1, <2>2 DEF SA!AuthorityInit
<1> QED BY <1>1, AuthorityStep, TypeInit, TypeStep, LedgerInit, LedgerStep, PTL
        DEF Spec, ImplementsAuthority, SA!AuthoritySpec
=============================================================================
