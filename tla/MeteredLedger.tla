--------------------------- MODULE MeteredLedger ---------------------------
(***************************************************************************)
(* The spend authority for paid tool calls.  The tool loops of concurrent  *)
(* producers, threads and processes alike, ask the comptroller before each *)
(* call; it counts the ledger's lines of the day under a flock and appends *)
(* one of its own.                                                         *)
(*                                                                         *)
(* One project and one cost class: counts and caps are per class, and      *)
(* classes share nothing but the file and its lock.                        *)
(***************************************************************************)
EXTENDS Naturals, Sequences, FiniteSets

CONSTANTS
  Loops,       \* tool loops: run_llm_with_tools, one attempt at a time
  FaultProne,  \* the loops whose process may die, or whose authorizer raises
  Wedged,      \* the loops that may stop for good, the lock in hand
  None,        \* no loop, no task, no call, no cap
  Tasks, Keys, \* a key stands for one call with its arguments
  Lanes,       \* who asks: it decides which cap per task applies
  Caps,        \* the daily caps an operator may declare
  TaskCap,     \* the service's per-task cap, 1 by default
  QCCap,       \* what the QC lane may raise the same count to
  Legacy,      \* lines of the first day that an earlier version left
  MaxDay,      \* bound: the last day
  MaxCalls     \* bound: answered calls counted per day (a history variable)

ASSUME MeteredAssumption ==
  /\ FaultProne \subseteq Loops /\ Wedged \subseteq Loops /\ None \notin Loops
  /\ Lanes \subseteq {"producer", "qc", "converse"} /\ "producer" \in Lanes
  /\ Caps \subseteq Nat /\ None \notin Caps
  /\ TaskCap \in Nat /\ QCCap \in Nat /\ TaskCap <= QCCap
  /\ Legacy \in Nat /\ MaxDay \in Nat /\ MaxCalls \in Nat

Days == 0..MaxDay
Line == [day : Days, task : Tasks, key : Keys, lane : Lanes]
Jobs == [task : Tasks \cup {None}, lane : Lanes, key : Keys \cup {None}]

VARIABLES
  cap,      \* the daily cap in the project's comptroller.md
  ledger,   \* the metered lines, in order
  lock,     \* who holds the flock
  today,    \* the UTC date
  \* per loop: where it is, its task, lane and call, the cap it loaded, the
  \* lines it counted, and the keys whose results it keeps
  pc, job, budget, count, cache,
  \* history: calls the provider answered per day, and the highest cap declared
  paid, highest

file == <<cap, ledger, lock, today>>
locals == <<pc, job, budget, count, cache>>
ghosts == <<paid, highest>>
vars == <<file, locals, ghosts>>

Critical == {"locked", "counted", "append"}
PCs == {"idle", "loop", "asked", "invoke", "reuse"} \cup Critical
NoJob == [task |-> None, lane |-> "producer", key |-> None]

\* _scan_metered_today: the lines of a day, of a task on it, and of one call.
On(d) == {i \in DOMAIN ledger : ledger[i].day = d}
OfTask(d, t) == {i \in On(d) : ledger[i].task = t}
Charged(d, t, k) == \E i \in OfTask(d, t) : ledger[i].key = k

\* _count_today: lines of the other stream; nobody writes any more of them.
LegacyOn(d) == IF d = 0 THEN Legacy ELSE 0

\* _metered_lane_cap: whether the lane allows one more call after n.
LaneAllows(lane, n) ==
  \/ lane = "converse"
  \/ n < IF lane = "qc" THEN QCCap ELSE TaskCap

Init ==
  /\ cap \in Caps \cup {None} /\ highest = (IF cap = None THEN 0 ELSE cap)
  /\ ledger = <<>> /\ lock = None /\ today = 0
  /\ pc = [l \in Loops |-> "idle"] /\ job = [l \in Loops |-> NoJob]
  /\ budget = [l \in Loops |-> 0] /\ count = [l \in Loops |-> 0]
  /\ cache = [l \in Loops |-> {}]
  /\ paid = [d \in Days |-> 0]

Goto(l, p) == pc' = [pc EXCEPT ![l] = p] /\ UNCHANGED <<job, budget, count, cache>>

\* What was loaded and counted is not looked at again.
Cleared(l) ==
  budget' = [budget EXCEPT ![l] = 0] /\ count' = [count EXCEPT ![l] = 0]

\* The loop has its answer: a result, a cached one, DENIED or ERROR.
Answered(l) ==
  /\ pc' = [pc EXCEPT ![l] = "loop"]
  /\ job' = [job EXCEPT ![l].key = None]
  /\ Cleared(l)

Denied(l) == Answered(l) /\ UNCHANGED cache

Leave(l) ==
  /\ pc' = [pc EXCEPT ![l] = "idle"] /\ job' = [job EXCEPT ![l] = NoJob]
  /\ Cleared(l) /\ cache' = [cache EXCEPT ![l] = {}]

Release(l) == lock' = IF lock = l THEN None ELSE lock

-----------------------------------------------------------------------------
(* A tool loop. *)

\* A new attempt at a task, with empty caches.
StartAttempt(l, t, lane) ==
  /\ pc[l] = "idle"
  /\ pc' = [pc EXCEPT ![l] = "loop"]
  /\ job' = [job EXCEPT ![l] = [task |-> t, lane |-> lane, key |-> None]]
  /\ UNCHANGED <<file, budget, count, cache, ghosts>>

EndAttempt(l) ==
  /\ pc[l] = "loop"
  /\ Leave(l)
  /\ UNCHANGED <<file, ghosts>>

\* The model asks for a paid call; the cap is loaded before the lock is taken,
\* and without one the call is denied on the spot.
Ask(l, k) ==
  /\ pc[l] = "loop" /\ cap # None
  /\ pc' = [pc EXCEPT ![l] = "asked"]
  /\ job' = [job EXCEPT ![l].key = k]
  /\ budget' = [budget EXCEPT ![l] = cap]
  /\ UNCHANGED <<file, count, cache, ghosts>>

Acquire(l) ==
  /\ pc[l] = "asked" /\ lock = None
  /\ lock' = l /\ Goto(l, "locked")
  /\ UNCHANGED <<cap, ledger, today, ghosts>>

\* Mutant of LockTimeout: on the timeout it goes on without the lock.
TimeoutProceeds(l) ==
  /\ pc[l] = "asked" /\ lock # None
  /\ Goto(l, "locked")
  /\ UNCHANGED <<file, ghosts>>

\* Mutant of LockTimeout: on the timeout the call is allowed.
TimeoutAllows(l) ==
  /\ pc[l] = "asked" /\ lock # None
  /\ Goto(l, "invoke")
  /\ UNCHANGED <<file, ghosts>>

\* Mutant of LockTimeout: there is none.
TryAgain(l) ==
  /\ pc[l] = "asked" /\ lock # None
  /\ UNCHANGED vars

\* The deadline passes with the lock held by another: denied.
LockTimeout(l) ==
  /\ pc[l] = "asked" /\ lock # None
  /\ Denied(l)
  /\ UNCHANGED <<file, ghosts>>

\* Mutant of Scan: one call too many per task.
ScanOneMore(l) ==
  LET t == job[l].task
      charged == Charged(today, t, job[l].key)
      allowed == LaneAllows(job[l].lane, Cardinality(OfTask(today, t)) - 1)
  IN
  /\ pc[l] = "locked"
  /\ \/ charged /\ Release(l) /\ Goto(l, "reuse")
     \/ ~charged /\ ~allowed /\ Release(l) /\ Denied(l)
     \/ /\ ~charged /\ allowed
        /\ pc' = [pc EXCEPT ![l] = "counted"]
        /\ count' = [count EXCEPT ![l] = Cardinality(On(today))]
        /\ UNCHANGED <<lock, job, budget, cache>>
  /\ UNCHANGED <<cap, ledger, today, ghosts>>

\* Mutant of Scan: the lock is let go once the lines are counted.
ScanUnlocks(l) ==
  LET t == job[l].task
      charged == Charged(today, t, job[l].key)
      allowed == LaneAllows(job[l].lane, Cardinality(OfTask(today, t)))
  IN
  /\ pc[l] = "locked" /\ Release(l)
  /\ \/ charged /\ Goto(l, "reuse")
     \/ ~charged /\ ~allowed /\ Denied(l)
     \/ /\ ~charged /\ allowed
        /\ pc' = [pc EXCEPT ![l] = "counted"]
        /\ count' = [count EXCEPT ![l] = Cardinality(On(today))]
        /\ UNCHANGED <<job, budget, cache>>
  /\ UNCHANGED <<cap, ledger, today, ghosts>>

\* One pass over the ledger: a replay is free, a call beyond the task's cap is
\* denied, and otherwise the day's lines are counted.
Scan(l) ==
  LET t == job[l].task
      charged == Charged(today, t, job[l].key)
      allowed == LaneAllows(job[l].lane, Cardinality(OfTask(today, t)))
  IN
  /\ pc[l] = "locked"
  /\ \/ charged /\ Release(l) /\ Goto(l, "reuse")
     \/ ~charged /\ ~allowed /\ Release(l) /\ Denied(l)
     \/ /\ ~charged /\ allowed
        /\ pc' = [pc EXCEPT ![l] = "counted"]
        /\ count' = [count EXCEPT ![l] = Cardinality(On(today))]
        /\ UNCHANGED <<lock, job, budget, cache>>
  /\ UNCHANGED <<cap, ledger, today, ghosts>>

\* A second pass, on a date read again, for the other stream.
CountLegacy(l) ==
  /\ pc[l] = "counted"
  /\ IF count[l] + LegacyOn(today) >= budget[l]
       THEN Release(l) /\ Denied(l)
       ELSE UNCHANGED <<lock, job, cache>> /\ Cleared(l) /\ pc' = [pc EXCEPT ![l] = "append"]
  /\ UNCHANGED <<cap, ledger, today, ghosts>>

\* The line is dated by a third reading of the clock.
AppendLine(l) ==
  /\ pc[l] = "append"
  /\ ledger' = Append(ledger, [day |-> today, task |-> job[l].task,
                               key |-> job[l].key, lane |-> job[l].lane])
  /\ Release(l) /\ Goto(l, "invoke")
  /\ UNCHANGED <<cap, today, ghosts>>

\* The call itself.  Only what it returned is kept, not that it raised.
Invoke(l) ==
  /\ pc[l] = "invoke"
  /\ \/ /\ paid' = [paid EXCEPT ![today] = IF @ < MaxCalls THEN @ + 1 ELSE @]
        /\ cache' = [cache EXCEPT ![l] = @ \cup {job[l].key}]
     \/ UNCHANGED <<paid, cache>>
  /\ Answered(l)
  /\ UNCHANGED <<file, highest>>

\* A replay: from this loop's cache, or else a live call after all.
Reuse(l) ==
  /\ pc[l] = "reuse"
  /\ IF job[l].key \in cache[l] THEN Denied(l) ELSE Goto(l, "invoke")
  /\ UNCHANGED <<file, ghosts>>

\* The authorizer raises, which denies the call.
Raise(l) ==
  /\ l \in FaultProne /\ pc[l] \in Critical
  /\ Release(l) /\ Denied(l)
  /\ UNCHANGED <<cap, ledger, today, ghosts>>

Crash(l) ==
  /\ l \in FaultProne /\ pc[l] # "idle"
  /\ Release(l) /\ Leave(l)
  /\ UNCHANGED <<cap, ledger, today, ghosts>>

-----------------------------------------------------------------------------
(* The operator and the clock. *)

SetCap(c) ==
  /\ cap' = c /\ highest' = IF c > highest THEN c ELSE highest
  /\ UNCHANGED <<ledger, lock, today, locals, paid>>

NextDay ==
  /\ today < MaxDay
  /\ today' = today + 1
  /\ UNCHANGED <<cap, ledger, lock, locals, ghosts>>

-----------------------------------------------------------------------------
\* What a loop that has asked goes on to do.
Proceed(l) ==
  \/ Acquire(l) \/ LockTimeout(l) \/ Scan(l) \/ CountLegacy(l) \/ AppendLine(l)
  \/ Invoke(l) \/ Reuse(l)

Next ==
  \/ \E l \in Loops :
       \/ \E t \in Tasks, lane \in Lanes : StartAttempt(l, t, lane)
       \/ \E k \in Keys : Ask(l, k)
       \/ EndAttempt(l) \/ Proceed(l) \/ Raise(l) \/ Crash(l)
  \/ \E c \in Caps : SetCap(c)
  \/ NextDay

Spec == Init /\ [][Next]_vars

\* A loop that has asked goes on, unless it is wedged; nobody has to ask.
FairSpec == Spec /\ \A l \in Loops \ Wedged : WF_vars(Proceed(l))

-----------------------------------------------------------------------------
(* Properties. *)

\* Every variable has its type, and the lock is with whoever is at the ledger.
TypeOK ==
  /\ cap \in Caps \cup {None} /\ highest \in Nat
  /\ ledger \in Seq(Line) /\ today \in Days
  /\ pc \in [Loops -> PCs] /\ job \in [Loops -> Jobs]
  /\ budget \in [Loops -> Nat] /\ count \in [Loops -> Nat]
  /\ cache \in [Loops -> SUBSET Keys] /\ paid \in [Days -> Nat]
  /\ lock \in Loops \cup {None}
  /\ \A l \in Loops : pc[l] \in Critical <=> lock = l

\* A day's lines never exceed the highest cap that was declared, although cap,
\* counts and date are each read at a time of their own, midnight in between.
DailyCapHolds ==
  \A d \in Days : On(d) # {} => Cardinality(On(d)) + LegacyOn(d) <= highest

\* Nor do a task's lines exceed its cap, in the lanes that have one.
TaskCapHolds ==
  \A d \in Days, t \in Tasks :
    /\ Cardinality({i \in OfTask(d, t) : ledger[i].lane = "producer"}) <= TaskCap
    /\ Cardinality({i \in OfTask(d, t) : ledger[i].lane # "converse"}) <= QCCap

\* The same call of the same task is charged once a day.
ChargedOnce ==
  \A i, j \in DOMAIN ledger :
    /\ ledger[i].day = ledger[j].day
    /\ ledger[i].task = ledger[j].task /\ ledger[i].key = ledger[j].key
    => i = j

\* No call reaches the provider that was never charged.
NothingUncharged ==
  \A l \in Loops : pc[l] = "invoke" =>
    \E d \in Days : Charged(d, job[l].task, job[l].key)

\* A call gets its answer, even when whoever holds the lock is wedged.
EveryCallIsAnswered ==
  \A l \in Loops \ Wedged : pc[l] = "asked" ~> pc[l] \in {"loop", "idle"}

\* The loops, their lock, their clocks and their caches do what SpendAuthority
\* promises: each line is decided and written as if in one step, and what reaches
\* the provider is on the ledger.
permitsNow == [l \in Loops |-> IF pc[l] = "invoke" THEN {<<job[l].task, job[l].key>>} ELSE {}]

SA == INSTANCE SpendAuthority WITH
        Callers <- Loops, Charges <- Line, Limits <- Caps,
        charges <- ledger, limit <- highest, permits <- permitsNow
ImplementsAuthority == SA!AuthoritySpec

-----------------------------------------------------------------------------
(* What the documentation says, and the code does not do. *)

\* 28-tools.md: the daily cap bounds the spend, and a retry is free.
PaidWithinCap == \A d \in Days : paid[d] <= highest

=============================================================================
