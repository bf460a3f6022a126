------------------------ MODULE CronDispatch_proofs ------------------------
(* Proofs about CronDispatch, for any jobs, sweepers and schedules. *)
EXTENDS CronDispatch, TLAPS

\* Division, as the next two lemmas need it.
LEMMA Division ==
  ASSUME NEW a \in Nat
  PROVE  /\ a \div Step \in Nat
         /\ Step * (a \div Step) <= a
         /\ a < Step * ((a \div Step) + 1)
BY CronAssumption, SMT

\* A slot that was due is followed by one after `now`, on the same grid.
LEMMA AdvanceIsLater ==
  ASSUME NEW kind, NEW prev \in Nat, NEW now \in Nat, prev <= now
  PROVE  /\ AdvanceNextRun(kind, prev, now) \in Nat
         /\ AdvanceNextRun(kind, prev, now) > now
         /\ kind = "interval" =>
              \E n \in Nat : AdvanceNextRun(kind, prev, now) = prev + Step * n
<1> USE CronAssumption
<1>1. CASE kind = "interval"
  <2> DEFINE k == ((now - prev) \div Step) + 1
  <2>1. now - prev \in Nat  OBVIOUS
  <2>2. k \in Nat /\ now - prev < Step * k  BY <2>1, Division
  <2>3. AdvanceNextRun(kind, prev, now) = prev + Step * k  BY <1>1 DEF AdvanceNextRun
  <2> HIDE DEF k
  <2>4. Step * k \in Nat  BY <2>2
  <2>5. prev + Step * k \in Nat /\ prev + Step * k > now  BY <2>2, <2>4
  <2> QED BY <2>2, <2>3, <2>5
<1>2. CASE kind = "calendar"
  <2> DEFINE k == (now \div Step) + 1
  <2>2. k \in Nat /\ now < Step * k  BY Division
  <2>3. AdvanceNextRun(kind, prev, now) = Step * k
    BY <1>2 DEF AdvanceNextRun, ComputeNextRun
  <2> HIDE DEF k
  <2>4. Step * k \in Nat  BY <2>2
  <2> QED BY <1>2, <2>2, <2>3, <2>4
<1>3. CASE kind \notin {"interval", "calendar"}
  BY <1>3 DEF AdvanceNextRun, ComputeNextRun
<1> QED BY <1>1, <1>2, <1>3

\* What compute_next_run gives is later than `after`.
LEMMA ComputeIsLater ==
  ASSUME NEW kind, NEW after \in Nat
  PROVE  ComputeNextRun(kind, after) \in Nat /\ ComputeNextRun(kind, after) > after
<1> USE CronAssumption
<1> DEFINE k == (after \div Step) + 1
<1>1. k \in Nat /\ after < Step * k  BY Division
<1>2. kind = "calendar" => ComputeNextRun(kind, after) = Step * k  BY DEF ComputeNextRun
<1> HIDE DEF k
<1>3. Step * k \in Nat  BY <1>1
<1> QED BY <1>1, <1>2, <1>3 DEF ComputeNextRun

-----------------------------------------------------------------------------
(* The inductive invariant. *)

\* What a sweeper holds it holds under the lock: one job at a time is between
\* its fire and its advance, and the jobs still to do are in the file as they
\* were read, enabled and due.
LockInv ==
  \A s \in Sweepers :
    /\ seen[s] <= clock
    /\ pc[s] \notin {"sweep", "advance"} => batch[s] = {} /\ cur[s] = {}
    /\ pc[s] = "sweep" => cur[s] = {}
    /\ \A i, j \in cur[s] : i = j
    /\ batch[s] \cap cur[s] = {}
    /\ \A j \in batch[s] \cup cur[s] :
         snap[s][j] = job[j] /\ job[j].listed /\ job[j].enabled /\ job[j].next <= seen[s]

InHand(j) == \E s \in Sweepers : j \in cur[s]

\* The runs the file counts, the fires and the advances that were lost.
CountInv ==
  \A j \in Jobs :
    /\ origin[j] = 0 => fires[j] = 0 /\ last[j] = 0 /\ ~job[j].listed
    /\ ~job[j].listed => job[j].count = 0
    /\ job[j].listed => fires[j] <= job[j].runs + torn[j] + (IF InHand(j) THEN 1 ELSE 0)
    /\ job[j].count > 0 => job[j].runs <= job[j].count
    /\ InHand(j) /\ job[j].count > 0 => job[j].runs < job[j].count

\* Where the next slot lies: after the last fire, on the grid, before the end.
SlotInv ==
  \A j \in Jobs :
    /\ last[j] <= clock
    /\ job[j].listed /\ job[j].kind = "interval" =>
         \E n \in Nat : job[j].next = origin[j] + Step * n
    /\ job[j].listed /\ job[j].enabled /\ ~excused[j] /\ ~InHand(j) => job[j].next > last[j]
    /\ job[j].listed /\ job[j].until > 0 =>
         job[j].next <= job[j].until \/ job[j].next = origin[j]
    /\ \A s \in Sweepers : j \in cur[s] => last[j] <= seen[s] \/ excused[j]

IInv == TypeOK /\ LockInv /\ CountInv /\ SlotInv

\* Nobody but the process that holds the lock has a job to do.
LEMMA Alone ==
  ASSUME IInv
  PROVE  /\ Free => \A s \in Sweepers : batch[s] = {} /\ cur[s] = {}
         /\ \A s \in Sweepers : pc[s] \in {"sweep", "advance"} =>
              \A r \in Sweepers : r # s => batch[r] = {} /\ cur[r] = {}
BY DEF IInv, TypeOK, LockInv, Free

\* While the lock is free, an operation on one job only has to keep what the
\* invariant says of that job.
LEMMA OneJobChanges ==
  ASSUME IInv, Free, NEW j \in Jobs, NEW r \in JobType,
         job' = [job EXCEPT ![j] = r],
         origin' \in [Jobs -> Nat], excused' \in [Jobs -> BOOLEAN],
         \A i \in Jobs \ {j} : origin'[i] = origin[i] /\ excused'[i] = excused[i],
         UNCHANGED <<clock, locals, fires, torn, last>>,
         /\ origin'[j] = 0 => origin[j] = 0 /\ ~r.listed
         /\ ~r.listed => r.count = 0
         /\ r.listed => fires[j] <= r.runs + torn[j]
         /\ r.count > 0 => r.runs <= r.count
         /\ r.listed /\ r.kind = "interval" =>
              \E n \in Nat : r.next = origin'[j] + Step * n
         /\ r.listed /\ r.enabled /\ ~excused'[j] => r.next > last[j]
         /\ r.listed /\ r.until > 0 => r.next <= r.until \/ r.next = origin'[j]
  PROVE  IInv'
<1> USE DEF IInv
<1>0. \A s \in Sweepers : batch[s] = {} /\ cur[s] = {}  BY Alone
<1>1. TypeOK'
  <2>1. job' \in [Jobs -> JobType]  BY DEF TypeOK
  <2> QED BY <2>1 DEF TypeOK, locals
<1>2. LockInv'  BY <1>0 DEF LockInv, locals
<1>3. ~InHand(j) /\ \A i \in Jobs : ~InHand(i)'
  BY <1>0 DEF InHand, locals
<1>4. CountInv'
  <2> SUFFICES ASSUME NEW i \in Jobs
      PROVE  /\ origin'[i] = 0 => fires'[i] = 0 /\ last'[i] = 0 /\ ~job'[i].listed
             /\ ~job'[i].listed => job'[i].count = 0
             /\ job'[i].listed => fires'[i] <= job'[i].runs + torn'[i]
             /\ job'[i].count > 0 => job'[i].runs <= job'[i].count
    BY <1>1, <1>3 DEF CountInv, TypeOK, JobType
  <2>1. i # j => job'[i] = job[i] /\ origin'[i] = origin[i]  BY DEF TypeOK
  <2>2. i = j => job'[i] = r /\ (origin'[i] = 0 => origin[i] = 0)  BY DEF TypeOK
  <2>3. ~InHand(i)  BY <1>0 DEF InHand
  <2> QED BY <2>1, <2>2, <2>3 DEF CountInv, TypeOK, JobType
<1>5. SlotInv'
  <2> SUFFICES ASSUME NEW i \in Jobs
      PROVE  /\ job'[i].listed /\ job'[i].kind = "interval" =>
                  \E n \in Nat : job'[i].next = origin'[i] + Step * n
             /\ job'[i].listed /\ job'[i].enabled /\ ~excused'[i] => job'[i].next > last[i]
             /\ job'[i].listed /\ job'[i].until > 0 =>
                  job'[i].next <= job'[i].until \/ job'[i].next = origin'[i]
    BY <1>0, <1>3 DEF SlotInv, locals
  <2>1. i # j => job'[i] = job[i] /\ origin'[i] = origin[i] /\ excused'[i] = excused[i]
    BY DEF TypeOK
  <2>2. i = j => job'[i] = r  BY DEF TypeOK
  <2>3. ~InHand(i)  BY <1>0 DEF InHand
  <2> QED BY <2>1, <2>2, <2>3 DEF SlotInv
<1> QED BY <1>1, <1>2, <1>4, <1>5

LEMMA OperatorKeeps ==
  ASSUME IInv, NEW j \in Jobs, Operator(j)
  PROVE  IInv'
<1>i. TypeOK /\ LockInv /\ CountInv /\ SlotInv  BY DEF IInv
<1> USE <1>i, CronAssumption
<1>0. /\ job[j] \in JobType /\ fires[j] \in Nat /\ torn[j] \in Nat /\ last[j] \in Nat
      /\ last[j] <= clock /\ clock \in Nat /\ origin[j] \in Nat
  BY DEF TypeOK, SlotInv
<1>1. ASSUME NEW kind \in Kinds, NEW count \in Counts, NEW until \in Untils, NEW at \in Times,
             Add(j, kind, count, until, at)
      PROVE  IInv'
  <2> DEFINE r == [NoJob EXCEPT !.listed = TRUE, !.enabled = TRUE, !.kind = kind,
                                !.next = at, !.count = count, !.until = until]
  <2>1. at \in Nat \ {0}  BY DEF Times
  <2>2. /\ r \in JobType /\ r.listed /\ r.next = at /\ r.runs = 0 /\ r.until = until
        /\ r.count = count
    BY <2>1 DEF NoJob, JobType
  <2>3. origin[j] = 0 /\ fires[j] = 0 /\ last[j] = 0  BY <1>1 DEF Add, CountInv
  <2>4. job' = [job EXCEPT ![j] = r] /\ origin'[j] = at  BY <1>1 DEF Add, TypeOK
  <2>5. at = at + Step * 0 /\ 0 \in Nat  BY <2>1
  <2>6. /\ origin' \in [Jobs -> Nat] /\ excused' \in [Jobs -> BOOLEAN]
        /\ \A i \in Jobs \ {j} : origin'[i] = origin[i] /\ excused'[i] = excused[i]
    BY <1>1, <2>1 DEF Add, TypeOK
  <2> HIDE DEF r
  <2>7. Free /\ UNCHANGED <<clock, locals, fires, torn, last>>  BY <1>1 DEF Add
  <2>8. /\ origin'[j] = 0 => origin[j] = 0 /\ ~r.listed
        /\ ~r.listed => r.count = 0
        /\ r.listed => fires[j] <= r.runs + torn[j]
        /\ r.count > 0 => r.runs <= r.count
        /\ r.listed /\ r.kind = "interval" => \E n \in Nat : r.next = origin'[j] + Step * n
        /\ r.next = origin'[j] /\ r.next > last[j]
    <3>1. count \in Nat  OBVIOUS
    <3>2. \E n \in Nat : at = at + Step * n  BY <2>5
    <3>3. at > 0 /\ fires[j] <= 0 + torn[j]  BY <1>0, <2>1, <2>3
    <3> QED BY <2>1, <2>2, <2>3, <2>4, <3>1, <3>2, <3>3
  <2> QED BY <2>2, <2>4, <2>6, <2>7, <2>8, OneJobChanges
<1>2. ASSUME NEW kind \in Kinds, Reschedule(j, kind)  PROVE IInv'
  <2> DEFINE next == ComputeNextRun(kind, clock)
             r == [job[j] EXCEPT !.kind = kind, !.next = next]
  <2>1. next \in Nat \ {0} /\ next > clock  BY <1>0, ComputeIsLater
  <2> HIDE DEF next
  <2>2. r \in JobType /\ r.listed /\ r.next = next /\ r.runs = job[j].runs /\ r.count = job[j].count
    BY <1>0, <1>2, <2>1 DEF JobType, Reschedule
  <2>3. ~InHand(j)  BY <1>2, Alone DEF InHand, Reschedule
  <2>4. job' = [job EXCEPT ![j] = r] /\ origin'[j] = next
    BY <1>2 DEF Reschedule, TypeOK, next
  <2>5. fires[j] <= r.runs + torn[j] /\ (r.count > 0 => r.runs <= r.count)
    BY <1>0, <1>2, <2>2, <2>3 DEF CountInv, JobType, Reschedule
  <2>6. next = next + Step * 0 /\ 0 \in Nat /\ next > last[j]  BY <1>0, <2>1
  <2>7. /\ origin' \in [Jobs -> Nat] /\ excused' \in [Jobs -> BOOLEAN]
        /\ \A i \in Jobs \ {j} : origin'[i] = origin[i] /\ excused'[i] = excused[i]
    BY <1>2, <2>1 DEF Reschedule, TypeOK, next
  <2> HIDE DEF r
  <2>8. Free /\ UNCHANGED <<clock, locals, fires, torn, last>>  BY <1>2 DEF Reschedule
  <2>9. /\ origin'[j] = 0 => origin[j] = 0 /\ ~r.listed
        /\ ~r.listed => r.count = 0
        /\ r.listed /\ r.kind = "interval" => \E n \in Nat : r.next = origin'[j] + Step * n
        /\ r.next = origin'[j] /\ r.next > last[j]
    BY <2>1, <2>2, <2>4, <2>6
  <2> QED BY <2>2, <2>4, <2>5, <2>7, <2>8, <2>9, OneJobChanges
<1>3. CASE Remove(j)
  <2>1. NoJob \in JobType /\ ~NoJob.listed /\ NoJob.count = 0 /\ NoJob.until = 0
    BY DEF NoJob, JobType, AllKinds
  <2>2. origin' = origin /\ excused' = excused /\ origin \in [Jobs -> Nat]
        /\ excused \in [Jobs -> BOOLEAN]
    BY <1>3 DEF Remove, ghosts, TypeOK
  <2>3. job' = [job EXCEPT ![j] = NoJob]  BY <1>3 DEF Remove
  <2>4. Free /\ UNCHANGED <<clock, locals, fires, torn, last>>  BY <1>3 DEF Remove, ghosts
  <2>5. NoJob.count > 0 => NoJob.runs <= NoJob.count  BY <2>1
  <2>6. \A i \in Jobs \ {j} : origin'[i] = origin[i] /\ excused'[i] = excused[i]  BY <2>2
  <2> QED BY <2>1, <2>2, <2>3, <2>4, <2>5, <2>6, OneJobChanges
<1>4. CASE Enable(j)
  <2> DEFINE r == [job[j] EXCEPT !.enabled = TRUE]
  <2>1. r \in JobType /\ r.listed /\ r.next = job[j].next /\ r.runs = job[j].runs
        /\ r.count = job[j].count /\ r.until = job[j].until /\ r.kind = job[j].kind
    BY <1>0, <1>4 DEF JobType, Enable
  <2>2. ~InHand(j)  BY <1>4, Alone DEF InHand, Enable
  <2>3. job' = [job EXCEPT ![j] = r] /\ excused'[j] = TRUE /\ origin' = origin
        /\ origin' \in [Jobs -> Nat] /\ excused' \in [Jobs -> BOOLEAN]
        /\ \A i \in Jobs \ {j} : excused'[i] = excused[i]
    BY <1>4 DEF Enable, TypeOK
  <2>4. fires[j] <= r.runs + torn[j] /\ (r.count > 0 => r.runs <= r.count) /\ origin[j] # 0
    BY <1>0, <1>4, <2>1, <2>2 DEF CountInv, JobType, Enable
  <2>5. /\ r.listed /\ r.kind = "interval" => \E n \in Nat : r.next = origin[j] + Step * n
        /\ r.listed /\ r.until > 0 => r.next <= r.until \/ r.next = origin[j]
    BY <1>4, <2>1 DEF SlotInv, Enable
  <2> HIDE DEF r
  <2>6. Free /\ UNCHANGED <<clock, locals, fires, torn, last>>  BY <1>4 DEF Enable
  <2>7. r.listed /\ r.enabled /\ ~excused'[j] => r.next > last[j]  BY <2>3
  <2>8. /\ origin'[j] = 0 => origin[j] = 0 /\ ~r.listed
        /\ ~r.listed => r.count = 0 BY <2>1, <2>3, <2>4
  <2> QED BY <2>1, <2>3, <2>4, <2>5, <2>6, <2>7, <2>8, OneJobChanges
<1>5. CASE Disable(j)
  <2> DEFINE r == [job[j] EXCEPT !.enabled = FALSE]
  <2>1. r \in JobType /\ r.listed /\ ~r.enabled /\ r.next = job[j].next /\ r.runs = job[j].runs
        /\ r.count = job[j].count /\ r.until = job[j].until /\ r.kind = job[j].kind
    BY <1>0, <1>5 DEF JobType, Disable
  <2>2. ~InHand(j)  BY <1>5, Alone DEF InHand, Disable
  <2>3. /\ job' = [job EXCEPT ![j] = r] /\ origin' = origin /\ excused' = excused
        /\ origin \in [Jobs -> Nat] /\ excused \in [Jobs -> BOOLEAN]
    BY <1>5 DEF Disable, ghosts, TypeOK
  <2>4. fires[j] <= r.runs + torn[j] /\ (r.count > 0 => r.runs <= r.count) /\ origin[j] # 0
    BY <1>0, <1>5, <2>1, <2>2 DEF CountInv, JobType, Disable
  <2>5. /\ r.listed /\ r.kind = "interval" => \E n \in Nat : r.next = origin[j] + Step * n
        /\ r.listed /\ r.until > 0 => r.next <= r.until \/ r.next = origin[j]
    BY <1>5, <2>1 DEF SlotInv, Disable
  <2> HIDE DEF r
  <2>6. Free /\ UNCHANGED <<clock, locals, fires, torn, last>>  BY <1>5 DEF Disable, ghosts
  <2>7. \A i \in Jobs \ {j} : origin'[i] = origin[i] /\ excused'[i] = excused[i]  BY <2>3
  <2>8. /\ origin'[j] = 0 => origin[j] = 0 /\ ~r.listed
        /\ ~r.listed => r.count = 0  BY <2>1, <2>3, <2>4
  <2> QED BY <2>1, <2>3, <2>4, <2>5, <2>6, <2>7, <2>8, OneJobChanges
<1> QED BY <1>1, <1>2, <1>3, <1>4, <1>5 DEF Operator

-----------------------------------------------------------------------------
(* Time, and the sweeps. *)

LEMMA TickKeeps ==
  ASSUME IInv, Tick
  PROVE  IInv'
<1> USE DEF IInv, Tick, locals, ghosts
<1>1. clock' = clock + 1 /\ clock \in Nat  BY DEF TypeOK
<1>2. TypeOK'  BY <1>1 DEF TypeOK
<1>3. \A s \in Sweepers : seen'[s] = seen[s] /\ seen[s] \in Nat  BY DEF TypeOK
<1>4. LockInv'  BY <1>1, <1>3 DEF LockInv
<1>5. \A j \in Jobs : InHand(j)' <=> InHand(j)  BY DEF InHand
<1>6. CountInv'  BY <1>5 DEF CountInv
<1>7. \A j \in Jobs : last[j] \in Nat  BY DEF TypeOK
<1>8. SlotInv'  BY <1>1, <1>5, <1>7 DEF SlotInv
<1> QED BY <1>2, <1>4, <1>6, <1>8

LEMMA StartKeeps ==
  ASSUME IInv, NEW s \in Sweepers, Start(s)
  PROVE  IInv'
<1> USE DEF IInv, Start, ghosts
<1>1. TypeOK'  BY DEF TypeOK
<1>2. cur[s] = {} /\ batch[s] = {}  BY DEF LockInv
<1>3. \A r \in Sweepers : r # s => seen'[r] = seen[r] /\ pc'[r] = pc[r]  BY DEF TypeOK
<1>4. seen'[s] = clock /\ pc'[s] = "wait" /\ clock \in Nat  BY DEF TypeOK
<1>5. LockInv'
  <2> SUFFICES ASSUME NEW r \in Sweepers
      PROVE  LockInv!(r)'
    BY DEF LockInv
  <2>1. CASE r = s  BY <1>2, <1>4, <2>1 DEF LockInv
  <2>2. CASE r # s  BY <1>3, <2>2 DEF LockInv
  <2> QED BY <2>1, <2>2
<1>6. \A j \in Jobs : InHand(j)' <=> InHand(j)  BY DEF InHand
<1>7. CountInv'  BY <1>6 DEF CountInv
<1>8. SlotInv'  BY <1>2, <1>3, <1>6 DEF SlotInv
<1> QED BY <1>1, <1>5, <1>7, <1>8

LEMMA AcquireKeeps ==
  ASSUME IInv, NEW s \in Sweepers, Acquire(s)
  PROVE  IInv'
<1> USE DEF IInv, Acquire, ghosts
<1>0. \A r \in Sweepers : batch[r] = {} /\ cur[r] = {} /\ pc[r] \notin {"sweep", "advance"}
  BY Alone DEF Free
<1>1. TypeOK'
  <2>1. Due(job, seen[s]) \subseteq Jobs  BY DEF Due
  <2>2. batch' \in [Sweepers -> SUBSET Jobs]  BY <2>1 DEF TypeOK
  <2>3. snap' \in [Sweepers -> [Jobs -> JobType]]  BY DEF TypeOK
  <2>4. \A r \in Sweepers : pc'[r] \in {"sweep", "advance"} => r = s  BY <1>0 DEF TypeOK
  <2> QED BY <2>2, <2>3, <2>4 DEF TypeOK
<1>2. \A r \in Sweepers : /\ r # s => batch'[r] = {} /\ pc'[r] = pc[r]
                          /\ cur'[r] = {} /\ seen'[r] = seen[r]
  BY <1>0 DEF TypeOK
<1>3. pc'[s] = "sweep" /\ snap'[s] = job /\ batch'[s] = Due(job, seen[s])  BY DEF TypeOK
<1>4. LockInv'  BY <1>0, <1>2, <1>3 DEF LockInv, Due
<1>5. \A j \in Jobs : ~InHand(j)' /\ ~InHand(j)  BY <1>0 DEF InHand
<1>6. CountInv'  BY <1>5 DEF CountInv
<1>7. SlotInv'  BY <1>0, <1>2, <1>5 DEF SlotInv
<1> QED BY <1>1, <1>4, <1>6, <1>7

LEMMA FinishKeeps ==
  ASSUME IInv, NEW s \in Sweepers, Finish(s)
  PROVE  IInv'
<1> USE DEF IInv, Finish, Leave, ghosts
<1>0. cur[s] = {} /\ batch[s] = {}  BY DEF LockInv
<1>1. TypeOK'
  <2>1. NoJobs \in [Jobs -> JobType]  BY DEF NoJobs, NoJob, JobType, AllKinds
  <2> QED BY <2>1 DEF TypeOK
<1>2. cur' = cur /\ batch' = batch  BY <1>0 DEF TypeOK
<1>3. /\ pc'[s] = "idle" /\ seen'[s] = 0
      /\ \A r \in Sweepers : r # s => pc'[r] = pc[r] /\ seen'[r] = seen[r] /\ snap'[r] = snap[r]
  BY DEF TypeOK
<1>4. LockInv'
  <2>1. 0 <= clock  BY DEF TypeOK
  <2> QED BY <1>0, <1>2, <1>3, <2>1 DEF LockInv
<1>5. \A j \in Jobs : InHand(j)' <=> InHand(j)  BY <1>2 DEF InHand
<1>6. CountInv'  BY <1>5 DEF CountInv
<1>7. SlotInv'  BY <1>0, <1>2, <1>3, <1>5 DEF SlotInv
<1> QED BY <1>1, <1>4, <1>6, <1>7

LEMMA RejectKeeps ==
  ASSUME IInv, NEW s \in Sweepers, NEW j \in Jobs, Reject(s, j)
  PROVE  IInv'
<1> USE DEF IInv, Reject, ghosts
<1>0. /\ cur[s] = {} /\ j \in batch[s] /\ pc[s] = "sweep"
      /\ \A r \in Sweepers : r # s => batch[r] = {} /\ cur[r] = {}
  BY Alone DEF LockInv
<1>1. job[j].listed /\ job[j].enabled /\ job[j] \in JobType  BY <1>0 DEF LockInv, TypeOK
<1>2. job' = [job EXCEPT ![j] = [job[j] EXCEPT !.enabled = FALSE]]  BY <1>1
<1>3. /\ job'[j] \in JobType /\ job'[j].listed = job[j].listed /\ job'[j].kind = job[j].kind
      /\ job'[j].next = job[j].next /\ job'[j].runs = job[j].runs
      /\ job'[j].count = job[j].count /\ job'[j].until = job[j].until /\ ~job'[j].enabled
  <2>1. job'[j] = [job[j] EXCEPT !.enabled = FALSE]  BY <1>2 DEF TypeOK
  <2> HIDE DEF Reject
  <2> QED BY <1>1, <2>1 DEF JobType
<1>4. \A i \in Jobs : i # j => job'[i] = job[i]  BY <1>2 DEF TypeOK
<1>5. TypeOK'
  <2>1. job' \in [Jobs -> JobType]  BY <1>2, <1>3 DEF TypeOK
  <2> QED BY <2>1 DEF TypeOK
<1>6. batch'[s] = batch[s] \ {j} /\ \A r \in Sweepers : r # s => batch'[r] = {}
  BY <1>0 DEF TypeOK
<1>7. LockInv'
  <2> SUFFICES ASSUME NEW r \in Sweepers
      PROVE  LockInv!(r)'
    BY DEF LockInv
  <2>1. CASE r = s
    <3>1. \A i \in batch'[s] : i \in Jobs /\ i \in batch[s] /\ job'[i] = job[i]
      BY <1>4, <1>6 DEF TypeOK
    <3> QED BY <1>0, <1>6, <2>1, <3>1 DEF LockInv
  <2>2. CASE r # s  BY <1>0, <1>6, <2>2 DEF LockInv
  <2> QED BY <2>1, <2>2
<1>8. \A i \in Jobs : InHand(i)' <=> InHand(i)  BY DEF InHand
<1>9. CountInv'  BY <1>3, <1>4, <1>8 DEF CountInv
<1>10. SlotInv'
  <2>1. \A i \in Jobs : SlotInv!(i)  BY DEF SlotInv
  <2>2. SlotInv!(j)'  BY <1>3, <1>8, <2>1
  <2>3. \A i \in Jobs : i # j => SlotInv!(i)'  BY <1>4, <1>8, <2>1
  <2> QED BY <2>2, <2>3 DEF SlotInv
<1> QED BY <1>5, <1>7, <1>9, <1>10

LEMMA FireKeeps ==
  ASSUME IInv, NEW s \in Sweepers, NEW j \in Jobs, NEW ok \in BOOLEAN, Fire(s, j, ok)
  PROVE  IInv'
<1> USE DEF IInv, Fire
<1>0. /\ cur[s] = {} /\ j \in batch[s] /\ pc[s] = "sweep"
      /\ \A r \in Sweepers : r # s => batch[r] = {} /\ cur[r] = {}
      /\ \A i \in Jobs : ~InHand(i)
  BY Alone DEF LockInv, InHand
<1>1. snap[s][j] = job[j] /\ job[j].listed /\ job[j].enabled /\ job[j].next <= seen[s]
      /\ job[j] \in JobType /\ ~Exhausted(job[j])
  BY <1>0 DEF LockInv, TypeOK
<1>2. TypeOK'
  <2>1. /\ fires' \in [Jobs -> Nat] /\ last' \in [Jobs -> Nat]
        /\ excused' \in [Jobs -> BOOLEAN]
    <3>1. CASE ok
      <4>1. /\ fires' = [fires EXCEPT ![j] = fires[j] + 1]
            /\ last' = [last EXCEPT ![j] = seen[s]]
            /\ excused' = [excused EXCEPT ![j] = FALSE]
        BY <3>1
      <4>2. fires[j] \in Nat /\ seen[s] \in Nat  BY DEF TypeOK
      <4>3. /\ fires \in [Jobs -> Nat] /\ last \in [Jobs -> Nat]
            /\ excused \in [Jobs -> BOOLEAN]
        BY DEF TypeOK
      <4> HIDE DEF Fire
      <4> QED BY <4>1, <4>2, <4>3
    <3>2. CASE ~ok  BY <3>2 DEF TypeOK
    <3> QED BY <3>1, <3>2
  <2>2. /\ pc' \in [Sweepers -> {"idle", "wait", "sweep", "advance"}]
        /\ cur' \in [Sweepers -> SUBSET Jobs] /\ batch' \in [Sweepers -> SUBSET Jobs]
    BY DEF TypeOK
  <2>3. \A r, q \in Sweepers : {pc'[r], pc'[q]} \subseteq {"sweep", "advance"} => r = q
    BY <1>0 DEF TypeOK
  <2> QED BY <2>1, <2>2, <2>3 DEF TypeOK
<1>3. /\ pc'[s] = "advance" /\ cur'[s] = {j} /\ batch'[s] = batch[s] \ {j}
      /\ \A r \in Sweepers : r # s => pc'[r] = pc[r] /\ cur'[r] = {} /\ batch'[r] = {}
  BY <1>0 DEF TypeOK
<1>4. LockInv'
  <2> SUFFICES ASSUME NEW r \in Sweepers
      PROVE  LockInv!(r)'
    BY DEF LockInv
  <2>1. CASE r = s  BY <1>0, <1>1, <1>3, <2>1 DEF LockInv
  <2>2. CASE r # s  BY <1>0, <1>3, <2>2 DEF LockInv
  <2> QED BY <2>1, <2>2
<1>5. \A i \in Jobs : InHand(i)' <=> i = j  BY <1>3 DEF InHand
<1>6. /\ fires[j] \in Nat /\ torn[j] \in Nat /\ last[j] \in Nat /\ seen[s] \in Nat
      /\ clock \in Nat /\ fires'[j] <= fires[j] + 1 /\ fires'[j] \in Nat
      /\ \A i \in Jobs : i # j => fires'[i] = fires[i] /\ last'[i] = last[i]
                                  /\ excused'[i] = excused[i]
  <2>1. CASE ok  BY <2>1 DEF TypeOK
  <2>2. CASE ~ok  BY <2>2 DEF TypeOK
  <2> QED BY <2>1, <2>2
<1>7. CountInv'
  <2> SUFFICES ASSUME NEW i \in Jobs
      PROVE  CountInv!(i)'
    BY DEF CountInv
  <2>0. CountInv!(i)  BY DEF CountInv
  <2>1. CASE i = j
    <3>1. origin[j] # 0 /\ fires[j] <= job[j].runs + torn[j] /\ job[j].runs \in Nat
      <4>1. job[j].runs \in Nat  BY <1>1 DEF JobType
      <4>2. origin[j] # 0  BY <1>1, <2>0, <2>1
      <4>3. fires[j] <= job[j].runs + torn[j] + 0  BY <1>0, <1>1, <2>0, <2>1
      <4> QED BY <1>6, <4>1, <4>2, <4>3
    <3>2. job[j].count > 0 => job[j].runs < job[j].count
      BY <1>1 DEF Exhausted, JobType
    <3> QED BY <1>1, <1>5, <1>6, <2>0, <2>1, <3>1, <3>2
  <2>2. CASE i # j  BY <1>0, <1>5, <1>6, <2>0, <2>2
  <2> QED BY <2>1, <2>2
<1>8. SlotInv'
  <2> SUFFICES ASSUME NEW i \in Jobs
      PROVE  SlotInv!(i)'
    BY DEF SlotInv
  <2>0. SlotInv!(i)  BY DEF SlotInv
  <2>1. CASE i = j
    <3>1. \/ last'[j] = seen[s]
          \/ last'[j] = last[j] /\ excused'[j] = excused[j]
      BY DEF TypeOK
    <3>2. last[j] <= seen[s] \/ excused[j]
      BY <1>0, <1>1, <1>6, <2>0, <2>1 DEF JobType
    <3>3. seen[s] <= clock  BY DEF LockInv
    <3>4. \A r \in Sweepers : j \in cur'[r] => r = s  BY <1>3
    <3> QED BY <1>5, <1>6, <2>0, <2>1, <3>1, <3>2, <3>3, <3>4
  <2>2. CASE i # j
    <3>1. \A r \in Sweepers : i \notin cur'[r]  BY <1>3, <2>2
    <3> QED BY <1>0, <1>5, <1>6, <2>0, <2>2, <3>1
  <2> QED BY <2>1, <2>2
<1> QED BY <1>2, <1>4, <1>7, <1>8

LEMMA AdvanceKeeps ==
  ASSUME IInv, NEW s \in Sweepers, NEW j \in Jobs, NEW parses \in BOOLEAN,
         Advance(s, j, parses)
  PROVE  IInv'
<1> DEFINE r == job[j]
           next == AdvanceNextRun(r.kind, r.next, seen[s])
           to == Advanced(r, seen[s], parses)
<1> USE DEF IInv
<1>0. /\ cur[s] = {j} /\ j \notin batch[s] /\ pc[s] = "advance" /\ InHand(j)
      /\ \A q \in Sweepers : q # s => batch[q] = {} /\ cur[q] = {}
      /\ \A i \in Jobs : i # j => ~InHand(i)
  <2>1. j \in cur[s] /\ pc[s] = "advance"  BY DEF Advance
  <2>2. cur[s] = {j} /\ batch[s] \cap cur[s] = {}  BY <2>1 DEF LockInv, TypeOK
  <2> QED BY <2>1, <2>2, Alone DEF InHand
<1>1. snap[s][j] = r /\ r.listed /\ r.enabled /\ r.next <= seen[s] /\ r \in JobType
  BY <1>0 DEF LockInv, TypeOK
<1>2. /\ r.next \in Nat /\ r.runs \in Nat /\ r.count \in Nat /\ r.until \in Nat
      /\ seen[s] \in Nat /\ clock \in Nat /\ seen[s] <= clock
  BY <1>1 DEF TypeOK, JobType, LockInv
<1>3. /\ next \in Nat /\ next > seen[s]
      /\ r.kind = "interval" => \E n \in Nat : next = r.next + Step * n
  BY <1>1, <1>2, AdvanceIsLater
<1>4. /\ to.enabled \in BOOLEAN /\ to.next \in Nat
      /\ ~to.enabled => to.next = r.next
      /\ to.enabled => to.next = next /\ (r.until > 0 => next <= r.until)
  <2> DEFINE over == \/ ~parses \/ r.kind = "once"
                     \/ r.count > 0 /\ r.runs + 1 >= r.count
                     \/ r.until > 0 /\ next > r.until
  <2>1. r.enabled = TRUE /\ r.enabled \in BOOLEAN  BY <1>1 DEF JobType
  <2>2. to = IF over THEN [enabled |-> FALSE, next |-> r.next]
                     ELSE [enabled |-> r.enabled, next |-> next]
    BY DEF Advanced
  <2> HIDE DEF next, to, r
  <2>3. CASE over
    <3>1. to = [enabled |-> FALSE, next |-> r.next]  BY <2>2, <2>3
    <3> QED BY <1>2, <3>1
  <2>4. CASE ~over
    <3>1. to = [enabled |-> r.enabled, next |-> next]  BY <2>2, <2>4
    <3>2. r.until > 0 => next <= r.until  BY <1>2, <1>3, <2>4
    <3> QED BY <1>3, <2>1, <3>1, <3>2
  <2> QED BY <2>3, <2>4
<1> HIDE DEF next, to
<1>5. /\ job' = [job EXCEPT ![j] = [r EXCEPT !.runs = r.runs + 1, !.next = to.next,
                                            !.enabled = @ /\ to.enabled]]
      /\ pc' = [pc EXCEPT ![s] = "sweep"] /\ cur' = [cur EXCEPT ![s] = {}]
      /\ UNCHANGED <<clock, seen, snap, batch, ghosts>>
  BY <1>1 DEF Advance, to
<1>6. /\ job'[j] \in JobType /\ job'[j].listed /\ job'[j].kind = r.kind
      /\ job'[j].next = to.next /\ job'[j].runs = r.runs + 1
      /\ job'[j].count = r.count /\ job'[j].until = r.until
      /\ job'[j].enabled = to.enabled
  <2>1. job'[j] = [r EXCEPT !.runs = r.runs + 1, !.next = to.next, !.enabled = to.enabled]
    <3>1. (r.enabled /\ to.enabled) = to.enabled  BY <1>1, <1>4
    <3> QED BY <1>1, <1>4, <1>5, <3>1 DEF TypeOK, JobType
  <2>2. r.runs + 1 \in Nat  BY <1>2
  <2> HIDE DEF r
  <2> QED BY <1>1, <1>4, <2>1, <2>2 DEF JobType
<1>7. \A i \in Jobs : i # j => job'[i] = job[i]  BY <1>5 DEF TypeOK
<1>8. TypeOK'
  <2>1. job' \in [Jobs -> JobType]  BY <1>5, <1>6, <1>7 DEF TypeOK
  <2>2. \A p, q \in Sweepers : {pc'[p], pc'[q]} \subseteq {"sweep", "advance"} => p = q
    BY <1>0, <1>5 DEF TypeOK
  <2> QED BY <1>5, <2>1, <2>2 DEF TypeOK, ghosts
<1>9. \A q \in Sweepers : cur'[q] = {}  BY <1>0, <1>5 DEF TypeOK
<1>10. LockInv'
  <2> SUFFICES ASSUME NEW q \in Sweepers
      PROVE  LockInv!(q)'
    BY DEF LockInv
  <2>1. CASE q = s
    <3>1. \A i \in batch[s] : i \in Jobs /\ job'[i] = job[i]  BY <1>0, <1>7 DEF TypeOK
    <3>2. pc'[s] = "sweep"  BY <1>5 DEF TypeOK
    <3> QED BY ZenonT(60), <1>5, <1>9, <2>1, <3>1, <3>2 DEF LockInv
  <2>2. CASE q # s
    <3>1. pc'[q] = pc[q]  BY <1>5, <2>2 DEF TypeOK
    <3> QED BY <1>0, <1>5, <1>9, <2>2, <3>1 DEF LockInv
  <2> QED BY <2>1, <2>2
<1>11. \A i \in Jobs : ~InHand(i)'  BY <1>9 DEF InHand
<1>12. /\ fires' = fires /\ torn' = torn /\ last' = last /\ excused' = excused
       /\ origin' = origin /\ fires[j] \in Nat /\ torn[j] \in Nat /\ last[j] \in Nat
  BY <1>5 DEF ghosts, TypeOK
<1>13. CountInv'
  <2> SUFFICES ASSUME NEW i \in Jobs
      PROVE  CountInv!(i)'
    BY DEF CountInv
  <2>0. CountInv!(i)  BY DEF CountInv
  <2>1. CASE i = j
    <3>1. fires[j] <= r.runs + torn[j] + 1  BY <1>0, <1>1, <2>0, <2>1
    <3>2. r.count > 0 => r.runs < r.count  BY <1>0, <2>0, <2>1
    <3>3. fires[j] <= (r.runs + 1) + torn[j]  BY <1>2, <1>12, <3>1
    <3>4. r.count > 0 => r.runs + 1 <= r.count  BY <1>2, <3>2
    <3>5. origin[j] # 0  BY <1>1, <2>0, <2>1
    <3>6. fires'[j] <= job'[j].runs + torn'[j] + 0  BY <1>2, <1>6, <1>12, <3>3
    <3> QED BY <1>6, <1>11, <1>12, <2>1, <3>4, <3>5, <3>6
  <2>2. CASE i # j
    <3>1. ~InHand(i) /\ job'[i] = job[i]  BY <1>0, <1>7, <2>2
    <3> QED BY <1>11, <1>12, <2>0, <3>1
  <2> QED BY <2>1, <2>2
<1>14. SlotInv'
  <2> SUFFICES ASSUME NEW i \in Jobs
      PROVE  SlotInv!(i)'
    BY DEF SlotInv
  <2>0. SlotInv!(i)  BY DEF SlotInv
  <2>1. CASE i = j
    <3>1. last[j] <= seen[s] \/ excused[j]  BY <1>0, <2>0, <2>1
    <3>2. to.enabled /\ ~excused[j] => to.next > last[j]
      BY <1>2, <1>3, <1>4, <1>12, <3>1
    <3>3. r.kind = "interval" => \E n \in Nat : to.next = origin[j] + Step * n
      <4>1. SUFFICES ASSUME r.kind = "interval"
            PROVE  \E n \in Nat : to.next = origin[j] + Step * n
        OBVIOUS
      <4>2. PICK n \in Nat : r.next = origin[j] + Step * n  BY <1>1, <2>0, <2>1, <4>1
      <4>3. PICK m \in Nat : next = r.next + Step * m  BY <1>3, <4>1
      <4>4. next = origin[j] + Step * (n + m)
        <5>1. origin[j] \in Nat /\ Step \in Nat  BY CronAssumption DEF TypeOK
        <5> HIDE DEF r
        <5> QED BY <4>2, <4>3, <5>1
      <4>5. n + m \in Nat  OBVIOUS
      <4> QED BY <1>4, <4>2, <4>4, <4>5
    <3>4. r.until > 0 => to.next <= r.until \/ to.next = origin[j]
      BY <1>1, <1>4, <2>0, <2>1
    <3>5. last[j] <= clock  BY <2>0, <2>1
    <3> QED BY <1>5, <1>6, <1>9, <1>12, <2>1, <3>2, <3>3, <3>4, <3>5
  <2>2. CASE i # j
    <3>1. ~InHand(i) /\ job'[i] = job[i]  BY <1>0, <1>7, <2>2
    <3> QED BY <1>5, <1>9, <1>11, <1>12, <2>0, <3>1
  <2> QED BY <2>1, <2>2
<1> QED BY <1>8, <1>10, <1>13, <1>14

LEMMA CrashKeeps ==
  ASSUME IInv, NEW s \in Sweepers, Crash(s)
  PROVE  IInv'
<1> USE DEF IInv, Crash, Leave
<1>0. \A q \in Sweepers : q # s => (pc[s] \in {"sweep", "advance"} => cur[q] = {})
  BY Alone
<1>1. TypeOK'
  <2>1. NoJobs \in [Jobs -> JobType]  BY DEF NoJobs, NoJob, JobType, AllKinds
  <2>2. torn' \in [Jobs -> Nat] /\ excused' \in [Jobs -> BOOLEAN]  BY DEF TypeOK
  <2>3. /\ pc' \in [Sweepers -> {"idle", "wait", "sweep", "advance"}]
        /\ snap' \in [Sweepers -> [Jobs -> JobType]] /\ seen' \in [Sweepers -> Nat]
        /\ cur' \in [Sweepers -> SUBSET Jobs] /\ batch' \in [Sweepers -> SUBSET Jobs]
    BY <2>1 DEF TypeOK
  <2>4. \A p, q \in Sweepers : {pc'[p], pc'[q]} \subseteq {"sweep", "advance"} => p = q
    BY DEF TypeOK
  <2> QED BY <2>2, <2>3, <2>4 DEF TypeOK
<1>2. /\ pc'[s] = "idle" /\ seen'[s] = 0 /\ batch'[s] = {} /\ cur'[s] = {}
      /\ \A q \in Sweepers : q # s => /\ pc'[q] = pc[q] /\ seen'[q] = seen[q]
           /\ snap'[q] = snap[q] /\ batch'[q] = batch[q] /\ cur'[q] = cur[q]
  BY DEF TypeOK
<1>3. LockInv'
  <2>1. 0 <= clock  BY DEF TypeOK
  <2> SUFFICES ASSUME NEW q \in Sweepers
      PROVE  LockInv!(q)'
    BY DEF LockInv
  <2>2. CASE q = s  BY <1>2, <2>1, <2>2
  <2>3. CASE q # s  BY <1>2, <2>3 DEF LockInv
  <2> QED BY <2>2, <2>3
<1>4. \A i \in cur[s] : InHand(i) /\ ~InHand(i)'
  BY <1>0, <1>2 DEF InHand, LockInv
<1>5. \A i \in Jobs : i \notin cur[s] => (InHand(i)' <=> InHand(i))
  BY <1>2 DEF InHand
<1>6. \A i \in Jobs : /\ torn'[i] = IF i \in cur[s] THEN torn[i] + 1 ELSE torn[i]
                      /\ excused'[i] = (i \in cur[s] \/ excused[i])
  BY DEF TypeOK
<1>7. CountInv'
  <2> SUFFICES ASSUME NEW i \in Jobs
      PROVE  CountInv!(i)'
    BY DEF CountInv
  <2>0. CountInv!(i) /\ fires[i] \in Nat /\ torn[i] \in Nat /\ job[i].runs \in Nat
    BY DEF CountInv, TypeOK, JobType
  <2>1. CASE i \in cur[s]
    <3>1. job[i].listed => fires[i] <= job[i].runs + torn[i] + 1  BY <1>4, <2>0, <2>1
    <3>2. torn'[i] = torn[i] + 1 /\ ~InHand(i)'  BY <1>4, <1>6, <2>1
    <3>3. job[i].listed => fires[i] <= job[i].runs + torn'[i] + 0  BY <2>0, <3>1, <3>2
    <3> QED BY <2>0, <3>2, <3>3
  <2>2. CASE i \notin cur[s]  BY <1>5, <1>6, <2>0, <2>2
  <2> QED BY <2>1, <2>2
<1>8. SlotInv'
  <2> SUFFICES ASSUME NEW i \in Jobs
      PROVE  SlotInv!(i)'
    BY DEF SlotInv
  <2>0. SlotInv!(i)  BY DEF SlotInv
  <2>1. CASE i \in cur[s]
    <3>1. excused'[i]  BY <1>6, <2>1
    <3> QED BY <2>0, <3>1
  <2>2. CASE i \notin cur[s]
    <3>1. /\ excused[i] \in BOOLEAN /\ excused'[i] <=> excused[i]
          /\ InHand(i)' <=> InHand(i)
      BY <1>5, <1>6, <2>2 DEF TypeOK
    <3> QED BY <1>2, <2>0, <3>1
  <2> QED BY <2>1, <2>2
<1> QED BY <1>1, <1>3, <1>7, <1>8

-----------------------------------------------------------------------------
(* Results. *)

LEMMA InitInv == Init => IInv
<1> SUFFICES ASSUME Init PROVE IInv  OBVIOUS
<1> USE DEF Init
<1>1. NoJob \in JobType /\ ~NoJob.listed /\ NoJob.count = 0
  BY DEF NoJob, JobType, AllKinds
<1>2. TypeOK  BY <1>1 DEF TypeOK, NoJobs
<1>3. LockInv  BY DEF LockInv
<1>4. \A j \in Jobs : ~InHand(j) /\ job[j] = NoJob  BY DEF InHand, NoJobs
<1>5. CountInv  BY <1>1, <1>4 DEF CountInv
<1>6. SlotInv  BY <1>1, <1>4 DEF SlotInv
<1> QED BY <1>2, <1>3, <1>5, <1>6 DEF IInv

LEMMA NextInv == IInv /\ [Next]_vars => IInv'
<1> SUFFICES ASSUME IInv, [Next]_vars PROVE IInv'  OBVIOUS
<1>1. ASSUME NEW s \in Sweepers, SweeperStep(s)  PROVE IInv'
  BY <1>1, StartKeeps, FinishKeeps, RejectKeeps, FireKeeps, AdvanceKeeps DEF SweeperStep
<1>2. ASSUME NEW s \in Sweepers, Acquire(s) \/ Crash(s)  PROVE IInv'
  BY <1>2, AcquireKeeps, CrashKeeps
<1>3. ASSUME NEW j \in Jobs, Operator(j)  PROVE IInv'
  BY <1>3, OperatorKeeps
<1>4. CASE Tick  BY <1>4, TickKeeps
<1>5. CASE UNCHANGED vars
  <2> USE <1>5 DEF vars, locals, ghosts, IInv
  <2>1. TypeOK'  BY DEF TypeOK
  <2>2. LockInv'  BY DEF LockInv
  <2>3. \A j \in Jobs : InHand(j)' <=> InHand(j)  BY DEF InHand
  <2>4. CountInv'  BY <2>3 DEF CountInv
  <2>5. SlotInv'  BY <2>3 DEF SlotInv
  <2> QED BY <2>1, <2>2, <2>4, <2>5
<1> QED BY <1>1, <1>2, <1>3, <1>4, <1>5 DEF Next

LEMMA Invariant == Spec => []IInv
BY InitInv, NextInv, PTL DEF Spec

\* Every variable keeps its type, and the flock excludes: two sweepers are never
\* between reading the jobs and writing the last of them.
THEOREM CronTypes == Spec => []TypeOK
<1>1. IInv => TypeOK  BY DEF IInv
<1> QED BY <1>1, Invariant, PTL

\* The count of a job bounds its fires, but for the advances lost in a crash.
THEOREM CronCount == Spec => []CountIsUpperLimit
<1>1. ASSUME IInv  PROVE CountIsUpperLimit
  <2> USE <1>1 DEF IInv
  <2> SUFFICES ASSUME NEW j \in Jobs, job[j].count > 0
      PROVE  fires[j] <= job[j].count + torn[j]
    BY DEF CountIsUpperLimit
  <2>1. /\ fires[j] \in Nat /\ torn[j] \in Nat
        /\ job[j].runs \in Nat /\ job[j].count \in Nat /\ job[j].listed \in BOOLEAN
    BY DEF TypeOK, JobType
  <2>2. job[j].listed  BY <2>1 DEF CountInv
  <2>3. CASE InHand(j)
    <3>1. fires[j] <= job[j].runs + torn[j] + 1  BY <2>2, <2>3 DEF CountInv
    <3>2. job[j].runs < job[j].count  BY <2>3 DEF CountInv
    <3> QED BY <2>1, <3>1, <3>2
  <2>4. CASE ~InHand(j)
    <3>1. fires[j] <= job[j].runs + torn[j] + 0  BY <2>2, <2>4 DEF CountInv
    <3>2. job[j].runs <= job[j].count  BY DEF CountInv
    <3> QED BY <2>1, <3>1, <3>2
  <2> QED BY <2>3, <2>4
<1> QED BY <1>1, Invariant, PTL

\* An interval job never drifts from its grid.
THEOREM CronGrid == Spec => []OnTheGrid
<1>1. ASSUME IInv  PROVE OnTheGrid
  <2> USE <1>1, CronAssumption DEF IInv
  <2> SUFFICES ASSUME NEW j \in Jobs, job[j].listed, job[j].kind = "interval"
      PROVE  \E n \in 0..job[j].next : job[j].next = origin[j] + Step * n
    BY DEF OnTheGrid
  <2>1. PICK n \in Nat : job[j].next = origin[j] + Step * n  BY DEF SlotInv
  <2>2. origin[j] \in Nat /\ job[j].next \in Nat  BY DEF TypeOK, JobType
  <2>3. n <= Step * n  OBVIOUS
  <2>4. n \in 0..job[j].next  BY <2>1, <2>2, <2>3
  <2> QED BY <2>1, <2>4
<1> QED BY <1>1, Invariant, PTL

\* No fire is uncalled for: not of a disabled job, not twice of a slot, not of a
\* backlog, not past the end date, but for the exceptions the property names.
THEOREM CronFires == Spec => FireIsCalledFor
<1> DEFINE Called ==
      \A j \in Jobs : fires'[j] # fires[j] =>
       /\ job[j].listed /\ job[j].enabled
       /\ job[j].next > last[j] \/ excused[j]
       /\ job[j].until > 0 => job[j].next <= job[j].until \/ job[j].next = origin[j]
<1>1. ASSUME IInv, [Next]_vars  PROVE [Called]_fires
  <2> USE <1>1 DEF IInv
  <2>1. ASSUME NEW s \in Sweepers, NEW j \in Jobs, NEW ok \in BOOLEAN, Fire(s, j, ok)
        PROVE  Called
    <3>1. \A i \in Jobs : i # j => fires'[i] = fires[i]  BY <2>1 DEF Fire, TypeOK
    <3>2. pc[s] = "sweep" /\ j \in batch[s]  BY <2>1 DEF Fire
    <3>3. job[j].listed /\ job[j].enabled  BY <3>2 DEF LockInv
    <3>4. ~InHand(j)  BY <3>2, Alone DEF InHand, LockInv
    <3> QED BY <3>1, <3>3, <3>4 DEF SlotInv
  <2>2. ASSUME NEW s \in Sweepers, SweeperStep(s)  PROVE [Called]_fires
    BY <2>1, <2>2 DEF SweeperStep, Start, Finish, Reject, Advance, Leave, ghosts
  <2>3. ASSUME NEW s \in Sweepers, Acquire(s) \/ Crash(s)  PROVE fires' = fires
    BY <2>3 DEF Acquire, Crash, ghosts
  <2>4. ASSUME NEW j \in Jobs, Operator(j)  PROVE fires' = fires
    BY <2>4 DEF Operator, Add, Reschedule, Remove, Enable, Disable, ghosts
  <2>5. CASE Tick  BY <2>5 DEF Tick, ghosts
  <2>6. CASE UNCHANGED vars  BY <2>6 DEF vars, ghosts
  <2> QED BY <2>2, <2>3, <2>4, <2>5, <2>6 DEF Next
<1>2. Spec => [][Called]_fires
  BY <1>1, Invariant, PTL DEF Spec
<1> QED BY <1>2 DEF FireIsCalledFor

=============================================================================
