--------------------------- MODULE SpendAuthority ---------------------------
(***************************************************************************)
(* What the spend authority promises to the callers of paid tools, with no *)
(* lock, no clock and no cache: whether a charge is within the caps and    *)
(* that it is on record are decided in one step, and only what is on       *)
(* record is called, once or, when it is asked for again, again.           *)
(***************************************************************************)
EXTENDS Naturals, Sequences, FiniteSets

CONSTANTS Callers,          \* who asks
          Charges,          \* what may be charged: records of day, task, key and lane
          Limits,           \* the daily caps an operator may declare
          TaskCap, QCCap,   \* the caps per task and day, by lane
          Legacy            \* what an earlier version has spent on the first day

VARIABLES charges,   \* the charges on record, in order
          limit,     \* the highest daily cap declared so far
          permits    \* per caller: the call it may make now, if any

avars == <<charges, limit, permits>>

AuthorityInit ==
  /\ charges = <<>> /\ limit \in Limits \cup {0}
  /\ permits = [a \in Callers |-> {}]

Paid(day) == {i \in DOMAIN charges : charges[i].day = day}
PaidFor(day, task) == {i \in Paid(day) : charges[i].task = task}
Spent(day) == Cardinality(Paid(day)) + IF day = 0 THEN Legacy ELSE 0

\* Within the day's cap and the task's, new on its day, and not back in time.
Admitted(c) ==
  /\ \A i \in DOMAIN charges : charges[i].day <= c.day
  /\ \A i \in PaidFor(c.day, c.task) : charges[i].key # c.key
  /\ \/ c.lane = "converse"
     \/ Cardinality(PaidFor(c.day, c.task)) < IF c.lane = "qc" THEN QCCap ELSE TaskCap
  /\ Spent(c.day) < limit

Call(c) == <<c.task, c.key>>

\* A caller that has no permit gets one.
Gets(a) == permits[a] = {} /\ permits'[a] # {}

\* A caller is charged, and may make the call.
Charge(a) ==
  /\ Gets(a)
  /\ \E c \in Charges :
       /\ charges' = Append(charges, c) /\ Admitted(c)
       /\ permits' = [permits EXCEPT ![a] = {Call(c)}]
  /\ UNCHANGED limit

\* A call that was charged is made again.
Repeat(a) ==
  /\ Gets(a)
  /\ \E i \in DOMAIN charges : permits' = [permits EXCEPT ![a] = {Call(charges[i])}]
  /\ UNCHANGED <<charges, limit>>

\* The call is made, or the caller is gone.
Use(a) ==
  /\ permits[a] # {}
  /\ permits' = [permits EXCEPT ![a] = {}]
  /\ UNCHANGED <<charges, limit>>

Declare ==
  /\ \E c \in Limits : c > limit /\ limit' = c
  /\ UNCHANGED <<charges, permits>>

AuthorityNext == Declare \/ \E a \in Callers : Charge(a) \/ Repeat(a) \/ Use(a)

AuthoritySpec == AuthorityInit /\ [][AuthorityNext]_avars
=============================================================================
