------------------------------ MODULE PlanGrant ------------------------------
(***************************************************************************)
(* What the plan machinery promises about running one plan, with no files, *)
(* locks or tickets: a human permit is asked for, granted, and spent by    *)
(* exactly one worker, which moves the resume point forward one            *)
(* sub-objective at a time and must ask again before anybody continues.    *)
(***************************************************************************)
EXTENDS Naturals

CONSTANTS Workers,    \* the processes that may run the plan
          NoWorker,   \* nobody is running it
          MaxSteps    \* the most sub-objectives a plan may have

VARIABLES permit,     \* "asked", "granted" or "none"
          worker,     \* who is running the plan, or NoWorker
          done        \* sub-objectives completed so far: the resume point

gvars == <<permit, worker, done>>

GrantInit == permit = "asked" /\ worker = NoWorker /\ done = 0

\* A human says yes.
Grant == permit = "asked" /\ permit' = "granted" /\ UNCHANGED <<worker, done>>

\* A human says no, or the yes is lost before anybody acted on it.
Withdraw ==
  /\ permit \in {"asked", "granted"}
  /\ permit' = "none"
  /\ UNCHANGED <<worker, done>>

\* One worker spends the permit.
Start(w) ==
  /\ permit = "granted" /\ worker = NoWorker
  /\ permit' = "none" /\ worker' = w
  /\ UNCHANGED done

\* The worker completes one sub-objective.
Complete ==
  /\ worker # NoWorker /\ done < MaxSteps
  /\ done' = done + 1
  /\ UNCHANGED <<permit, worker>>

\* The worker stops and asks for a new permit.
Ask ==
  /\ worker # NoWorker
  /\ permit' = "asked" /\ worker' = NoWorker
  /\ UNCHANGED done

\* The worker stops for good: finished, aborted, cancelled or crashed.
Stop == worker # NoWorker /\ worker' = NoWorker /\ UNCHANGED <<permit, done>>

GrantNext ==
  \/ Grant \/ Withdraw
  \/ \E w \in Workers : Start(w)
  \/ Complete \/ Ask \/ Stop

GrantSpec == GrantInit /\ [][GrantNext]_gvars
==============================================================================
