---------------------------- MODULE JobLifecycle ----------------------------
(***************************************************************************)
(* What the queue promises about a job, without tokens, leases, workers or *)
(* messages: a job goes through numbered attempts; each attempt is started *)
(* once and ends at most once, with success, with a retry if its budget    *)
(* allows another attempt, or with death; only the success of the attempt  *)
(* that is current completes the job; done and dead are final.             *)
(***************************************************************************)
EXTENDS Integers

CONSTANTS
  Jobs,
  Budgets     \* the numbers of attempts a job may be started with

VARIABLES
  phase,      \* where the job is in its life
  attempt,    \* how many attempts were started
  budget,     \* the budget the current attempt was started with
  ok          \* the attempts, current or superseded, whose work succeeded

vars == <<phase, attempt, budget, ok>>

Phase == {"absent", "waiting", "attempt", "done", "dead", "gone"}

Init ==
  /\ phase = [j \in Jobs |-> "absent"]
  /\ attempt = [j \in Jobs |-> 0]
  /\ budget = [j \in Jobs |-> 0]
  /\ ok = {}

\* The jobs of S move from one phase to another.
Move(S, from, to) ==
  /\ \A j \in S : phase[j] = from
  /\ phase' = [j \in Jobs |-> IF j \in S THEN to ELSE phase[j]]

Enqueue(S) ==
  /\ Move(S, "absent", "waiting")
  /\ UNCHANGED <<attempt, budget, ok>>

Start(S, b) ==
  /\ Move(S, "waiting", "attempt")
  /\ attempt' = [j \in Jobs |-> IF j \in S THEN attempt[j] + 1 ELSE attempt[j]]
  /\ budget' = [j \in Jobs |-> IF j \in S THEN b ELSE budget[j]]
  /\ UNCHANGED ok

\* Some attempt reports that its work succeeded, be it the current one or not.
Report(j, n) ==
  /\ n \in 1..attempt[j]
  /\ ok' = ok \cup {<<j, n>>}
  /\ UNCHANGED <<phase, attempt, budget>>

Complete(j) ==
  /\ <<j, attempt[j]>> \in ok
  /\ Move({j}, "attempt", "done")
  /\ UNCHANGED <<attempt, budget, ok>>

\* The current attempts of S fail: those of D are the last of their jobs, the
\* others have budget left.
Fail(S, D) ==
  /\ \A j \in S : phase[j] = "attempt"
  /\ \A j \in S \ D : attempt[j] < budget[j]
  /\ phase' = [j \in Jobs |-> IF j \notin S THEN phase[j]
                              ELSE IF j \in D THEN "dead" ELSE "waiting"]
  /\ UNCHANGED <<attempt, budget, ok>>

Forget(S) ==
  /\ \/ Move(S, "done", "gone")
     \/ Move(S, "dead", "gone")
  /\ UNCHANGED <<attempt, budget, ok>>

Next ==
  \/ \E S \in SUBSET Jobs :
       \/ Enqueue(S)
       \/ \E b \in Budgets : Start(S, b)
       \/ \E D \in SUBSET S : Fail(S, D)
       \/ Forget(S)
  \/ \E j \in Jobs : Complete(j) \/ \E n \in 1..attempt[j] : Report(j, n)

Spec == Init /\ [][Next]_vars

=============================================================================
