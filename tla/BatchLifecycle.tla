--------------------------- MODULE BatchLifecycle ---------------------------
(***************************************************************************)
(* What the agent batch API promises for a job, without workers, leases or *)
(* storage: a job is opened, each of its items gets exactly one outcome,   *)
(* in submission order, and once all have one the job closes for good with *)
(* the verdict those outcomes deserve.                                     *)
(***************************************************************************)
EXTENDS Naturals, Sequences

CONSTANTS
    Job,    \* the batch jobs
    Total   \* [Job -> positive integers], the number of items of each job

VARIABLES
    phase,      \* [Job -> "absent", "open" or a verdict]
    outcomes    \* [Job -> sequence of BOOLEAN], the outcome of each item so far

lifecycleVars == <<phase, outcomes>>

Verdict == {"succeeded", "partial", "failed"}

\* The verdict a finished list of outcomes deserves.
VerdictOf(log) ==
    IF \A k \in DOMAIN log : log[k] THEN "succeeded"
    ELSE IF \E k \in DOMAIN log : log[k] THEN "partial"
    ELSE "failed"

LInit ==
    /\ phase = [j \in Job |-> "absent"]
    /\ outcomes = [j \in Job |-> <<>>]

Open(j) ==
    /\ phase[j] = "absent"
    /\ phase' = [phase EXCEPT ![j] = "open"]
    /\ UNCHANGED outcomes

Complete(j) ==
    /\ phase[j] = "open"
    /\ Len(outcomes[j]) < Total[j]
    /\ \E ok \in BOOLEAN : outcomes' = [outcomes EXCEPT ![j] = Append(@, ok)]
    /\ UNCHANGED phase

Close(j) ==
    /\ phase[j] = "open"
    /\ Len(outcomes[j]) = Total[j]
    /\ phase' = [phase EXCEPT ![j] = VerdictOf(outcomes[j])]
    /\ UNCHANGED outcomes

LNext == \E j \in Job : Open(j) \/ Complete(j) \/ Close(j)

LSpec == LInit /\ [][LNext]_lifecycleVars

=============================================================================
