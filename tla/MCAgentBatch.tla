---------------------------- MODULE MCAgentBatch ----------------------------
(* Small instances of AgentBatch for TLC. *)
EXTENDS AgentBatch, TLC

CONSTANTS j1, j2, w1, w2, u1, k1

\* Two submitters, unrelated jobs.
TwoUsers == j1 :> j1 @@ j2 :> j2
NoKeys   == [j \in Job |-> NoKey]
OneTwo   == j1 :> 1 @@ j2 :> 2

\* One submitter; the second submission may be a retry of the first.
OneUser  == [j \in Job |-> u1]
SameKeys == [j \in Job |-> k1]
TwoItems == [j \in Job |-> 2]

WorkerSymmetry == Permutations(Worker)
=============================================================================
