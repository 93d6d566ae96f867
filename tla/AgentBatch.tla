----------------------------- MODULE AgentBatch -----------------------------
(***************************************************************************)
(* The agent batch API: the submission handler, the job documents in       *)
(* MongoDB, and the in-process workers that drain them under a             *)
(* time-bounded lease.                                                     *)
(*                                                                         *)
(*   registry/services/agent_batch_service.py                              *)
(*   registry/services/agent_batch_worker.py                               *)
(*   registry/repositories/documentdb/agent_batch_job_repository.py        *)
(*                                                                         *)
(* Every MongoDB call is one atomic step; whatever happens between two     *)
(* awaits of the code happens between two steps here. An item's work is    *)
(* abstracted to an outcome, ok or not. Time is abstracted to the one fact *)
(* the code tests: whether the lease of a running job has lapsed.          *)
(***************************************************************************)
EXTENDS Naturals, Sequences, FiniteSets

CONSTANTS
    Job,            \* the submissions; an accepted one becomes the job of that name
    Worker,         \* the worker processes (one per replica)
    NoWorker,       \* claimed_by = None
    Total,          \* [Job -> number of items]
    UserOf,         \* [Job -> the submitter]
    KeyOf,          \* [Job -> the idempotency key]
    NoKey,          \* a submission without idempotency key
    MaxActive,      \* settings.batch_max_concurrent_jobs_per_user
    MaxCrashes,     \* bound: process deaths
    MaxFaults,      \* bound: failed database calls
    MaxOverruns     \* bound: leases that lapse under a worker still running the job

ASSUME BatchConstants ==
    /\ IsFiniteSet(Job)
    /\ Job # {}
    /\ NoWorker \notin Worker
    /\ Total \in [Job -> Nat \ {0}]
    /\ MaxActive \in Nat \ {0}
    /\ MaxCrashes \in Nat
    /\ MaxFaults \in Nat
    /\ MaxOverruns \in Nat

VARIABLES
    sub,        \* [Job -> where its submission handler stands]
    arrival,    \* the submissions in the order of their submitted_at
    job,        \* [Job -> the job document]
    worker,     \* [Worker -> the state of its loop, its job and its heartbeat]
    executed,   \* [Job -> number of process_item calls made for it] (history)
    crashes,    \* process deaths so far
    faults,     \* failed database calls so far
    overruns    \* leases that lapsed under a worker still running the job

vars == <<sub, arrival, job, worker, executed, crashes, faults, overruns>>

-----------------------------------------------------------------------------
(* Data *)

SubState == {"find", "count", "insert", "accepted", "replayed", "rejected", "error"}
JobState == {"absent", "queued", "running", "succeeded", "partial", "failed"}
Verdicts == {"succeeded", "partial", "failed"}
Result   == [index : Nat, ok : BOOLEAN]

JobDoc == [state : JobState, claimedBy : Worker \cup {NoWorker},
           lease : {"none", "held", "lapsed"},
           succeeded : Nat, failed : Nat, nextIndex : Nat, results : Seq(Result)]

\* Where a worker's loop stands: not running, polling, at the head of the item
\* loop, holding an unrecorded outcome, about to read the job back, about to
\* write the verdict.
WorkerPc == {"down", "idle", "items", "record", "finish", "write"}
BusyPc   == {"items", "record", "finish", "write"}

\* The heartbeat task of a running job: renewing, ended because ownership was
\* lost, or ended by an exception.
WorkerRec == [pc : WorkerPc, job : Job, idx : Nat, lost : BOOLEAN,
              heartbeat : {"alive", "returned", "raised"},
              ok : BOOLEAN, verdict : Verdicts]

NewDoc == [state |-> "absent", claimedBy |-> NoWorker, lease |-> "none",
           succeeded |-> 0, failed |-> 0, nextIndex |-> 0, results |-> <<>>]

Idle == [pc |-> "idle", job |-> CHOOSE j \in Job : TRUE, idx |-> 0, lost |-> FALSE,
         heartbeat |-> "returned", ok |-> FALSE, verdict |-> "failed"]

Active(j)   == job[j].state \in {"queued", "running"}
Terminal(j) == job[j].state \in Verdicts
Exists(j)   == job[j].state # "absent"

\* Two submissions the unique index (submitted_by, idempotency_key) identifies.
SameKey(j, k) ==
    /\ KeyOf[j] # NoKey
    /\ KeyOf[j] = KeyOf[k]
    /\ UserOf[j] = UserOf[k]

Busy(w, j) == worker[w].pc \in BusyPc /\ worker[w].job = j

Init ==
    /\ sub = [j \in Job |-> "find"]
    /\ arrival = <<>>
    /\ job = [j \in Job |-> NewDoc]
    /\ worker = [w \in Worker |-> Idle]
    /\ executed = [j \in Job |-> 0]
    /\ crashes = 0
    /\ faults = 0
    /\ overruns = 0

-----------------------------------------------------------------------------
(* AgentBatchService.submit: three database calls, no transaction *)

SubmitFind(j) ==
    /\ sub[j] = "find"
    /\ sub' = [sub EXCEPT ![j] =
                 IF \E k \in Job : Exists(k) /\ SameKey(j, k) THEN "replayed" ELSE "count"]
    /\ UNCHANGED <<arrival, job, worker, executed, crashes, faults, overruns>>

ActiveJobsOf(u) == {k \in Job : UserOf[k] = u /\ Active(k)}

SubmitCount(j) ==
    /\ sub[j] = "count"
    /\ IF Cardinality(ActiveJobsOf(UserOf[j])) >= MaxActive
       THEN /\ sub' = [sub EXCEPT ![j] = "rejected"]
            /\ UNCHANGED arrival
       ELSE /\ sub' = [sub EXCEPT ![j] = "insert"]
            /\ arrival' = Append(arrival, j)
    /\ UNCHANGED <<job, worker, executed, crashes, faults, overruns>>

\* Mutant: the unique index on (submitted_by, idempotency_key) was not created.
DuplicateKey_NoIndex(j) == FALSE

DuplicateKey(j) == \E k \in Job : Exists(k) /\ SameKey(j, k)

SubmitInsert(j) ==
    /\ sub[j] = "insert"
    /\ IF DuplicateKey(j)
       THEN /\ sub' = [sub EXCEPT ![j] = "error"]
            /\ UNCHANGED job
       ELSE /\ sub' = [sub EXCEPT ![j] = "accepted"]
            /\ job' = [job EXCEPT ![j].state = "queued"]
    /\ UNCHANGED <<arrival, worker, executed, crashes, faults, overruns>>

-----------------------------------------------------------------------------
(* AgentBatchWorker._loop and claim_next_queued *)

\* Mutant: a running job is taken whether or not its lease has lapsed.
Claimable_AnyLease(j) == job[j].state \in {"queued", "running"}

\* Mutant: only queued jobs are taken, lapsed ones are left to a restart.
Claimable_QueuedOnly(j) == job[j].state = "queued"

Claimable(j) ==
    \/ job[j].state = "queued"
    \/ job[j].state = "running" /\ job[j].lease = "lapsed"

Before(j, k) ==
    \E m, n \in DOMAIN arrival : arrival[m] = j /\ arrival[n] = k /\ m < n

Claimed(doc, w) ==
    [doc EXCEPT !.state = "running", !.claimedBy = w, !.lease = "held"]

\* Mutant: the job restarts at its first item instead of next_index.
ResumeIndex_Zero(doc) == 0

\* Mutant: next_index is taken for the last item recorded, and redone.
ResumeIndex_LastDone(doc) == doc.nextIndex - 1

ResumeIndex(doc) == doc.nextIndex

\* find_one_and_update on the oldest claimable job; _run_job starts at its
\* next_index with a fresh heartbeat.
Claim(w) ==
    /\ worker[w].pc = "idle"
    /\ \E j \in Job :
         /\ Claimable(j)
         /\ \A k \in Job : Claimable(k) => ~Before(k, j)
         /\ job' = [job EXCEPT ![j] = Claimed(@, w)]
         /\ worker' = [worker EXCEPT ![w] =
                         [@ EXCEPT !.pc = "items", !.job = j, !.idx = ResumeIndex(job[j]),
                                   !.lost = FALSE, !.heartbeat = "alive"]]
    /\ UNCHANGED <<sub, arrival, executed, crashes, faults, overruns>>

\* claim_next_queued returned None: sleep and poll again.
Poll(w) ==
    /\ worker[w].pc = "idle"
    /\ \A j \in Job : ~Claimable(j)
    /\ UNCHANGED vars

-----------------------------------------------------------------------------
(* AgentBatchWorker._run_job, _process_items and _heartbeat *)

ProcessItem(w) ==
    /\ worker[w].pc = "items"
    /\ worker[w].idx < Total[worker[w].job]
    /\ ~worker[w].lost
    /\ \E ok \in BOOLEAN :
         worker' = [worker EXCEPT ![w] = [@ EXCEPT !.pc = "record", !.ok = ok]]
    /\ executed' = [executed EXCEPT ![worker[w].job] = @ + 1]
    /\ UNCHANGED <<sub, arrival, job, crashes, faults, overruns>>

\* Mutant: the resume pointer stays at the item just recorded.
Recorded_PointerBehind(doc, i, ok) ==
    [doc EXCEPT !.results = Append(@, [index |-> i, ok |-> ok]),
                !.succeeded = IF ok THEN @ + 1 ELSE @,
                !.failed = IF ok THEN @ ELSE @ + 1,
                !.nextIndex = i,
                !.lease = "held"]

\* record_item_result: the filter is the job id alone.
Recorded(doc, i, ok) ==
    [doc EXCEPT !.results = Append(@, [index |-> i, ok |-> ok]),
                !.succeeded = IF ok THEN @ + 1 ELSE @,
                !.failed = IF ok THEN @ ELSE @ + 1,
                !.nextIndex = i + 1,
                !.lease = "held"]

RecordResult(w) ==
    /\ worker[w].pc = "record"
    /\ job' = [job EXCEPT ![worker[w].job] = Recorded(@, worker[w].idx, worker[w].ok)]
    /\ worker' = [worker EXCEPT ![w] =
                    [@ EXCEPT !.pc = "items", !.idx = worker[w].idx + 1, !.ok = FALSE]]
    /\ UNCHANGED <<sub, arrival, executed, crashes, faults, overruns>>

\* The update was applied but its reply was lost: the exception ends _run_job.
RecordReplyLost(w) ==
    /\ worker[w].pc = "record"
    /\ faults < MaxFaults
    /\ job' = [job EXCEPT ![worker[w].job] = Recorded(@, worker[w].idx, worker[w].ok)]
    /\ worker' = [worker EXCEPT ![w] = Idle]
    /\ faults' = faults + 1
    /\ UNCHANGED <<sub, arrival, executed, crashes, overruns>>

\* Mutant: a worker that lost its lease finalizes what it has.
EndItems_IgnoreLoss(w) ==
    /\ worker[w].pc = "items"
    /\ worker[w].idx >= Total[worker[w].job] \/ worker[w].lost
    /\ worker' = [worker EXCEPT ![w] =
                    [@ EXCEPT !.pc = "finish", !.heartbeat = "returned"]]
    /\ UNCHANGED <<sub, arrival, job, executed, crashes, faults, overruns>>

\* The item loop ends: the heartbeat is cancelled and awaited (an exception it
\* ended with propagates), a lost lease abandons the job.
EndItems(w) ==
    /\ worker[w].pc = "items"
    /\ worker[w].idx >= Total[worker[w].job] \/ worker[w].lost
    /\ worker' = [worker EXCEPT ![w] =
                    IF worker[w].lost \/ worker[w].heartbeat = "raised"
                    THEN Idle ELSE [@ EXCEPT !.pc = "finish", !.heartbeat = "returned"]]
    /\ UNCHANGED <<sub, arrival, job, executed, crashes, faults, overruns>>

\* Mutant: one failed item fails the job.
VerdictFor_NoPartial(doc) == IF doc.failed = 0 THEN "succeeded" ELSE "failed"

\* The job is read back and the verdict computed from its counters.
VerdictFor(doc) ==
    IF doc.failed = 0 THEN "succeeded"
    ELSE IF doc.succeeded = 0 THEN "failed"
    ELSE "partial"

ReadBack(w) ==
    /\ worker[w].pc = "finish"
    /\ worker' = [worker EXCEPT ![w] =
                    [@ EXCEPT !.pc = "write", !.verdict = VerdictFor(job[worker[w].job])]]
    /\ UNCHANGED <<sub, arrival, job, executed, crashes, faults, overruns>>

Finalized(doc, v) ==
    [doc EXCEPT !.state = v, !.claimedBy = NoWorker, !.lease = "none"]

Finalize(w) ==
    /\ worker[w].pc = "write"
    /\ job' = [job EXCEPT ![worker[w].job] = Finalized(@, worker[w].verdict)]
    /\ worker' = [worker EXCEPT ![w] = Idle]
    /\ UNCHANGED <<sub, arrival, executed, crashes, faults, overruns>>

Owns(w, j) == job[j].state = "running" /\ job[j].claimedBy = w

\* renew_lease: a miss sets _lease_lost and ends the heartbeat.
Heartbeat(w) ==
    /\ worker[w].pc \in {"items", "record"}
    /\ worker[w].heartbeat = "alive"
    /\ IF Owns(w, worker[w].job)
       THEN /\ job' = [job EXCEPT ![worker[w].job].lease = "held"]
            /\ UNCHANGED worker
       ELSE /\ worker' = [worker EXCEPT ![w] =
                            [@ EXCEPT !.lost = TRUE, !.heartbeat = "returned"]]
            /\ UNCHANGED job
    /\ UNCHANGED <<sub, arrival, executed, crashes, faults, overruns>>

HeartbeatRaises(w) ==
    /\ worker[w].pc \in {"items", "record"}
    /\ worker[w].heartbeat = "alive"
    /\ faults < MaxFaults
    /\ worker' = [worker EXCEPT ![w].heartbeat = "raised"]
    /\ faults' = faults + 1
    /\ UNCHANGED <<sub, arrival, job, executed, crashes, overruns>>

\* record_item_result, get or finalize raises: _loop logs and polls again, the
\* job document stays as it is.
DatabaseCallRaises(w) ==
    /\ worker[w].pc \in {"record", "finish", "write"}
    /\ faults < MaxFaults
    /\ worker' = [worker EXCEPT ![w] = Idle]
    /\ faults' = faults + 1
    /\ UNCHANGED <<sub, arrival, job, executed, crashes, overruns>>

-----------------------------------------------------------------------------
(* Processes and time *)

\* A crash, or stop(), which cancels the loop at whatever await it is in.
Die(w) ==
    /\ worker[w].pc # "down"
    /\ crashes < MaxCrashes
    /\ worker' = [worker EXCEPT ![w] = [Idle EXCEPT !.pc = "down"]]
    /\ crashes' = crashes + 1
    /\ UNCHANGED <<sub, arrival, job, executed, faults, overruns>>

Start(w) ==
    /\ worker[w].pc = "down"
    /\ worker' = [worker EXCEPT ![w] = Idle]
    /\ UNCHANGED <<sub, arrival, job, executed, crashes, faults, overruns>>

RunBy(w, j) == job[j].claimedBy = w /\ Busy(w, j)

\* lease_expires_at passes. The lease TTL is documented to exceed the time
\* between two renewals of a worker that runs the job; a lease that lapses all
\* the same under a running worker is an overrun.
LeaseLapses(j) ==
    /\ job[j].state = "running"
    /\ job[j].lease = "held"
    /\ job' = [job EXCEPT ![j].lease = "lapsed"]
    /\ IF \E w \in Worker : RunBy(w, j)
       THEN overruns < MaxOverruns /\ overruns' = overruns + 1
       ELSE UNCHANGED overruns
    /\ UNCHANGED <<sub, arrival, worker, executed, crashes, faults>>

-----------------------------------------------------------------------------

Submit(j) == SubmitFind(j) \/ SubmitCount(j) \/ SubmitInsert(j)

LoopStep(w) ==
    \/ Claim(w) \/ ProcessItem(w) \/ RecordResult(w)
    \/ EndItems(w) \/ ReadBack(w) \/ Finalize(w)

Next ==
    \/ \E j \in Job : Submit(j) \/ LeaseLapses(j)
    \/ \E w \in Worker :
         \/ LoopStep(w) \/ Poll(w) \/ Heartbeat(w)
         \/ RecordReplyLost(w) \/ HeartbeatRaises(w) \/ DatabaseCallRaises(w)
         \/ Die(w) \/ Start(w)

Spec == Init /\ [][Next]_vars

\* A handler that has been called and a loop that is scheduled run on; wall
\* clock time passes. A dead process is not assumed to come back.
Fairness ==
    /\ \A j \in Job : WF_vars(Submit(j)) /\ WF_vars(LeaseLapses(j))
    /\ \A w \in Worker : WF_vars(LoopStep(w))

FairSpec == Spec /\ Fairness

-----------------------------------------------------------------------------
(* Properties *)

\* The documents, the loops and the handlers keep their types.
TypeOK ==
    /\ sub \in [Job -> SubState]
    /\ arrival \in Seq(Job)
    /\ job \in [Job -> JobDoc]
    /\ worker \in [Worker -> WorkerRec]
    /\ executed \in [Job -> Nat]
    /\ crashes \in Nat
    /\ faults \in Nat
    /\ overruns \in Nat

\* The results hold one of each of the first n items.
Covers(results, n) ==
    \A i \in 0 .. n - 1 : \E k \in DOMAIN results : results[k].index = i

\* No finished job lacks an item's result, however often the job changed hands,
\* workers crashed, or a worker ran on after its lease had lapsed: resuming at
\* next_index never skips an item, because each writer of next_index had itself
\* started at a next_index.
NoItemSkipped ==
    \A j \in Job : Terminal(j) => Covers(job[j].results, Total[j])

\* Why no item is skipped: the resume pointer and the index of every loop have
\* all earlier items behind them, and a loop leaves its items only at the end.
ResumeInv ==
    /\ \A j \in Job : Covers(job[j].results, job[j].nextIndex)
    /\ \A j \in Job : Terminal(j) => Covers(job[j].results, Total[j])
    /\ \A w \in Worker :
         /\ worker[w].pc \in BusyPc => Covers(job[worker[w].job].results, worker[w].idx)
         /\ worker[w].pc \in {"finish", "write"} => worker[w].idx >= Total[worker[w].job]

OkResults(results)     == {k \in DOMAIN results : results[k].ok}
FailedResults(results) == {k \in DOMAIN results : ~results[k].ok}

CountersMatch(doc) ==
    /\ doc.succeeded = Cardinality(OkResults(doc.results))
    /\ doc.failed = Cardinality(FailedResults(doc.results))

\* succeeded and failed always count exactly the results the caller can read,
\* also when two workers record the same item.
CountersMatchResults == \A j \in Job : CountersMatch(job[j])

\* Two jobs of one submitter never carry the same idempotency key, even when
\* the lookups of their submissions interleave.
UniqueKey ==
    \A j, k \in Job : j # k /\ Exists(j) /\ Exists(k) => ~SameKey(j, k)

\* Without overruns, a job has at most one worker inside
\* _run_job, and that worker is the claimed_by of a running job.
SingleRunner ==
    \A w \in Worker : \A j \in Job :
        Busy(w, j) => /\ Owns(w, j)
                      /\ \A v \in Worker \ {w} : ~Busy(v, j)

\* Why a job has one runner: without overruns a lease lapses only after its
\* worker is gone, so that a running loop still holds the lease, has not been
\* told otherwise, and stands where the document says.
LeaseInv ==
    \A w \in Worker : \A j \in Job :
        Busy(w, j) => /\ Owns(w, j)
                      /\ job[j].lease = "held"
                      /\ ~worker[w].lost
                      /\ worker[w].idx = job[j].nextIndex

\* Without overruns, the results are those of items
\* 0 .. next_index - 1, in order, each once, across any number of recoveries.
ExactlyOnce ==
    \A j \in Job :
        /\ Len(job[j].results) = job[j].nextIndex
        /\ \A k \in DOMAIN job[j].results : job[j].results[k].index = k - 1

\* Without overruns, each repeated execution of an item is
\* paid for by a process death or a failed database call: recovery repeats at
\* most the one item in flight, never the completed ones.
RerunsPaidFor == \A j \in Job : executed[j] <= Total[j] + crashes + faults

\* Without overruns, a job in a final state never changes.
TerminalIsFinal == [][\A j \in Job : Terminal(j) => job'[j] = job[j]]_vars

Lifecycle == INSTANCE BatchLifecycle WITH
    phase <- [j \in Job |-> IF Active(j) THEN "open" ELSE job[j].state],
    outcomes <- [j \in Job |-> [k \in DOMAIN job[j].results |-> job[j].results[k].ok]]

\* Without overruns, all of the machinery above implements
\* the lifecycle a caller is promised: one outcome per item, in order, then
\* one final verdict that the outcomes deserve.
ImplementsLifecycle == Lifecycle!LSpec

\* Every accepted job ends, as long as one worker stays alive: a job whose
\* worker died is reclaimed once its lease lapses.
EveryJobEnds == \A j \in Job : Active(j) ~> Terminal(j)

=============================================================================
