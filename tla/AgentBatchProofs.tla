-------------------------- MODULE AgentBatchProofs --------------------------
(***************************************************************************)
(* Theorems about AgentBatch, for every set of jobs and workers and for    *)
(* every bound on crashes, faults and overruns.                            *)
(***************************************************************************)
EXTENDS AgentBatch, FiniteSetTheorems, TLAPS

-----------------------------------------------------------------------------
(* Type correctness *)

\* The values the actions write have their types.
LEMMA IdleType == Idle \in WorkerRec /\ [Idle EXCEPT !.pc = "down"] \in WorkerRec
BY BatchConstants DEF Idle, WorkerRec, WorkerPc, Verdicts

\* A document as submit creates it is a job document.
LEMMA NewDocType == NewDoc \in JobDoc
BY DEF NewDoc, JobDoc, JobState

\* Claiming, recording and finalizing turn job documents into job documents.
LEMMA ClaimedType ==
    ASSUME NEW doc \in JobDoc, NEW w \in Worker
    PROVE  Claimed(doc, w) \in JobDoc
BY DEF Claimed, JobDoc, JobState

\* Recording appends an outcome, so the results stay a sequence of outcomes.
LEMMA RecordedType ==
    ASSUME NEW doc \in JobDoc, NEW i \in Nat, NEW ok \in BOOLEAN
    PROVE  Recorded(doc, i, ok) \in JobDoc
<1> DEFINE entry == [index |-> i, ok |-> ok]
           log == Append(doc.results, entry)
           good == IF ok THEN doc.succeeded + 1 ELSE doc.succeeded
           bad == IF ok THEN doc.failed ELSE doc.failed + 1
           next == i + 1
<1>1. log \in Seq(Result)
  <2>1. entry \in Result
    BY DEF Result
  <2> HIDE DEF entry
  <2> QED
    BY <2>1 DEF JobDoc
<1>2. good \in Nat /\ bad \in Nat /\ next \in Nat
  BY DEF JobDoc
<1>3. Recorded(doc, i, ok) =
        [doc EXCEPT !.results = log, !.succeeded = good, !.failed = bad,
                    !.nextIndex = next, !.lease = "held"]
  BY Zenon DEF Recorded
<1> HIDE DEF entry, log, good, bad, next
<1> QED
  BY <1>1, <1>2, <1>3 DEF JobDoc

\* A verdict ends a document within its type.
LEMMA FinalizedType ==
    ASSUME NEW doc \in JobDoc, NEW v \in Verdicts
    PROVE  Finalized(doc, v) \in JobDoc
BY DEF Finalized, JobDoc, JobState, Verdicts

\* Whatever the results, the code derives one of the three verdicts.
LEMMA VerdictType == ASSUME NEW doc PROVE VerdictFor(doc) \in Verdicts
BY DEF VerdictFor, Verdicts

\* The first state is well typed.
LEMMA TypeInit == Init => TypeOK
BY NewDocType, IdleType DEF Init, TypeOK, SubState

\* Every step keeps the types: one case per action of handlers, loops and faults.
LEMMA TypeStep == TypeOK /\ [Next]_vars => TypeOK'
<1> SUFFICES ASSUME TypeOK, [Next]_vars PROVE TypeOK'
  OBVIOUS
<1> USE DEF TypeOK
<1>1. ASSUME NEW j \in Job, SubmitFind(j) PROVE TypeOK'
  BY <1>1 DEF SubmitFind, SubState
<1>2. ASSUME NEW j \in Job, SubmitCount(j) PROVE TypeOK'
  <2>1. Append(arrival, j) \in Seq(Job)
    OBVIOUS
  <2> QED
    BY <1>2, <2>1 DEF SubmitCount, SubState
<1>3. ASSUME NEW j \in Job, SubmitInsert(j) PROVE TypeOK'
  <2>1. [job[j] EXCEPT !.state = "queued"] \in JobDoc
    BY DEF JobDoc, JobState
  <2>2. job' \in [Job -> JobDoc]
    BY <1>3, <2>1 DEF SubmitInsert
  <2> QED
    BY <1>3, <2>2 DEF SubmitInsert, SubState
<1>4. ASSUME NEW w \in Worker, Claim(w) PROVE TypeOK'
  <2>1. PICK j \in Job :
          /\ job' = [job EXCEPT ![j] = Claimed(@, w)]
          /\ worker' = [worker EXCEPT ![w] =
                          [@ EXCEPT !.pc = "items", !.job = j, !.idx = ResumeIndex(job[j]),
                                    !.lost = FALSE, !.heartbeat = "alive"]]
    BY <1>4 DEF Claim
  <2>2. job' \in [Job -> JobDoc]
    BY <2>1, ClaimedType
  <2>3. ResumeIndex(job[j]) \in Nat
    BY DEF ResumeIndex, JobDoc
  <2>4. worker' \in [Worker -> WorkerRec]
    BY <2>1, <2>3 DEF WorkerRec, WorkerPc
  <2> QED
    BY <1>4, <2>2, <2>4 DEF Claim
<1>5. ASSUME NEW w \in Worker, ProcessItem(w) PROVE TypeOK'
  <2>1. worker' \in [Worker -> WorkerRec]
    <3>1. PICK ok \in BOOLEAN :
            worker' = [worker EXCEPT ![w] = [@ EXCEPT !.pc = "record", !.ok = ok]]
      BY <1>5 DEF ProcessItem
    <3>2. [worker[w] EXCEPT !.pc = "record", !.ok = ok] \in WorkerRec
      BY DEF WorkerRec, WorkerPc
    <3> QED
      BY <3>1, <3>2
  <2>2. executed' \in [Job -> Nat]
    BY <1>5 DEF ProcessItem, WorkerRec
  <2> QED
    BY <1>5, <2>1, <2>2 DEF ProcessItem
<1>6. ASSUME NEW w \in Worker, RecordResult(w) PROVE TypeOK'
  <2>1. job' \in [Job -> JobDoc]
    BY <1>6, RecordedType DEF RecordResult, WorkerRec
  <2>2. worker' \in [Worker -> WorkerRec]
    <3> DEFINE n == worker[w].idx + 1
               after == [worker[w] EXCEPT !.pc = "items", !.idx = n, !.ok = FALSE]
    <3>1. n \in Nat
      BY DEF WorkerRec
    <3>2. worker' = [worker EXCEPT ![w] = after]
      BY <1>6 DEF RecordResult
    <3>3. after \in WorkerRec
      <4> HIDE DEF n
      <4> QED
        BY <3>1 DEF WorkerRec, WorkerPc
    <3> HIDE DEF after
    <3> QED
      BY <3>2, <3>3
  <2> QED
    BY <1>6, <2>1, <2>2 DEF RecordResult
<1>7. ASSUME NEW w \in Worker, RecordReplyLost(w) PROVE TypeOK'
  <2>1. job' \in [Job -> JobDoc]
    BY <1>7, RecordedType DEF RecordReplyLost, WorkerRec
  <2> QED
    BY <1>7, <2>1, IdleType DEF RecordReplyLost
<1>8. ASSUME NEW w \in Worker, EndItems(w) PROVE TypeOK'
  <2>1. [worker[w] EXCEPT !.pc = "finish", !.heartbeat = "returned"] \in WorkerRec
    BY DEF WorkerRec, WorkerPc
  <2> QED
    BY <1>8, <2>1, IdleType DEF EndItems
<1>9. ASSUME NEW w \in Worker, ReadBack(w) PROVE TypeOK'
  BY <1>9, VerdictType DEF ReadBack, WorkerRec, WorkerPc
<1>10. ASSUME NEW w \in Worker, Finalize(w) PROVE TypeOK'
  <2>1. job' \in [Job -> JobDoc]
    BY <1>10, FinalizedType DEF Finalize, WorkerRec
  <2> QED
    BY <1>10, <2>1, IdleType DEF Finalize
<1>11. ASSUME NEW w \in Worker, Heartbeat(w) PROVE TypeOK'
  <2>1. [job[worker[w].job] EXCEPT !.lease = "held"] \in JobDoc
    <3>1. job[worker[w].job] \in JobDoc
      BY DEF WorkerRec
    <3> QED
      BY <3>1 DEF JobDoc
  <2>2. job' \in [Job -> JobDoc]
    BY <1>11, <2>1 DEF Heartbeat, WorkerRec
  <2>3. worker' \in [Worker -> WorkerRec]
    <3>1. [worker[w] EXCEPT !.lost = TRUE, !.heartbeat = "returned"] \in WorkerRec
      BY DEF WorkerRec
    <3> QED
      BY <1>11, <3>1 DEF Heartbeat
  <2> QED
    BY <1>11, <2>2, <2>3 DEF Heartbeat
<1>12. ASSUME NEW w \in Worker, HeartbeatRaises(w) PROVE TypeOK'
  <2>1. [worker[w] EXCEPT !.heartbeat = "raised"] \in WorkerRec
    BY DEF WorkerRec
  <2> QED
    BY <1>12, <2>1 DEF HeartbeatRaises
<1>13. ASSUME NEW w \in Worker, DatabaseCallRaises(w) PROVE TypeOK'
  BY <1>13, IdleType DEF DatabaseCallRaises
<1>14. ASSUME NEW w \in Worker, Die(w) PROVE TypeOK'
  BY <1>14, IdleType DEF Die
<1>15. ASSUME NEW w \in Worker, Start(w) PROVE TypeOK'
  BY <1>15, IdleType DEF Start
<1>16. ASSUME NEW j \in Job, LeaseLapses(j) PROVE TypeOK'
  <2>1. [job[j] EXCEPT !.lease = "lapsed"] \in JobDoc
    BY DEF JobDoc
  <2> QED
    BY <1>16, <2>1 DEF LeaseLapses
<1>17. ASSUME NEW w \in Worker, Poll(w) PROVE TypeOK'
  BY <1>17 DEF Poll, vars
<1>18. CASE UNCHANGED vars
  BY <1>18 DEF vars
<1> QED
  BY <1>1, <1>2, <1>3, <1>4, <1>5, <1>6, <1>7, <1>8, <1>9, <1>10, <1>11, <1>12,
     <1>13, <1>14, <1>15, <1>16, <1>17, <1>18 DEF Next, Submit, LoopStep

\* The documents, the loops and the handlers keep their types, whatever the
\* interleaving of submissions, workers, failures and lapsing leases.
THEOREM TypeCorrect == Spec => []TypeOK
<1>1. Init => TypeOK
  BY TypeInit
<1>2. TypeOK /\ [Next]_vars => TypeOK'
  BY TypeStep
<1> QED
  BY <1>1, <1>2, PTL DEF Spec

-----------------------------------------------------------------------------
(* No item is skipped *)

\* Appending the result of item i to results that cover the items below i covers i too.
LEMMA AppendCovers ==
    ASSUME NEW log \in Seq(Result), NEW entry \in Result, NEW n \in Nat, Covers(log, n)
    PROVE  /\ Covers(Append(log, entry), n)
           /\ entry.index = n => Covers(Append(log, entry), n + 1)
<1> DEFINE new == Append(log, entry)
<1>1. /\ DOMAIN log = 1 .. Len(log)
      /\ Len(log) \in Nat
      /\ DOMAIN new = 1 .. Len(log) + 1
      /\ \A k \in 1 .. Len(log) : new[k] = log[k]
      /\ new[Len(log) + 1] = entry
  OBVIOUS
<1> HIDE DEF new
<1>2. Covers(new, n)
  BY <1>1 DEF Covers
<1>3. ASSUME entry.index = n PROVE Covers(new, n + 1)
  <2> SUFFICES ASSUME NEW i \in 0 .. (n + 1) - 1
               PROVE  \E k \in DOMAIN new : new[k].index = i
    BY DEF Covers
  <2>1. CASE i = n
    BY <1>1, <1>3, <2>1
  <2>2. CASE i # n
    BY <1>2, <2>2 DEF Covers
  <2> QED
    BY <2>1, <2>2
<1> QED
  BY <1>2, <1>3 DEF new

\* Results that cover the items below n cover those below any smaller m.
LEMMA CoversLess ==
    ASSUME NEW log, NEW m \in Nat, NEW n \in Nat, n <= m, Covers(log, m)
    PROVE  Covers(log, n)
<1>1. 0 .. n - 1 \subseteq 0 .. m - 1
  OBVIOUS
<1> QED
  BY <1>1, Zenon DEF Covers

\* What recording an item does to the fields the invariant reads.
LEMMA RecordedFields ==
    ASSUME NEW doc \in JobDoc, NEW i \in Nat, NEW ok \in BOOLEAN
    PROVE  LET new == Recorded(doc, i, ok) IN
           /\ new.results = Append(doc.results, [index |-> i, ok |-> ok])
           /\ new.nextIndex = i + 1
           /\ new.state = doc.state
           /\ new.claimedBy = doc.claimedBy
           /\ new.lease = "held"
           /\ new.succeeded = IF ok THEN doc.succeeded + 1 ELSE doc.succeeded
           /\ new.failed = IF ok THEN doc.failed ELSE doc.failed + 1
<1> DEFINE log == Append(doc.results, [index |-> i, ok |-> ok])
           good == IF ok THEN doc.succeeded + 1 ELSE doc.succeeded
           bad == IF ok THEN doc.failed ELSE doc.failed + 1
           next == i + 1
<1>1. Recorded(doc, i, ok) =
        [doc EXCEPT !.results = log, !.succeeded = good, !.failed = bad,
                    !.nextIndex = next, !.lease = "held"]
  BY Zenon DEF Recorded
<1> HIDE DEF log, good, bad, next
<1>2. LET new == Recorded(doc, i, ok) IN
      /\ new.results = log
      /\ new.nextIndex = next
      /\ new.state = doc.state
      /\ new.claimedBy = doc.claimedBy
      /\ new.lease = "held"
      /\ new.succeeded = good
      /\ new.failed = bad
  BY <1>1 DEF JobDoc
<1> QED
  BY <1>2, Zenon DEF log, good, bad, next

\* Whoever records, recording keeps the items covered and covers one more.
LEMMA RecordedCovers ==
    ASSUME NEW doc \in JobDoc, NEW i \in Nat, NEW ok \in BOOLEAN
    PROVE  LET new == Recorded(doc, i, ok) IN
           /\ \A n \in Nat : Covers(doc.results, n) => Covers(new.results, n)
           /\ Covers(doc.results, i) => Covers(new.results, i + 1)
<1> DEFINE entry == [index |-> i, ok |-> ok]
<1>1. entry \in Result /\ entry.index = i
  BY DEF Result
<1>2. doc.results \in Seq(Result)
  BY DEF JobDoc
<1>3. Recorded(doc, i, ok).results = Append(doc.results, entry)
  BY RecordedFields
<1> HIDE DEF entry
<1> QED
  BY <1>1, <1>2, <1>3, AppendCovers

\* Before any submission there is nothing to cover.
LEMMA ResumeInit == Init => ResumeInv
BY BatchConstants, IdleType DEF Init, ResumeInv, NewDoc, Idle, Terminal, Verdicts, BusyPc, Covers

\* What a step must show of the documents and of the loops. Loops: each keeps its
\* place, or its new place has the items behind it that its index claims.
DocsCover ==
    \A k \in Job :
        /\ \A n \in Nat : Covers(job[k].results, n) => Covers(job'[k].results, n)
        /\ Covers(job'[k].results, job'[k].nextIndex)
        /\ job'[k].state \in Verdicts =>
              job[k].state \in Verdicts \/ Covers(job'[k].results, Total[k])

LoopKept(v) ==
    /\ worker'[v].pc = worker[v].pc
    /\ worker'[v].job = worker[v].job
    /\ worker'[v].idx = worker[v].idx

LoopsCover ==
    \A v \in Worker :
        \/ LoopKept(v)
        \/ /\ worker'[v].pc \in BusyPc =>
                 Covers(job'[worker'[v].job].results, worker'[v].idx)
           /\ worker'[v].pc \in {"finish", "write"} =>
                 worker'[v].idx >= Total[worker'[v].job]

\* ResumeInv survives a step that keeps the documents and the loops covered.
LEMMA ResumeFrame == TypeOK /\ ResumeInv /\ DocsCover /\ LoopsCover => ResumeInv'
<1> SUFFICES ASSUME TypeOK, ResumeInv, DocsCover, LoopsCover PROVE ResumeInv'
  OBVIOUS
<1>1. \A k \in Job : Total[k] \in Nat
  BY BatchConstants
<1>2. \A v \in Worker : worker[v].idx \in Nat /\ worker[v].job \in Job
  BY DEF TypeOK, WorkerRec
<1>3. \A k \in Job : Covers(job'[k].results, job'[k].nextIndex)
  BY DEF DocsCover
<1>4. \A k \in Job : Terminal(k)' => Covers(job'[k].results, Total[k])
  BY <1>1 DEF DocsCover, ResumeInv, Terminal
<1>5. ASSUME NEW v \in Worker
      PROVE  /\ worker'[v].pc \in BusyPc => Covers(job'[worker'[v].job].results, worker'[v].idx)
             /\ worker'[v].pc \in {"finish", "write"} => worker'[v].idx >= Total[worker'[v].job]
  <2>1. CASE LoopKept(v)
    BY <1>2, <2>1 DEF LoopKept, DocsCover, ResumeInv
  <2>2. CASE ~LoopKept(v)
    BY <2>2 DEF LoopsCover
  <2> QED
    BY <2>1, <2>2
<1> QED
  BY <1>3, <1>4, <1>5 DEF ResumeInv

\* A step that changes neither results nor pointers, and ends no job.
DocsKept ==
    \A k \in Job :
        /\ job'[k].results = job[k].results
        /\ job'[k].nextIndex = job[k].nextIndex
        /\ job'[k].state \in Verdicts => job[k].state \in Verdicts

\* A step that keeps results, resume pointers and verdicts keeps the documents covered.
LEMMA SameResults == ResumeInv /\ DocsKept => DocsCover
BY DEF DocsCover, DocsKept, ResumeInv

\* No step loses coverage: claims start at a covered index, records extend it, a loop
\* ends only past the last item.
LEMMA ResumeStep == TypeOK /\ ResumeInv /\ [Next]_vars => ResumeInv'
<1> SUFFICES ASSUME TypeOK, ResumeInv, [Next]_vars PROVE ResumeInv'
  OBVIOUS
<1>0. /\ job \in [Job -> JobDoc]
      /\ worker \in [Worker -> WorkerRec]
      /\ \A w \in Worker : worker[w].idx \in Nat /\ worker[w].job \in Job /\ worker[w].ok \in BOOLEAN
  BY DEF TypeOK, WorkerRec
<1>1. ASSUME NEW j \in Job, SubmitFind(j) PROVE ResumeInv'
  BY <1>1 DEF SubmitFind, ResumeInv, Terminal
<1>2. ASSUME NEW j \in Job, SubmitCount(j) PROVE ResumeInv'
  BY <1>2 DEF SubmitCount, ResumeInv, Terminal
<1>3. ASSUME NEW j \in Job, SubmitInsert(j) PROVE ResumeInv'
  <2>1. CASE UNCHANGED job
    BY <1>3, <2>1 DEF SubmitInsert, ResumeInv, Terminal
  <2>2. CASE job' = [job EXCEPT ![j].state = "queued"]
    <3>1. DocsKept
      BY <1>0, <2>2 DEF JobDoc, Verdicts, DocsKept
    <3> QED
      BY <1>0, <1>3, <3>1, SameResults, ResumeFrame DEF SubmitInsert, LoopsCover, LoopKept
  <2> QED
    BY <1>3, <2>1, <2>2 DEF SubmitInsert
<1>4. ASSUME NEW w \in Worker, Claim(w) PROVE ResumeInv'
  <2>1. PICK j \in Job :
          /\ job' = [job EXCEPT ![j] = Claimed(@, w)]
          /\ worker' = [worker EXCEPT ![w] =
                          [@ EXCEPT !.pc = "items", !.job = j, !.idx = ResumeIndex(job[j]),
                                    !.lost = FALSE, !.heartbeat = "alive"]]
    BY <1>4 DEF Claim
  <2>2. DocsKept
    BY <1>0, <2>1 DEF JobDoc, Verdicts, Claimed, DocsKept
  <2>3. \A v \in Worker \ {w} : worker'[v] = worker[v]
    BY <1>0, <2>1
  <2>4. /\ worker'[w].pc = "items"
        /\ worker'[w].job = j
        /\ worker'[w].idx = job[j].nextIndex
    BY <1>0, <2>1 DEF WorkerRec, ResumeIndex
  <2> QED
    <3>1. DocsCover
      BY <2>2, SameResults
    <3>2. Covers(job'[j].results, job[j].nextIndex)
      BY <2>2 DEF ResumeInv, DocsKept
    <3>3. LoopsCover
      BY <2>3, <2>4, <3>2 DEF LoopsCover, LoopKept
    <3> QED
      BY <3>1, <3>3, ResumeFrame
<1>5. ASSUME NEW w \in Worker, ProcessItem(w) PROVE ResumeInv'
  <2>1. PICK ok \in BOOLEAN :
          worker' = [worker EXCEPT ![w] = [@ EXCEPT !.pc = "record", !.ok = ok]]
    BY <1>5 DEF ProcessItem
  <2>2. \A v \in Worker \ {w} : worker'[v] = worker[v]
    BY <1>0, <2>1
  <2>3. /\ worker'[w].pc = "record"
        /\ worker'[w].job = worker[w].job
        /\ worker'[w].idx = worker[w].idx
    BY <1>0, <2>1 DEF WorkerRec
  <2> QED
    BY <1>0, <1>5, <2>2, <2>3 DEF ProcessItem, ResumeInv, Terminal, BusyPc
<1>6. ASSUME NEW w \in Worker, NEW j \in Job, j = worker[w].job, worker[w].pc = "record",
             job' = [job EXCEPT ![j] = Recorded(@, worker[w].idx, worker[w].ok)]
      PROVE  /\ \A k \in Job, n \in Nat : Covers(job[k].results, n) => Covers(job'[k].results, n)
             /\ \A k \in Job : Covers(job'[k].results, job'[k].nextIndex)
             /\ Covers(job'[j].results, worker[w].idx + 1)
             /\ \A k \in Job : job'[k].state \in Verdicts => job[k].state \in Verdicts
  <2>1. Covers(job[j].results, worker[w].idx)
    BY <1>6 DEF ResumeInv, BusyPc
  <2>2. job'[j] = Recorded(job[j], worker[w].idx, worker[w].ok)
    BY <1>0, <1>6
  <2>3. \A k \in Job \ {j} : job'[k] = job[k]
    BY <1>0, <1>6
  <2>4. /\ job'[j].nextIndex = worker[w].idx + 1
        /\ job'[j].state = job[j].state
    <3>1. job[j] \in JobDoc /\ worker[w].idx \in Nat /\ worker[w].ok \in BOOLEAN
      BY <1>0
    <3> DEFINE new == Recorded(job[j], worker[w].idx, worker[w].ok)
    <3>2. new.nextIndex = worker[w].idx + 1 /\ new.state = job[j].state
      BY <3>1, RecordedFields, Zenon
    <3> QED
      BY <2>2, <3>2, Zenon
  <2>5. /\ \A n \in Nat : Covers(job[j].results, n) => Covers(job'[j].results, n)
        /\ Covers(job'[j].results, worker[w].idx + 1)
    BY <1>0, <2>1, <2>2, RecordedCovers
  <2> QED
    BY <2>3, <2>4, <2>5 DEF ResumeInv
<1>7. ASSUME NEW w \in Worker, RecordResult(w) PROVE ResumeInv'
  <2> DEFINE j == worker[w].job
  <2>1. /\ \A k \in Job, n \in Nat : Covers(job[k].results, n) => Covers(job'[k].results, n)
        /\ \A k \in Job : Covers(job'[k].results, job'[k].nextIndex)
        /\ Covers(job'[j].results, worker[w].idx + 1)
        /\ \A k \in Job : job'[k].state \in Verdicts => job[k].state \in Verdicts
    BY <1>0, <1>6, <1>7 DEF RecordResult
  <2>2. \A v \in Worker \ {w} : worker'[v] = worker[v]
    BY <1>0, <1>7 DEF RecordResult
  <2>3. /\ worker'[w].pc = "items"
        /\ worker'[w].job = j
        /\ worker'[w].idx = worker[w].idx + 1
    BY <1>0, <1>7 DEF RecordResult, WorkerRec
  <2> QED
    BY <1>0, <2>1, <2>2, <2>3, BatchConstants DEF ResumeInv, Terminal
<1>8. ASSUME NEW w \in Worker, RecordReplyLost(w) PROVE ResumeInv'
  <2>1. /\ \A k \in Job, n \in Nat : Covers(job[k].results, n) => Covers(job'[k].results, n)
        /\ \A k \in Job : Covers(job'[k].results, job'[k].nextIndex)
        /\ \A k \in Job : job'[k].state \in Verdicts => job[k].state \in Verdicts
    BY <1>0, <1>6, <1>8 DEF RecordReplyLost
  <2>2. \A v \in Worker \ {w} : worker'[v] = worker[v]
    BY <1>0, <1>8 DEF RecordReplyLost
  <2>3. worker'[w].pc = "idle"
    BY <1>0, <1>8 DEF RecordReplyLost, Idle
  <2> QED
    BY <1>0, <2>1, <2>2, <2>3, BatchConstants DEF ResumeInv, BusyPc, Terminal
<1>9. ASSUME NEW w \in Worker, EndItems(w) PROVE ResumeInv'
  <2>1. \A v \in Worker \ {w} : worker'[v] = worker[v]
    BY <1>0, <1>9 DEF EndItems
  <2>2. \/ worker'[w].pc = "idle"
        \/ /\ worker'[w].job = worker[w].job
           /\ worker'[w].idx = worker[w].idx
           /\ worker[w].idx >= Total[worker[w].job]
    BY <1>0, <1>9 DEF EndItems, Idle, WorkerRec
  <2> QED
    BY <1>0, <1>9, <2>1, <2>2 DEF EndItems, ResumeInv, Terminal, BusyPc
<1>10. ASSUME NEW w \in Worker, ReadBack(w) PROVE ResumeInv'
  <2>1. \A v \in Worker \ {w} : worker'[v] = worker[v]
    BY <1>0, <1>10 DEF ReadBack
  <2>2. /\ worker'[w].job = worker[w].job
        /\ worker'[w].idx = worker[w].idx
    BY <1>0, <1>10 DEF ReadBack, WorkerRec
  <2> QED
    BY <1>0, <1>10, <2>1, <2>2 DEF ReadBack, ResumeInv, Terminal, BusyPc
<1>11. ASSUME NEW w \in Worker, Finalize(w) PROVE ResumeInv'
  <2> DEFINE j == worker[w].job
  <2>1. Covers(job[j].results, Total[j])
    <3>1. Covers(job[j].results, worker[w].idx) /\ worker[w].idx >= Total[j]
      BY <1>11 DEF Finalize, ResumeInv, BusyPc
    <3> QED
      BY <1>0, <3>1, CoversLess, BatchConstants
  <2>2. \A k \in Job :
          /\ job'[k].results = job[k].results
          /\ job'[k].nextIndex = job[k].nextIndex
          /\ job'[k].state \in Verdicts => job[k].state \in Verdicts \/ k = j
    BY <1>0, <1>11 DEF Finalize, Finalized, JobDoc
  <2>3. \A v \in Worker \ {w} : worker'[v] = worker[v]
    BY <1>0, <1>11 DEF Finalize
  <2>4. worker'[w].pc = "idle"
    BY <1>0, <1>11 DEF Finalize, Idle
  <2> QED
    <3>1. DocsCover
      BY <2>1, <2>2 DEF DocsCover, ResumeInv
    <3>2. LoopsCover
      BY <2>3, <2>4 DEF LoopsCover, LoopKept, BusyPc
    <3> QED
      BY <3>1, <3>2, ResumeFrame
<1>12. ASSUME NEW w \in Worker, Heartbeat(w) PROVE ResumeInv'
  <2>1. DocsKept
    <3>1. CASE UNCHANGED job
      BY <3>1 DEF DocsKept
    <3>2. CASE job' = [job EXCEPT ![worker[w].job].lease = "held"]
      BY <1>0, <3>2 DEF JobDoc, DocsKept
    <3> QED
      BY <1>12, <3>1, <3>2 DEF Heartbeat
  <2>2. \A v \in Worker : /\ worker'[v].pc = worker[v].pc
                          /\ worker'[v].job = worker[v].job
                          /\ worker'[v].idx = worker[v].idx
    <3>1. CASE UNCHANGED worker
      BY <3>1
    <3>2. CASE worker' = [worker EXCEPT ![w] =
                            [@ EXCEPT !.lost = TRUE, !.heartbeat = "returned"]]
      BY <1>0, <3>2 DEF WorkerRec
    <3> QED
      BY <1>12, <3>1, <3>2 DEF Heartbeat
  <2> QED
    BY <2>1, <2>2, SameResults, ResumeFrame DEF LoopsCover, LoopKept
<1>13. ASSUME NEW w \in Worker, HeartbeatRaises(w) PROVE ResumeInv'
  <2>1. \A v \in Worker : /\ worker'[v].pc = worker[v].pc
                          /\ worker'[v].job = worker[v].job
                          /\ worker'[v].idx = worker[v].idx
    BY <1>0, <1>13 DEF HeartbeatRaises, WorkerRec
  <2> QED
    BY <1>0, <1>13, <2>1 DEF HeartbeatRaises, ResumeInv, Terminal
<1>14. ASSUME NEW w \in Worker, DatabaseCallRaises(w) \/ Die(w) \/ Start(w) PROVE ResumeInv'
  <2>1. \A v \in Worker \ {w} : worker'[v] = worker[v]
    BY <1>0, <1>14 DEF DatabaseCallRaises, Die, Start
  <2>2. worker'[w].pc \in {"idle", "down"}
    BY <1>0, <1>14 DEF DatabaseCallRaises, Die, Start, Idle
  <2>3. UNCHANGED job
    BY <1>14 DEF DatabaseCallRaises, Die, Start
  <2> QED
    BY <1>0, <2>1, <2>2, <2>3 DEF ResumeInv, BusyPc, Terminal
<1>15. ASSUME NEW j \in Job, LeaseLapses(j) PROVE ResumeInv'
  <2>1. DocsKept
    BY <1>0, <1>15 DEF LeaseLapses, JobDoc, DocsKept
  <2> QED
    BY <1>0, <1>15, <2>1, SameResults, ResumeFrame DEF LeaseLapses, LoopsCover, LoopKept
<1>16. CASE UNCHANGED vars \/ \E w \in Worker : Poll(w)
  BY <1>16 DEF vars, Poll, ResumeInv, Terminal
<1> QED
  BY <1>1, <1>2, <1>3, <1>4, <1>5, <1>7, <1>8, <1>9, <1>10, <1>11, <1>12,
     <1>13, <1>14, <1>15, <1>16 DEF Next, Submit, LoopStep

\* The resume pointer and the loops always have all earlier items behind them.
THEOREM ResumePointerSound == Spec => []ResumeInv
<1> QED
  BY TypeCorrect, ResumeInit, ResumeStep, PTL DEF Spec

\* No finished job lacks the result of an item, for any number of jobs, items,
\* workers, crashes, failed calls and leases lapsing under a running worker.
THEOREM NothingSkipped == Spec => []NoItemSkipped
<1>1. ResumeInv => NoItemSkipped
  BY DEF ResumeInv, NoItemSkipped
<1> QED
  BY <1>1, ResumePointerSound, PTL

-----------------------------------------------------------------------------
(* The counters match the results *)

\* Appending one outcome adds one to the number of results of its kind and to no other.
LEMMA AppendCounts ==
    ASSUME NEW log \in Seq(Result), NEW entry \in Result
    PROVE  LET new == Append(log, entry) IN
           /\ Cardinality(OkResults(new)) =
                IF entry.ok THEN Cardinality(OkResults(log)) + 1
                            ELSE Cardinality(OkResults(log))
           /\ Cardinality(FailedResults(new)) =
                IF entry.ok THEN Cardinality(FailedResults(log))
                            ELSE Cardinality(FailedResults(log)) + 1
<1> DEFINE new == Append(log, entry)
           last == Len(log) + 1
<1>1. /\ Len(log) \in Nat
      /\ DOMAIN log = 1 .. Len(log)
      /\ DOMAIN new = 1 .. last
      /\ \A k \in 1 .. Len(log) : new[k] = log[k]
      /\ new[last] = entry
  OBVIOUS
<1>2. IsFiniteSet(1 .. Len(log))
  BY <1>1, FS_Interval
<1>3. /\ IsFiniteSet(OkResults(log))
      /\ IsFiniteSet(FailedResults(log))
  BY <1>1, <1>2, FS_Subset DEF OkResults, FailedResults
<1>4. last \notin OkResults(log) /\ last \notin FailedResults(log)
  BY <1>1 DEF OkResults, FailedResults
<1>5. 1 .. last = (1 .. Len(log)) \cup {last}
  BY <1>1
<1> HIDE DEF new, last
<1>6. CASE entry.ok
  <2>1. OkResults(new) = OkResults(log) \cup {last}
    BY <1>1, <1>5, <1>6 DEF OkResults
  <2>2. FailedResults(new) = FailedResults(log)
    BY <1>1, <1>5, <1>6 DEF FailedResults
  <2> QED
    BY <1>3, <1>4, <1>6, <2>1, <2>2, FS_AddElement DEF new
<1>7. CASE ~entry.ok
  <2>1. OkResults(new) = OkResults(log)
    BY <1>1, <1>5, <1>7 DEF OkResults
  <2>2. FailedResults(new) = FailedResults(log) \cup {last}
    BY <1>1, <1>5, <1>7 DEF FailedResults
  <2> QED
    BY <1>3, <1>4, <1>7, <2>1, <2>2, FS_AddElement DEF new
<1> QED
  BY <1>6, <1>7

\* Recording an item keeps the counters equal to the numbers of results.
LEMMA RecordedCounts ==
    ASSUME NEW doc \in JobDoc, NEW i \in Nat, NEW ok \in BOOLEAN, CountersMatch(doc)
    PROVE  CountersMatch(Recorded(doc, i, ok))
<1> DEFINE entry == [index |-> i, ok |-> ok]
           new == Recorded(doc, i, ok)
<1>1. entry \in Result /\ (entry.ok <=> ok)
  BY DEF Result
<1>2. doc.results \in Seq(Result)
  BY DEF JobDoc
<1>3. /\ new.results = Append(doc.results, entry)
      /\ new.succeeded = IF ok THEN doc.succeeded + 1 ELSE doc.succeeded
      /\ new.failed = IF ok THEN doc.failed ELSE doc.failed + 1
  BY RecordedFields, Zenon
<1> HIDE DEF entry, new
<1>4. CountersMatch(new)
  BY <1>1, <1>2, <1>3, AppendCounts DEF CountersMatch
<1> QED
  BY <1>4 DEF new

\* A step leaves a document's results and counters alone, or a worker that runs
\* the job records one item.
SameCounts(k) ==
    /\ job'[k].results = job[k].results
    /\ job'[k].nextIndex = job[k].nextIndex
    /\ job'[k].succeeded = job[k].succeeded
    /\ job'[k].failed = job[k].failed

RecordsItem(k) ==
    \E w \in Worker : /\ Busy(w, k)
                     /\ worker[w].pc = "record"
                     /\ job'[k] = Recorded(job[k], worker[w].idx, worker[w].ok)

\* A step leaves the counters and results of a document alone or records one item.
LEMMA DocSteps ==
    TypeOK /\ [Next]_vars => \A k \in Job : SameCounts(k) \/ RecordsItem(k)
<1> SUFFICES ASSUME TypeOK, [Next]_vars, NEW k \in Job
             PROVE  SameCounts(k) \/ RecordsItem(k)
  OBVIOUS
<1>0. /\ job \in [Job -> JobDoc]
      /\ \A w \in Worker : worker[w].idx \in Nat /\ worker[w].job \in Job /\ worker[w].ok \in BOOLEAN
  BY DEF TypeOK, WorkerRec
<1>1. CASE UNCHANGED job
  BY <1>1 DEF SameCounts
<1>2. ASSUME NEW w \in Worker, RecordResult(w) \/ RecordReplyLost(w)
      PROVE  SameCounts(k) \/ RecordsItem(k)
  <2> DEFINE j == worker[w].job
  <2>1. job' = [job EXCEPT ![j] = Recorded(@, worker[w].idx, worker[w].ok)]
    BY <1>2 DEF RecordResult, RecordReplyLost
  <2>2. CASE k = j
    BY <1>0, <1>2, <2>1, <2>2 DEF RecordsItem, RecordResult, RecordReplyLost, Busy, BusyPc
  <2>3. CASE k # j
    BY <1>0, <2>1, <2>3 DEF SameCounts
  <2> QED
    BY <2>2, <2>3
<1>3. ASSUME NEW j \in Job,
             \/ job' = [job EXCEPT ![j].state = "queued"]
             \/ job' = [job EXCEPT ![j].lease = "held"]
             \/ job' = [job EXCEPT ![j].lease = "lapsed"]
      PROVE  SameCounts(k)
  <2>1. CASE job' = [job EXCEPT ![j].state = "queued"]
    BY <1>0, <2>1 DEF SameCounts, JobDoc
  <2>2. CASE job' = [job EXCEPT ![j].lease = "held"]
    BY <1>0, <2>2 DEF SameCounts, JobDoc
  <2>3. CASE job' = [job EXCEPT ![j].lease = "lapsed"]
    BY <1>0, <2>3 DEF SameCounts, JobDoc
  <2> QED
    BY <1>3, <2>1, <2>2, <2>3
<1>4. ASSUME NEW w \in Worker, Claim(w)
      PROVE  SameCounts(k)
  BY <1>0, <1>4 DEF Claim, Claimed, SameCounts, JobDoc
<1>5. ASSUME NEW w \in Worker, Finalize(w)
      PROVE  SameCounts(k)
  BY <1>0, <1>5 DEF Finalize, Finalized, SameCounts, JobDoc
<1>6. ASSUME NEW w \in Worker, Heartbeat(w)
      PROVE  SameCounts(k)
  BY <1>0, <1>1, <1>3, <1>6 DEF Heartbeat, SameCounts
<1>7. ASSUME NEW j \in Job, Submit(j) \/ LeaseLapses(j)
      PROVE  SameCounts(k)
  BY <1>1, <1>3, <1>7 DEF Submit, SubmitFind, SubmitCount, SubmitInsert, LeaseLapses, SameCounts
<1>8. ASSUME NEW w \in Worker,
             \/ Poll(w) \/ ProcessItem(w) \/ EndItems(w) \/ ReadBack(w)
             \/ HeartbeatRaises(w) \/ DatabaseCallRaises(w) \/ Die(w) \/ Start(w)
      PROVE  UNCHANGED job
  BY <1>8 DEF Poll, ProcessItem, EndItems, ReadBack, HeartbeatRaises, DatabaseCallRaises,
              Die, Start, vars
<1>9. CASE UNCHANGED vars
  BY <1>1, <1>9 DEF vars
<1> QED
  BY <1>1, <1>2, <1>4, <1>5, <1>6, <1>7, <1>8, <1>9 DEF Next, LoopStep

\* The counters of every job count its results, whoever records them.
THEOREM CountersSound == Spec => []CountersMatchResults
<1>1. Init => CountersMatchResults
  <2>1. OkResults(<<>>) = {} /\ FailedResults(<<>>) = {}
    BY DEF OkResults, FailedResults
  <2>2. CountersMatch(NewDoc)
    BY <2>1, FS_EmptySet DEF NewDoc, CountersMatch
  <2> QED
    BY <2>2 DEF Init, CountersMatchResults
<1>2. TypeOK /\ CountersMatchResults /\ [Next]_vars => CountersMatchResults'
  <2> SUFFICES ASSUME TypeOK, CountersMatchResults, [Next]_vars, NEW k \in Job
               PROVE  CountersMatch(job'[k])
    BY DEF CountersMatchResults
  <2>1. job[k] \in JobDoc /\ CountersMatch(job[k])
    BY DEF TypeOK, CountersMatchResults
  <2>2. CASE SameCounts(k)
    BY <2>1, <2>2 DEF SameCounts, CountersMatch
  <2>3. CASE RecordsItem(k)
    BY <2>1, <2>3, RecordedCounts DEF RecordsItem, TypeOK, WorkerRec
  <2> QED
    BY <2>2, <2>3, DocSteps
<1> QED
  BY <1>1, <1>2, TypeCorrect, PTL DEF Spec

-----------------------------------------------------------------------------
(* Submissions and the unique key *)

\* A document appears only through the insertion of its own submission, and a
\* worker only ever holds a job that was inserted.
SubmitInv ==
    /\ \A j \in Job : Exists(j) => sub[j] = "accepted"
    /\ \A w \in Worker : worker[w].pc \in BusyPc => Exists(worker[w].job)

Inserted(k) == sub[k] = "insert" /\ sub'[k] = "accepted" /\ ~DuplicateKey(k)

\* Which documents a step may bring into existence.
LEMMA NewDocuments ==
    TypeOK /\ SubmitInv /\ [Next]_vars =>
        \A k \in Job :
            /\ Exists(k)' => Exists(k) \/ Inserted(k)
            /\ Exists(k) => Exists(k)' /\ sub'[k] = sub[k]
<1> SUFFICES ASSUME TypeOK, SubmitInv, [Next]_vars, NEW k \in Job
             PROVE  /\ Exists(k)' => Exists(k) \/ Inserted(k)
                    /\ Exists(k) => Exists(k)' /\ sub'[k] = sub[k]
  OBVIOUS
<1>0. /\ job \in [Job -> JobDoc]
      /\ sub \in [Job -> SubState]
      /\ \A w \in Worker : /\ worker[w].idx \in Nat
                           /\ worker[w].job \in Job
                           /\ worker[w].ok \in BOOLEAN
                           /\ worker[w].verdict \in Verdicts
      /\ Exists(k) => sub[k] = "accepted"
  BY DEF TypeOK, WorkerRec, SubmitInv
<1> USE DEF Exists
<1>1. CASE UNCHANGED <<job, sub>>
  BY <1>1
<1>2. ASSUME NEW j \in Job, SubmitFind(j) \/ SubmitCount(j)
      PROVE  UNCHANGED job /\ (Exists(k) => sub'[k] = sub[k])
  BY <1>0, <1>2 DEF SubmitFind, SubmitCount
<1>3. ASSUME NEW j \in Job, SubmitInsert(j)
      PROVE  /\ Exists(k)' => Exists(k) \/ Inserted(k)
             /\ Exists(k) => Exists(k)' /\ sub'[k] = sub[k]
  <2>1. CASE k = j
    BY <1>0, <1>3, <2>1 DEF SubmitInsert, Inserted
  <2>2. CASE k # j
    BY <1>0, <1>3, <2>2 DEF SubmitInsert
  <2> QED
    BY <2>1, <2>2
<1>4. ASSUME NEW w \in Worker, Claim(w)
      PROVE  UNCHANGED sub /\ (Exists(k)' <=> Exists(k))
  <2>1. PICK j \in Job : Claimable(j) /\ job' = [job EXCEPT ![j] = Claimed(@, w)]
    BY <1>4 DEF Claim
  <2>2. Exists(j) /\ job'[j].state = "running"
    BY <1>0, <2>1 DEF Claimable, Claimed, JobDoc
  <2> QED
    BY <1>0, <1>4, <2>1, <2>2 DEF Claim
<1>5. ASSUME NEW w \in Worker, RecordResult(w) \/ RecordReplyLost(w)
      PROVE  UNCHANGED sub /\ (Exists(k)' <=> Exists(k))
  <2> DEFINE j == worker[w].job
             new == Recorded(job[j], worker[w].idx, worker[w].ok)
  <2>1. job' = [job EXCEPT ![j] = new]
    BY <1>5 DEF RecordResult, RecordReplyLost
  <2>2. new.state = job[j].state
    BY <1>0, RecordedFields, Zenon
  <2> HIDE DEF new
  <2> QED
    BY <1>0, <1>5, <2>1, <2>2 DEF RecordResult, RecordReplyLost
<1>6. ASSUME NEW w \in Worker, Finalize(w)
      PROVE  UNCHANGED sub /\ (Exists(k)' <=> Exists(k))
  <2> DEFINE j == worker[w].job
  <2>1. Exists(j)
    BY <1>6 DEF Finalize, SubmitInv, BusyPc
  <2>2. job' = [job EXCEPT ![j] = Finalized(@, worker[w].verdict)]
    BY <1>6 DEF Finalize
  <2>3. job'[j].state # "absent"
    BY <1>0, <2>2 DEF Finalized, JobDoc, Verdicts
  <2> QED
    BY <1>0, <1>6, <2>1, <2>2, <2>3 DEF Finalize
<1>7. ASSUME NEW w \in Worker, Heartbeat(w)
      PROVE  UNCHANGED sub /\ (Exists(k)' <=> Exists(k))
  <2>1. CASE UNCHANGED job
    BY <1>7, <2>1 DEF Heartbeat
  <2>2. CASE job' = [job EXCEPT ![worker[w].job].lease = "held"]
    BY <1>0, <1>7, <2>2 DEF Heartbeat, JobDoc
  <2> QED
    BY <1>7, <2>1, <2>2 DEF Heartbeat
<1>8. ASSUME NEW j \in Job, LeaseLapses(j)
      PROVE  UNCHANGED sub /\ (Exists(k)' <=> Exists(k))
  BY <1>0, <1>8 DEF LeaseLapses, JobDoc
<1>9. ASSUME NEW w \in Worker,
             \/ Poll(w) \/ ProcessItem(w) \/ EndItems(w) \/ ReadBack(w)
             \/ HeartbeatRaises(w) \/ DatabaseCallRaises(w) \/ Die(w) \/ Start(w)
      PROVE  UNCHANGED <<job, sub>>
  BY <1>9 DEF Poll, ProcessItem, EndItems, ReadBack, HeartbeatRaises, DatabaseCallRaises,
              Die, Start, vars
<1>10. CASE UNCHANGED vars
  BY <1>1, <1>10 DEF vars
<1> QED
  BY <1>1, <1>2, <1>3, <1>4, <1>5, <1>6, <1>7, <1>8, <1>9, <1>10 DEF Next, Submit, LoopStep

\* A worker becomes busy only by claiming; otherwise it keeps its job.
LEMMA BusyWorkers ==
    TypeOK /\ [Next]_vars =>
        \A w \in Worker : worker'[w].pc \in BusyPc =>
            \/ worker[w].pc \in BusyPc /\ worker'[w].job = worker[w].job
            \/ Claimable(worker'[w].job) /\ worker'[w].job \in Job
<1> SUFFICES ASSUME TypeOK, [Next]_vars, NEW w \in Worker, worker'[w].pc \in BusyPc
             PROVE  \/ worker[w].pc \in BusyPc /\ worker'[w].job = worker[w].job
                    \/ Claimable(worker'[w].job) /\ worker'[w].job \in Job
  OBVIOUS
<1>0. worker \in [Worker -> WorkerRec]
  BY DEF TypeOK
<1> USE DEF BusyPc
<1>1. CASE UNCHANGED worker
  BY <1>1
<1>2. ASSUME NEW v \in Worker, Claim(v)
      PROVE  \/ worker[w].pc \in BusyPc /\ worker'[w].job = worker[w].job
             \/ Claimable(worker'[w].job) /\ worker'[w].job \in Job
  BY <1>0, <1>2 DEF Claim, WorkerRec
<1>3. ASSUME NEW v \in Worker,
             ProcessItem(v) \/ RecordResult(v) \/ EndItems(v) \/ ReadBack(v) \/ HeartbeatRaises(v)
      PROVE  worker[w].pc \in BusyPc /\ worker'[w].job = worker[w].job
  <2>1. CASE v = w
    <3>1. worker[w].pc \in BusyPc
      BY <1>3, <2>1 DEF ProcessItem, RecordResult, EndItems, ReadBack, HeartbeatRaises
    <3>2. CASE ProcessItem(v)
      BY <1>0, <2>1, <3>1, <3>2 DEF ProcessItem, WorkerRec
    <3>3. CASE RecordResult(v)
      BY <1>0, <2>1, <3>1, <3>3 DEF RecordResult, WorkerRec
    <3>4. CASE ReadBack(v)
      BY <1>0, <2>1, <3>1, <3>4 DEF ReadBack, WorkerRec
    <3>5. CASE HeartbeatRaises(v)
      BY <1>0, <2>1, <3>1, <3>5 DEF HeartbeatRaises, WorkerRec
    <3>6. CASE EndItems(v)
      BY <1>0, <2>1, <3>1, <3>6 DEF EndItems, WorkerRec, Idle
    <3> QED
      BY <1>3, <3>2, <3>3, <3>4, <3>5, <3>6
  <2>2. CASE v # w
    BY <1>0, <1>3, <2>2 DEF ProcessItem, RecordResult, EndItems, ReadBack, HeartbeatRaises
  <2> QED
    BY <2>1, <2>2
<1>4. ASSUME NEW v \in Worker,
             \/ RecordReplyLost(v) \/ Finalize(v) \/ DatabaseCallRaises(v)
             \/ Die(v) \/ Start(v)
      PROVE  worker[w].pc \in BusyPc /\ worker'[w].job = worker[w].job
  <2>1. worker'[v].pc \in {"idle", "down"}
    BY <1>0, <1>4 DEF RecordReplyLost, Finalize, DatabaseCallRaises, Die, Start, Idle
  <2>2. \A u \in Worker \ {v} : worker'[u] = worker[u]
    BY <1>0, <1>4 DEF RecordReplyLost, Finalize, DatabaseCallRaises, Die, Start
  <2> QED
    BY <2>1, <2>2
<1>5. ASSUME NEW v \in Worker, Heartbeat(v)
      PROVE  worker[w].pc \in BusyPc /\ worker'[w].job = worker[w].job
  <2>1. CASE UNCHANGED worker
    BY <2>1
  <2>2. CASE worker' = [worker EXCEPT ![v] = [@ EXCEPT !.lost = TRUE, !.heartbeat = "returned"]]
    BY <1>0, <2>2 DEF WorkerRec
  <2> QED
    BY <1>5, <2>1, <2>2 DEF Heartbeat
<1>6. ASSUME NEW j \in Job, Submit(j) \/ LeaseLapses(j)
      PROVE  UNCHANGED worker
  BY <1>6 DEF Submit, SubmitFind, SubmitCount, SubmitInsert, LeaseLapses
<1>7. CASE UNCHANGED vars \/ \E v \in Worker : Poll(v)
  BY <1>1, <1>7 DEF vars, Poll
<1> QED
  BY <1>1, <1>2, <1>3, <1>4, <1>5, <1>6, <1>7 DEF Next, LoopStep

\* Only an inserted submission has a document, and workers hold only such jobs.
LEMMA SubmitSound == Spec => []SubmitInv
<1>1. Init => SubmitInv
  BY DEF Init, SubmitInv, Exists, NewDoc, Idle, BusyPc
<1>2. TypeOK /\ SubmitInv /\ [Next]_vars => SubmitInv'
  <2> SUFFICES ASSUME TypeOK, SubmitInv, [Next]_vars PROVE SubmitInv'
    OBVIOUS
  <2>1. ASSUME NEW j \in Job, Exists(j)' PROVE sub'[j] = "accepted"
    BY <2>1, NewDocuments DEF SubmitInv, Inserted, Exists
  <2>2. ASSUME NEW w \in Worker, worker'[w].pc \in BusyPc PROVE Exists(worker[w].job)'
    <3>1. Exists(worker'[w].job) /\ worker'[w].job \in Job
      BY <2>2, BusyWorkers DEF SubmitInv, Claimable, Exists, TypeOK, WorkerRec
    <3> QED
      BY <3>1, NewDocuments DEF Exists
  <2> QED
    BY <2>1, <2>2 DEF SubmitInv
<1> QED
  BY <1>1, <1>2, TypeCorrect, PTL DEF Spec

\* Two jobs of one submitter never carry the same idempotency key, for any number
\* of submissions whose lookups interleave: the unique index decides.
THEOREM KeysUnique == Spec => []UniqueKey
<1>1. Init => UniqueKey
  BY DEF Init, UniqueKey, Exists, NewDoc
<1>2. TypeOK /\ SubmitInv /\ UniqueKey /\ [Next]_vars => UniqueKey'
  <2> SUFFICES ASSUME TypeOK, SubmitInv, UniqueKey, [Next]_vars,
                      NEW j \in Job, NEW k \in Job, j # k, Exists(j)', Exists(k)'
               PROVE  ~SameKey(j, k)
    BY DEF UniqueKey, SameKey
  <2>1. CASE Exists(j) /\ Exists(k)
    BY <2>1 DEF UniqueKey
  <2>2. CASE Exists(j) /\ ~Exists(k)
    BY <2>2, NewDocuments DEF Inserted, DuplicateKey, SameKey, Exists
  <2>3. CASE ~Exists(j) /\ Exists(k)
    BY <2>3, NewDocuments DEF Inserted, DuplicateKey, SameKey, Exists
  <2>4. CASE ~Exists(j) /\ ~Exists(k)
    <3>1. Inserted(j) /\ Inserted(k)
      BY <2>4, NewDocuments DEF Exists
    <3>2. \E i \in Job : SubmitInsert(i)
      BY <3>1 DEF Next, vars, Inserted, Submit, SubmitFind, SubmitCount, LoopStep, Claim,
                  ProcessItem, RecordResult, RecordReplyLost, EndItems, ReadBack, Finalize,
                  Heartbeat, HeartbeatRaises, DatabaseCallRaises, Die, Start, Poll, LeaseLapses,
                  TypeOK
    <3> QED
      BY <3>1, <3>2 DEF SubmitInsert, Inserted, TypeOK
  <2> QED
    BY <2>1, <2>2, <2>3, <2>4
<1> QED
  BY <1>1, <1>2, TypeCorrect, SubmitSound, PTL DEF Spec

-----------------------------------------------------------------------------
(* One runner per job, as long as no lease lapses under a running worker *)

\* What LeaseInv says of worker w and job j.
Holds(w, j) ==
    /\ job[j].state = "running"
    /\ job[j].claimedBy = w
    /\ job[j].lease = "held"
    /\ ~worker[w].lost
    /\ worker[w].idx = job[j].nextIndex

\* LeaseInv, worker by worker and job by job.
LEMMA LeaseInvHolds == LeaseInv <=> \A w \in Worker : \A j \in Job : Busy(w, j) => Holds(w, j)
BY DEF LeaseInv, Holds, Owns

\* A step of worker w on a job of its own leaves the other workers' jobs alone.
LEMMA OneHolder ==
    ASSUME LeaseInv, NEW w \in Worker, NEW v \in Worker, NEW j \in Job,
           Busy(w, j), Busy(v, j)
    PROVE  v = w
BY LeaseInvHolds DEF Holds

\* Without overruns every step keeps the lease with the loop that runs the job.
LEMMA LeaseStep ==
    ASSUME MaxOverruns = 0
    PROVE  TypeOK /\ SubmitInv /\ LeaseInv /\ [Next]_vars => LeaseInv'
<1> SUFFICES ASSUME TypeOK, SubmitInv, LeaseInv, [Next]_vars PROVE LeaseInv'
  OBVIOUS
<1> SUFFICES ASSUME NEW u \in Worker, NEW k \in Job, Busy(u, k)' PROVE Holds(u, k)'
  BY DEF LeaseInv, Holds, Owns
<1>0. /\ job \in [Job -> JobDoc]
      /\ worker \in [Worker -> WorkerRec]
      /\ \A w \in Worker : /\ worker[w].idx \in Nat
                           /\ worker[w].job \in Job
                           /\ worker[w].ok \in BOOLEAN
      /\ Busy(u, k) => Holds(u, k)
  BY LeaseInvHolds DEF TypeOK, WorkerRec
<1> USE DEF Busy, BusyPc, Holds
<1>1. CASE UNCHANGED <<job, worker>>
  BY <1>0, <1>1
<1>2. ASSUME NEW j \in Job, SubmitFind(j) \/ SubmitCount(j)
      PROVE  UNCHANGED <<job, worker>>
  BY <1>2 DEF SubmitFind, SubmitCount
<1>3. ASSUME NEW j \in Job, SubmitInsert(j) PROVE Holds(u, k)'
  <2>1. Busy(u, k) /\ UNCHANGED worker
    BY <1>3 DEF SubmitInsert
  <2>2. j # k
    BY <1>0, <1>3, <2>1 DEF SubmitInsert, SubmitInv, Exists
  <2>3. job'[k] = job[k]
    BY <1>0, <1>3, <2>2 DEF SubmitInsert
  <2> QED
    BY <1>0, <2>1, <2>3
<1>4. ASSUME NEW w \in Worker, Claim(w) PROVE Holds(u, k)'
  <2>1. PICK j \in Job :
          /\ Claimable(j)
          /\ job' = [job EXCEPT ![j] = Claimed(@, w)]
          /\ worker' = [worker EXCEPT ![w] =
                          [@ EXCEPT !.pc = "items", !.job = j, !.idx = ResumeIndex(job[j]),
                                    !.lost = FALSE, !.heartbeat = "alive"]]
    BY <1>4 DEF Claim
  <2>2. CASE u = w
    <3>1. /\ worker'[w].job = j
          /\ worker'[w].idx = job[j].nextIndex
          /\ ~worker'[w].lost
      BY <1>0, <2>1 DEF WorkerRec, ResumeIndex
    <3>2. k = j
      BY <2>2, <3>1
    <3>3. /\ job'[j].state = "running"
          /\ job'[j].claimedBy = w
          /\ job'[j].lease = "held"
          /\ job'[j].nextIndex = job[j].nextIndex
      BY <1>0, <2>1 DEF Claimed, JobDoc
    <3> QED
      BY <2>2, <3>1, <3>2, <3>3
  <2>3. CASE u # w
    <3>1. worker'[u] = worker[u] /\ Busy(u, k)
      BY <1>0, <2>1, <2>3
    <3>2. k # j
      BY <1>0, <2>1, <3>1 DEF Claimable
    <3>3. job'[k] = job[k]
      BY <1>0, <2>1, <3>2
    <3> QED
      BY <1>0, <3>1, <3>3
  <2> QED
    BY <2>2, <2>3
<1>5. ASSUME NEW w \in Worker, ProcessItem(w) \/ ReadBack(w) \/ HeartbeatRaises(w)
      PROVE  Holds(u, k)'
  <2>1. Busy(u, k) /\ worker'[u].idx = worker[u].idx /\ worker'[u].lost = worker[u].lost
    <3>1. CASE ProcessItem(w)
      BY <1>0, <3>1 DEF ProcessItem, WorkerRec
    <3>2. CASE ReadBack(w)
      BY <1>0, <3>2 DEF ReadBack, WorkerRec
    <3>3. CASE HeartbeatRaises(w)
      BY <1>0, <3>3 DEF HeartbeatRaises, WorkerRec
    <3> QED
      BY <1>5, <3>1, <3>2, <3>3
  <2>2. UNCHANGED job
    BY <1>5 DEF ProcessItem, ReadBack, HeartbeatRaises
  <2> QED
    BY <1>0, <2>1, <2>2
<1>6. ASSUME NEW w \in Worker, EndItems(w) PROVE Holds(u, k)'
  <2>1. Busy(u, k) /\ worker'[u].idx = worker[u].idx /\ worker'[u].lost = worker[u].lost
    BY <1>0, <1>6 DEF EndItems, Idle, WorkerRec
  <2> QED
    BY <1>0, <1>6, <2>1 DEF EndItems
<1>7. ASSUME NEW w \in Worker, RecordResult(w) PROVE Holds(u, k)'
  <2> DEFINE j == worker[w].job
             new == Recorded(job[j], worker[w].idx, worker[w].ok)
  <2>1. job' = [job EXCEPT ![j] = new]
    BY <1>7 DEF RecordResult
  <2>2. /\ new.state = job[j].state
        /\ new.claimedBy = job[j].claimedBy
        /\ new.lease = "held"
        /\ new.nextIndex = worker[w].idx + 1
    <3>1. job[j] \in JobDoc /\ worker[w].idx \in Nat /\ worker[w].ok \in BOOLEAN
      BY <1>0
    <3> QED
      BY <3>1, RecordedFields, Zenon
  <2>3. Busy(w, j) /\ Holds(w, j)
    BY <1>0, <1>7, LeaseInvHolds DEF RecordResult
  <2> HIDE DEF new
  <2>4. CASE u = w
    <3>1. /\ worker'[w].job = j
          /\ worker'[w].idx = worker[w].idx + 1
          /\ ~worker'[w].lost
      BY <1>0, <1>7, <2>3 DEF RecordResult, WorkerRec
    <3>2. job'[k] = new /\ k = j
      BY <1>0, <2>1, <2>4, <3>1
    <3> QED
      BY <2>2, <2>3, <2>4, <3>1, <3>2
  <2>5. CASE u # w
    <3>1. worker'[u] = worker[u] /\ Busy(u, k)
      BY <1>0, <1>7, <2>5 DEF RecordResult
    <3>2. k # j
      BY <1>0, <2>3, <2>5, <3>1
    <3>3. job'[k] = job[k]
      BY <1>0, <2>1, <3>2
    <3> QED
      BY <1>0, <3>1, <3>3
  <2> QED
    BY <2>4, <2>5
<1>8. ASSUME NEW w \in Worker, RecordReplyLost(w) \/ Finalize(w) PROVE Holds(u, k)'
  <2> DEFINE j == worker[w].job
  <2>1. /\ Busy(w, j)
        /\ worker'[w].pc = "idle"
        /\ \A v \in Worker \ {w} : worker'[v] = worker[v]
        /\ \A i \in Job \ {j} : job'[i] = job[i]
    BY <1>0, <1>8 DEF RecordReplyLost, Finalize, Idle
  <2>2. u # w /\ Busy(u, k) /\ worker'[u] = worker[u]
    BY <2>1
  <2>3. k # j
    BY <2>1, <2>2, OneHolder
  <2> QED
    BY <1>0, <2>1, <2>2, <2>3
<1>9. ASSUME NEW w \in Worker, Heartbeat(w) PROVE Holds(u, k)'
  <2> DEFINE j == worker[w].job
  <2>1. Busy(w, j) /\ Holds(w, j)
    BY <1>0, <1>9, LeaseInvHolds DEF Heartbeat
  <2>2. UNCHANGED worker /\ job' = [job EXCEPT ![j].lease = "held"]
    BY <1>9, <2>1 DEF Heartbeat, Owns
  <2>3. Busy(u, k)
    BY <2>2
  <2>4. /\ job'[k].state = job[k].state
        /\ job'[k].claimedBy = job[k].claimedBy
        /\ job'[k].lease = "held"
        /\ job'[k].nextIndex = job[k].nextIndex
    BY <1>0, <2>2, <2>3 DEF JobDoc
  <2> QED
    BY <1>0, <2>2, <2>3, <2>4
<1>10. ASSUME NEW w \in Worker, DatabaseCallRaises(w) \/ Die(w) \/ Start(w)
       PROVE  Holds(u, k)'
  <2>1. worker'[w].pc \in {"idle", "down"}
    BY <1>0, <1>10 DEF DatabaseCallRaises, Die, Start, Idle
  <2>2. u # w
    BY <2>1
  <2>3. worker'[u] = worker[u] /\ UNCHANGED job
    BY <1>0, <1>10, <2>2 DEF DatabaseCallRaises, Die, Start
  <2> QED
    BY <1>0, <2>3
<1>11. ASSUME NEW j \in Job, LeaseLapses(j) PROVE Holds(u, k)'
  <2>1. Busy(u, k) /\ UNCHANGED worker
    BY <1>11 DEF LeaseLapses
  <2>2. ~\E w \in Worker : RunBy(w, j)
    BY <1>11 DEF LeaseLapses, TypeOK
  <2>3. k # j
    BY <1>0, <2>1, <2>2 DEF RunBy
  <2>4. job'[k] = job[k]
    BY <1>0, <1>11, <2>3 DEF LeaseLapses
  <2> QED
    BY <1>0, <2>1, <2>4
<1>12. CASE UNCHANGED vars \/ \E w \in Worker : Poll(w)
  BY <1>1, <1>12 DEF vars, Poll
<1> QED
  BY <1>1, <1>2, <1>3, <1>4, <1>5, <1>6, <1>7, <1>8, <1>9, <1>10, <1>11, <1>12
     DEF Next, Submit, LoopStep

\* Without overruns a running loop holds the lease of its job and stands at the
\* item the document names next.
THEOREM LeaseHeldWhileRunning ==
    ASSUME MaxOverruns = 0
    PROVE  Spec => []LeaseInv
<1>1. Init => LeaseInv
  BY DEF Init, LeaseInv, Busy, BusyPc, Idle
<1>2. TypeOK /\ SubmitInv /\ LeaseInv /\ [Next]_vars => LeaseInv'
  BY LeaseStep
<1> QED
  BY <1>1, <1>2, TypeCorrect, SubmitSound, PTL DEF Spec

\* Without overruns a job has at most one worker in _run_job, its owner, for any
\* number of workers, jobs, crashes and failed calls.
THEOREM OneRunner ==
    ASSUME MaxOverruns = 0
    PROVE  Spec => []SingleRunner
<1>1. LeaseInv => SingleRunner
  BY LeaseInvHolds, OneHolder DEF SingleRunner, Owns, Holds
<1> QED
  BY <1>1, LeaseHeldWhileRunning, PTL

\* Recording the item at next_index keeps the results in order, each once.
LEMMA RecordedInOrder ==
    ASSUME NEW doc \in JobDoc, NEW ok \in BOOLEAN,
           Len(doc.results) = doc.nextIndex,
           \A k \in DOMAIN doc.results : doc.results[k].index = k - 1
    PROVE  LET new == Recorded(doc, doc.nextIndex, ok) IN
           /\ Len(new.results) = new.nextIndex
           /\ \A k \in DOMAIN new.results : new.results[k].index = k - 1
<1> DEFINE entry == [index |-> doc.nextIndex, ok |-> ok]
           new == Recorded(doc, doc.nextIndex, ok)
<1>1. doc.nextIndex \in Nat /\ doc.results \in Seq(Result)
  BY DEF JobDoc
<1>2. /\ new.results = Append(doc.results, entry)
      /\ new.nextIndex = doc.nextIndex + 1
  BY <1>1, RecordedFields, Zenon
<1>3. entry \in Result /\ entry.index = doc.nextIndex
  BY <1>1 DEF Result
<1> HIDE DEF entry, new
<1>4. /\ Len(new.results) = new.nextIndex
      /\ \A k \in DOMAIN new.results : new.results[k].index = k - 1
  BY <1>1, <1>2, <1>3
<1> QED
  BY <1>4 DEF new

\* Without overruns the results of every job are those of its first next_index
\* items, in order, each once, however often the job was recovered.
THEOREM ResultsExactlyOnce ==
    ASSUME MaxOverruns = 0
    PROVE  Spec => []ExactlyOnce
<1>1. Init => ExactlyOnce
  BY DEF Init, ExactlyOnce, NewDoc
<1>2. TypeOK /\ LeaseInv /\ ExactlyOnce /\ [Next]_vars => ExactlyOnce'
  <2> SUFFICES ASSUME TypeOK, LeaseInv, ExactlyOnce, [Next]_vars, NEW j \in Job
               PROVE  /\ Len(job'[j].results) = job'[j].nextIndex
                      /\ \A k \in DOMAIN job'[j].results : job'[j].results[k].index = k - 1
    BY DEF ExactlyOnce
  <2>1. /\ job[j] \in JobDoc
        /\ Len(job[j].results) = job[j].nextIndex
        /\ \A k \in DOMAIN job[j].results : job[j].results[k].index = k - 1
    BY DEF TypeOK, ExactlyOnce
  <2>2. CASE SameCounts(j)
    BY <2>1, <2>2 DEF SameCounts
  <2>3. CASE RecordsItem(j)
    <3>1. PICK w \in Worker : /\ Busy(w, j)
                             /\ job'[j] = Recorded(job[j], worker[w].idx, worker[w].ok)
      BY <2>3 DEF RecordsItem
    <3>2. worker[w].idx = job[j].nextIndex /\ worker[w].ok \in BOOLEAN
      BY <3>1 DEF LeaseInv, TypeOK, WorkerRec
    <3> QED
      BY <2>1, <3>1, <3>2, RecordedInOrder
  <2> QED
    BY <2>2, <2>3, DocSteps
<1> QED
  BY <1>1, <1>2, TypeCorrect, LeaseHeldWhileRunning, PTL DEF Spec

\* Without overruns a finished job never changes again: no late record, verdict,
\* renewal, claim or submission touches it.
THEOREM FinishedIsFinal ==
    ASSUME MaxOverruns = 0
    PROVE  Spec => TerminalIsFinal
<1>1. TypeOK /\ SubmitInv /\ LeaseInv /\ [Next]_vars =>
        [\A j \in Job : Terminal(j) => job'[j] = job[j]]_vars
  <2> SUFFICES ASSUME TypeOK, SubmitInv, LeaseInv, Next, NEW k \in Job, Terminal(k)
               PROVE  job'[k] = job[k]
    OBVIOUS
  <2>0. /\ job \in [Job -> JobDoc]
        /\ Exists(k) /\ job[k].state # "running" /\ job[k].state # "queued"
        /\ \A w \in Worker : worker[w].pc \in BusyPc => worker[w].job # k
    BY DEF TypeOK, Terminal, Verdicts, Exists, LeaseInv, Owns, Busy
  <2>1. ASSUME NEW j \in Job, Submit(j) PROVE job'[k] = job[k]
    BY <2>0, <2>1 DEF Submit, SubmitFind, SubmitCount, SubmitInsert, SubmitInv
  <2>2. ASSUME NEW j \in Job, LeaseLapses(j) PROVE job'[k] = job[k]
    BY <2>0, <2>2 DEF LeaseLapses
  <2>3. ASSUME NEW w \in Worker, Claim(w) PROVE job'[k] = job[k]
    BY <2>0, <2>3 DEF Claim, Claimable
  <2>4. ASSUME NEW w \in Worker, RecordResult(w) \/ RecordReplyLost(w) \/ Finalize(w)
        PROVE  job'[k] = job[k]
    BY <2>0, <2>4 DEF RecordResult, RecordReplyLost, Finalize, BusyPc
  <2>5. ASSUME NEW w \in Worker, Heartbeat(w) PROVE job'[k] = job[k]
    BY <2>0, <2>5 DEF Heartbeat, BusyPc
  <2>6. ASSUME NEW w \in Worker,
               \/ Poll(w) \/ ProcessItem(w) \/ EndItems(w) \/ ReadBack(w)
               \/ HeartbeatRaises(w) \/ DatabaseCallRaises(w) \/ Die(w) \/ Start(w)
        PROVE  job'[k] = job[k]
    BY <2>6 DEF Poll, ProcessItem, EndItems, ReadBack, HeartbeatRaises, DatabaseCallRaises,
                Die, Start, vars
  <2> QED
    BY <2>1, <2>2, <2>3, <2>4, <2>5, <2>6 DEF Next, LoopStep
<1> QED
  BY <1>1, TypeCorrect, SubmitSound, LeaseHeldWhileRunning, PTL DEF Spec, TerminalIsFinal

-----------------------------------------------------------------------------
(* What a running loop has still to do, without overruns *)

\* next_index stays within the items, an outcome in hand is that of an item
\* not yet recorded, and a verdict in hand is that of the document.
RunInv ==
    /\ \A j \in Job : job[j].nextIndex <= Total[j]
    /\ \A w \in Worker :
         /\ worker[w].pc = "record" => worker[w].idx < Total[worker[w].job]
         /\ worker[w].pc = "write" => worker[w].verdict = VerdictFor(job[worker[w].job])

\* How a loop comes to hold an outcome or a verdict.
KeepsHand(w) ==
    /\ worker'[w].pc = worker[w].pc
    /\ worker'[w].job = worker[w].job
    /\ worker'[w].idx = worker[w].idx
    /\ worker'[w].verdict = worker[w].verdict

TakesItem(w) ==
    /\ worker[w].pc = "items" /\ worker'[w].pc = "record"
    /\ worker[w].idx < Total[worker[w].job]
    /\ worker'[w].job = worker[w].job
    /\ worker'[w].idx = worker[w].idx

TakesVerdict(w) ==
    /\ worker'[w].pc = "write"
    /\ worker'[w].job = worker[w].job
    /\ worker'[w].verdict = VerdictFor(job[worker[w].job])
    /\ UNCHANGED job

LEMMA HandSteps ==
    TypeOK /\ [Next]_vars =>
        \A w \in Worker : worker'[w].pc \in {"record", "write"} =>
            KeepsHand(w) \/ TakesItem(w) \/ TakesVerdict(w)
<1> SUFFICES ASSUME TypeOK, [Next]_vars, NEW w \in Worker,
                    worker'[w].pc \in {"record", "write"}
             PROVE  KeepsHand(w) \/ TakesItem(w) \/ TakesVerdict(w)
  OBVIOUS
<1>0. worker \in [Worker -> WorkerRec] /\ worker[w] \in WorkerRec
  BY DEF TypeOK
<1>1. ASSUME worker'[w] = worker[w] PROVE KeepsHand(w)
  BY <1>1 DEF KeepsHand
<1>2. ASSUME NEW v \in Worker,
             \/ Claim(v) \/ ProcessItem(v) \/ RecordResult(v) \/ RecordReplyLost(v)
             \/ EndItems(v) \/ ReadBack(v) \/ Finalize(v) \/ HeartbeatRaises(v)
             \/ DatabaseCallRaises(v) \/ Die(v) \/ Start(v) \/ Heartbeat(v),
             v # w
      PROVE  worker'[w] = worker[w]
  BY <1>0, <1>2 DEF Claim, ProcessItem, RecordResult, RecordReplyLost, EndItems, ReadBack,
                    Finalize, HeartbeatRaises, DatabaseCallRaises, Die, Start, Heartbeat
<1>3. CASE ProcessItem(w)
  BY <1>0, <1>3 DEF ProcessItem, TakesItem, WorkerRec
<1>4. CASE ReadBack(w)
  <2>1. worker'[w] = [worker[w] EXCEPT !.pc = "write", !.verdict = VerdictFor(job[worker[w].job])]
    BY <1>0, <1>4 DEF ReadBack
  <2> QED
    BY <1>0, <1>4, <2>1 DEF ReadBack, TakesVerdict, WorkerRec
<1>5. ~Claim(w) /\ ~RecordResult(w)
  <2>1. ASSUME Claim(w) PROVE worker'[w].pc = "items"
    <3>1. PICK j \in Job :
            worker' = [worker EXCEPT ![w] =
                         [@ EXCEPT !.pc = "items", !.job = j, !.idx = ResumeIndex(job[j]),
                                   !.lost = FALSE, !.heartbeat = "alive"]]
      BY <2>1 DEF Claim
    <3> QED
      BY <1>0, <3>1 DEF WorkerRec
  <2>2. ASSUME RecordResult(w) PROVE worker'[w].pc = "items"
    BY <1>0, <2>2 DEF RecordResult, WorkerRec
  <2> QED
    BY <2>1, <2>2
<1>6. ~(RecordReplyLost(w) \/ Finalize(w) \/ DatabaseCallRaises(w) \/ Die(w) \/ Start(w))
  <2>1. Idle.pc = "idle" /\ [Idle EXCEPT !.pc = "down"].pc = "down"
    BY DEF Idle
  <2> QED
    BY <1>0, <2>1 DEF RecordReplyLost, Finalize, DatabaseCallRaises, Die, Start
<1>7. ~EndItems(w)
  <2>1. ASSUME EndItems(w) PROVE worker'[w].pc \in {"idle", "finish"}
    <3>1. \/ worker'[w] = Idle
          \/ worker'[w] = [worker[w] EXCEPT !.pc = "finish", !.heartbeat = "returned"]
      BY <1>0, <2>1 DEF EndItems
    <3>2. Idle.pc = "idle"
      BY DEF Idle
    <3>3. [worker[w] EXCEPT !.pc = "finish", !.heartbeat = "returned"].pc = "finish"
      BY <1>0 DEF WorkerRec
    <3> QED
      BY <3>1, <3>2, <3>3
  <2> QED
    BY <2>1
<1>8. CASE HeartbeatRaises(w)
  BY <1>0, <1>8 DEF HeartbeatRaises, KeepsHand, WorkerRec
<1>9. CASE Heartbeat(w)
  <2>1. CASE UNCHANGED worker
    BY <1>1, <2>1
  <2>2. CASE worker' = [worker EXCEPT ![w] = [@ EXCEPT !.lost = TRUE, !.heartbeat = "returned"]]
    BY <1>0, <2>2 DEF KeepsHand, WorkerRec
  <2> QED
    BY <1>9, <2>1, <2>2 DEF Heartbeat
<1>10. ASSUME \/ \E j \in Job : Submit(j) \/ LeaseLapses(j)
              \/ \E v \in Worker : Poll(v)
              \/ UNCHANGED vars
       PROVE  worker'[w] = worker[w]
  BY <1>10 DEF Submit, SubmitFind, SubmitCount, SubmitInsert, LeaseLapses, Poll, vars
<1> QED
  BY <1>1, <1>2, <1>3, <1>4, <1>5, <1>6, <1>7, <1>8, <1>9, <1>10 DEF Next, LoopStep

\* Recording moves next_index past the item recorded.
LEMMA RecordedNext ==
    ASSUME TypeOK, NEW k \in Job, NEW w \in Worker,
           job'[k] = Recorded(job[k], worker[w].idx, worker[w].ok)
    PROVE  /\ job'[k].nextIndex = worker[w].idx + 1
           /\ job'[k].state = job[k].state
           /\ job'[k].results = Append(job[k].results,
                                       [index |-> worker[w].idx, ok |-> worker[w].ok])
<1> DEFINE new == Recorded(job[k], worker[w].idx, worker[w].ok)
<1>1. job[k] \in JobDoc /\ worker[w].idx \in Nat /\ worker[w].ok \in BOOLEAN
  BY DEF TypeOK, WorkerRec
<1>2. /\ new.nextIndex = worker[w].idx + 1
      /\ new.state = job[k].state
      /\ new.results = Append(job[k].results, [index |-> worker[w].idx, ok |-> worker[w].ok])
  BY <1>1, RecordedFields, Zenon
<1> HIDE DEF new
<1>3. job'[k] = new
  BY DEF new
<1> QED
  BY <1>2, <1>3

LEMMA RunStep == TypeOK /\ LeaseInv /\ RunInv /\ [Next]_vars => RunInv'
<1> SUFFICES ASSUME TypeOK, LeaseInv, RunInv, [Next]_vars PROVE RunInv'
  OBVIOUS
<1>0. \A w \in Worker : worker[w].job \in Job /\ worker[w].idx \in Nat /\ worker[w].ok \in BOOLEAN
  BY DEF TypeOK, WorkerRec
<1>1. ASSUME NEW j \in Job PROVE job'[j].nextIndex <= Total[j]
  <2>1. CASE SameCounts(j)
    BY <2>1 DEF SameCounts, RunInv
  <2>2. CASE RecordsItem(j)
    <3>1. PICK w \in Worker : /\ Busy(w, j) /\ worker[w].pc = "record"
                              /\ job'[j] = Recorded(job[j], worker[w].idx, worker[w].ok)
      BY <2>2 DEF RecordsItem
    <3>2. job'[j].nextIndex = worker[w].idx + 1
      BY <3>1, RecordedNext
    <3>3. worker[w].idx < Total[j]
      BY <3>1 DEF RunInv, Busy
    <3> QED
      BY <1>0, <3>2, <3>3, BatchConstants
  <2> QED
    BY <2>1, <2>2, DocSteps
<1>2. ASSUME NEW w \in Worker, worker'[w].pc = "record"
      PROVE  worker'[w].idx < Total[worker'[w].job]
  BY <1>2, HandSteps DEF KeepsHand, TakesItem, TakesVerdict, RunInv
<1>3. ASSUME NEW w \in Worker, worker'[w].pc = "write"
      PROVE  worker'[w].verdict = VerdictFor(job'[worker'[w].job])
  <2>1. CASE TakesVerdict(w)
    BY <2>1 DEF TakesVerdict
  <2>2. CASE KeepsHand(w)
    <3> DEFINE k == worker[w].job
    <3>1. worker[w].pc = "write" /\ k \in Job /\ Busy(w, k)
      BY <1>0, <1>3, <2>2 DEF KeepsHand, Busy, BusyPc
    <3>2. ~RecordsItem(k)
      BY <3>1, OneHolder DEF RecordsItem
    <3>3. SameCounts(k)
      BY <3>1, <3>2, DocSteps
    <3> QED
      BY <2>2, <3>1, <3>3 DEF SameCounts, VerdictFor, KeepsHand, RunInv
  <2> QED
    BY <1>3, <2>1, <2>2, HandSteps DEF TakesItem
<1> QED
  BY <1>1, <1>2, <1>3 DEF RunInv

LEMMA RunSound == ASSUME MaxOverruns = 0 PROVE Spec => []RunInv
<1>1. Init => RunInv
  BY BatchConstants DEF Init, RunInv, NewDoc, Idle
<1> QED
  BY <1>1, RunStep, TypeCorrect, LeaseHeldWhileRunning, PTL DEF Spec

-----------------------------------------------------------------------------
(* Repeated executions *)

\* Some worker holds an outcome of job j it has not recorded.
InHand(j) == \E w \in Worker : worker[w].pc = "record" /\ worker[w].job = j

\* Every execution is behind next_index, in hand, or paid for.
PaidFor ==
    \A j \in Job :
        executed[j] <= job[j].nextIndex + (IF InHand(j) THEN 1 ELSE 0) + crashes + faults

\* An outcome in hand is dropped only for a crash or a failed call.
LEMMA Drops ==
    TypeOK /\ [Next]_vars =>
        /\ crashes' >= crashes /\ faults' >= faults
        /\ \/ crashes' + faults' > crashes + faults
           \/ \A v \in Worker : worker[v].pc = "record" =>
                \/ worker'[v].pc = "record" /\ worker'[v].job = worker[v].job
                \/ RecordResult(v)
<1> DEFINE Kept(v) == worker'[v].pc = "record" /\ worker'[v].job = worker[v].job
<1> SUFFICES ASSUME TypeOK, [Next]_vars
             PROVE  /\ crashes' >= crashes /\ faults' >= faults
                    /\ \/ crashes' + faults' > crashes + faults
                       \/ \A v \in Worker : worker[v].pc = "record" => Kept(v) \/ RecordResult(v)
  OBVIOUS
<1>0. worker \in [Worker -> WorkerRec] /\ crashes \in Nat /\ faults \in Nat
  BY DEF TypeOK
<1>1. CASE UNCHANGED <<worker, crashes, faults>>
  BY <1>0, <1>1
<1>2. ASSUME NEW w \in Worker,
             \/ Claim(w) \/ ProcessItem(w) \/ EndItems(w) \/ ReadBack(w) \/ Finalize(w) \/ Start(w)
      PROVE  /\ UNCHANGED <<crashes, faults>>
             /\ \A v \in Worker : worker[v].pc = "record" => Kept(v)
  BY <1>0, <1>2 DEF Claim, ProcessItem, EndItems, ReadBack, Finalize, Start
<1>3. ASSUME NEW w \in Worker, RecordResult(w)
      PROVE  /\ UNCHANGED <<crashes, faults>>
             /\ \A v \in Worker : worker[v].pc = "record" => Kept(v) \/ RecordResult(v)
  <2>1. \A v \in Worker \ {w} : worker'[v] = worker[v]
    BY <1>0, <1>3 DEF RecordResult
  <2> QED
    BY <1>3, <2>1 DEF RecordResult
<1>4. ASSUME NEW w \in Worker,
             RecordReplyLost(w) \/ HeartbeatRaises(w) \/ DatabaseCallRaises(w) \/ Die(w)
      PROVE  /\ crashes' >= crashes /\ faults' >= faults
             /\ crashes' + faults' > crashes + faults
  BY <1>0, <1>4 DEF RecordReplyLost, HeartbeatRaises, DatabaseCallRaises, Die
<1>5. ASSUME NEW w \in Worker, Heartbeat(w)
      PROVE  /\ UNCHANGED <<crashes, faults>>
             /\ \A v \in Worker : worker[v].pc = "record" => Kept(v)
  <2>1. CASE UNCHANGED worker
    BY <1>5, <2>1 DEF Heartbeat
  <2>2. CASE worker' = [worker EXCEPT ![w] = [@ EXCEPT !.lost = TRUE, !.heartbeat = "returned"]]
    BY <1>0, <1>5, <2>2 DEF Heartbeat, WorkerRec
  <2> QED
    BY <1>5, <2>1, <2>2 DEF Heartbeat
<1>6. ASSUME \/ \E j \in Job : Submit(j) \/ LeaseLapses(j)
             \/ \E w \in Worker : Poll(w)
             \/ UNCHANGED vars
      PROVE  UNCHANGED <<worker, crashes, faults>>
  BY <1>6 DEF Submit, SubmitFind, SubmitCount, SubmitInsert, LeaseLapses, Poll, vars
<1> HIDE DEF Kept
<1> QED
  BY <1>0, <1>1, <1>2, <1>3, <1>4, <1>5, <1>6 DEF Next, LoopStep

LEMMA Executions ==
    TypeOK /\ [Next]_vars =>
        \A k \in Job :
            \/ executed'[k] = executed[k]
            \/ /\ executed'[k] = executed[k] + 1
               /\ \E w \in Worker : ProcessItem(w) /\ worker[w].job = k
<1> SUFFICES ASSUME TypeOK, [Next]_vars, NEW k \in Job
             PROVE  \/ executed'[k] = executed[k]
                    \/ /\ executed'[k] = executed[k] + 1
                       /\ \E w \in Worker : ProcessItem(w) /\ worker[w].job = k
  OBVIOUS
<1>1. CASE UNCHANGED executed
  BY <1>1
<1>2. ASSUME NEW w \in Worker, ProcessItem(w)
      PROVE  \/ executed'[k] = executed[k]
             \/ executed'[k] = executed[k] + 1 /\ worker[w].job = k
  BY <1>2 DEF ProcessItem, TypeOK
<1> QED
  BY <1>1, <1>2 DEF Next, vars, LoopStep, Submit, SubmitFind, SubmitCount, SubmitInsert,
     LeaseLapses, Claim, RecordResult, EndItems, ReadBack, Finalize, Poll, Heartbeat,
     RecordReplyLost, HeartbeatRaises, DatabaseCallRaises, Die, Start

LEMMA PaidStep == TypeOK /\ LeaseInv /\ PaidFor /\ [Next]_vars => PaidFor'
<1> SUFFICES ASSUME TypeOK, LeaseInv, PaidFor, [Next]_vars, NEW k \in Job
             PROVE  executed'[k] <= job'[k].nextIndex + (IF InHand(k)' THEN 1 ELSE 0)
                                      + crashes' + faults'
  BY DEF PaidFor
<1> DEFINE hand  == IF InHand(k) THEN 1 ELSE 0
           hand2 == IF InHand(k)' THEN 1 ELSE 0
<1>0. /\ executed[k] \in Nat /\ job[k].nextIndex \in Nat /\ crashes \in Nat /\ faults \in Nat
      /\ crashes' \in Nat /\ faults' \in Nat /\ crashes' >= crashes /\ faults' >= faults
      /\ executed[k] <= job[k].nextIndex + hand + crashes + faults
      /\ \A w \in Worker : worker[w].idx \in Nat /\ worker[w].ok \in BOOLEAN
  BY TypeStep, Drops DEF TypeOK, JobDoc, WorkerRec, PaidFor
<1>1. \/ SameCounts(k) /\ job'[k].nextIndex = job[k].nextIndex
      \/ job'[k].nextIndex = job[k].nextIndex + 1
  <2>1. CASE RecordsItem(k)
    <3>1. PICK w \in Worker : /\ Busy(w, k)
                              /\ job'[k] = Recorded(job[k], worker[w].idx, worker[w].ok)
      BY <2>1 DEF RecordsItem
    <3>2. job'[k].nextIndex = worker[w].idx + 1
      BY <3>1, RecordedNext
    <3> QED
      BY <3>1, <3>2 DEF LeaseInv
  <2> QED
    BY <2>1, DocSteps DEF SameCounts
<1>2. ASSUME NEW w \in Worker, ProcessItem(w), worker[w].job = k
      PROVE  ~InHand(k) /\ InHand(k)'
  <2>1. Busy(w, k) /\ worker[w].pc = "items"
    BY <1>2 DEF ProcessItem, Busy, BusyPc
  <2>2. ~InHand(k)
    BY <2>1, OneHolder DEF InHand, Busy, BusyPc
  <2>3. worker'[w].pc = "record" /\ worker'[w].job = k
    BY <1>2 DEF ProcessItem, TypeOK, WorkerRec
  <2> QED
    BY <2>2, <2>3 DEF InHand
<1>3. ASSUME NEW w \in Worker, RecordResult(w), worker[w].job = k
      PROVE  job'[k].nextIndex = job[k].nextIndex + 1
  <2>1. job'[k] = Recorded(job[k], worker[w].idx, worker[w].ok)
    BY <1>3 DEF RecordResult, TypeOK
  <2>2. job'[k].nextIndex = worker[w].idx + 1
    BY <2>1, RecordedNext
  <2>3. Busy(w, k)
    BY <1>3 DEF RecordResult, Busy, BusyPc
  <2> QED
    BY <2>2, <2>3 DEF LeaseInv
<1>4. \/ crashes' + faults' > crashes + faults
      \/ job'[k].nextIndex = job[k].nextIndex + 1
      \/ InHand(k) => InHand(k)'
  BY <1>3, Drops DEF InHand
<1>5. \/ executed'[k] = executed[k]
      \/ executed'[k] = executed[k] + 1 /\ ~InHand(k) /\ InHand(k)'
  BY <1>2, Executions
<1>6. job'[k].nextIndex >= job[k].nextIndex /\ job'[k].nextIndex \in Nat
  BY <1>0, <1>1
<1>7. /\ hand \in {0, 1} /\ hand2 \in {0, 1}
      /\ InHand(k) => hand = 1
      /\ ~InHand(k) => hand = 0
      /\ InHand(k)' => hand2 = 1
  OBVIOUS
<1>8. \/ executed'[k] = executed[k] /\ (crashes' + faults' > crashes + faults
                                        \/ job'[k].nextIndex = job[k].nextIndex + 1)
      \/ executed'[k] = executed[k] /\ hand <= hand2
      \/ executed'[k] = executed[k] + 1 /\ hand = 0 /\ hand2 = 1
  <2> HIDE DEF hand, hand2
  <2>1. (InHand(k) => InHand(k)') => hand <= hand2
    BY <1>7
  <2> QED
    BY <1>4, <1>5, <1>7, <2>1
<1> HIDE DEF hand, hand2
<1>9. executed'[k] <= job'[k].nextIndex + hand2 + crashes' + faults'
  <2>1. /\ executed[k] \in Nat /\ job[k].nextIndex \in Nat /\ crashes \in Nat /\ faults \in Nat
        /\ crashes' \in Nat /\ faults' \in Nat /\ crashes' >= crashes /\ faults' >= faults
        /\ executed[k] <= job[k].nextIndex + hand + crashes + faults
    BY <1>0
  <2>2. CASE executed'[k] = executed[k] /\ crashes' + faults' > crashes + faults
    BY <1>6, <1>7, <2>1, <2>2
  <2>3. CASE executed'[k] = executed[k] /\ job'[k].nextIndex = job[k].nextIndex + 1
    BY <1>6, <1>7, <2>1, <2>3
  <2>4. CASE executed'[k] = executed[k] /\ hand <= hand2
    BY <1>6, <1>7, <2>1, <2>4
  <2>5. CASE executed'[k] = executed[k] + 1 /\ hand = 0 /\ hand2 = 1
    BY <1>6, <1>7, <2>1, <2>5
  <2> QED
    BY <1>8, <2>2, <2>3, <2>4, <2>5
<1> QED
  BY <1>9 DEF hand2

\* Without overruns recovery repeats only the item in flight: each execution of
\* a job beyond one per item is paid for by a crash or a failed database call.
THEOREM RerunsBounded == ASSUME MaxOverruns = 0 PROVE Spec => []RerunsPaidFor
<1>1. Init => PaidFor
  BY DEF Init, PaidFor, NewDoc, InHand, Idle
<1>2. TypeOK /\ LeaseInv /\ RunInv /\ PaidFor => RerunsPaidFor
  <2> SUFFICES ASSUME TypeOK, LeaseInv, RunInv, PaidFor, NEW j \in Job
               PROVE  executed[j] <= Total[j] + crashes + faults
    BY DEF RerunsPaidFor
  <2>0. /\ executed[j] \in Nat /\ job[j].nextIndex \in Nat /\ crashes \in Nat /\ faults \in Nat
        /\ Total[j] \in Nat /\ job[j].nextIndex <= Total[j]
        /\ executed[j] <= job[j].nextIndex + (IF InHand(j) THEN 1 ELSE 0) + crashes + faults
    BY BatchConstants DEF TypeOK, JobDoc, RunInv, PaidFor
  <2>1. InHand(j) => job[j].nextIndex < Total[j]
    BY DEF InHand, LeaseInv, RunInv, Busy, BusyPc
  <2> QED
    BY <2>0, <2>1
<1> QED
  BY <1>1, <1>2, PaidStep, TypeCorrect, LeaseHeldWhileRunning, RunSound, PTL DEF Spec

-----------------------------------------------------------------------------
(* The lifecycle a caller is promised *)

\* The document of job j as the caller of the lifecycle sees it.
PhaseOf(doc)    == IF doc.state \in {"queued", "running"} THEN "open" ELSE doc.state
OutcomesOf(doc) == [k \in DOMAIN doc.results |-> doc.results[k].ok]

LEMMA LifecycleBegins ==
    ASSUME \A j \in Job : PhaseOf(job[j]) = "absent" /\ OutcomesOf(job[j]) = <<>>
    PROVE  Lifecycle!LInit
BY DEF Lifecycle!LInit, PhaseOf, OutcomesOf, Active

LEMMA LifecycleStutters ==
    ASSUME \A j \in Job : /\ PhaseOf(job'[j]) = PhaseOf(job[j])
                          /\ OutcomesOf(job'[j]) = OutcomesOf(job[j])
    PROVE  UNCHANGED Lifecycle!lifecycleVars
BY DEF Lifecycle!lifecycleVars, PhaseOf, OutcomesOf, Active

\* What a step may do to one document, as the lifecycle sees it.
Unseen(k) == PhaseOf(job'[k]) = PhaseOf(job[k]) /\ job'[k].results = job[k].results
Opens(k) ==
    /\ PhaseOf(job[k]) = "absent" /\ PhaseOf(job'[k]) = "open"
    /\ job'[k].results = job[k].results
Completes(k) ==
    /\ PhaseOf(job[k]) = "open" /\ PhaseOf(job'[k]) = "open"
    /\ Len(job[k].results) < Total[k]
    /\ \E entry \in Result : job'[k].results = Append(job[k].results, entry)
Closes(k) ==
    /\ PhaseOf(job[k]) = "open" /\ PhaseOf(job'[k]) = VerdictFor(job[k])
    /\ Len(job[k].results) = Total[k]
    /\ job'[k].results = job[k].results

\* The outcomes a caller sees grow by the outcome of the item recorded.
LEMMA OutcomesAppend ==
    ASSUME NEW log \in Seq(Result), NEW entry \in Result
    PROVE  /\ [k \in DOMAIN log |-> log[k].ok] \in Seq(BOOLEAN)
           /\ Len([k \in DOMAIN log |-> log[k].ok]) = Len(log)
           /\ [k \in DOMAIN Append(log, entry) |-> Append(log, entry)[k].ok]
                = Append([k \in DOMAIN log |-> log[k].ok], entry.ok)
<1> DEFINE oks == [k \in DOMAIN log |-> log[k].ok]
           new == Append(log, entry)
           news == [k \in DOMAIN new |-> new[k].ok]
<1>1. /\ Len(log) \in Nat
      /\ DOMAIN log = 1 .. Len(log)
      /\ DOMAIN new = 1 .. Len(log) + 1
      /\ \A k \in 1 .. Len(log) : new[k] = log[k] /\ log[k] \in Result
      /\ new[Len(log) + 1] = entry
  OBVIOUS
<1>2. oks = [k \in 1 .. Len(log) |-> log[k].ok]
  BY <1>1
<1>3. \A k \in 1 .. Len(log) : log[k].ok \in BOOLEAN
  BY <1>1 DEF Result
<1>4. oks \in Seq(BOOLEAN) /\ Len(oks) = Len(log)
  BY <1>1, <1>2, <1>3
<1>5. entry.ok \in BOOLEAN
  BY DEF Result
<1>6. news = [k \in 1 .. Len(log) + 1 |-> new[k].ok]
  BY <1>1
<1>7. news \in Seq(BOOLEAN) /\ Len(news) = Len(log) + 1
  <2>1. \A k \in 1 .. Len(log) + 1 : new[k].ok \in BOOLEAN
    BY <1>1, <1>3, <1>5
  <2> QED
    BY <1>1, <1>6, <2>1
<1>8. \A k \in 1 .. Len(log) + 1 : news[k] = IF k <= Len(log) THEN oks[k] ELSE entry.ok
  BY <1>1, <1>2, <1>6
<1> HIDE DEF oks, new, news
<1>9. news = Append(oks, entry.ok)
  BY <1>1, <1>4, <1>5, <1>7, <1>8
<1> QED
  BY <1>4, <1>9 DEF oks, new, news

\* The verdict computed from the counters is the one the outcomes deserve.
LEMMA VerdictDeserved ==
    ASSUME NEW doc \in JobDoc, CountersMatch(doc)
    PROVE  VerdictFor(doc) = Lifecycle!VerdictOf(OutcomesOf(doc))
<1> DEFINE log == doc.results
           oks == OutcomesOf(doc)
<1>1. log \in Seq(Result) /\ DOMAIN log = 1 .. Len(log) /\ Len(log) \in Nat
  BY DEF JobDoc
<1>2. /\ DOMAIN oks = DOMAIN log
      /\ \A k \in DOMAIN log : oks[k] = log[k].ok /\ log[k].ok \in BOOLEAN
  <2>1. \A k \in DOMAIN log : log[k] \in Result
    BY <1>1
  <2>2. \A k \in DOMAIN log : log[k].ok \in BOOLEAN
    BY <2>1 DEF Result
  <2> QED
    BY <2>2, Zenon DEF OutcomesOf
<1>3. IsFiniteSet(OkResults(log)) /\ IsFiniteSet(FailedResults(log))
  <2>1. IsFiniteSet(DOMAIN log)
    BY <1>1, FS_Interval
  <2>2. OkResults(log) \subseteq DOMAIN log /\ FailedResults(log) \subseteq DOMAIN log
    BY DEF OkResults, FailedResults
  <2> HIDE DEF log
  <2> QED
    BY <2>1, <2>2, FS_Subset
<1>4. /\ doc.succeeded = 0 <=> OkResults(log) = {}
      /\ doc.failed = 0 <=> FailedResults(log) = {}
  BY <1>3, FS_EmptySet DEF CountersMatch
<1>5. /\ OkResults(log) = {} <=> ~\E k \in DOMAIN oks : oks[k]
      /\ FailedResults(log) = {} <=> \A k \in DOMAIN oks : oks[k]
  BY <1>2, Zenon DEF OkResults, FailedResults
<1> HIDE DEF log, oks
<1>6. VerdictFor(doc) = Lifecycle!VerdictOf(oks)
  BY <1>4, <1>5, Zenon DEF VerdictFor, Lifecycle!VerdictOf
<1> QED
  BY <1>6 DEF oks

\* A step that touches one document the way the lifecycle foresees is a step of
\* the lifecycle.
LEMMA LifecycleStep ==
    ASSUME TypeOK, CountersMatchResults, NEW j \in Job, \A k \in Job \ {j} : Unseen(k),
           Opens(j) \/ Completes(j) \/ Closes(j)
    PROVE  Lifecycle!LNext
<1> DEFINE phase == [k \in Job |-> PhaseOf(job[k])]
           outs == [k \in Job |-> OutcomesOf(job[k])]
           phase2 == [k \in Job |-> PhaseOf(job'[k])]
           outs2 == [k \in Job |-> OutcomesOf(job'[k])]
<1>0. job[j] \in JobDoc /\ job[j].results \in Seq(Result)
  BY DEF TypeOK, JobDoc
<1>1. \A k \in Job \ {j} : phase2[k] = phase[k] /\ outs2[k] = outs[k]
  BY DEF Unseen, OutcomesOf
<1>2. /\ phase2 = [phase EXCEPT ![j] = PhaseOf(job'[j])]
      /\ outs2 = [outs EXCEPT ![j] = OutcomesOf(job'[j])]
  BY <1>1
<1>3. CASE Opens(j)
  <2>1. phase[j] = "absent" /\ phase2 = [phase EXCEPT ![j] = "open"] /\ outs2 = outs
    BY <1>1, <1>2, <1>3 DEF Opens, OutcomesOf
  <2>2. Lifecycle!Open(j)
    BY <2>1, Zenon DEF Lifecycle!Open, PhaseOf, OutcomesOf, Active
  <2> QED
    BY <2>2 DEF Lifecycle!LNext
<1>4. CASE Completes(j)
  <2>1. PICK entry \in Result : job'[j].results = Append(job[j].results, entry)
    BY <1>4 DEF Completes
  <2>2. /\ phase[j] = "open" /\ phase2 = phase
        /\ Len(outs[j]) < Total[j]
        /\ outs2 = [outs EXCEPT ![j] = Append(@, entry.ok)]
    <3>1. /\ OutcomesOf(job'[j]) = Append(OutcomesOf(job[j]), entry.ok)
          /\ Len(OutcomesOf(job[j])) = Len(job[j].results)
      BY <1>0, <2>1, OutcomesAppend DEF OutcomesOf
    <3> QED
      BY <1>1, <1>2, <1>4, <3>1 DEF Completes
  <2>3. entry.ok \in BOOLEAN
    BY DEF Result
  <2>4. Lifecycle!Complete(j)
    BY <2>2, <2>3, Zenon DEF Lifecycle!Complete, PhaseOf, OutcomesOf, Active
  <2> QED
    BY <2>4 DEF Lifecycle!LNext
<1>5. CASE Closes(j)
  <2>1. /\ phase[j] = "open" /\ outs2 = outs
        /\ Len(outs[j]) = Total[j]
        /\ phase2 = [phase EXCEPT ![j] = Lifecycle!VerdictOf(outs[j])]
    <3>1. Len(OutcomesOf(job[j])) = Len(job[j].results)
      BY <1>0, OutcomesAppend DEF OutcomesOf, Result
    <3>2. PhaseOf(job'[j]) = Lifecycle!VerdictOf(OutcomesOf(job[j]))
      BY <1>0, <1>5, VerdictDeserved DEF Closes, CountersMatchResults
    <3>3. OutcomesOf(job'[j]) = OutcomesOf(job[j])
      BY <1>5 DEF Closes, OutcomesOf
    <3> QED
      BY <1>1, <1>2, <1>5, <3>1, <3>2, <3>3 DEF Closes
  <2>2. Lifecycle!Close(j)
    BY <2>1, Zenon DEF Lifecycle!Close, PhaseOf, OutcomesOf, Active
  <2> QED
    BY <2>2 DEF Lifecycle!LNext
<1> QED
  BY <1>3, <1>4, <1>5

\* Every step opens, completes or closes one job, or is not seen.
LEMMA LifecycleSteps ==
    TypeOK /\ SubmitInv /\ ResumeInv /\ LeaseInv /\ RunInv /\ ExactlyOnce /\ [Next]_vars =>
        \/ \A k \in Job : Unseen(k)
        \/ \E j \in Job : /\ \A k \in Job \ {j} : Unseen(k)
                          /\ Opens(j) \/ Completes(j) \/ Closes(j)
<1> SUFFICES ASSUME TypeOK, SubmitInv, ResumeInv, LeaseInv, RunInv, ExactlyOnce, [Next]_vars
             PROVE  \/ \A k \in Job : Unseen(k)
                    \/ \E j \in Job : /\ \A k \in Job \ {j} : Unseen(k)
                                      /\ Opens(j) \/ Completes(j) \/ Closes(j)
  OBVIOUS
<1>0. /\ job \in [Job -> JobDoc]
      /\ \A w \in Worker : /\ worker[w].job \in Job /\ worker[w].idx \in Nat
                           /\ worker[w].ok \in BOOLEAN /\ worker[w].verdict \in Verdicts
      /\ \A k \in Job : Len(job[k].results) = job[k].nextIndex
  BY DEF TypeOK, WorkerRec, ExactlyOnce
<1>1. ASSUME NEW k \in Job, job'[k] = job[k] PROVE Unseen(k)
  BY <1>1 DEF Unseen
<1>2. ASSUME UNCHANGED job PROVE \A k \in Job : Unseen(k)
  BY <1>1, <1>2
\* The documents other than the one a step writes.
<1>3. ASSUME NEW j \in Job, NEW doc, job' = [job EXCEPT ![j] = doc]
      PROVE  (\A k \in Job \ {j} : Unseen(k)) /\ job'[j] = doc
  BY <1>0, <1>1, <1>3
<1>4. ASSUME NEW j \in Job, SubmitInsert(j)
      PROVE  \/ \A k \in Job : Unseen(k)
             \/ (\A k \in Job \ {j} : Unseen(k)) /\ Opens(j)
  <2>1. CASE UNCHANGED job
    BY <1>2, <2>1
  <2>2. CASE job' = [job EXCEPT ![j].state = "queued"]
    <3>1. job[j].state = "absent"
      BY <1>4 DEF SubmitInsert, SubmitInv, Exists
    <3>2. job'[j] = [job[j] EXCEPT !.state = "queued"] /\ \A k \in Job \ {j} : Unseen(k)
      BY <1>0, <1>1, <2>2
    <3> QED
      BY <1>0, <3>1, <3>2 DEF Opens, PhaseOf, JobDoc
  <2> QED
    BY <1>4, <2>1, <2>2 DEF SubmitInsert
<1>5. ASSUME NEW j \in Job, NEW lease, job[j].state = "running",
             job' = [job EXCEPT ![j].lease = lease]
      PROVE  \A k \in Job : Unseen(k)
  <2>1. job'[j].state = job[j].state /\ job'[j].results = job[j].results
    BY <1>0, <1>5 DEF JobDoc
  <2>2. \A k \in Job \ {j} : job'[k] = job[k]
    BY <1>0, <1>5
  <2> QED
    BY <1>1, <2>1, <2>2 DEF Unseen, PhaseOf
<1>6. ASSUME NEW w \in Worker, Claim(w) PROVE \A k \in Job : Unseen(k)
  <2>1. PICK j \in Job : Claimable(j) /\ job' = [job EXCEPT ![j] = Claimed(@, w)]
    BY <1>6 DEF Claim
  <2>2. job'[j].state = "running" /\ job'[j].results = job[j].results
    BY <1>0, <2>1 DEF Claimed, JobDoc
  <2>3. \A k \in Job \ {j} : job'[k] = job[k]
    BY <1>0, <2>1
  <2> QED
    BY <1>1, <2>1, <2>2, <2>3 DEF Unseen, PhaseOf, Claimable
<1>7. ASSUME NEW w \in Worker, RecordResult(w) \/ RecordReplyLost(w)
      PROVE  LET j == worker[w].job
             IN  (\A k \in Job \ {j} : Unseen(k)) /\ Completes(j)
  <2> DEFINE j == worker[w].job
  <2>1. /\ job' = [job EXCEPT ![j] = Recorded(@, worker[w].idx, worker[w].ok)]
        /\ worker[w].pc = "record" /\ j \in Job
    BY <1>0, <1>7 DEF RecordResult, RecordReplyLost
  <2>2. Busy(w, j)
    BY <2>1 DEF Busy, BusyPc
  <2>3. /\ job[j].state = "running" /\ worker[w].idx = job[j].nextIndex
        /\ worker[w].idx < Total[j]
    BY <2>1, <2>2 DEF LeaseInv, Owns, RunInv
  <2>4. (\A k \in Job \ {j} : job'[k] = job[k])
        /\ job'[j] = Recorded(job[j], worker[w].idx, worker[w].ok)
    BY <1>0, <2>1
  <2>5. /\ job'[j].state = job[j].state
        /\ job'[j].results = Append(job[j].results, [index |-> worker[w].idx, ok |-> worker[w].ok])
    BY <2>1, <2>4, RecordedNext
  <2>6. [index |-> worker[w].idx, ok |-> worker[w].ok] \in Result
    BY <1>0 DEF Result
  <2>7. Len(job[j].results) < Total[j]
    BY <1>0, <2>1, <2>3
  <2> HIDE DEF j
  <2>8. Completes(j)
    BY <2>3, <2>5, <2>6, <2>7 DEF Completes, PhaseOf
  <2> QED
    BY <1>1, <2>4, <2>8 DEF j
<1>8. ASSUME NEW w \in Worker, Finalize(w)
      PROVE  LET j == worker[w].job
             IN  (\A k \in Job \ {j} : Unseen(k)) /\ Closes(j)
  <2> DEFINE j == worker[w].job
  <2>1. /\ job' = [job EXCEPT ![j] = Finalized(@, worker[w].verdict)]
        /\ worker[w].pc = "write" /\ j \in Job
    BY <1>0, <1>8 DEF Finalize
  <2>2. Busy(w, j)
    BY <2>1 DEF Busy, BusyPc
  <2>3. /\ job[j].state = "running" /\ worker[w].idx = job[j].nextIndex
        /\ worker[w].verdict = VerdictFor(job[j])
    BY <2>1, <2>2 DEF LeaseInv, Owns, RunInv
  <2>4. worker[w].idx >= Total[j] /\ job[j].nextIndex <= Total[j] /\ Total[j] \in Nat
    BY <2>1, BatchConstants DEF ResumeInv, RunInv
  <2>5. Len(job[j].results) = Total[j]
    BY <1>0, <2>1, <2>3, <2>4
  <2>6. (\A k \in Job \ {j} : job'[k] = job[k]) /\ job'[j] = Finalized(job[j], worker[w].verdict)
    BY <1>0, <2>1
  <2>7. job'[j].state = worker[w].verdict /\ job'[j].results = job[j].results
    BY <1>0, <2>1, <2>6 DEF Finalized, JobDoc
  <2>8. PhaseOf(job'[j]) = worker[w].verdict
    BY <1>0, <2>7 DEF PhaseOf, Verdicts
  <2> HIDE DEF j
  <2>9. Closes(j)
    BY <2>3, <2>5, <2>7, <2>8 DEF Closes, PhaseOf
  <2> QED
    BY <1>1, <2>6, <2>9 DEF j
<1>9. ASSUME NEW w \in Worker, Heartbeat(w) PROVE \A k \in Job : Unseen(k)
  BY <1>0, <1>2, <1>5, <1>9 DEF Heartbeat, Owns
<1>10. ASSUME NEW j \in Job, LeaseLapses(j) PROVE \A k \in Job : Unseen(k)
  BY <1>5, <1>10 DEF LeaseLapses
<1>11. ASSUME \/ \E j \in Job : SubmitFind(j) \/ SubmitCount(j)
              \/ \E w \in Worker :
                   \/ Poll(w) \/ ProcessItem(w) \/ EndItems(w) \/ ReadBack(w)
                   \/ HeartbeatRaises(w) \/ DatabaseCallRaises(w) \/ Die(w) \/ Start(w)
              \/ UNCHANGED vars
       PROVE  UNCHANGED job
  BY <1>11 DEF SubmitFind, SubmitCount, Poll, ProcessItem, EndItems, ReadBack,
               HeartbeatRaises, DatabaseCallRaises, Die, Start, vars
<1> QED
  BY <1>0, <1>2, <1>4, <1>6, <1>7, <1>8, <1>9, <1>10, <1>11 DEF Next, Submit, LoopStep

\* Without overruns the workers, leases and recoveries implement the lifecycle a
\* caller is promised: one outcome per item, in order, then one final verdict
\* that the outcomes deserve.
THEOREM LifecycleImplemented == ASSUME MaxOverruns = 0 PROVE Spec => ImplementsLifecycle
<1>1. Init => Lifecycle!LInit
  BY LifecycleBegins DEF Init, NewDoc, PhaseOf, OutcomesOf
<1>2. TypeOK /\ SubmitInv /\ ResumeInv /\ CountersMatchResults /\ LeaseInv /\ RunInv
        /\ ExactlyOnce /\ [Next]_vars
      => [Lifecycle!LNext]_(Lifecycle!lifecycleVars)
  <2> SUFFICES ASSUME TypeOK, SubmitInv, ResumeInv, CountersMatchResults, LeaseInv, RunInv,
                      ExactlyOnce, [Next]_vars
               PROVE  Lifecycle!LNext \/ UNCHANGED Lifecycle!lifecycleVars
    OBVIOUS
  <2>1. CASE \A k \in Job : Unseen(k)
    BY <2>1, LifecycleStutters DEF Unseen, OutcomesOf
  <2>2. ASSUME NEW j \in Job, \A k \in Job \ {j} : Unseen(k),
               Opens(j) \/ Completes(j) \/ Closes(j)
        PROVE  Lifecycle!LNext
    BY <2>2, LifecycleStep
  <2> QED
    BY <2>1, <2>2, LifecycleSteps
<1> QED
  BY <1>1, <1>2, TypeCorrect, SubmitSound, ResumePointerSound, CountersSound,
     LeaseHeldWhileRunning, RunSound, ResultsExactlyOnce, PTL
     DEF Spec, ImplementsLifecycle, Lifecycle!LSpec

=============================================================================
