------------------------- MODULE SecretsManagerStore ------------------------
(***************************************************************************)
(* One principal's credentials in AWS Secrets Manager: a map in one secret *)
(* while it is small, otherwise a manifest that names a generation of      *)
(* shards. Mutations read, change and rewrite the whole map under a lease  *)
(* kept in MongoDB; reads take no lease and retry when a shard is gone;    *)
(* a read of an unencrypted entry schedules its re-encryption.             *)
(*                                                                         *)
(*   registry/secrets/secrets_manager/store.py: SecretsManagerStore        *)
(*   registry/repositories/documentdb/egress_operational_repository.py     *)
(*                                                                         *)
(* Sizes are counted in entries. A generation is named by the mutation     *)
(* that wrote it, each of which commits at most once.                      *)
(***************************************************************************)
EXTENDS Naturals, FiniteSets

CONSTANTS
    Key,        \* the entries a principal may have
    Token,      \* their contents
    NoToken,    \* no entry
    Write,      \* the calls of put_token and delete_token
    Read,       \* the calls of get_token (one key) and list_for_user (all)
    Process,    \* the replicas of the registry
    ProcessOf,  \* [Write \cup Read -> Process]
    KeyOf,      \* [Write -> Key]
    ValueOf,    \* [Write -> Token \cup {NoToken}], NoToken for a deletion
    Asked,      \* the sets of keys a read may ask for: one, or all
    Legacy,     \* [Key -> Token \cup {NoToken}], stored before encryption
    Hash,       \* [Key -> Nat]
    Capacity,   \* target_payload_bytes, in entries
    MaxShards,  \* max_shards
    Retries,    \* _STALE_READ_RETRIES
    Missing,    \* a shard that does not exist
    Nobody,     \* no holder
    MaxFaults,  \* bound: failed calls
    MaxCrashes, \* bound: process deaths
    MaxOverruns \* bound: leases that lapse under a mutation at work

\* Mutations: the writes, and the repair of each entry by each read.
Mutation == Write \cup (Read \X Key)
Bucket == 0 .. MaxShards - 1

ASSUME StoreConstants ==
    /\ IsFiniteSet(Key)
    /\ ProcessOf \in [Write \cup Read -> Process]
    /\ KeyOf \in [Write -> Key]
    /\ ValueOf \in [Write -> Token \cup {NoToken}]
    /\ Asked \subseteq SUBSET Key
    /\ Legacy \in [Key -> Token \cup {NoToken}]
    /\ Hash \in [Key -> Nat]
    /\ Capacity \in Nat \ {0} /\ MaxShards \in Nat \ {0} /\ Retries \in Nat \ {0}
    /\ NoToken \notin Token /\ Nobody \notin Mutation /\ Write \cap (Read \X Key) = {}
    /\ {MaxFaults, MaxCrashes, MaxOverruns} \subseteq Nat

VARIABLES
    root,   \* the principal's secret: nothing, the entries, or a manifest
    shard,  \* [Mutation -> [Bucket -> its entries, or Missing]]
    lease,  \* the lease document: its holder, and whether it is unexpired
    lock,   \* [Process -> the mutation in _local_mutation_lock, or Nobody]
    op,     \* [Mutation -> where it stands]
    read,   \* [Read -> where it stands]
    count   \* the bounded counters

vars == <<root, shard, lease, lock, op, read, count>>

-----------------------------------------------------------------------------
(* Documents *)

Cell     == [token : Token \cup {NoToken}, sealed : BOOLEAN]
Absent   == [token |-> NoToken, sealed |-> FALSE]
Sealed(token) == IF token = NoToken THEN Absent ELSE [token |-> token, sealed |-> TRUE]
Entries  == [Key -> Cell]
Nothing  == [k \in Key |-> Absent]

\* What stands for a shard that is not there is no entry, no shard and no answer.
ASSUME MissingIsNothing ==
    /\ Missing \notin Cell /\ Missing \notin Entries
    /\ \A keys \in Asked : Missing \notin [keys -> Token \cup {NoToken}]

Size(entries) == Cardinality({k \in Key : entries[k] # Absent})

RootDoc == [kind : {"none", "inline", "manifest"}, entries : Entries,
            gen : Mutation \cup {Nobody}, buckets : Nat]
NoRoot == [kind |-> "none", entries |-> Nothing, gen |-> Nobody, buckets |-> 0]
Inline(entries) == [NoRoot EXCEPT !.kind = "inline", !.entries = entries]
Manifest(m, n)  == [NoRoot EXCEPT !.kind = "manifest", !.gen = m, !.buckets = n]
\* Mutant: one bucket too many.
BucketsOf_OffByOne(doc) == IF doc.kind = "manifest" THEN 0 .. doc.buckets ELSE {}
BucketsOf(doc)  == IF doc.kind = "manifest" THEN 0 .. doc.buckets - 1 ELSE {}

Partition(entries, n, b) == [k \in Key |-> IF Hash[k] % n = b THEN entries[k] ELSE Absent]
Fit(entries, n) == \A b \in 0 .. n - 1 : Size(Partition(entries, n, b)) <= Capacity
BucketCounts == {n \in 1 .. MaxShards : \E i \in 0 .. MaxShards : n = 2 ^ i}
FittingCounts(entries) == {n \in BucketCounts : Fit(entries, n)}
BucketCount(entries) == CHOOSE n \in FittingCounts(entries) :
                            \A i \in FittingCounts(entries) : n <= i

\* The root document that commits entries, written by mutation m.
Document(m, entries) ==
    CASE entries = Nothing        -> NoRoot
      [] Size(entries) > Capacity -> Manifest(m, BucketCount(entries))
      [] OTHER                    -> Inline(entries)

\* The entry of k as a reader of doc finds it now.
CellIn(doc, k) ==
    IF doc.kind = "manifest" THEN shard[doc.gen][Hash[k] % doc.buckets][k] ELSE doc.entries[k]
Present(doc, buckets) == \A b \in buckets : shard[doc.gen][b] # Missing
EntriesIn(doc) == [k \in Key |-> CellIn(doc, k)]

-----------------------------------------------------------------------------
(* Actors *)

OpPc   == {"idle", "new", "lease", "root", "plan", "stage", "unstage", "commit",
           "verify", "cleanup", "release", "ok", "failed", "dead"}
\* Inside _mutation_guard with the lease.
Guarded == {"root", "plan", "stage", "unstage", "commit", "verify", "cleanup", "release"}
OpRec  == [pc : OpPc, value : Cell, root : RootDoc, entries : Entries, lost : BOOLEAN,
           err : BOOLEAN, puts : SUBSET Bucket, dels : SUBSET Bucket]
ReadPc == {"root", "shards", "answered", "failed"}
ReadRec == [pc : ReadPc, keys : Asked, root : RootDoc, tries : Nat, answer : Entries]

Home(m)   == IF m \in Write THEN ProcessOf[m] ELSE ProcessOf[m[1]]
Target(m) == IF m \in Write THEN KeyOf[m] ELSE m[2]
Free      == [holder |-> Nobody, live |-> FALSE]

NewOp(pc, cell) == [pc |-> pc, value |-> cell, root |-> NoRoot, entries |-> Nothing,
                    lost |-> FALSE, err |-> FALSE, puts |-> {}, dels |-> {}]
NewRead(keys) == [pc |-> "root", keys |-> keys, root |-> NoRoot, tries |-> 0, answer |-> Nothing]

Counted == {"faults", "crashes", "overruns"}
Bounded(what, max) == count[what] < max /\ count' = [count EXCEPT ![what] = @ + 1]
Fault   == Bounded("faults", MaxFaults)
NoFault == UNCHANGED count

\* The store as it is when encryption is turned on.
Init ==
    /\ LET old == [k \in Key |-> [token |-> Legacy[k], sealed |-> FALSE]]
       IN  root = IF old = Nothing THEN NoRoot ELSE Inline(old)
    /\ shard = [m \in Mutation |-> [b \in Bucket |-> Missing]]
    /\ lease = Free
    /\ lock = [p \in Process |-> Nobody]
    /\ op = [m \in Mutation |-> IF m \in Write THEN NewOp("new", Sealed(ValueOf[m]))
                                               ELSE NewOp("idle", Absent)]
    /\ read \in [Read -> {NewRead(keys) : keys \in Asked}]
    /\ count = [what \in Counted |-> 0]

Goto(m, pc) == op' = [op EXCEPT ![m].pc = pc]
Abort(m)    == op' = [op EXCEPT ![m].pc = "release", ![m].err = TRUE]
Unlock(m)   == lock' = [lock EXCEPT ![Home(m)] = Nobody]

-----------------------------------------------------------------------------
(* _mutation_guard *)

TakeLock(m) ==
    /\ op[m].pc = "new"
    /\ lock[Home(m)] = Nobody
    /\ lock' = [lock EXCEPT ![Home(m)] = m]
    /\ Goto(m, "lease")
    /\ UNCHANGED <<root, shard, lease, read, count>>

\* Mutant: the lease is taken whoever holds it.
Acquirable_Always == TRUE

Acquirable == lease.holder = Nobody \/ ~lease.live
Taken(m)   == [holder |-> m, live |-> TRUE]

\* The call may raise, before or after its effect: nobody releases the lease
\* then. A mutation that waited too long gives up.
Acquire(m) ==
    /\ op[m].pc = "lease"
    /\ \/ /\ Acquirable
          /\ lease' = Taken(m)
          /\ Goto(m, "root")
          /\ NoFault
          /\ UNCHANGED lock
       \/ /\ \/ Fault /\ UNCHANGED lease
             \/ Fault /\ Acquirable /\ lease' = Taken(m)
             \/ NoFault /\ ~Acquirable /\ UNCHANGED lease
          /\ Goto(m, "failed")
          /\ Unlock(m)
    /\ UNCHANGED <<root, shard, read>>

\* The renewal task: a lease that is another's, or a call that raises, is lost.
Renew(m) ==
    /\ op[m].pc \in Guarded
    /\ ~op[m].lost
    /\ \/ /\ lease.holder = m
          /\ ~lease.live
          /\ lease' = Taken(m)
          /\ NoFault
          /\ UNCHANGED op
       \/ /\ \/ lease.holder # m /\ NoFault
             \/ Fault
          /\ op' = [op EXCEPT ![m].lost = TRUE]
          /\ UNCHANGED lease
    /\ UNCHANGED <<root, shard, lock, read>>

\* ensure_held on the way out; a failed release is logged.
Release(m) ==
    /\ op[m].pc = "release"
    /\ \/ lease' = (IF lease.holder = m THEN Free ELSE lease) /\ NoFault
       \/ Fault /\ UNCHANGED lease
    /\ Goto(m, IF op[m].err \/ op[m].lost THEN "failed" ELSE "ok")
    /\ Unlock(m)
    /\ UNCHANGED <<root, shard, read>>

-----------------------------------------------------------------------------
(* _mutate, _migrate and _commit_entries *)

ReadRoot(m) ==
    /\ op[m].pc = "root"
    /\ \/ op' = [op EXCEPT ![m].pc = "plan", ![m].root = root] /\ NoFault
       \/ Abort(m) /\ Fault
    /\ UNCHANGED <<root, shard, lease, lock, read>>

\* Mutant: a repair writes what it read, whatever the entry holds by then.
Obsolete_Never(m) == FALSE

\* A repair rewrites the entry only if it is still the plaintext that was read.
Obsolete(m) ==
    /\ m \notin Write
    /\ CellIn(op[m].root, Target(m)) # [op[m].value EXCEPT !.sealed = FALSE]

Changed(m) == [EntriesIn(op[m].root) EXCEPT ![Target(m)] = op[m].value]

\* The shards are read at once: a generation never changes, it only goes away.
\* Without a suspension in between the new entries are laid out.
Plan(m) ==
    /\ op[m].pc = "plan"
    /\ \/ Abort(m) /\ Fault
       \/ ~Present(op[m].root, BucketsOf(op[m].root)) /\ Abort(m) /\ NoFault
       \/ /\ Present(op[m].root, BucketsOf(op[m].root))
          /\ NoFault
          /\ \/ Obsolete(m) /\ Goto(m, "release")
             \/ ~Obsolete(m) /\ op[m].lost /\ Abort(m)
             \/ /\ ~Obsolete(m) /\ ~op[m].lost
                /\ Size(Changed(m)) <= Capacity
                /\ op' = [op EXCEPT ![m].pc = "commit", ![m].entries = Changed(m)]
             \/ /\ ~Obsolete(m) /\ ~op[m].lost
                /\ Size(Changed(m)) > Capacity
                /\ IF FittingCounts(Changed(m)) = {}
                   THEN Abort(m)
                   ELSE op' = [op EXCEPT ![m].pc = "stage", ![m].entries = Changed(m),
                                         ![m].puts = 0 .. BucketCount(Changed(m)) - 1]
    /\ UNCHANGED <<root, shard, lease, lock, read>>

Staged(m) == BucketsOf(Document(m, op[m].entries))
Unstaged(m) == [op EXCEPT ![m].pc = "unstage", ![m].dels = Staged(m)]

\* The shards are put in parallel. After a failure the others still arrive,
\* while the staged ones are being deleted or later.
Stage(m, b) ==
    /\ b \in op[m].puts
    /\ \/ /\ shard' = [shard EXCEPT ![m][b] =
                           Partition(op[m].entries, BucketCount(op[m].entries), b)]
          /\ op' = [op EXCEPT ![m].puts = @ \ {b}]
          /\ NoFault
       \/ /\ op[m].pc = "stage"
          /\ op' = [Unstaged(m) EXCEPT ![m].puts = @ \ {b}]
          /\ Fault
          /\ UNCHANGED shard
    /\ UNCHANGED <<root, lease, lock, read>>

\* The staged shards are read back; then the lease is looked at again.
CheckStaged(m) ==
    /\ op[m].pc = "stage"
    /\ op[m].puts = {}
    /\ \/ op' = Unstaged(m) /\ Fault
       \/ op[m].lost /\ Abort(m) /\ NoFault
       \/ ~op[m].lost /\ Goto(m, "commit") /\ NoFault
    /\ UNCHANGED <<root, shard, lease, lock, read>>

\* Best-effort deletion: a failure is ignored.
Unstage(m, b) ==
    /\ op[m].pc = "unstage"
    /\ b \in op[m].dels
    /\ \/ shard' = [shard EXCEPT ![m][b] = Missing] /\ NoFault
       \/ UNCHANGED shard /\ Fault
    /\ op' = [op EXCEPT ![m].dels = @ \ {b}]
    /\ UNCHANGED <<root, lease, lock, read>>

EndUnstage(m) ==
    /\ op[m].pc = "unstage"
    /\ op[m].dels = {}
    /\ Abort(m)
    /\ UNCHANGED <<root, shard, lease, lock, read, count>>

\* Mutant: a failed write of the root is undone as a failed staging is.
Commit_UnstagesOnError(m) ==
    /\ op[m].pc = "commit"
    /\ \/ /\ root' = Document(m, op[m].entries)
          /\ \/ Goto(m, "verify") /\ NoFault
             \/ op' = Unstaged(m) /\ Fault
       \/ UNCHANGED root /\ op' = Unstaged(m) /\ Fault
    /\ UNCHANGED <<shard, lease, lock, read>>

\* The write of the root is the commit; it may raise before or after its effect.
Commit(m) ==
    /\ op[m].pc = "commit"
    /\ \/ /\ root' = Document(m, op[m].entries)
          /\ \/ Goto(m, "verify") /\ NoFault
             \/ Abort(m) /\ Fault
       \/ UNCHANGED root /\ Abort(m) /\ Fault
    /\ UNCHANGED <<shard, lease, lock, read>>

\* The root is read back, unless it was deleted, before the old shards go.
Verify(m) ==
    /\ op[m].pc = "verify"
    /\ \/ /\ op[m].entries = Nothing \/ root = Document(m, op[m].entries)
          /\ op' = [op EXCEPT ![m].pc = "cleanup", ![m].dels = BucketsOf(op[m].root)]
          /\ NoFault
       \/ op[m].entries # Nothing /\ root # Document(m, op[m].entries) /\ Abort(m) /\ NoFault
       \/ op[m].entries # Nothing /\ Abort(m) /\ Fault
    /\ UNCHANGED <<root, shard, lease, lock, read>>

Cleanup(m, b) ==
    /\ op[m].pc = "cleanup"
    /\ b \in op[m].dels
    /\ \/ shard' = [shard EXCEPT ![op[m].root.gen][b] = Missing] /\ NoFault
       \/ UNCHANGED shard /\ Fault
    /\ op' = [op EXCEPT ![m].dels = @ \ {b}]
    /\ UNCHANGED <<root, lease, lock, read>>

EndCleanup(m) ==
    /\ op[m].pc = "cleanup"
    /\ op[m].dels = {}
    /\ Goto(m, "release")
    /\ UNCHANGED <<root, shard, lease, lock, read, count>>

-----------------------------------------------------------------------------
(* get_token and list_for_user *)

GetRoot(r) ==
    /\ read[r].pc = "root"
    /\ \/ read' = [read EXCEPT ![r].pc = "shards", ![r].root = root] /\ NoFault
       \/ read' = [read EXCEPT ![r].pc = "failed"] /\ Fault
    /\ UNCHANGED <<root, shard, lease, lock, op>>

\* A list reads every shard, a get the one of its key.
Needed(r) ==
    IF read[r].root.kind # "manifest" THEN {}
    ELSE IF read[r].keys = Key THEN BucketsOf(read[r].root)
    ELSE {Hash[k] % read[r].root.buckets : k \in read[r].keys}

Plaintexts(r) ==
    {k \in read[r].keys : LET cell == CellIn(read[r].root, k) IN cell # Absent /\ ~cell.sealed}

\* The entries are decoded and the repair of those in plaintext is scheduled.
Answer(r) ==
    /\ read[r].pc = "shards"
    /\ Present(read[r].root, Needed(r))
    /\ read' = [read EXCEPT ![r].pc = "answered",
                            ![r].answer = [k \in Key |-> IF k \in read[r].keys
                                                         THEN CellIn(read[r].root, k)
                                                         ELSE Absent]]
    /\ op' = [m \in Mutation |->
                 IF m \in {r} \X Plaintexts(r)
                 THEN NewOp("new", Sealed(CellIn(read[r].root, m[2]).token))
                 ELSE op[m]]
    /\ UNCHANGED <<root, shard, lease, lock, count>>

\* A shard that has gone means a newer root; after some attempts the call fails.
RetryRead(r) ==
    /\ read[r].pc = "shards"
    /\ ~Present(read[r].root, Needed(r))
    /\ read' = [read EXCEPT ![r].tries = @ + 1,
                            ![r].pc = IF read[r].tries + 1 >= Retries THEN "failed" ELSE "root"]
    /\ UNCHANGED <<root, shard, lease, lock, op, count>>

ReadRaises(r) ==
    /\ read[r].pc = "shards"
    /\ Needed(r) # {}
    /\ read' = [read EXCEPT ![r].pc = "failed"]
    /\ Fault
    /\ UNCHANGED <<root, shard, lease, lock, op>>

-----------------------------------------------------------------------------
(* Environment *)

\* A replica dies with all its calls; its lock is the next process's, free.
Die(p) ==
    /\ Bounded("crashes", MaxCrashes)
    /\ op' = [m \in Mutation |->
                 IF Home(m) = p /\ op[m].pc \notin {"idle", "ok", "failed"}
                 THEN [op[m] EXCEPT !.pc = "dead", !.puts = {}]
                 ELSE [op[m] EXCEPT !.puts = IF Home(m) = p THEN {} ELSE @]]
    /\ read' = [r \in Read |->
                   IF ProcessOf[r] = p /\ read[r].pc \in {"root", "shards"}
                   THEN [read[r] EXCEPT !.pc = "failed"] ELSE read[r]]
    /\ lock' = [lock EXCEPT ![p] = Nobody]
    /\ UNCHANGED <<root, shard, lease>>

\* A lease that is renewed in time lapses only under a mutation that is dead or
\* has ended without releasing it; any other is an overrun.
Overrun == lease.holder # Nobody /\ op[lease.holder].pc \in Guarded

LeaseLapses ==
    /\ lease.live
    /\ lease' = [lease EXCEPT !.live = FALSE]
    /\ IF Overrun THEN Bounded("overruns", MaxOverruns) ELSE UNCHANGED count
    /\ UNCHANGED <<root, shard, lock, op, read>>

\* MongoDB removes an expired lease document.
LeaseReaped ==
    /\ lease.holder # Nobody
    /\ ~lease.live
    /\ lease' = Free
    /\ UNCHANGED <<root, shard, lock, op, read, count>>

Step(m) ==
    \/ TakeLock(m) \/ Acquire(m) \/ ReadRoot(m) \/ Plan(m) \/ CheckStaged(m)
    \/ EndUnstage(m) \/ Commit(m) \/ Verify(m) \/ EndCleanup(m) \/ Release(m)
    \/ \E b \in Bucket : Stage(m, b) \/ Unstage(m, b) \/ Cleanup(m, b)

ReadStep(r) == GetRoot(r) \/ Answer(r) \/ RetryRead(r) \/ ReadRaises(r)

Next ==
    \/ \E m \in Mutation : Step(m) \/ Renew(m)
    \/ \E r \in Read : ReadStep(r)
    \/ \E p \in Process : Die(p)
    \/ LeaseLapses
    \/ LeaseReaped

Spec == Init /\ [][Next]_vars

-----------------------------------------------------------------------------
(* Properties *)

TypeOK ==
    /\ root \in RootDoc
    /\ shard \in [Mutation -> [Bucket -> Entries \cup {Missing}]]
    /\ lease \in [holder : Mutation \cup {Nobody}, live : BOOLEAN]
    /\ lock \in [Process -> Mutation \cup {Nobody}]
    /\ op \in [Mutation -> OpRec]
    /\ read \in [Read -> ReadRec]
    /\ count \in [Counted -> Nat]

\* The root names a generation that is there in full, whoever lost which lease:
\* what a reader finds under it is what the mutation that wrote it laid out.
RootReadable ==
    root.kind = "manifest" =>
        \A b \in BucketsOf(root) :
            shard[root.gen][b] = Partition(op[root.gen].entries, root.buckets, b)

\* While no lease lapses under a mutation at work, one mutation at a time is
\* between its first read and its release, and it holds the lease.
LeaseExcludes ==
    count["overruns"] = 0 =>
        \A m \in Mutation : op[m].pc \in Guarded =>
            /\ lease = Taken(m)
            /\ \A o \in Mutation : op[o].pc \in Guarded => o = m

\* The store as a reader finds it, and what the callers have been told.
StoredCell(k) ==
    IF Present(root, {Hash[k] % root.buckets : i \in BucketsOf(root)}) THEN CellIn(root, k) ELSE Missing
StoredMap == [k \in Key |-> IF StoredCell(k) = Missing THEN Missing ELSE StoredCell(k).token]
Told(w) ==
    CASE ~op[w].err /\ op[w].pc \in {"verify", "cleanup", "release"} -> "applied"
      [] op[w].pc = "ok" -> "ok"
      [] op[w].err \/ op[w].pc \in {"failed", "dead"} -> "failed"
      [] OTHER -> "open"
Found(r) ==
    CASE read[r].pc = "answered" -> [k \in read[r].keys |-> read[r].answer[k].token]
      [] read[r].pc = "shards" /\ Present(read[r].root, Needed(r)) ->
             [k \in read[r].keys |-> CellIn(read[r].root, k).token]
      [] OTHER -> Missing

Map == INSTANCE CredentialMap WITH
           map   <- StoredMap,
           write <- [w \in Write |-> Told(w)],
           read  <- [r \in Read |-> [keys |-> read[r].keys, seen |-> Found(r),
                                     pc |-> IF read[r].pc \in {"answered", "failed"}
                                            THEN read[r].pc ELSE "open"]],
           Unseen <- Missing

\* Until a lease lapses under a mutation at work the store is the map its callers
\* are promised: no update is lost or applied twice, a repair or a change of
\* layout changes nothing, and a read sees one moment of the map.
ImplementsMap == Map!Init /\ [][count'["overruns"] = 0 => Map!Next]_(Map!vars)

\* An entry once encrypted is not written back in plaintext by a mutation that
\* read the map before, until a lease lapses under one.
EncryptedStays ==
    [][\A k \in Key : count'["overruns"] = 0 /\ StoredCell(k) # Missing /\ StoredCell(k).sealed
            => StoredCell(k)' = Absent \/ StoredCell(k)'.sealed]_vars
=============================================================================
