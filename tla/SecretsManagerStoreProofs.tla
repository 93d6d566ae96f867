---------------------- MODULE SecretsManagerStoreProofs ---------------------
(***************************************************************************)
(* Theorems about SecretsManagerStore, for any keys, tokens, layout        *)
(* limits, calls, replicas, faults, crashes and lapsed leases.             *)
(***************************************************************************)
EXTENDS SecretsManagerStore, FiniteSetTheorems, WellFoundedInduction, TLAPS

\* A manifest names a mutation and a number of shards, any other document none.
RootType ==
    {doc \in RootDoc : IF doc.kind = "manifest"
                       THEN doc.gen \in Mutation /\ doc.buckets \in 1 .. MaxShards
                       ELSE doc.gen = Nobody}

Typed(q) ==
    /\ q \in OpRec
    /\ q.root \in RootType
    /\ q.value = Absent \/ q.value.sealed
    /\ Size(q.entries) > Capacity => FittingCounts(q.entries) # {}

TypeInv ==
    /\ TypeOK
    /\ root \in RootType
    /\ \A m \in Mutation : Typed(op[m])
    /\ \A r \in Read : read[r].root \in RootType

\* Where a mutation is once it may have written the root.
Past == {"verify", "cleanup", "release", "ok", "failed", "dead"}

\* A document in somebody's hands was written by a mutation that has no shard left
\* to put.
WrittenIn(doc, ops) ==
    doc.kind = "manifest" =>
        LET q == ops[doc.gen]
        IN  /\ q.pc \in Past
            /\ q.puts = {}
            /\ doc = Document(doc.gen, q.entries)
Written(doc) == WrittenIn(doc, op)

\* Nothing is put but the shards of a mutation that has staged them.
Quiet == \A m \in Mutation :
            op[m].pc \in {"idle", "new", "lease", "root", "plan", "commit"} => op[m].puts = {}

\* The repairs of a read are scheduled by its answer.
Scheduled == \A m \in Read \X Key : read[m[1]].pc # "answered" => op[m].pc = "idle"

WrittenInv ==
    /\ Quiet
    /\ Scheduled
    /\ Written(root)
    /\ \A m \in Mutation : Written(op[m].root)
    /\ \A r \in Read : Written(read[r].root)

\* Every shard of a mutation's new entries is there or still to be put.
Laid(m) ==
    LET entries == op[m].entries
    IN  \A b \in 0 .. BucketCount(entries) - 1 :
            b \in op[m].puts \/ shard[m][b] = Partition(entries, BucketCount(entries), b)

ReadableInv ==
    /\ \A m \in Mutation :
          /\ op[m].pc = "stage" => Size(op[m].entries) > Capacity
          /\ op[m].pc \in {"stage", "commit"} /\ Size(op[m].entries) > Capacity => Laid(m)
          \* The generation a mutation removes is the root's no more.
          /\ op[m].pc \in {"verify", "cleanup"} =>
                op[m].root.gen = Nobody \/ op[m].root.gen # root.gen
    /\ RootReadable

\* Only a mutation on its way out has failed.
Erring == \A m \in Mutation : op[m].err => op[m].pc \in {"release", "failed", "dead"}

\* As long as no lease lapsed under a mutation at work, what a mutation has read is
\* the root, and what it writes is the root's entries with one changed.
CurrentInv ==
    count["overruns"] = 0 =>
       \A m \in Mutation :
          /\ op[m].pc \in {"plan", "stage", "commit"} => op[m].root = root
          /\ op[m].pc \in {"stage", "commit"} => op[m].entries = Changed(m) /\ ~Obsolete(m)

\* A write carries its value, encrypted.
Valued == \A w \in Write : op[w].value = Sealed(ValueOf[w])

StoreInv ==
    TypeInv /\ WrittenInv /\ ReadableInv /\ LeaseExcludes /\ Erring /\ Valued /\ CurrentInv

-----------------------------------------------------------------------------
(* Layouts *)

LEMMA Least == ASSUME NEW S, S \subseteq Nat, S # {}
               PROVE  \E x \in S : \A y \in S : x <= y
  <1> DEFINE Less == {ss \in Nat \X Nat : ss[1] < ss[2]}
  <1>1. IsWellFoundedOn(Less, Nat)
    BY NatLessThanWellFounded DEF OpToRel
  <1>2. \A x, y \in Nat : y < x => <<y, x>> \in Less
    OBVIOUS
  <1> HIDE DEF Less
  <1>3. PICK x \in S : \A y \in S : ~(<<y, x>> \in Less)
    BY <1>1, WFMin
  <1>4. ASSUME NEW y \in S PROVE x <= y
    <2>1. x \in Nat /\ y \in Nat
      OBVIOUS
    <2>2. ~(y < x)
      BY <2>1, <1>2, <1>3, Zenon
    <2> QED
      BY <2>1, <2>2
  <1> QED
    BY <1>4

\* Entries are counted, and none are none.
LEMMA Sizes == /\ \A entries : Size(entries) \in Nat
               /\ Size(Nothing) = 0
               /\ Nothing \in Entries /\ Absent \in Cell
  <1>1. ASSUME NEW entries PROVE Size(entries) \in Nat
    <2>1. IsFiniteSet({k \in Key : entries[k] # Absent})
      BY StoreConstants, FS_Subset
    <2> QED
      BY <2>1, FS_CardinalityType DEF Size
  <1>2. {k \in Key : Nothing[k] # Absent} = {}
    BY DEF Nothing
  <1>3. Size(Nothing) = 0
    BY <1>2, FS_EmptySet DEF Size
  <1> QED
    BY <1>1, <1>3 DEF Nothing, Entries, Absent, Cell

\* The layout chosen is one of those that fit.
LEMMA Chosen == ASSUME NEW entries, FittingCounts(entries) # {}
                PROVE  /\ BucketCount(entries) \in FittingCounts(entries)
                       /\ BucketCount(entries) \in 1 .. MaxShards
  <1>1. FittingCounts(entries) \subseteq 1 .. MaxShards
    BY DEF FittingCounts, BucketCounts
  <1>2. FittingCounts(entries) \subseteq Nat
    BY <1>1
  <1>3. \E n \in FittingCounts(entries) : \A i \in FittingCounts(entries) : n <= i
    BY <1>2, Least
  <1> QED
    BY <1>1, <1>3 DEF BucketCount

\* A key's entry is in a shard of its layout.
LEMMA InBucket == ASSUME NEW k \in Key, NEW n \in 1 .. MaxShards
                  PROVE  /\ Hash[k] % n \in 0 .. n - 1
                         /\ Hash[k] % n \in Bucket
  <1>1. Hash[k] \in Nat /\ n \in Nat \ {0} /\ MaxShards \in Nat /\ n <= MaxShards
    BY StoreConstants
  <1>2. Hash[k] % n \in 0 .. n - 1
    BY <1>1
  <1> QED
    BY <1>1, <1>2 DEF Bucket

LEMMA PartitionTyped == ASSUME NEW entries \in Entries, NEW n, NEW b
                        PROVE  Partition(entries, n, b) \in Entries
  BY Sizes DEF Partition, Entries

LEMMA DocumentTyped ==
    ASSUME NEW m \in Mutation, NEW entries \in Entries,
           Size(entries) > Capacity => FittingCounts(entries) # {}
    PROVE  Document(m, entries) \in RootType
  <1>1. CASE entries = Nothing
    <2>1. ~(Size(entries) > Capacity)
      BY <1>1, Sizes, StoreConstants
    <2>2. Document(m, entries) = NoRoot
      BY <1>1, <2>1 DEF Document
    <2> QED
      BY <2>2, Sizes DEF RootType, RootDoc, NoRoot
  <1>2. CASE entries # Nothing /\ Size(entries) > Capacity
    <2>1. BucketCount(entries) \in 1 .. MaxShards
      BY <1>2, Chosen
    <2>2. Document(m, entries) = Manifest(m, BucketCount(entries))
      BY <1>2 DEF Document
    <2>3. BucketCount(entries) \in Nat
      BY <2>1
    <2> QED
      BY <2>1, <2>2, <2>3, Sizes DEF Manifest, NoRoot, RootType, RootDoc
  <1>3. CASE entries # Nothing /\ ~(Size(entries) > Capacity)
    <2>1. Document(m, entries) = Inline(entries)
      BY <1>3 DEF Document
    <2> QED
      BY <2>1, Sizes DEF Inline, NoRoot, RootType, RootDoc
  <1> QED
    BY <1>1, <1>2, <1>3

LEMMA BucketsTyped == ASSUME NEW doc \in RootType
                      PROVE  BucketsOf(doc) \subseteq Bucket
  BY StoreConstants DEF RootType, BucketsOf, Bucket

\* What is found under a document whose shards are there are entries.
LEMMA CellTyped ==
    ASSUME TypeOK, NEW doc \in RootType, NEW k \in Key,
           doc.kind = "manifest" => shard[doc.gen][Hash[k] % doc.buckets] # Missing
    PROVE  CellIn(doc, k) \in Cell
  <1>1. CASE doc.kind = "manifest"
    <2>1. doc.gen \in Mutation /\ doc.buckets \in 1 .. MaxShards
      BY <1>1 DEF RootType
    <2>2. Hash[k] % doc.buckets \in Bucket
      BY <2>1, InBucket
    <2>3. shard[doc.gen][Hash[k] % doc.buckets] \in Entries
      BY <1>1, <2>1, <2>2 DEF TypeOK
    <2> QED
      BY <1>1, <2>3 DEF CellIn, Entries
  <1>2. CASE doc.kind # "manifest"
    <2>1. doc.entries \in Entries
      BY DEF RootType, RootDoc
    <2> QED
      BY <1>2, <2>1 DEF CellIn, Entries
  <1> QED
    BY <1>1, <1>2

LEMMA EntriesTyped ==
    ASSUME TypeOK, NEW doc \in RootType, Present(doc, BucketsOf(doc))
    PROVE  EntriesIn(doc) \in Entries
  <1>1. ASSUME NEW k \in Key PROVE CellIn(doc, k) \in Cell
    <2>1. ASSUME doc.kind = "manifest"
          PROVE  shard[doc.gen][Hash[k] % doc.buckets] # Missing
      <3>1. doc.buckets \in 1 .. MaxShards
        BY <2>1 DEF RootType
      <3>2. Hash[k] % doc.buckets \in BucketsOf(doc)
        BY <2>1, <3>1, InBucket DEF BucketsOf
      <3> QED
        BY <3>2 DEF Present
    <2> QED
      BY <2>1, CellTyped
  <1> QED
    BY <1>1 DEF EntriesIn, Entries

-----------------------------------------------------------------------------
(* Types *)

LEMMA NoRootTyped == NoRoot \in RootType
  BY Sizes DEF RootType, RootDoc, NoRoot

LEMMA SealedTyped == ASSUME NEW token \in Token \cup {NoToken}
                     PROVE  /\ Sealed(token) \in Cell
                            /\ Sealed(token) = Absent \/ Sealed(token).sealed
  BY DEF Sealed, Cell, Absent

LEMMA NewOpTyped == ASSUME NEW pc \in OpPc, NEW cell \in Cell, cell = Absent \/ cell.sealed
                    PROVE  Typed(NewOp(pc, cell))
  <1>1. NewOp(pc, cell) \in OpRec
    BY Sizes, NoRootTyped DEF NewOp, OpRec, RootType
  <1>2. ~(Size(Nothing) > Capacity)
    BY Sizes, StoreConstants
  <1> QED
    BY <1>1, <1>2, NoRootTyped DEF Typed, NewOp

LEMMA HomeTyped == ASSUME NEW m \in Mutation PROVE Target(m) \in Key
  BY StoreConstants DEF Target, Mutation

LEMMA TypeInit == Init => TypeInv
  <1> SUFFICES ASSUME Init PROVE TypeInv
    OBVIOUS
  <1> DEFINE old == [k \in Key |-> [token |-> Legacy[k], sealed |-> FALSE]]
  <1>1. old \in Entries
    BY StoreConstants DEF Entries, Cell
  <1>2. root = NoRoot \/ root = Inline(old)
    BY DEF Init
  <1>3. Inline(old) \in RootType
    BY <1>1 DEF Inline, NoRoot, RootType, RootDoc
  <1>4. root \in RootType
    BY <1>2, <1>3, NoRootTyped
  <1>5. shard \in [Mutation -> [Bucket -> Entries \cup {Missing}]]
    BY DEF Init
  <1>6. lease \in [holder : Mutation \cup {Nobody}, live : BOOLEAN]
    BY DEF Init, Free
  <1>7. \A m \in Mutation : Typed(op[m])
    <2>1. ASSUME NEW m \in Mutation, m \in Write PROVE Typed(op[m])
      <3>1. op[m] = NewOp("new", Sealed(ValueOf[m]))
        BY <2>1 DEF Init
      <3>2. ValueOf[m] \in Token \cup {NoToken}
        BY <2>1, StoreConstants
      <3> QED
        BY <3>1, <3>2, SealedTyped, NewOpTyped DEF OpPc
    <2>2. ASSUME NEW m \in Mutation, m \notin Write PROVE Typed(op[m])
      <3>1. op[m] = NewOp("idle", Absent)
        BY <2>2 DEF Init
      <3> QED
        BY <3>1, Sizes, NewOpTyped DEF OpPc
    <2> QED
      BY <2>1, <2>2
  <1>8. DOMAIN op = Mutation /\ op = [m \in Mutation |-> op[m]]
    BY DEF Init
  <1>9. op \in [Mutation -> OpRec]
    BY <1>7, <1>8 DEF Typed
  <1>10. \A keys \in Asked : NewRead(keys) \in ReadRec /\ NewRead(keys).root = NoRoot
    BY Sizes, NoRootTyped DEF NewRead, ReadRec, ReadPc, RootType
  <1>11. read \in [Read -> ReadRec] /\ \A r \in Read : read[r].root \in RootType
    BY <1>10, NoRootTyped DEF Init
  <1>12. count \in [Counted -> Nat] /\ lock \in [Process -> Mutation \cup {Nobody}]
    BY DEF Init
  <1>13. root \in RootDoc
    BY <1>4 DEF RootType
  <1> QED
    BY <1>4, <1>5, <1>6, <1>7, <1>9, <1>11, <1>12, <1>13 DEF TypeInv, TypeOK

LEMMA Counts == ASSUME TypeInv, NoFault \/ \E what \in Counted, max \in Nat : Bounded(what, max)
                PROVE  /\ count' \in [Counted -> Nat]
                       /\ count'["overruns"] = 0 => count["overruns"] = 0
  <1>1. count \in [Counted -> Nat] /\ "overruns" \in Counted
    BY DEF TypeInv, TypeOK, Counted
  <1>2. CASE NoFault
    BY <1>1, <1>2 DEF NoFault
  <1>3. ASSUME NEW what \in Counted, NEW max \in Nat, Bounded(what, max)
        PROVE  /\ count' \in [Counted -> Nat]
               /\ count'["overruns"] = 0 => count["overruns"] = 0
    <2>1. count[what] + 1 \in Nat /\ count[what] + 1 # 0
      BY <1>1
    <2> QED
      BY <1>1, <1>3, <2>1 DEF Bounded
  <1> QED
    BY <1>2, <1>3

LEMMA Faults == ASSUME TypeInv, NoFault \/ Fault
                PROVE  /\ count' \in [Counted -> Nat]
                       /\ count'["overruns"] = 0 => count["overruns"] = 0
  <1>1. "faults" \in Counted /\ MaxFaults \in Nat
    BY StoreConstants DEF Counted
  <1> QED
    BY <1>1, Counts DEF Fault

\* A step that leaves the document read and the new entries of its mutation.
LEMMA Moved ==
    ASSUME TypeInv, NEW m \in Mutation, NEW q \in OpRec, q.root = op[m].root,
           q.value = op[m].value, q.entries = op[m].entries, op' = [op EXCEPT ![m] = q]
    PROVE  op' \in [Mutation -> OpRec] /\ \A o \in Mutation : Typed(op'[o])
  <1>1. op \in [Mutation -> OpRec] /\ \A o \in Mutation : Typed(op[o])
    BY DEF TypeInv, TypeOK
  <1>2. Typed(q)
    BY <1>1 DEF Typed
  <1> QED
    BY <1>1, <1>2

LEMMA WentTo == ASSUME TypeInv, NEW m \in Mutation, NEW pc \in OpPc, Goto(m, pc)
                PROVE  op' \in [Mutation -> OpRec] /\ \A o \in Mutation : Typed(op'[o])
  <1> DEFINE q == [op[m] EXCEPT !.pc = pc]
  <1>1. op \in [Mutation -> OpRec]
    BY DEF TypeInv, TypeOK
  <1>2. op[m] \in OpRec
    BY <1>1
  <1>3. q \in OpRec /\ q.root = op[m].root /\ q.value = op[m].value /\ q.entries = op[m].entries
    BY <1>2 DEF OpRec
  <1>4. op' = [op EXCEPT ![m] = q]
    BY <1>1 DEF Goto
  <1> HIDE DEF q
  <1> QED
    BY <1>3, <1>4, Moved

LEMMA Aborted == ASSUME TypeInv, NEW m \in Mutation, Abort(m)
                 PROVE  op' \in [Mutation -> OpRec] /\ \A o \in Mutation : Typed(op'[o])
  <1> DEFINE q == [op[m] EXCEPT !.pc = "release", !.err = TRUE]
  <1>1. op \in [Mutation -> OpRec]
    BY DEF TypeInv, TypeOK
  <1>2. op[m] \in OpRec
    BY <1>1
  <1>3. q \in OpRec /\ q.root = op[m].root /\ q.value = op[m].value /\ q.entries = op[m].entries
    BY <1>2 DEF OpRec, OpPc
  <1>4. op' = [op EXCEPT ![m] = q]
    BY <1>1 DEF Abort
  <1> HIDE DEF q
  <1> QED
    BY <1>3, <1>4, Moved

LEMMA UnstagedTyped ==
    ASSUME TypeInv, NEW m \in Mutation, NEW b, \/ op' = Unstaged(m)
                                               \/ op' = [Unstaged(m) EXCEPT ![m].puts = @ \ {b}]
    PROVE  op' \in [Mutation -> OpRec] /\ \A o \in Mutation : Typed(op'[o])
  <1> DEFINE q == [op[m] EXCEPT !.pc = "unstage", !.dels = Staged(m)]
             p == [q EXCEPT !.puts = @ \ {b}]
  <1>1. op \in [Mutation -> OpRec] /\ Typed(op[m])
    BY DEF TypeInv, TypeOK
  <1>2. op[m] \in OpRec /\ op[m].entries \in Entries
    BY <1>1 DEF OpRec
  <1>3. Staged(m) \subseteq Bucket
    BY <1>1, <1>2, DocumentTyped, BucketsTyped DEF Staged, Typed
  <1>4. q \in OpRec /\ q.root = op[m].root /\ q.value = op[m].value /\ q.entries = op[m].entries
    BY <1>2, <1>3 DEF OpRec, OpPc
  <1>5. p \in OpRec /\ p.root = op[m].root /\ p.value = op[m].value /\ p.entries = op[m].entries
    BY <1>4 DEF OpRec
  <1>6. Unstaged(m) = [op EXCEPT ![m] = q]
    BY <1>1 DEF Unstaged
  <1>7. op' = [op EXCEPT ![m] = q] \/ op' = [op EXCEPT ![m] = p]
    BY <1>1, <1>6
  <1> HIDE DEF q, p
  <1> QED
    BY <1>4, <1>5, <1>7, Moved

\* The mutations' own steps.
TypesKept ==
    /\ root' \in RootType
    /\ shard' \in [Mutation -> [Bucket -> Entries \cup {Missing}]]
    /\ lease' \in [holder : Mutation \cup {Nobody}, live : BOOLEAN]
    /\ lock' \in [Process -> Mutation \cup {Nobody}]
    /\ op' \in [Mutation -> OpRec] /\ \A o \in Mutation : Typed(op'[o])
    /\ read' \in [Read -> ReadRec] /\ \A r \in Read : read'[r].root \in RootType
    /\ count' \in [Counted -> Nat]
    /\ count'["overruns"] = 0 => count["overruns"] = 0

LEMMA TypesKeep == ASSUME TypesKept PROVE TypeInv'
  <1>1. root' \in RootDoc
    BY DEF TypesKept, RootType
  <1> QED
    BY <1>1 DEF TypesKept, TypeInv, TypeOK

LEMMA GuardTypes ==
    ASSUME TypeInv, NEW m \in Mutation, TakeLock(m) \/ Acquire(m) \/ Renew(m) \/ Release(m)
    PROVE  TypesKept
  <1> USE DEF TypesKept
  <1>1. /\ root \in RootType
        /\ shard \in [Mutation -> [Bucket -> Entries \cup {Missing}]]
        /\ lease \in [holder : Mutation \cup {Nobody}, live : BOOLEAN]
        /\ lock \in [Process -> Mutation \cup {Nobody}]
        /\ op \in [Mutation -> OpRec] /\ \A o \in Mutation : Typed(op[o])
        /\ read \in [Read -> ReadRec] /\ \A r \in Read : read[r].root \in RootType
        /\ count \in [Counted -> Nat]
    BY DEF TypeInv, TypeOK
  <1>2. Taken(m) \in [holder : Mutation \cup {Nobody}, live : BOOLEAN]
        /\ Free \in [holder : Mutation \cup {Nobody}, live : BOOLEAN]
    BY DEF Taken, Free
  <1>3. {"lease", "root", "failed", "ok"} \subseteq OpPc
    BY DEF OpPc
  <1>4. ASSUME Unlock(m) PROVE lock' \in [Process -> Mutation \cup {Nobody}]
    BY <1>1, <1>4 DEF Unlock
  <1>5. CASE TakeLock(m)
    <2>1. op' \in [Mutation -> OpRec] /\ \A o \in Mutation : Typed(op'[o])
      BY <1>3, <1>5, WentTo DEF TakeLock
    <2> QED
      BY <1>1, <1>5, <2>1 DEF TakeLock
  <1>6. CASE Acquire(m)
    <2>1. op' \in [Mutation -> OpRec] /\ \A o \in Mutation : Typed(op'[o])
      BY <1>3, <1>6, WentTo DEF Acquire
    <2>2. /\ count' \in [Counted -> Nat]
          /\ count'["overruns"] = 0 => count["overruns"] = 0
      BY <1>6, Faults DEF Acquire
    <2>3. lock' \in [Process -> Mutation \cup {Nobody}]
      BY <1>1, <1>4, <1>6 DEF Acquire
    <2>4. lease' \in [holder : Mutation \cup {Nobody}, live : BOOLEAN]
      BY <1>1, <1>2, <1>6 DEF Acquire
    <2> QED
      BY <1>1, <1>6, <2>1, <2>2, <2>3, <2>4 DEF Acquire
  <1>7. CASE Renew(m)
    <2> DEFINE q == [op[m] EXCEPT !.lost = TRUE]
    <2>1. q \in OpRec /\ q.root = op[m].root /\ q.value = op[m].value /\ q.entries = op[m].entries
      <3>1. op[m] \in OpRec
        BY <1>1
      <3> QED
        BY <3>1 DEF OpRec
    <2>2. op' = op \/ op' = [op EXCEPT ![m] = q]
      BY <1>1, <1>7 DEF Renew
    <2>3. op' \in [Mutation -> OpRec] /\ \A o \in Mutation : Typed(op'[o])
      <3> HIDE DEF q
      <3> QED
        BY <1>1, <2>1, <2>2, Moved
    <2>4. /\ count' \in [Counted -> Nat]
          /\ count'["overruns"] = 0 => count["overruns"] = 0
      BY <1>7, Faults DEF Renew
    <2>5. lease' \in [holder : Mutation \cup {Nobody}, live : BOOLEAN]
      BY <1>1, <1>2, <1>7 DEF Renew
    <2> QED
      BY <1>1, <1>7, <2>3, <2>4, <2>5 DEF Renew
  <1>8. CASE Release(m)
    <2>1. op' \in [Mutation -> OpRec] /\ \A o \in Mutation : Typed(op'[o])
      BY <1>3, <1>8, WentTo DEF Release
    <2>2. /\ count' \in [Counted -> Nat]
          /\ count'["overruns"] = 0 => count["overruns"] = 0
      BY <1>8, Faults DEF Release
    <2>3. lock' \in [Process -> Mutation \cup {Nobody}]
      BY <1>4, <1>8 DEF Release
    <2>4. lease' \in [holder : Mutation \cup {Nobody}, live : BOOLEAN]
      BY <1>1, <1>2, <1>8 DEF Release
    <2> QED
      BY <1>1, <1>8, <2>1, <2>2, <2>3, <2>4 DEF Release
  <1> QED
    BY <1>5, <1>6, <1>7, <1>8

LEMMA ShardTyped ==
    ASSUME TypeInv, NEW g, NEW b, NEW value \in Entries \cup {Missing},
           shard' = [shard EXCEPT ![g][b] = value]
    PROVE  shard' \in [Mutation -> [Bucket -> Entries \cup {Missing}]]
  <1>1. shard \in [Mutation -> [Bucket -> Entries \cup {Missing}]]
    BY DEF TypeInv, TypeOK
  <1> QED
    BY <1>1

\* A plan reads its root's entries and changes one.
LEMMA ChangedTyped ==
    ASSUME TypeInv, NEW m \in Mutation, Present(op[m].root, BucketsOf(op[m].root))
    PROVE  Changed(m) \in Entries
  <1>1. op[m].root \in RootType /\ op[m].value \in Cell
    BY DEF TypeInv, Typed, OpRec
  <1>2. EntriesIn(op[m].root) \in Entries
    BY <1>1, EntriesTyped DEF TypeInv
  <1> QED
    BY <1>1, <1>2 DEF Changed, Entries

LEMMA PlanTyped ==
    ASSUME TypeInv, NEW m \in Mutation, Plan(m)
    PROVE  op' \in [Mutation -> OpRec] /\ \A o \in Mutation : Typed(op'[o])
  <1> DEFINE OpsTyped == op' \in [Mutation -> OpRec] /\ \A o \in Mutation : Typed(op'[o])
             new == Changed(m)
             q == [op[m] EXCEPT !.pc = "commit", !.entries = new]
             p == [op[m] EXCEPT !.pc = "stage", !.entries = new, !.puts = 0 .. BucketCount(new) - 1]
  <1>1. /\ op \in [Mutation -> OpRec] /\ \A o \in Mutation : Typed(op[o])
        /\ op[m] \in OpRec
    BY DEF TypeInv, TypeOK
  <1>2. CASE Abort(m) \/ Goto(m, "release")
    BY <1>2, WentTo, Aborted DEF OpPc
  <1>3. ASSUME Present(op[m].root, BucketsOf(op[m].root)), Size(new) <= Capacity,
               op' = [op EXCEPT ![m].pc = "commit", ![m].entries = new]
        PROVE  OpsTyped
    <2>1. new \in Entries
      BY <1>3, ChangedTyped
    <2>2. ~(Size(new) > Capacity)
      BY <1>3, Sizes, StoreConstants
    <2> HIDE DEF new
    <2>3. /\ q \in OpRec /\ q.root = op[m].root /\ q.value = op[m].value /\ q.entries = new
      BY <1>1, <2>1 DEF OpRec, OpPc
    <2>4. op' = [op EXCEPT ![m] = q]
      BY <1>1, <1>3
    <2>5. Typed(op[m])
      BY <1>1
    <2> HIDE DEF q
    <2>6. Typed(q)
      BY <2>2, <2>3, <2>5 DEF Typed
    <2> QED
      BY <1>1, <2>3, <2>4, <2>6
  <1>4. ASSUME Present(op[m].root, BucketsOf(op[m].root)), FittingCounts(new) # {},
               op' = [op EXCEPT ![m].pc = "stage", ![m].entries = new,
                                ![m].puts = 0 .. BucketCount(new) - 1]
        PROVE  OpsTyped
    <2>1. new \in Entries
      BY <1>4, ChangedTyped
    <2> HIDE DEF new
    <2>2. BucketCount(new) \in 1 .. MaxShards
      BY <1>4, Chosen
    <2>3. 0 .. BucketCount(new) - 1 \subseteq Bucket
      BY <2>2, StoreConstants DEF Bucket
    <2>4. /\ p \in OpRec /\ p.root = op[m].root /\ p.value = op[m].value /\ p.entries = new
      BY <1>1, <2>1, <2>3 DEF OpRec, OpPc
    <2>5. op' = [op EXCEPT ![m] = p]
      BY <1>1, <1>4
    <2>6. Typed(op[m])
      BY <1>1
    <2> HIDE DEF p
    <2>7. Typed(p)
      BY <1>4, <2>4, <2>6 DEF Typed
    <2> QED
      BY <1>1, <2>4, <2>5, <2>7
  <1> QED
    BY <1>2, <1>3, <1>4 DEF Plan

LEMMA RewriteTypes ==
    ASSUME TypeInv, NEW m \in Mutation, NEW b \in Bucket,
           \/ ReadRoot(m) \/ Plan(m) \/ CheckStaged(m) \/ EndUnstage(m) \/ Commit(m)
           \/ Verify(m) \/ EndCleanup(m) \/ Stage(m, b) \/ Unstage(m, b) \/ Cleanup(m, b)
    PROVE  TypesKept
  <1> USE DEF TypesKept
  <1> DEFINE OpsTyped == op' \in [Mutation -> OpRec] /\ \A o \in Mutation : Typed(op'[o])
             CountTyped == /\ count' \in [Counted -> Nat]
                           /\ count'["overruns"] = 0 => count["overruns"] = 0
  <1>1. /\ root \in RootType
        /\ shard \in [Mutation -> [Bucket -> Entries \cup {Missing}]]
        /\ lease \in [holder : Mutation \cup {Nobody}, live : BOOLEAN]
        /\ lock \in [Process -> Mutation \cup {Nobody}]
        /\ op \in [Mutation -> OpRec] /\ \A o \in Mutation : Typed(op[o])
        /\ read \in [Read -> ReadRec] /\ \A r \in Read : read[r].root \in RootType
        /\ count \in [Counted -> Nat]
    BY DEF TypeInv, TypeOK
  <1>2. op[m] \in OpRec /\ Typed(op[m])
    BY <1>1
  <1>3. CASE ReadRoot(m)
    <2> DEFINE q == [op[m] EXCEPT !.pc = "plan", !.root = root]
    <2>1. CASE op' = [op EXCEPT ![m].pc = "plan", ![m].root = root]
      <3>1. root \in RootDoc
        BY <1>1 DEF RootType
      <3>2. q \in OpRec /\ q.root = root /\ q.value = op[m].value /\ q.entries = op[m].entries
        BY <1>2, <3>1 DEF OpRec, OpPc
      <3>3. op' = [op EXCEPT ![m] = q]
        BY <1>1, <2>1
      <3> HIDE DEF q
      <3>4. Typed(q)
        BY <1>1, <1>2, <3>2 DEF Typed
      <3> QED
        BY <1>1, <1>3, <3>2, <3>3, <3>4, Faults DEF ReadRoot
    <2>2. CASE Abort(m)
      BY <1>1, <1>3, <2>2, Aborted, Faults DEF ReadRoot
    <2> QED
      BY <1>3, <2>1, <2>2 DEF ReadRoot
  <1>4. CASE Plan(m)
    <2>1. OpsTyped
      BY <1>4, PlanTyped
    <2>2. CountTyped
      BY <1>4, Faults DEF Plan
    <2> QED
      BY <1>1, <1>4, <2>1, <2>2 DEF Plan
  <1>5. CASE CheckStaged(m)
    <2>1. OpsTyped
      BY <1>5, UnstagedTyped, Aborted, WentTo DEF CheckStaged, OpPc
    <2>2. CountTyped
      BY <1>5, Faults DEF CheckStaged
    <2> QED
      BY <1>1, <1>5, <2>1, <2>2 DEF CheckStaged
  <1>6. CASE EndUnstage(m)
    BY <1>1, <1>6, Aborted DEF EndUnstage
  <1>7. CASE Commit(m)
    <2>1. OpsTyped
      BY <1>7, Aborted, WentTo DEF Commit, OpPc
    <2>2. CountTyped
      BY <1>7, Faults DEF Commit
    <2>3. Document(m, op[m].entries) \in RootType
      BY <1>2, DocumentTyped DEF Typed, OpRec
    <2> QED
      BY <1>1, <1>7, <2>1, <2>2, <2>3 DEF Commit
  <1>8. CASE Verify(m)
    <2> DEFINE q == [op[m] EXCEPT !.pc = "cleanup", !.dels = BucketsOf(op[m].root)]
    <2>1. CountTyped
      BY <1>8, Faults DEF Verify
    <2>2. OpsTyped
      <3>1. CASE Abort(m)
        BY <3>1, Aborted
      <3>2. CASE op' = [op EXCEPT ![m].pc = "cleanup", ![m].dels = BucketsOf(op[m].root)]
        <4>1. BucketsOf(op[m].root) \subseteq Bucket
          BY <1>2, BucketsTyped DEF Typed
        <4>2. q \in OpRec /\ q.root = op[m].root /\ q.value = op[m].value /\ q.entries = op[m].entries
          BY <1>2, <4>1 DEF OpRec, OpPc
        <4>3. op' = [op EXCEPT ![m] = q]
          BY <1>1, <3>2
        <4> HIDE DEF q
        <4> QED
          BY <4>2, <4>3, Moved
      <3> QED
        BY <1>8, <3>1, <3>2 DEF Verify
    <2> QED
      BY <1>1, <1>8, <2>1, <2>2 DEF Verify
  <1>9. CASE EndCleanup(m)
    <2>1. OpsTyped
      BY <1>9, WentTo DEF EndCleanup, OpPc
    <2> QED
      BY <1>1, <1>9, <2>1 DEF EndCleanup
  <1>10. CASE Stage(m, b)
    <2> DEFINE q == [op[m] EXCEPT !.puts = @ \ {b}]
    <2>1. CountTyped
      BY <1>10, Faults DEF Stage
    <2>2. OpsTyped
      <3>1. q \in OpRec /\ q.root = op[m].root /\ q.value = op[m].value /\ q.entries = op[m].entries
        BY <1>2 DEF OpRec
      <3>2. CASE op' = [op EXCEPT ![m].puts = @ \ {b}]
        <4>1. op' = [op EXCEPT ![m] = q]
          BY <1>1, <3>2
        <4> HIDE DEF q
        <4> QED
          BY <3>1, <4>1, Moved
      <3>3. CASE op' = [Unstaged(m) EXCEPT ![m].puts = @ \ {b}]
        BY <3>3, UnstagedTyped
      <3> QED
        BY <1>10, <3>2, <3>3 DEF Stage
    <2>3. Partition(op[m].entries, BucketCount(op[m].entries), b) \in Entries
      BY <1>2, PartitionTyped DEF OpRec
    <2>4. shard' \in [Mutation -> [Bucket -> Entries \cup {Missing}]]
      BY <1>1, <1>10, <2>3, ShardTyped DEF Stage
    <2> QED
      BY <1>1, <1>10, <2>1, <2>2, <2>4 DEF Stage
  <1>11. ASSUME Unstage(m, b) \/ Cleanup(m, b) PROVE TypesKept
    <2> DEFINE q == [op[m] EXCEPT !.dels = @ \ {b}]
    <2>1. CountTyped
      BY <1>11, Faults DEF Unstage, Cleanup
    <2>2. OpsTyped
      <3>1. q \in OpRec /\ q.root = op[m].root /\ q.value = op[m].value /\ q.entries = op[m].entries
        BY <1>2 DEF OpRec
      <3>2. op' = [op EXCEPT ![m] = q]
        BY <1>1, <1>11 DEF Unstage, Cleanup
      <3> HIDE DEF q
      <3> QED
        BY <3>1, <3>2, Moved
    <2>3. shard' \in [Mutation -> [Bucket -> Entries \cup {Missing}]]
      BY <1>1, <1>11, ShardTyped DEF Unstage, Cleanup
    <2> QED
      BY <1>1, <1>11, <2>1, <2>2, <2>3 DEF Unstage, Cleanup
  <1> QED
    BY <1>3, <1>4, <1>5, <1>6, <1>7, <1>8, <1>9, <1>10, <1>11

\* A read that has its shards finds the entries it was asked for.
LEMMA NeededCells ==
    ASSUME TypeInv, NEW r \in Read, NEW k \in read[r].keys
    PROVE  /\ k \in Key
           /\ read[r].root.kind = "manifest" => Hash[k] % read[r].root.buckets \in Needed(r)
           /\ Present(read[r].root, Needed(r)) => CellIn(read[r].root, k) \in Cell
  <1> DEFINE doc == read[r].root
  <1>1. doc \in RootType /\ read[r].keys \in Asked
    BY DEF TypeInv, TypeOK, ReadRec
  <1>2. k \in Key
    BY <1>1, StoreConstants
  <1>3. ASSUME doc.kind = "manifest" PROVE Hash[k] % doc.buckets \in Needed(r)
    <2>1. doc.buckets \in 1 .. MaxShards
      BY <1>1, <1>3 DEF RootType
    <2>2. Hash[k] % doc.buckets \in 0 .. doc.buckets - 1
      BY <1>2, <2>1, InBucket
    <2> QED
      BY <1>3, <2>2 DEF Needed, BucketsOf
  <1>4. ASSUME Present(doc, Needed(r)) PROVE CellIn(doc, k) \in Cell
    <2>1. doc.kind = "manifest" => shard[doc.gen][Hash[k] % doc.buckets] # Missing
      BY <1>3, <1>4 DEF Present
    <2>2. TypeOK
      BY DEF TypeInv
    <2> HIDE DEF doc
    <2> QED
      BY <1>1, <1>2, <2>1, <2>2, CellTyped
  <1> QED
    BY <1>2, <1>3, <1>4

LEMMA ReadTypes ==
    ASSUME TypeInv, NEW r \in Read, ReadStep(r)
    PROVE  TypesKept
  <1> USE DEF TypesKept
  <1> DEFINE ReadsTyped == read' \in [Read -> ReadRec] /\ \A o \in Read : read'[o].root \in RootType
             CountTyped == /\ count' \in [Counted -> Nat]
                           /\ count'["overruns"] = 0 => count["overruns"] = 0
  <1>1. /\ root \in RootType
        /\ shard \in [Mutation -> [Bucket -> Entries \cup {Missing}]]
        /\ lease \in [holder : Mutation \cup {Nobody}, live : BOOLEAN]
        /\ lock \in [Process -> Mutation \cup {Nobody}]
        /\ op \in [Mutation -> OpRec] /\ \A o \in Mutation : Typed(op[o])
        /\ read \in [Read -> ReadRec] /\ \A o \in Read : read[o].root \in RootType
        /\ count \in [Counted -> Nat]
    BY DEF TypeInv, TypeOK
  <1>2. read[r] \in ReadRec
    BY <1>1
  <1>3. ASSUME NEW q \in ReadRec, q.root \in RootType, read' = [read EXCEPT ![r] = q]
        PROVE  ReadsTyped
    BY <1>1, <1>3
  <1>4. CASE GetRoot(r)
    <2> DEFINE q == [read[r] EXCEPT !.pc = "shards", !.root = root]
               p == [read[r] EXCEPT !.pc = "failed"]
    <2>1. CountTyped
      BY <1>4, Faults DEF GetRoot
    <2>2. q \in ReadRec /\ q.root \in RootType
      <3>1. root \in RootDoc
        BY <1>1 DEF RootType
      <3> QED
        BY <1>1, <1>2, <3>1 DEF ReadRec, ReadPc
    <2>3. p \in ReadRec /\ p.root \in RootType
      BY <1>1, <1>2 DEF ReadRec, ReadPc
    <2>4. read' = [read EXCEPT ![r] = q] \/ read' = [read EXCEPT ![r] = p]
      BY <1>1, <1>4 DEF GetRoot
    <2>5. ReadsTyped
      <3> HIDE DEF q, p, ReadsTyped
      <3> QED
        BY <1>3, <2>2, <2>3, <2>4
    <2> QED
      BY <1>1, <1>4, <2>1, <2>5 DEF GetRoot
  <1>5. CASE Answer(r)
    <2> DEFINE found == [k \in Key |-> IF k \in read[r].keys THEN CellIn(read[r].root, k)
                                                             ELSE Absent]
               q == [read[r] EXCEPT !.pc = "answered", !.answer = found]
    <2>1. \A k \in read[r].keys : k \in Key /\ CellIn(read[r].root, k) \in Cell
      BY <1>5, NeededCells DEF Answer
    <2>2. found \in Entries
      BY <2>1, Sizes DEF Entries
    <2>3. read' = [read EXCEPT ![r] = q]
      BY <1>1, <1>5 DEF Answer
    <2> HIDE DEF found
    <2>4. q \in ReadRec /\ q.root \in RootType
      BY <1>1, <1>2, <2>2 DEF ReadRec, ReadPc
    <2>5. ReadsTyped
      <3> HIDE DEF q, ReadsTyped
      <3> QED
        BY <1>3, <2>3, <2>4
    <2>6. ASSUME NEW m \in Mutation PROVE Typed(op'[m])
      <3>1. CASE m \in {r} \X Plaintexts(r)
        <4>1. m[2] \in read[r].keys
          BY <3>1 DEF Plaintexts
        <4>2. CellIn(read[r].root, m[2]).token \in Token \cup {NoToken}
          BY <2>1, <4>1 DEF Cell
        <4>3. op'[m] = NewOp("new", Sealed(CellIn(read[r].root, m[2]).token))
          BY <1>5, <3>1 DEF Answer
        <4> QED
          BY <4>2, <4>3, SealedTyped, NewOpTyped DEF OpPc
      <3>2. CASE m \notin {r} \X Plaintexts(r)
        BY <1>1, <1>5, <3>2 DEF Answer
      <3> QED
        BY <3>1, <3>2
    <2>7. DOMAIN op' = Mutation /\ op' = [m \in Mutation |-> op'[m]]
      BY <1>5 DEF Answer
    <2>8. op' \in [Mutation -> OpRec]
      BY <2>6, <2>7 DEF Typed
    <2> QED
      BY <1>1, <1>5, <2>5, <2>6, <2>8 DEF Answer
  <1>6. CASE RetryRead(r)
    <2> DEFINE pc == IF read[r].tries + 1 >= Retries THEN "failed" ELSE "root"
               q == [read[r] EXCEPT !.tries = @ + 1, !.pc = pc]
    <2>1. read' = [read EXCEPT ![r] = q]
      BY <1>1, <1>6 DEF RetryRead
    <2>2. pc \in ReadPc
      BY DEF ReadPc
    <2> HIDE DEF pc
    <2>3. q \in ReadRec /\ q.root \in RootType
      <3>1. read[r].tries + 1 \in Nat
        BY <1>2 DEF ReadRec
      <3>2. q \in ReadRec
        BY <1>2, <2>2, <3>1 DEF ReadRec
      <3>3. q.root = read[r].root
        BY <1>2 DEF ReadRec
      <3> QED
        BY <1>1, <3>2, <3>3
    <2>4. ReadsTyped
      <3> HIDE DEF q, ReadsTyped
      <3> QED
        BY <1>3, <2>1, <2>3
    <2> QED
      BY <1>1, <1>6, <2>4 DEF RetryRead
  <1>7. CASE ReadRaises(r)
    <2> DEFINE q == [read[r] EXCEPT !.pc = "failed"]
    <2>1. CountTyped
      BY <1>7, Faults DEF ReadRaises
    <2>2. q \in ReadRec /\ q.root \in RootType
      BY <1>1, <1>2 DEF ReadRec, ReadPc
    <2>3. read' = [read EXCEPT ![r] = q]
      BY <1>1, <1>7 DEF ReadRaises
    <2>4. ReadsTyped
      <3> HIDE DEF q, ReadsTyped
      <3> QED
        BY <1>3, <2>2, <2>3
    <2> QED
      BY <1>1, <1>7, <2>1, <2>4 DEF ReadRaises
  <1> QED
    BY <1>4, <1>5, <1>6, <1>7 DEF ReadStep

\* What the death of a process leaves of its calls.
LEMMA Deaths ==
    ASSUME TypeInv, NEW p \in Process, Die(p)
    PROVE  /\ \A m \in Mutation :
                 /\ \/ op'[m] = op[m]
                    \/ /\ op[m].pc \in {"idle", "ok", "failed"}
                       /\ op'[m] = [op[m] EXCEPT !.puts = {}]
                    \/ /\ op[m].pc \notin {"idle", "ok", "failed"}
                       /\ op'[m] = [op[m] EXCEPT !.pc = "dead", !.puts = {}]
           /\ \A r \in Read : \/ read'[r] = read[r]
                              \/ /\ read[r].pc \in {"root", "shards"}
                                 /\ read'[r] = [read[r] EXCEPT !.pc = "failed"]
  <1>1. op \in [Mutation -> OpRec]
    BY DEF TypeInv, TypeOK
  <1>2. ASSUME NEW m \in Mutation, Home(m) # p PROVE op'[m] = op[m]
    <2>1. op[m] \in OpRec
      BY <1>1
    <2>2. op'[m] = [op[m] EXCEPT !.puts = op[m].puts]
      BY <1>2 DEF Die
    <2> QED
      BY <2>1, <2>2 DEF OpRec
  <1>3. ASSUME NEW m \in Mutation, Home(m) = p
        PROVE  \/ /\ op[m].pc \in {"idle", "ok", "failed"}
                  /\ op'[m] = [op[m] EXCEPT !.puts = {}]
               \/ /\ op[m].pc \notin {"idle", "ok", "failed"}
                  /\ op'[m] = [op[m] EXCEPT !.pc = "dead", !.puts = {}]
    BY <1>3 DEF Die
  <1>4. ASSUME NEW r \in Read
        PROVE  \/ read'[r] = read[r]
               \/ /\ read[r].pc \in {"root", "shards"}
                  /\ read'[r] = [read[r] EXCEPT !.pc = "failed"]
    BY DEF Die
  <1> QED
    BY <1>2, <1>3, <1>4

LEMMA EnvironmentTypes ==
    ASSUME TypeInv, (\E p \in Process : Die(p)) \/ LeaseLapses \/ LeaseReaped
    PROVE  TypesKept
  <1> USE DEF TypesKept
  <1>1. /\ root \in RootType
        /\ shard \in [Mutation -> [Bucket -> Entries \cup {Missing}]]
        /\ lease \in [holder : Mutation \cup {Nobody}, live : BOOLEAN]
        /\ lock \in [Process -> Mutation \cup {Nobody}]
        /\ op \in [Mutation -> OpRec] /\ \A o \in Mutation : Typed(op[o])
        /\ read \in [Read -> ReadRec] /\ \A o \in Read : read[o].root \in RootType
        /\ count \in [Counted -> Nat]
    BY DEF TypeInv, TypeOK
  <1>2. {"crashes", "overruns"} \subseteq Counted /\ {MaxCrashes, MaxOverruns} \subseteq Nat
    BY StoreConstants DEF Counted
  <1>3. ASSUME NEW p \in Process, Die(p) PROVE TypesKept
    <2>1. /\ count' \in [Counted -> Nat]
          /\ count'["overruns"] = 0 => count["overruns"] = 0
      BY <1>2, <1>3, Counts DEF Die
    <2>2. ASSUME NEW m \in Mutation PROVE op'[m] \in OpRec /\ Typed(op'[m])
      <3>1. op[m] \in OpRec /\ Typed(op[m])
        BY <1>1
      <3> DEFINE q == [op[m] EXCEPT !.puts = {}]
                 d == [op[m] EXCEPT !.pc = "dead", !.puts = {}]
      <3>2. q \in OpRec /\ q.root = op[m].root /\ q.value = op[m].value /\ q.entries = op[m].entries
        BY <3>1 DEF OpRec
      <3>3. d \in OpRec /\ d.root = op[m].root /\ d.value = op[m].value /\ d.entries = op[m].entries
        BY <3>1 DEF OpRec, OpPc
      <3>4. op'[m] = op[m] \/ op'[m] = q \/ op'[m] = d
        BY <1>3, Deaths
      <3> HIDE DEF q, d
      <3>5. Typed(q) /\ Typed(d)
        BY <3>1, <3>2, <3>3 DEF Typed
      <3> QED
        BY <3>1, <3>2, <3>3, <3>4, <3>5
    <2>3. op' = [m \in Mutation |-> op'[m]] /\ DOMAIN op' = Mutation
      BY <1>3 DEF Die
    <2>4. op' \in [Mutation -> OpRec]
      BY <2>2, <2>3
    <2>5. ASSUME NEW r \in Read PROVE read'[r] \in ReadRec /\ read'[r].root \in RootType
      <3>1. read[r] \in ReadRec /\ read[r].root \in RootType
        BY <1>1
      <3>2. read'[r] = read[r] \/ read'[r] = [read[r] EXCEPT !.pc = "failed"]
        BY <1>3, Deaths
      <3> QED
        BY <3>1, <3>2 DEF ReadRec, ReadPc
    <2>6. read' = [r \in Read |-> read'[r]] /\ DOMAIN read' = Read
      BY <1>3 DEF Die
    <2>7. read' \in [Read -> ReadRec]
      BY <2>5, <2>6
    <2>8. lock' \in [Process -> Mutation \cup {Nobody}]
      BY <1>1, <1>3 DEF Die
    <2> QED
      BY <1>1, <1>3, <2>1, <2>2, <2>4, <2>5, <2>7, <2>8 DEF Die
  <1>4. CASE LeaseLapses
    <2>1. /\ count' \in [Counted -> Nat]
          /\ count'["overruns"] = 0 => count["overruns"] = 0
      BY <1>2, <1>4, Counts DEF LeaseLapses, NoFault
    <2> QED
      BY <1>1, <1>4, <2>1 DEF LeaseLapses
  <1>5. CASE LeaseReaped
    BY <1>1, <1>5 DEF LeaseReaped, Free
  <1> QED
    BY <1>3, <1>4, <1>5

LEMMA TypeStep == ASSUME TypeInv, [Next]_vars PROVE TypesKept
  <1>1. CASE UNCHANGED vars
    BY <1>1 DEF vars, TypesKept, TypeInv, TypeOK
  <1>2. ASSUME NEW m \in Mutation, Step(m) \/ Renew(m) PROVE TypesKept
    <2>1. MaxShards - 1 \in Nat /\ 0 \in Bucket
      BY StoreConstants DEF Bucket
    <2> QED
      BY <1>2, <2>1, GuardTypes, RewriteTypes DEF Step
  <1> QED
    BY <1>1, <1>2, ReadTypes, EnvironmentTypes DEF Next

LEMMA TypeInvariance == Spec => []TypeInv
  <1>1. TypeInv /\ [Next]_vars => TypeInv'
    BY TypeStep, TypesKeep
  <1> QED
    BY <1>1, TypeInit, PTL DEF Spec

\* In every reachable state the root, the shards, the lease, the locks and the
\* calls are of their types.
THEOREM TypeCorrect == Spec => []TypeOK
  <1>1. TypeInv => TypeOK
    BY DEF TypeInv
  <1> QED
    BY <1>1, TypeInvariance, PTL

-----------------------------------------------------------------------------
(* The lease *)

LEMMA LeaseInit == Init => LeaseExcludes
  <1> SUFFICES ASSUME Init, NEW m \in Mutation PROVE op[m].pc \notin Guarded
    BY DEF LeaseExcludes
  <1>1. op[m].pc \in {"new", "idle"}
    BY DEF Init, NewOp
  <1> QED
    BY <1>1 DEF Guarded

\* What moving on, giving up and undoing leave of a mutation.
Same(q, p) == q.root = p.root /\ q.entries = p.entries /\ q.value = p.value

LEMMA GotoFields ==
    ASSUME TypeInv, NEW m \in Mutation, NEW pc, Goto(m, pc)
    PROVE  /\ Same(op'[m], op[m]) /\ op'[m].pc = pc /\ op'[m].err = op[m].err
           /\ op'[m].puts = op[m].puts /\ op'[m].dels = op[m].dels
  <1>1. op \in [Mutation -> OpRec] /\ op[m] \in OpRec
    BY DEF TypeInv, TypeOK
  <1>2. op'[m] = [op[m] EXCEPT !.pc = pc]
    BY <1>1 DEF Goto
  <1> QED
    BY <1>1, <1>2 DEF OpRec, Same

LEMMA AbortFields ==
    ASSUME TypeInv, NEW m \in Mutation, Abort(m)
    PROVE  /\ Same(op'[m], op[m]) /\ op'[m].pc = "release" /\ op'[m].err = TRUE
           /\ op'[m].puts = op[m].puts /\ op'[m].dels = op[m].dels
  <1>1. op \in [Mutation -> OpRec] /\ op[m] \in OpRec
    BY DEF TypeInv, TypeOK
  <1>2. op'[m] = [op[m] EXCEPT !.pc = "release", !.err = TRUE]
    BY <1>1 DEF Abort
  <1> QED
    BY <1>1, <1>2 DEF OpRec, Same

LEMMA UnstagedFields ==
    ASSUME TypeInv, NEW m \in Mutation, NEW b, \/ op' = Unstaged(m)
                                               \/ op' = [Unstaged(m) EXCEPT ![m].puts = @ \ {b}]
    PROVE  /\ Same(op'[m], op[m]) /\ op'[m].pc = "unstage" /\ op'[m].err = op[m].err
           /\ op'[m].puts \subseteq op[m].puts
  <1>1. op \in [Mutation -> OpRec] /\ op[m] \in OpRec
    BY DEF TypeInv, TypeOK
  <1> DEFINE q == [op[m] EXCEPT !.pc = "unstage", !.dels = Staged(m)]
             p == [q EXCEPT !.puts = @ \ {b}]
  <1>2. op'[m] = q \/ op'[m] = p
    BY <1>1 DEF Unstaged
  <1>3. /\ q.root = op[m].root /\ q.entries = op[m].entries /\ q.value = op[m].value
        /\ q.pc = "unstage" /\ q.err = op[m].err /\ q.puts = op[m].puts
    BY <1>1 DEF OpRec
  <1>4. /\ p.root = op[m].root /\ p.entries = op[m].entries /\ p.value = op[m].value
        /\ p.pc = "unstage" /\ p.err = op[m].err /\ p.puts = op[m].puts \ {b}
    BY <1>1 DEF OpRec
  <1> HIDE DEF q, p
  <1> QED
    BY <1>2, <1>3, <1>4 DEF Same

LEMMA StageFields ==
    ASSUME TypeInv, NEW m \in Mutation, NEW b, op' = [op EXCEPT ![m].puts = @ \ {b}]
    PROVE  /\ Same(op'[m], op[m]) /\ op'[m].pc = op[m].pc /\ op'[m].err = op[m].err
           /\ op'[m].puts = op[m].puts \ {b} /\ op'[m].dels = op[m].dels
  <1>1. op \in [Mutation -> OpRec] /\ op[m] \in OpRec
    BY DEF TypeInv, TypeOK
  <1>2. op'[m] = [op[m] EXCEPT !.puts = @ \ {b}]
    BY <1>1
  <1> QED
    BY <1>1, <1>2 DEF OpRec, Same

LEMMA DeleteFields ==
    ASSUME TypeInv, NEW m \in Mutation, NEW b, op' = [op EXCEPT ![m].dels = @ \ {b}]
    PROVE  /\ Same(op'[m], op[m]) /\ op'[m].pc = op[m].pc /\ op'[m].err = op[m].err
           /\ op'[m].puts = op[m].puts
  <1>1. op \in [Mutation -> OpRec] /\ op[m] \in OpRec
    BY DEF TypeInv, TypeOK
  <1>2. op'[m] = [op[m] EXCEPT !.dels = @ \ {b}]
    BY <1>1
  <1> QED
    BY <1>1, <1>2 DEF OpRec, Same

LEMMA RenewFields ==
    ASSUME TypeInv, NEW m \in Mutation, Renew(m)
    PROVE  /\ Same(op'[m], op[m]) /\ op'[m].pc = op[m].pc /\ op'[m].err = op[m].err
           /\ op'[m].puts = op[m].puts /\ op'[m].dels = op[m].dels
  <1>1. op \in [Mutation -> OpRec] /\ op[m] \in OpRec
    BY DEF TypeInv, TypeOK
  <1>2. op'[m] = op[m] \/ op'[m] = [op[m] EXCEPT !.lost = TRUE]
    BY <1>1 DEF Renew
  <1> QED
    BY <1>1, <1>2 DEF OpRec, Same

LEMMA ReadRootFields ==
    ASSUME TypeInv, NEW m \in Mutation, op' = [op EXCEPT ![m].pc = "plan", ![m].root = root]
    PROVE  /\ op'[m].root = root /\ op'[m].entries = op[m].entries /\ op'[m].value = op[m].value
           /\ op'[m].pc = "plan" /\ op'[m].err = op[m].err
           /\ op'[m].puts = op[m].puts /\ op'[m].dels = op[m].dels
  <1>1. op \in [Mutation -> OpRec] /\ op[m] \in OpRec
    BY DEF TypeInv, TypeOK
  <1>2. op'[m] = [op[m] EXCEPT !.pc = "plan", !.root = root]
    BY <1>1
  <1> QED
    BY <1>1, <1>2 DEF OpRec

LEMMA CommitFields ==
    ASSUME TypeInv, NEW m \in Mutation, NEW new,
           op' = [op EXCEPT ![m].pc = "commit", ![m].entries = new]
    PROVE  /\ op'[m].root = op[m].root /\ op'[m].entries = new /\ op'[m].value = op[m].value
           /\ op'[m].pc = "commit" /\ op'[m].err = op[m].err
           /\ op'[m].puts = op[m].puts /\ op'[m].dels = op[m].dels
  <1>1. op \in [Mutation -> OpRec] /\ op[m] \in OpRec
    BY DEF TypeInv, TypeOK
  <1>2. op'[m] = [op[m] EXCEPT !.pc = "commit", !.entries = new]
    BY <1>1
  <1> QED
    BY <1>1, <1>2 DEF OpRec

LEMMA LayFields ==
    ASSUME TypeInv, NEW m \in Mutation, NEW new, NEW puts,
           op' = [op EXCEPT ![m].pc = "stage", ![m].entries = new, ![m].puts = puts]
    PROVE  /\ op'[m].root = op[m].root /\ op'[m].entries = new /\ op'[m].value = op[m].value
           /\ op'[m].pc = "stage" /\ op'[m].err = op[m].err
           /\ op'[m].puts = puts /\ op'[m].dels = op[m].dels
  <1>1. op \in [Mutation -> OpRec] /\ op[m] \in OpRec
    BY DEF TypeInv, TypeOK
  <1>2. op'[m] = [op[m] EXCEPT !.pc = "stage", !.entries = new, !.puts = puts]
    BY <1>1
  <1> QED
    BY <1>1, <1>2 DEF OpRec

LEMMA VerifyFields ==
    ASSUME TypeInv, NEW m \in Mutation, NEW buckets,
           op' = [op EXCEPT ![m].pc = "cleanup", ![m].dels = buckets]
    PROVE  /\ Same(op'[m], op[m]) /\ op'[m].pc = "cleanup" /\ op'[m].err = op[m].err
           /\ op'[m].puts = op[m].puts /\ op'[m].dels = buckets
  <1>1. op \in [Mutation -> OpRec] /\ op[m] \in OpRec
    BY DEF TypeInv, TypeOK
  <1>2. op'[m] = [op[m] EXCEPT !.pc = "cleanup", !.dels = buckets]
    BY <1>1
  <1> QED
    BY <1>1, <1>2 DEF OpRec, Same

LEMMA DeathFields ==
    ASSUME TypeInv, NEW p \in Process, Die(p), NEW m \in Mutation
    PROVE  /\ Same(op'[m], op[m]) /\ op'[m].err = op[m].err /\ op'[m].dels = op[m].dels
           /\ \/ op'[m].pc = op[m].pc /\ op'[m].puts = op[m].puts
              \/ /\ op[m].pc \in {"idle", "ok", "failed"}
                 /\ op'[m].pc = op[m].pc /\ op'[m].puts = {}
              \/ /\ op[m].pc \notin {"idle", "ok", "failed"}
                 /\ op'[m].pc = "dead" /\ op'[m].puts = {}
  <1> DEFINE q == [op[m] EXCEPT !.puts = {}]
             d == [op[m] EXCEPT !.pc = "dead", !.puts = {}]
  <1>1. op[m] \in OpRec
    BY DEF TypeInv, TypeOK
  <1>2. \/ op'[m] = op[m]
        \/ op[m].pc \in {"idle", "ok", "failed"} /\ op'[m] = q
        \/ op[m].pc \notin {"idle", "ok", "failed"} /\ op'[m] = d
    BY Deaths
  <1>3. /\ q.root = op[m].root /\ q.entries = op[m].entries /\ q.value = op[m].value
        /\ q.err = op[m].err /\ q.dels = op[m].dels /\ q.pc = op[m].pc /\ q.puts = {}
    BY <1>1 DEF OpRec
  <1>4. /\ d.root = op[m].root /\ d.entries = op[m].entries /\ d.value = op[m].value
        /\ d.err = op[m].err /\ d.dels = op[m].dels /\ d.pc = "dead" /\ d.puts = {}
    BY <1>1 DEF OpRec
  <1> HIDE DEF q, d
  <1> QED
    BY <1>2, <1>3, <1>4 DEF Same

\* A mutation's step is its own.
LEMMA Own ==
    ASSUME TypeInv, NEW m \in Mutation, Step(m) \/ Renew(m)
    PROVE  /\ \A o \in Mutation : o # m => op'[o] = op[o]
           /\ read' = read
  <1>1. op \in [Mutation -> OpRec]
    BY DEF TypeInv, TypeOK
  <1>2. CASE TakeLock(m) \/ Acquire(m) \/ Release(m) \/ Renew(m)
    BY <1>1, <1>2 DEF TakeLock, Acquire, Release, Renew, Goto
  <1>3. CASE ReadRoot(m) \/ Plan(m) \/ EndUnstage(m) \/ EndCleanup(m)
    BY <1>1, <1>3 DEF ReadRoot, Plan, EndUnstage, EndCleanup, Goto, Abort
  <1>4. CASE CheckStaged(m) \/ Commit(m) \/ Verify(m)
    BY <1>1, <1>4 DEF CheckStaged, Commit, Verify, Goto, Abort, Unstaged
  <1>5. CASE \E b \in Bucket : Stage(m, b) \/ Unstage(m, b) \/ Cleanup(m, b)
    BY <1>1, <1>5 DEF Stage, Unstage, Cleanup, Unstaged
  <1> QED
    BY <1>2, <1>3, <1>4, <1>5 DEF Step

\* A mutation enters the guard by taking the lease.
LEMMA Entering ==
    ASSUME TypeInv, NEW m \in Mutation, Step(m), op'[m].pc \in Guarded
    PROVE  \/ op[m].pc \in Guarded /\ lease' = lease
           \/ Acquirable /\ lease' = Taken(m)
  <1>1. op \in [Mutation -> OpRec]
    BY DEF TypeInv, TypeOK
  <1>2. CASE TakeLock(m)
    BY <1>2, GotoFields DEF TakeLock, Guarded
  <1>3. CASE Acquire(m)
    BY <1>3, GotoFields DEF Acquire, Guarded
  <1>4. CASE Release(m)
    BY <1>4, GotoFields DEF Release, Guarded
  <1>5. CASE ReadRoot(m) \/ Plan(m) \/ EndUnstage(m) \/ EndCleanup(m) \/ CheckStaged(m)
             \/ Commit(m) \/ Verify(m)
    BY <1>5 DEF ReadRoot, Plan, EndUnstage, EndCleanup, CheckStaged, Commit, Verify, Guarded
  <1>6. CASE \E b \in Bucket : Stage(m, b) \/ Unstage(m, b) \/ Cleanup(m, b)
    <2> PICK b \in Bucket : Stage(m, b) \/ Unstage(m, b) \/ Cleanup(m, b)
      BY <1>6
    <2>1. lease' = lease
      BY DEF Stage, Unstage, Cleanup
    <2>2. CASE op[m].pc \in Guarded
      BY <2>1, <2>2
    <2>3. CASE op[m].pc \notin Guarded
      <3>1. op' = [op EXCEPT ![m].puts = @ \ {b}]
        BY <2>3 DEF Stage, Unstage, Cleanup, Guarded
      <3> QED
        BY <2>3, <3>1, StageFields
    <2> QED
      BY <2>2, <2>3
  <1> QED
    BY <1>2, <1>3, <1>4, <1>5, <1>6 DEF Step

\* A step that changes the lease takes it when it may be taken, or leaves the guard.
LEMMA Leasing ==
    ASSUME TypeInv, NEW m \in Mutation, Step(m), lease' # lease
    PROVE  \/ op[m].pc \notin Guarded /\ Acquirable /\ lease' = Taken(m)
           \/ op[m].pc \in Guarded /\ op'[m].pc \notin Guarded
  <1>1. op \in [Mutation -> OpRec]
    BY DEF TypeInv, TypeOK
  <1>2. CASE Acquire(m)
    BY <1>2 DEF Acquire, Guarded
  <1>3. CASE Release(m)
    BY <1>3, GotoFields DEF Release, Guarded
  <1>4. ~Acquire(m) /\ ~Release(m) => lease' = lease
    BY DEF Step, TakeLock, ReadRoot, Plan, EndUnstage, EndCleanup, CheckStaged, Commit, Verify,
       Stage, Unstage, Cleanup
  <1> QED
    BY <1>2, <1>3, <1>4

LEMMA LeaseStep == TypeInv /\ LeaseExcludes /\ [Next]_vars => LeaseExcludes'
  <1> SUFFICES ASSUME TypeInv, LeaseExcludes, [Next]_vars, count'["overruns"] = 0,
                      NEW m \in Mutation, op'[m].pc \in Guarded
               PROVE  /\ lease' = Taken(m)
                      /\ \A o \in Mutation : op'[o].pc \in Guarded => o = m
    BY DEF LeaseExcludes, Taken
  <1>1. count["overruns"] = 0
    BY TypeStep DEF TypesKept
  <1>2. \A n \in Mutation : op[n].pc \in Guarded =>
           lease = Taken(n) /\ ~Acquirable /\ \A o \in Mutation : op[o].pc \in Guarded => o = n
    BY <1>1, StoreConstants DEF LeaseExcludes, Acquirable, Taken
  <1>3. op \in [Mutation -> OpRec]
    BY DEF TypeInv, TypeOK
  <1>4. CASE UNCHANGED vars
    BY <1>2, <1>4 DEF vars
  <1>5. ASSUME NEW n \in Mutation, Step(n)
        PROVE  /\ lease' = Taken(m)
               /\ \A o \in Mutation : op'[o].pc \in Guarded => o = m
    <2>1. \A o \in Mutation : o # n => op'[o] = op[o]
      BY <1>5, Own
    <2>2. CASE op'[n].pc \in Guarded
      <3>1. CASE op[n].pc \in Guarded /\ lease' = lease
        BY <1>2, <2>1, <3>1
      <3>2. CASE Acquirable /\ lease' = Taken(n)
        BY <1>2, <2>1, <3>2
      <3> QED
        BY <1>5, <2>2, <3>1, <3>2, Entering
    <2>3. CASE op'[n].pc \notin Guarded
      <3>1. m # n /\ op[m].pc \in Guarded
        BY <2>1, <2>3
      <3>2. lease' = lease
        BY <1>2, <1>5, <3>1, Leasing
      <3> QED
        BY <1>2, <2>1, <2>3, <3>1, <3>2
    <2> QED
      BY <2>2, <2>3
  <1>6. ASSUME NEW n \in Mutation, Renew(n)
        PROVE  /\ lease' = Taken(m)
               /\ \A o \in Mutation : op'[o].pc \in Guarded => o = m
    <2>1. op[n].pc \in Guarded
      BY <1>6 DEF Renew
    <2>2. lease' = lease
      BY <1>2, <1>6, <2>1 DEF Renew, Acquirable
    <2>3. op'[n].pc = op[n].pc /\ \A o \in Mutation : o # n => op'[o] = op[o]
      BY <1>6, Own, RenewFields
    <2> QED
      BY <1>2, <2>1, <2>2, <2>3
  <1>7. ASSUME NEW r \in Read, ReadStep(r)
        PROVE  /\ lease' = Taken(m)
               /\ \A o \in Mutation : op'[o].pc \in Guarded => o = m
    <2>1. \A o \in Mutation : op'[o].pc \in Guarded => op[o].pc \in Guarded
      BY <1>7 DEF ReadStep, GetRoot, Answer, RetryRead, ReadRaises, NewOp, Guarded
    <2>2. lease' = lease
      BY <1>7 DEF ReadStep, GetRoot, Answer, RetryRead, ReadRaises
    <2> QED
      BY <1>2, <2>1, <2>2
  <1>8. ASSUME NEW p \in Process, Die(p)
        PROVE  /\ lease' = Taken(m)
               /\ \A o \in Mutation : op'[o].pc \in Guarded => o = m
    <2>1. ASSUME NEW o \in Mutation, op'[o].pc \in Guarded PROVE op[o].pc \in Guarded
      <3>1. op[o] \in OpRec
        BY <1>3
      <3> QED
        BY <1>8, <2>1, <3>1, Deaths DEF Guarded, OpRec
    <2>2. lease' = lease
      BY <1>8 DEF Die
    <2> QED
      BY <1>2, <2>1, <2>2
  <1>9. CASE LeaseLapses
    <2>1. op[m].pc \in Guarded
      BY <1>9 DEF LeaseLapses
    <2>2. Overrun
      BY <1>2, <2>1, StoreConstants DEF Overrun, Taken
    <2>3. "overruns" \in Counted /\ count \in [Counted -> Nat]
      BY DEF Counted, TypeInv, TypeOK
    <2>4. count'["overruns"] = count["overruns"] + 1
      BY <1>9, <2>2, <2>3 DEF LeaseLapses, Bounded
    <2> QED
      BY <1>1, <2>4
  <1>10. CASE LeaseReaped
    BY <1>2, <1>10 DEF LeaseReaped, Acquirable
  <1> QED
    BY <1>4, <1>5, <1>6, <1>7, <1>8, <1>9, <1>10 DEF Next

\* While no lease lapses under a mutation at work, at most one mutation is between
\* its first read and its release, and it is the one the lease document names.
THEOREM OneMutationAtATime == Spec => []LeaseExcludes
  BY TypeInvariance, LeaseInit, LeaseStep, PTL DEF Spec

-----------------------------------------------------------------------------
(* Documents and the generations they name *)

\* Nothing takes a mutation back that may have written the root.
LEMMA PastStays ==
    ASSUME TypeInv, Scheduled, [Next]_vars, NEW g \in Mutation, op[g].pc \in Past, op[g].puts = {}
    PROVE  op'[g].pc \in Past /\ op'[g].puts = {} /\ op'[g].entries = op[g].entries
  <1> USE DEF Same
  <1>1. CASE UNCHANGED vars
    BY <1>1 DEF vars
  <1>2. ASSUME NEW m \in Mutation, m # g, Step(m) \/ Renew(m) PROVE op'[g] = op[g]
    BY <1>2, Own
  <1>3. CASE Step(g)
    <2>1. CASE Verify(g)
      <3>1. CASE Abort(g)
        BY <3>1, AbortFields DEF Past
      <3>2. CASE op' = [op EXCEPT ![g].pc = "cleanup", ![g].dels = BucketsOf(op[g].root)]
        BY <3>2, VerifyFields DEF Past
      <3> QED
        BY <2>1, <3>1, <3>2 DEF Verify
    <2>2. CASE EndCleanup(g)
      BY <2>2, GotoFields DEF EndCleanup, Past
    <2>3. CASE Release(g)
      BY <2>3, GotoFields DEF Release, Past
    <2>4. CASE \E b \in Bucket : Cleanup(g, b)
      BY <2>4, DeleteFields DEF Cleanup
    <2>5. op[g].pc \notin {"new", "lease", "root", "plan", "stage", "unstage", "commit"}
      BY DEF Past
    <2> QED
      BY <1>3, <2>1, <2>2, <2>3, <2>4, <2>5 DEF Step, TakeLock, Acquire, ReadRoot, Plan,
         CheckStaged, EndUnstage, Commit, Stage, Unstage
  <1>4. CASE Renew(g)
    BY <1>4, RenewFields
  <1>5. ASSUME NEW r \in Read, ReadStep(r) PROVE op'[g] = op[g]
    <2>1. CASE Answer(r)
      <3>1. g \notin {r} \X Plaintexts(r)
        BY <2>1, NeededCells DEF Answer, Scheduled, Past, Plaintexts
      <3> QED
        BY <2>1, <3>1 DEF Answer
    <2> QED
      BY <1>5, <2>1 DEF ReadStep, GetRoot, RetryRead, ReadRaises
  <1>6. ASSUME NEW p \in Process, Die(p)
        PROVE  op'[g].pc \in Past /\ op'[g].puts = {} /\ op'[g].entries = op[g].entries
    BY <1>6, DeathFields DEF Past
  <1>7. CASE LeaseLapses \/ LeaseReaped
    BY <1>7 DEF LeaseLapses, LeaseReaped
  <1> QED
    BY <1>1, <1>2, <1>3, <1>4, <1>5, <1>6, <1>7 DEF Next

LEMMA WrittenStays ==
    ASSUME TypeInv, Scheduled, [Next]_vars, NEW doc \in RootType, WrittenIn(doc, op)
    PROVE  WrittenIn(doc, op')
  <1> SUFFICES ASSUME doc.kind = "manifest"
               PROVE  /\ op'[doc.gen].pc \in Past
                      /\ op'[doc.gen].puts = {}
                      /\ doc = Document(doc.gen, op'[doc.gen].entries)
    BY DEF WrittenIn
  <1>1. /\ op[doc.gen].pc \in Past
        /\ op[doc.gen].puts = {}
        /\ doc = Document(doc.gen, op[doc.gen].entries)
    BY DEF WrittenIn
  <1>2. doc.gen \in Mutation
    BY DEF RootType
  <1> QED
    BY <1>1, <1>2, PastStays

\* An idle call takes no step.
LEMMA Waiting ==
    ASSUME TypeInv, Quiet, NEW m \in Mutation, Step(m) \/ Renew(m)
    PROVE  op[m].pc # "idle"
  BY DEF Quiet, Step, Renew, Guarded, TakeLock, Acquire, ReadRoot, Plan, CheckStaged, EndUnstage,
     Commit, Verify, EndCleanup, Release, Stage, Unstage, Cleanup

LEMMA ScheduledStep ==
    ASSUME TypeInv, Quiet, Scheduled, [Next]_vars
    PROVE  Scheduled'
  <1> SUFFICES ASSUME NEW m \in Read \X Key, read'[m[1]].pc # "answered"
               PROVE  op'[m].pc = "idle"
    BY DEF Scheduled
  <1>1. m \in Mutation /\ m[1] \in Read
    BY DEF Mutation
  <1>2. read \in [Read -> ReadRec] /\ op \in [Mutation -> OpRec]
    BY DEF TypeInv, TypeOK
  <1>3. CASE UNCHANGED vars
    BY <1>3 DEF vars, Scheduled
  <1>4. ASSUME NEW n \in Mutation, Step(n) \/ Renew(n) PROVE op'[m].pc = "idle"
    <2>1. op[m].pc = "idle"
      BY <1>4, Own DEF Scheduled
    <2> QED
      BY <1>1, <1>4, <2>1, Own, Waiting
  <1>5. ASSUME NEW r \in Read, ReadStep(r) PROVE op'[m].pc = "idle"
    <2>1. read[m[1]] \in ReadRec /\ read[r] \in ReadRec
      BY <1>1, <1>2
    <2>2. CASE Answer(r)
      <3>1. read' = [read EXCEPT ![r] = read'[r]] /\ read'[r].pc = "answered"
        BY <1>2, <2>1, <2>2 DEF Answer, ReadRec
      <3>2. m[1] # r
        BY <3>1
      <3>3. read'[m[1]] = read[m[1]]
        BY <1>1, <1>2, <3>1, <3>2
      <3>4. op[m].pc = "idle"
        BY <3>3 DEF Scheduled
      <3>5. m \notin {r} \X Plaintexts(r)
        BY <3>2
      <3> QED
        BY <1>1, <2>2, <3>4, <3>5 DEF Answer
    <2>3. CASE GetRoot(r) \/ RetryRead(r) \/ ReadRaises(r)
      <3>1. read[m[1]].pc # "answered"
        BY <1>1, <1>2, <2>3 DEF GetRoot, RetryRead, ReadRaises
      <3> QED
        BY <2>3, <3>1 DEF Scheduled, GetRoot, RetryRead, ReadRaises
    <2> QED
      BY <1>5, <2>2, <2>3 DEF ReadStep
  <1>6. ASSUME NEW p \in Process, Die(p) PROVE op'[m].pc = "idle"
    <2>1. read[m[1]].pc # "answered"
      BY <1>1, <1>6, Deaths
    <2>2. op[m].pc = "idle"
      BY <2>1 DEF Scheduled
    <2> QED
      BY <1>1, <1>6, <2>2, DeathFields
  <1>7. CASE LeaseLapses \/ LeaseReaped
    BY <1>7 DEF Scheduled, LeaseLapses, LeaseReaped
  <1> QED
    BY <1>3, <1>4, <1>5, <1>6, <1>7 DEF Next

LEMMA QuietStep ==
    ASSUME TypeInv, Quiet, [Next]_vars
    PROVE  Quiet'
  <1> DEFINE Still == {"idle", "new", "lease", "root", "plan", "commit"}
  <1> SUFFICES ASSUME NEW m \in Mutation, op'[m].pc \in Still
               PROVE  op'[m].puts = {}
    BY DEF Quiet
  <1>1. op[m].pc \in Still => op[m].puts = {}
    BY DEF Quiet
  <1>2. CASE UNCHANGED vars
    BY <1>1, <1>2 DEF vars
  <1>3. ASSUME NEW n \in Mutation, n # m, Step(n) \/ Renew(n) PROVE op'[m] = op[m]
    BY <1>3, Own
  <1>4. CASE Renew(m)
    BY <1>1, <1>4, RenewFields
  <1>5. CASE Step(m)
    <2>1. CASE TakeLock(m) \/ Acquire(m) \/ Release(m) \/ EndCleanup(m)
      BY <1>1, <2>1, GotoFields DEF TakeLock, Acquire, Release, EndCleanup
    <2>2. CASE ReadRoot(m)
      BY <1>1, <2>2, AbortFields, ReadRootFields DEF ReadRoot
    <2>3. CASE Plan(m)
      <3> DEFINE new == Changed(m)
      <3>0. op[m].pc = "plan"
        BY <2>3 DEF Plan
      <3>1. op[m].puts = {}
        BY <1>1, <3>0
      <3>2. ASSUME Abort(m) \/ Goto(m, "release") PROVE op'[m].pc = "release"
        BY <3>2, AbortFields, GotoFields
      <3>3. CASE op' = [op EXCEPT ![m].pc = "commit", ![m].entries = new]
        <4> HIDE DEF new
        <4> QED
          BY <3>1, <3>3, CommitFields
      <3>4. CASE op' = [op EXCEPT ![m].pc = "stage", ![m].entries = new,
                                  ![m].puts = 0 .. BucketCount(new) - 1]
        <4> DEFINE all == 0 .. BucketCount(new) - 1
        <4>1. op' = [op EXCEPT ![m].pc = "stage", ![m].entries = new, ![m].puts = all]
          BY <3>4
        <4> HIDE DEF new, all
        <4>2. op'[m].pc = "stage"
          BY <4>1, LayFields
        <4> QED
          BY <4>2
      <3> QED
        BY <2>3, <3>2, <3>3, <3>4 DEF Plan
    <2>4. CASE CheckStaged(m)
      BY <2>4, UnstagedFields, AbortFields, GotoFields DEF CheckStaged
    <2>5. CASE EndUnstage(m)
      BY <2>5, AbortFields DEF EndUnstage
    <2>6. CASE Commit(m)
      <3>1. CASE Abort(m)
        BY <3>1, AbortFields
      <3>2. CASE Goto(m, "verify")
        BY <3>2, GotoFields
      <3> QED
        BY <2>6, <3>1, <3>2 DEF Commit
    <2>7. CASE Verify(m)
      BY <2>7, AbortFields, VerifyFields DEF Verify
    <2>8. ASSUME NEW b \in Bucket, Stage(m, b) PROVE op'[m].puts = {}
      BY <1>1, <2>8, StageFields, UnstagedFields DEF Stage
    <2>9. ASSUME NEW b \in Bucket, Unstage(m, b) \/ Cleanup(m, b) PROVE op'[m].puts = {}
      BY <1>1, <2>9, DeleteFields DEF Unstage, Cleanup
    <2> QED
      BY <1>5, <2>1, <2>2, <2>3, <2>4, <2>5, <2>6, <2>7, <2>8, <2>9 DEF Step
  <1>6. ASSUME NEW r \in Read, ReadStep(r) PROVE op'[m].puts = {}
    <2>1. op'[m] = op[m] \/ op'[m].puts = {}
      BY <1>6 DEF ReadStep, GetRoot, Answer, RetryRead, ReadRaises, NewOp
    <2> QED
      BY <1>1, <2>1
  <1>7. ASSUME NEW p \in Process, Die(p) PROVE op'[m].puts = {}
    BY <1>1, <1>7, DeathFields
  <1>8. CASE LeaseLapses \/ LeaseReaped
    BY <1>1, <1>8 DEF LeaseLapses, LeaseReaped
  <1> QED
    BY <1>1, <1>2, <1>3, <1>4, <1>5, <1>6, <1>7, <1>8 DEF Next

\* A document names the mutation that wrote it, or none.
LEMMA DocumentFields ==
    ASSUME NEW m \in Mutation, NEW entries \in Entries
    PROVE  /\ Document(m, entries).gen \in {m, Nobody}
           /\ Document(m, entries).kind = "manifest" =>
                 /\ Size(entries) > Capacity
                 /\ Document(m, entries).gen = m
                 /\ Document(m, entries).buckets = BucketCount(entries)
           /\ Document(m, entries).kind # "manifest" =>
                 /\ ~(Size(entries) > Capacity)
                 /\ Document(m, entries).entries = entries
  <1>1. Size(entries) > Capacity => entries # Nothing
    BY Sizes, StoreConstants
  <1>2. CASE entries = Nothing
    <2>1. Document(m, entries) = NoRoot
      BY <1>1, <1>2 DEF Document
    <2> QED
      BY <1>1, <1>2, <2>1 DEF NoRoot
  <1>3. CASE Size(entries) > Capacity
    <2>1. Document(m, entries) = Manifest(m, BucketCount(entries))
      BY <1>1, <1>3 DEF Document
    <2> QED
      BY <1>3, <2>1 DEF Manifest, NoRoot
  <1>4. CASE entries # Nothing /\ ~(Size(entries) > Capacity)
    <2>1. Document(m, entries) = Inline(entries)
      BY <1>4 DEF Document
    <2> QED
      BY <1>4, <2>1 DEF Inline, NoRoot
  <1> QED
    BY <1>2, <1>3, <1>4

\* The root changes by a commit only.
Commits(m) ==
    /\ op[m].pc = "commit"
    /\ root' = Document(m, op[m].entries)
    /\ Same(op'[m], op[m]) /\ op'[m].puts = op[m].puts
    /\ \/ op'[m].pc = "verify"
       \/ op'[m].pc = "release" /\ op'[m].err = TRUE

LEMMA RootSteps ==
    ASSUME TypeInv, [Next]_vars, root' # root
    PROVE  \E m \in Mutation : Commit(m) /\ Commits(m) /\ shard' = shard /\ read' = read
  <1>1. \E m \in Mutation : Commit(m)
    BY DEF Next, vars, Step, Renew, ReadStep, Die, LeaseLapses, LeaseReaped, TakeLock, Acquire,
       ReadRoot, Plan, CheckStaged, EndUnstage, Verify, EndCleanup, Release, Stage, Unstage, Cleanup,
       GetRoot, Answer, RetryRead, ReadRaises
  <1>2. PICK m \in Mutation : Commit(m)
    BY <1>1
  <1>3. /\ op[m].pc = "commit" /\ root' = Document(m, op[m].entries)
        /\ shard' = shard /\ read' = read
    BY <1>2 DEF Commit
  <1>4. CASE Abort(m)
    <2>1. Commits(m)
      BY <1>3, <1>4, AbortFields DEF Commits
    <2> QED
      BY <1>2, <1>3, <2>1
  <1>5. CASE Goto(m, "verify")
    <2>1. Commits(m)
      BY <1>3, <1>5, GotoFields DEF Commits
    <2> QED
      BY <1>2, <1>3, <2>1
  <1> QED
    BY <1>2, <1>4, <1>5 DEF Commit

\* A mutation and a read have the documents they read; a write its value.
LEMMA OpRoots ==
    ASSUME TypeInv, [Next]_vars, NEW m \in Mutation
    PROVE  /\ op'[m].root \in {op[m].root, root, NoRoot}
           /\ op'[m].pc \in {"verify", "cleanup"} => op'[m].root = op[m].root
           /\ m \in Write => op'[m].value = op[m].value
  <1> USE DEF Same
  <1>1. CASE UNCHANGED vars
    BY <1>1 DEF vars
  <1>2. ASSUME NEW n \in Mutation, n # m, Step(n) \/ Renew(n) PROVE op'[m] = op[m]
    BY <1>2, Own
  <1>3. CASE Renew(m)
    BY <1>3, RenewFields
  <1>4. CASE Step(m)
    <2>1. CASE ReadRoot(m)
      <3>1. CASE Abort(m)
        BY <3>1, AbortFields
      <3>2. CASE op' = [op EXCEPT ![m].pc = "plan", ![m].root = root]
        BY <3>2, ReadRootFields
      <3> QED
        BY <2>1, <3>1, <3>2 DEF ReadRoot
    <2>2. CASE Plan(m)
      <3> DEFINE new == Changed(m)
                 all == 0 .. BucketCount(new) - 1
      <3>1. \/ Abort(m) \/ Goto(m, "release")
            \/ op' = [op EXCEPT ![m].pc = "commit", ![m].entries = new]
            \/ op' = [op EXCEPT ![m].pc = "stage", ![m].entries = new, ![m].puts = all]
        BY <2>2 DEF Plan
      <3> HIDE DEF new, all
      <3>2. CASE Abort(m)
        BY <3>2, AbortFields
      <3>3. CASE Goto(m, "release")
        BY <3>3, GotoFields
      <3>4. CASE op' = [op EXCEPT ![m].pc = "commit", ![m].entries = new]
        BY <3>4, CommitFields
      <3>5. CASE op' = [op EXCEPT ![m].pc = "stage", ![m].entries = new, ![m].puts = all]
        BY <3>5, LayFields
      <3> QED
        BY <3>1, <3>2, <3>3, <3>4, <3>5
    <2>3. CASE TakeLock(m) \/ Acquire(m) \/ EndCleanup(m) \/ Release(m)
      BY <2>3, GotoFields DEF TakeLock, Acquire, EndCleanup, Release
    <2>4. CASE CheckStaged(m)
      BY <2>4, UnstagedFields, AbortFields, GotoFields DEF CheckStaged
    <2>5. CASE EndUnstage(m)
      BY <2>5, AbortFields DEF EndUnstage
    <2>6. CASE Commit(m)
      <3>1. CASE Abort(m)
        BY <3>1, AbortFields
      <3>2. CASE Goto(m, "verify")
        BY <3>2, GotoFields
      <3> QED
        BY <2>6, <3>1, <3>2 DEF Commit
    <2>7. CASE Verify(m)
      <3>1. CASE Abort(m)
        BY <3>1, AbortFields
      <3>2. CASE op' = [op EXCEPT ![m].pc = "cleanup", ![m].dels = BucketsOf(op[m].root)]
        BY <3>2, VerifyFields
      <3> QED
        BY <2>7, <3>1, <3>2 DEF Verify
    <2>8. ASSUME NEW b \in Bucket, Stage(m, b) PROVE op'[m].root = op[m].root /\ op'[m].value = op[m].value
      BY <2>8, StageFields, UnstagedFields DEF Stage
    <2>9. ASSUME NEW b \in Bucket, Unstage(m, b) \/ Cleanup(m, b) PROVE op'[m].root = op[m].root /\ op'[m].value = op[m].value
      BY <2>9, DeleteFields DEF Unstage, Cleanup
    <2> QED
      BY <1>4, <2>1, <2>2, <2>3, <2>4, <2>5, <2>6, <2>7, <2>8, <2>9 DEF Step
  <1>5. ASSUME NEW r \in Read, ReadStep(r)
        PROVE  \/ op'[m] = op[m]
               \/ op'[m].root = NoRoot /\ op'[m].pc = "new" /\ m \notin Write
    <2>1. CASE Answer(r)
      <3>1. CASE m \in {r} \X Plaintexts(r)
        <4>1. m \notin Write
          BY <3>1, NeededCells, StoreConstants DEF Plaintexts
        <4> QED
          BY <2>1, <3>1, <4>1 DEF Answer, NewOp
      <3>2. CASE m \notin {r} \X Plaintexts(r)
        BY <2>1, <3>2 DEF Answer
      <3> QED
        BY <3>1, <3>2
    <2> QED
      BY <1>5, <2>1 DEF ReadStep, GetRoot, RetryRead, ReadRaises
  <1>6. ASSUME NEW p \in Process, Die(p) PROVE op'[m].root = op[m].root /\ op'[m].value = op[m].value
    BY <1>6, DeathFields
  <1>7. CASE LeaseLapses \/ LeaseReaped
    BY <1>7 DEF LeaseLapses, LeaseReaped
  <1> QED
    BY <1>1, <1>2, <1>3, <1>4, <1>5, <1>6, <1>7 DEF Next

LEMMA ReadRoots ==
    ASSUME TypeInv, [Next]_vars, NEW r \in Read
    PROVE  read'[r].root \in {read[r].root, root}
  <1>1. read \in [Read -> ReadRec] /\ read[r] \in ReadRec
    BY DEF TypeInv, TypeOK
  <1>2. ASSUME NEW p \in Process, Die(p) PROVE read'[r].root = read[r].root
    BY <1>1, <1>2, Deaths DEF ReadRec
  <1>3. ASSUME NEW o \in Read, ReadStep(o) PROVE read'[r].root \in {read[r].root, root}
    <2>1. CASE o # r
      BY <1>1, <1>3, <2>1 DEF ReadStep, GetRoot, Answer, RetryRead, ReadRaises
    <2>2. CASE GetRoot(r)
      BY <1>1, <2>2 DEF GetRoot, ReadRec
    <2>3. CASE Answer(r)
      BY <1>1, <2>3 DEF Answer, ReadRec
    <2>4. CASE RetryRead(r) \/ ReadRaises(r)
      BY <1>1, <2>4 DEF RetryRead, ReadRaises, ReadRec
    <2> QED
      BY <1>3, <2>1, <2>2, <2>3, <2>4 DEF ReadStep
  <1>4. ASSUME NEW n \in Mutation, Step(n) \/ Renew(n) PROVE read' = read
    BY <1>4, Own
  <1> QED
    BY <1>2, <1>3, <1>4 DEF Next, vars, LeaseLapses, LeaseReaped

LEMMA WrittenInit == Init => WrittenInv
  <1> SUFFICES ASSUME Init PROVE WrittenInv
    OBVIOUS
  <1>1. NoRoot.kind # "manifest"
    BY DEF NoRoot
  <1>2. root.kind # "manifest"
    BY DEF Init, NoRoot, Inline
  <1>3. \A m \in Mutation : /\ op[m].root = NoRoot /\ op[m].puts = {}
                            /\ m \notin Write => op[m].pc = "idle"
    BY DEF Init, NewOp
  <1>4. \A r \in Read : read[r].root = NoRoot
    BY DEF Init, NewRead
  <1>5. \A m \in Read \X Key : m \in Mutation /\ m \notin Write
    BY StoreConstants DEF Mutation
  <1> QED
    BY <1>1, <1>2, <1>3, <1>4, <1>5 DEF WrittenInv, Quiet, Scheduled, Written, WrittenIn

LEMMA WrittenStep == TypeInv /\ WrittenInv /\ [Next]_vars => WrittenInv'
  <1> SUFFICES ASSUME TypeInv, WrittenInv, [Next]_vars PROVE WrittenInv'
    OBVIOUS
  <1>1. Quiet /\ Scheduled
    BY DEF WrittenInv
  <1>2. Quiet' /\ Scheduled'
    BY <1>1, QuietStep, ScheduledStep
  <1>3. WrittenIn(root, op) /\ root \in RootType
    BY DEF WrittenInv, Written, TypeInv
  <1>4. WrittenIn(root, op')
    BY <1>1, <1>3, WrittenStays
  <1>5. \A n \in Mutation : op[n].root \in RootType /\ WrittenIn(op[n].root, op)
    BY DEF WrittenInv, Written, TypeInv, Typed
  <1>6. \A r \in Read : read[r].root \in RootType /\ WrittenIn(read[r].root, op)
    BY DEF WrittenInv, Written, TypeInv
  <1>7. WrittenIn(NoRoot, op')
    BY DEF WrittenIn, NoRoot
  <1>8. WrittenIn(root', op')
    <2>1. CASE root' = root
      BY <1>4, <2>1
    <2>2. CASE root' # root
      <3>1. PICK m \in Mutation : Commits(m)
        BY <2>2, RootSteps
      <3>2. op[m].entries \in Entries
        BY DEF TypeInv, TypeOK, OpRec
      <3>3. op[m].puts = {}
        BY <1>1, <3>1 DEF Quiet, Commits
      <3>4. op'[m].puts = {} /\ op'[m].entries = op[m].entries /\ op'[m].pc \in Past
        BY <3>1, <3>3 DEF Commits, Same, Past
      <3>5. root' = Document(m, op'[m].entries)
        BY <3>1, <3>4 DEF Commits
      <3>6. root'.kind = "manifest" => root'.gen = m
        BY <3>2, <3>4, <3>5, DocumentFields
      <3> QED
        BY <3>4, <3>5, <3>6 DEF WrittenIn
    <2> QED
      BY <2>1, <2>2
  <1>9. ASSUME NEW m \in Mutation PROVE WrittenIn(op'[m].root, op')
    BY <1>1, <1>4, <1>5, <1>7, OpRoots, WrittenStays
  <1>10. ASSUME NEW r \in Read PROVE WrittenIn(read'[r].root, op')
    BY <1>1, <1>4, <1>6, ReadRoots, WrittenStays
  <1> QED
    BY <1>2, <1>8, <1>9, <1>10 DEF WrittenInv, Written

-----------------------------------------------------------------------------
(* The generation of the root *)

\* A plan that goes on, with what it found and what it makes of it.
Planned(m) ==
    /\ op[m].pc = "plan" /\ ~Obsolete(m) /\ Present(op[m].root, BucketsOf(op[m].root))
    /\ op'[m].root = op[m].root /\ op'[m].value = op[m].value /\ op'[m].entries = Changed(m)
    /\ \/ op'[m].pc = "commit" /\ Size(Changed(m)) <= Capacity
       \/ /\ op'[m].pc = "stage" /\ Size(Changed(m)) > Capacity
          /\ op'[m].puts = 0 .. BucketCount(Changed(m)) - 1

Puts(m, b) ==
    /\ b \in op[m].puts
    /\ op'[m].puts = op[m].puts \ {b}
    /\ shard' = [shard EXCEPT ![m][b] = Partition(op[m].entries, BucketCount(op[m].entries), b)]

LEMMA PlanChoices ==
    ASSUME TypeInv, NEW m \in Mutation, Plan(m)
    PROVE  \/ Abort(m)
           \/ Obsolete(m) /\ Goto(m, "release")
           \/ Planned(m)
  <1> DEFINE new == Changed(m)
             all == 0 .. BucketCount(new) - 1
             Goes == ~Obsolete(m) /\ Present(op[m].root, BucketsOf(op[m].root))
  <1>0. op[m].pc = "plan"
    BY DEF Plan
  <1>1. \/ Abort(m)
        \/ Obsolete(m) /\ Goto(m, "release")
        \/ /\ Goes /\ Size(new) <= Capacity
           /\ op' = [op EXCEPT ![m].pc = "commit", ![m].entries = new]
        \/ /\ Goes /\ Size(new) > Capacity
           /\ op' = [op EXCEPT ![m].pc = "stage", ![m].entries = new, ![m].puts = all]
    BY DEF Plan
  <1>2. CASE /\ Goes /\ Size(new) <= Capacity
             /\ op' = [op EXCEPT ![m].pc = "commit", ![m].entries = new]
    <2> HIDE DEF new
    <2>1. /\ op'[m].root = op[m].root /\ op'[m].value = op[m].value /\ op'[m].entries = new
          /\ op'[m].pc = "commit"
      BY <1>2, CommitFields
    <2> USE DEF new
    <2> QED
      BY <1>0, <1>2, <2>1 DEF Planned
  <1>3. CASE /\ Goes /\ Size(new) > Capacity
             /\ op' = [op EXCEPT ![m].pc = "stage", ![m].entries = new, ![m].puts = all]
    <2> HIDE DEF new, all
    <2>1. /\ op'[m].root = op[m].root /\ op'[m].value = op[m].value /\ op'[m].entries = new
          /\ op'[m].pc = "stage" /\ op'[m].puts = all
      <3>1. op' = [op EXCEPT ![m].pc = "stage", ![m].entries = new, ![m].puts = all]
        BY <1>3
      <3> HIDE DEF Goes
      <3>2. op \in [Mutation -> OpRec] /\ op[m] \in OpRec
        BY DEF TypeInv, TypeOK
      <3>3. op'[m] = [op[m] EXCEPT !.pc = "stage", !.entries = new, !.puts = all]
        BY <3>1, <3>2
      <3> QED
        BY <3>2, <3>3 DEF OpRec
    <2> USE DEF new, all
    <2> QED
      BY <1>0, <1>3, <2>1 DEF Planned
  <1> QED
    BY <1>1, <1>2, <1>3

LEMMA PlanSteps ==
    ASSUME TypeInv, NEW m \in Mutation, Plan(m)
    PROVE  op'[m].pc = "release" \/ Planned(m)
  BY PlanChoices, AbortFields, GotoFields

\* A mutation is staging or about to commit because it planned to.
LEMMA StageSteps ==
    ASSUME TypeInv, [Next]_vars, NEW m \in Mutation, op'[m].pc \in {"stage", "commit"}
    PROVE  \/ Planned(m) /\ shard' = shard /\ root' = root
           \/ /\ op[m].pc \in {"stage", "commit"}
              /\ op'[m].pc = "stage" => op[m].pc = "stage"
              /\ Same(op'[m], op[m])
              /\ \/ op'[m].puts = op[m].puts
                 \/ \E b \in Bucket : Puts(m, b)
  <1>1. CASE UNCHANGED vars
    BY <1>1 DEF vars, Same
  <1>2. ASSUME NEW n \in Mutation, n # m, Step(n) \/ Renew(n) PROVE op'[m] = op[m]
    BY <1>2, Own
  <1>3. CASE Renew(m)
    BY <1>3, RenewFields
  <1>4. CASE Step(m)
    <2>1. CASE TakeLock(m) \/ Acquire(m) \/ EndCleanup(m) \/ Release(m)
      BY <2>1, GotoFields DEF TakeLock, Acquire, EndCleanup, Release
    <2>2. CASE ReadRoot(m)
      BY <2>2, AbortFields, ReadRootFields DEF ReadRoot
    <2>3. CASE Plan(m)
      <3>1. shard' = shard /\ root' = root
        BY <2>3 DEF Plan
      <3> QED
        BY <2>3, <3>1, PlanSteps
    <2>4. CASE CheckStaged(m)
      <3>1. CASE op' = Unstaged(m)
        BY <3>1, UnstagedFields
      <3>2. CASE Abort(m)
        BY <3>2, AbortFields
      <3>3. CASE Goto(m, "commit")
        BY <2>4, <3>3, GotoFields DEF CheckStaged
      <3> QED
        BY <2>4, <3>1, <3>2, <3>3 DEF CheckStaged
    <2>5. CASE EndUnstage(m)
      BY <2>5, AbortFields DEF EndUnstage
    <2>6. CASE Commit(m)
      <3>1. CASE Abort(m)
        BY <3>1, AbortFields
      <3>2. CASE Goto(m, "verify")
        BY <3>2, GotoFields
      <3> QED
        BY <2>6, <3>1, <3>2 DEF Commit
    <2>7. CASE Verify(m)
      <3>1. CASE Abort(m)
        BY <3>1, AbortFields
      <3>2. CASE op' = [op EXCEPT ![m].pc = "cleanup", ![m].dels = BucketsOf(op[m].root)]
        BY <3>2, VerifyFields
      <3> QED
        BY <2>7, <3>1, <3>2 DEF Verify
    <2>8. ASSUME NEW b \in Bucket, Stage(m, b)
          PROVE  /\ op[m].pc \in {"stage", "commit"}
                 /\ op'[m].pc = "stage" => op[m].pc = "stage"
                 /\ Same(op'[m], op[m]) /\ Puts(m, b)
      <3>1. CASE op' = [Unstaged(m) EXCEPT ![m].puts = @ \ {b}]
        BY <3>1, UnstagedFields
      <3>2. CASE /\ op' = [op EXCEPT ![m].puts = @ \ {b}]
                 /\ shard' = [shard EXCEPT ![m][b] =
                                 Partition(op[m].entries, BucketCount(op[m].entries), b)]
        BY <2>8, <3>2, StageFields DEF Stage, Puts
      <3> QED
        BY <2>8, <3>1, <3>2 DEF Stage
    <2>9. ASSUME NEW b \in Bucket, Unstage(m, b) \/ Cleanup(m, b) PROVE FALSE
      <3>1. op[m].pc \in {"unstage", "cleanup"} /\ op' = [op EXCEPT ![m].dels = @ \ {b}]
        BY <2>9 DEF Unstage, Cleanup
      <3> QED
        BY <3>1, DeleteFields
    <2> QED
      BY <1>4, <2>1, <2>2, <2>3, <2>4, <2>5, <2>6, <2>7, <2>8, <2>9 DEF Step
  <1>5. ASSUME NEW r \in Read, ReadStep(r) PROVE op'[m] = op[m]
    <2>1. CASE Answer(r)
      <3>1. CASE m \in {r} \X Plaintexts(r)
        BY <2>1, <3>1 DEF Answer, NewOp
      <3>2. CASE m \notin {r} \X Plaintexts(r)
        BY <2>1, <3>2 DEF Answer
      <3> QED
        BY <3>1, <3>2
    <2> QED
      BY <1>5, <2>1 DEF ReadStep, GetRoot, RetryRead, ReadRaises
  <1>6. ASSUME NEW p \in Process, Die(p)
        PROVE  op'[m].pc = op[m].pc /\ Same(op'[m], op[m]) /\ op'[m].puts = op[m].puts
    BY <1>6, DeathFields
  <1>7. ASSUME LeaseLapses \/ LeaseReaped PROVE op'[m] = op[m]
    BY <1>7 DEF LeaseLapses, LeaseReaped
  <1> QED
    BY <1>1, <1>2, <1>3, <1>4, <1>5, <1>6, <1>7 DEF Next, Same

\* A mutation verifies and cleans up after its commit.
LEMMA VerifySteps ==
    ASSUME TypeInv, [Next]_vars, NEW m \in Mutation, op'[m].pc \in {"verify", "cleanup"}
    PROVE  op[m].pc \in {"verify", "cleanup"} \/ Commits(m)
  <1>1. CASE UNCHANGED vars
    BY <1>1 DEF vars
  <1>2. ASSUME NEW n \in Mutation, n # m, Step(n) \/ Renew(n) PROVE op'[m] = op[m]
    BY <1>2, Own
  <1>3. CASE Renew(m)
    BY <1>3, RenewFields
  <1>4. CASE Step(m)
    <2>1. CASE TakeLock(m) \/ Acquire(m) \/ EndCleanup(m) \/ Release(m)
      BY <2>1, GotoFields DEF TakeLock, Acquire, EndCleanup, Release
    <2>2. CASE ReadRoot(m)
      BY <2>2, AbortFields, ReadRootFields DEF ReadRoot
    <2>3. CASE Plan(m)
      BY <2>3, PlanSteps DEF Planned
    <2>4. CASE CheckStaged(m)
      <3>1. CASE op' = Unstaged(m)
        BY <3>1, UnstagedFields
      <3>2. CASE Abort(m)
        BY <3>2, AbortFields
      <3>3. CASE Goto(m, "commit")
        BY <3>3, GotoFields
      <3> QED
        BY <2>4, <3>1, <3>2, <3>3 DEF CheckStaged
    <2>5. CASE EndUnstage(m)
      BY <2>5, AbortFields DEF EndUnstage
    <2>6. CASE Commit(m)
      <3>1. CASE Abort(m)
        BY <3>1, AbortFields
      <3>2. CASE Goto(m, "verify")
        <4>1. op[m].pc = "commit" /\ root' = Document(m, op[m].entries)
          BY <2>6, <3>2, AbortFields, GotoFields DEF Commit
        <4> QED
          BY <3>2, <4>1, GotoFields DEF Commits
      <3> QED
        BY <2>6, <3>1, <3>2 DEF Commit
    <2>7. CASE Verify(m)
      BY <2>7 DEF Verify
    <2>8. ASSUME NEW b \in Bucket, Stage(m, b) PROVE op[m].pc \in {"verify", "cleanup"}
      <3>1. CASE op' = [Unstaged(m) EXCEPT ![m].puts = @ \ {b}]
        BY <3>1, UnstagedFields
      <3>2. CASE op' = [op EXCEPT ![m].puts = @ \ {b}]
        BY <3>2, StageFields
      <3> QED
        BY <2>8, <3>1, <3>2 DEF Stage
    <2>9. ASSUME NEW b \in Bucket, Unstage(m, b) \/ Cleanup(m, b)
          PROVE  op[m].pc \in {"verify", "cleanup"}
      <3>1. op' = [op EXCEPT ![m].dels = @ \ {b}]
        BY <2>9 DEF Unstage, Cleanup
      <3> QED
        BY <3>1, DeleteFields
    <2> QED
      BY <1>4, <2>1, <2>2, <2>3, <2>4, <2>5, <2>6, <2>7, <2>8, <2>9 DEF Step
  <1>5. ASSUME NEW r \in Read, ReadStep(r) PROVE op'[m] = op[m]
    <2>1. CASE Answer(r)
      <3>1. CASE m \in {r} \X Plaintexts(r)
        BY <2>1, <3>1 DEF Answer, NewOp
      <3>2. CASE m \notin {r} \X Plaintexts(r)
        BY <2>1, <3>2 DEF Answer
      <3> QED
        BY <3>1, <3>2
    <2> QED
      BY <1>5, <2>1 DEF ReadStep, GetRoot, RetryRead, ReadRaises
  <1>6. ASSUME NEW p \in Process, Die(p) PROVE op'[m].pc = op[m].pc
    BY <1>6, DeathFields
  <1>7. CASE LeaseLapses \/ LeaseReaped
    BY <1>7 DEF LeaseLapses, LeaseReaped
  <1> QED
    BY <1>1, <1>2, <1>3, <1>4, <1>5, <1>6, <1>7 DEF Next

Cleans(m) == \E b \in Bucket : Cleanup(m, b)

\* A shard changes when its mutation puts it, or when it is deleted by its own
\* mutation or by one that replaced its generation.
LEMMA ShardSteps ==
    ASSUME TypeInv, [Next]_vars, NEW g \in Mutation, NEW b \in Bucket
    PROVE  \/ shard'[g][b] = shard[g][b]
           \/ /\ b \in op[g].puts
              /\ shard'[g][b] = Partition(op[g].entries, BucketCount(op[g].entries), b)
           \/ op[g].pc = "unstage"
           \/ \E m \in Mutation : op[m].pc = "cleanup" /\ op[m].root.gen = g /\ Cleans(m)
  <1>1. shard \in [Mutation -> [Bucket -> Entries \cup {Missing}]]
    BY DEF TypeInv, TypeOK
  <1>2. shard' = shard \/ \E m \in Mutation : \E c \in Bucket :
                             Stage(m, c) \/ Unstage(m, c) \/ Cleanup(m, c)
    BY DEF Next, vars, Step, Renew, ReadStep, Die, LeaseLapses, LeaseReaped, TakeLock, Acquire,
       ReadRoot, Plan, CheckStaged, EndUnstage, Commit, Verify, EndCleanup, Release,
       GetRoot, Answer, RetryRead, ReadRaises
  <1>3. CASE shard' = shard
    BY <1>3
  <1>4. ASSUME NEW m \in Mutation, NEW c \in Bucket, Stage(m, c), shard' # shard
        PROVE  \/ shard'[g][b] = shard[g][b]
               \/ /\ b \in op[g].puts
                  /\ shard'[g][b] = Partition(op[g].entries, BucketCount(op[g].entries), b)
    <2> DEFINE value == Partition(op[m].entries, BucketCount(op[m].entries), c)
    <2>1. c \in op[m].puts /\ shard' = [shard EXCEPT ![m][c] = value]
      BY <1>4 DEF Stage
    <2>2. CASE g = m /\ b = c
      <3>1. shard'[g][b] = value
        BY <1>1, <2>1, <2>2
      <3> QED
        BY <2>1, <2>2, <3>1
    <2>3. CASE ~(g = m /\ b = c)
      <3> HIDE DEF value
      <3> QED
        BY <1>1, <2>1, <2>3
    <2> QED
      BY <2>2, <2>3
  <1>5. ASSUME NEW m \in Mutation, NEW c \in Bucket, Unstage(m, c), shard' # shard
        PROVE  shard'[g][b] = shard[g][b] \/ op[g].pc = "unstage"
    BY <1>1, <1>5 DEF Unstage
  <1>6. ASSUME NEW m \in Mutation, NEW c \in Bucket, Cleanup(m, c), shard' # shard
        PROVE  \/ shard'[g][b] = shard[g][b]
               \/ op[m].pc = "cleanup" /\ op[m].root.gen = g /\ Cleans(m)
    BY <1>1, <1>6 DEF Cleanup, Cleans
  <1> QED
    BY <1>2, <1>3, <1>4, <1>5, <1>6

\* Nobody cleans up a generation whose mutation has yet to commit.
LEMMA Uncleaned ==
    ASSUME TypeInv, WrittenInv, NEW g \in Mutation, op[g].pc \notin Past,
           NEW m \in Mutation
    PROVE  op[m].root.gen # g
  <1>1. WrittenIn(op[m].root, op) /\ op[m].root \in RootType
    BY DEF WrittenInv, Written, TypeInv, Typed
  <1>2. g # Nobody
    BY StoreConstants
  <1> QED
    BY <1>1, <1>2 DEF WrittenIn, RootType

LEMMA LaidStep ==
    ASSUME TypeInv, WrittenInv, ReadableInv, [Next]_vars,
           NEW m \in Mutation, op'[m].pc \in {"stage", "commit"}, Size(op'[m].entries) > Capacity
    PROVE  Laid(m)'
  <1> DEFINE new == op[m].entries
             n == BucketCount(new)
  <1>1. CASE Planned(m)
    <2>1. op'[m].entries = Changed(m) /\ op'[m].puts = 0 .. BucketCount(Changed(m)) - 1
      <3>1. op'[m].entries = Changed(m)
        BY <1>1 DEF Planned
      <3>2. ~(Size(Changed(m)) <= Capacity)
        BY <3>1, Sizes, StoreConstants
      <3> QED
        BY <1>1, <3>1, <3>2 DEF Planned
    <2>2. op'[m].puts = 0 .. BucketCount(op'[m].entries) - 1
      BY <2>1
    <2> QED
      BY <2>2 DEF Laid
  <1>2. CASE ~Planned(m)
    <2>1. /\ op[m].pc \in {"stage", "commit"} /\ op'[m].entries = new
          /\ \/ op'[m].puts = op[m].puts
             \/ \E b \in Bucket : Puts(m, b)
      BY <1>2, StageSteps DEF Same
    <2>2. Laid(m)
      BY <2>1 DEF ReadableInv
    <2>3. n \in 1 .. MaxShards
      BY <2>1, Chosen DEF TypeInv, Typed
    <2>4. ASSUME NEW b \in 0 .. n - 1
          PROVE  b \in op'[m].puts \/ shard'[m][b] = Partition(new, n, b)
      <3>1. b \in Bucket
        BY <2>3, StoreConstants DEF Bucket
      <3>2. CASE b \in op[m].puts
        <4>1. CASE op'[m].puts = op[m].puts
          BY <3>2, <4>1
        <4>2. ASSUME NEW c \in Bucket, Puts(m, c)
              PROVE  b \in op'[m].puts \/ shard'[m][b] = Partition(new, n, b)
          <5>1. CASE b # c
            BY <3>2, <4>2, <5>1 DEF Puts
          <5>2. CASE b = c
            <6>1. shard \in [Mutation -> [Bucket -> Entries \cup {Missing}]]
              BY DEF TypeInv, TypeOK
            <6>2. shard' = [shard EXCEPT ![m][b] = Partition(new, n, b)]
              BY <4>2, <5>2 DEF Puts
            <6> HIDE DEF n, new
            <6> QED
              BY <3>1, <6>1, <6>2
          <5> QED
            BY <5>1, <5>2
        <4> QED
          BY <2>1, <4>1, <4>2
      <3>3. CASE b \notin op[m].puts
        <4>1. shard[m][b] = Partition(new, n, b)
          BY <2>2, <3>3 DEF Laid
        <4>2. op[m].pc \notin Past /\ op[m].pc # "unstage"
          BY <2>1 DEF Past
        <4>3. shard'[m][b] = shard[m][b]
          BY <3>1, <3>3, <4>2, Uncleaned, ShardSteps
        <4> QED
          BY <4>1, <4>3
      <3> QED
        BY <3>2, <3>3
    <2> HIDE DEF new, n
    <2>5. \A b \in 0 .. BucketCount(op'[m].entries) - 1 :
             \/ b \in op'[m].puts
             \/ shard'[m][b] = Partition(op'[m].entries, BucketCount(op'[m].entries), b)
      BY <2>1, <2>4 DEF n
    <2> QED
      BY <2>5 DEF Laid
  <1> QED
    BY <1>1, <1>2

\* The generation of the root.
LEMMA RootGen ==
    ASSUME TypeInv, WrittenInv, root.kind = "manifest"
    PROVE  /\ root.gen \in Mutation /\ op[root.gen].pc \in Past /\ op[root.gen].puts = {}
           /\ root.buckets \in 1 .. MaxShards
           /\ root.buckets = BucketCount(op[root.gen].entries)
  <1>1. root \in RootType /\ WrittenIn(root, op)
    BY DEF TypeInv, WrittenInv, Written
  <1>2. root.gen \in Mutation /\ root.buckets \in 1 .. MaxShards
    BY <1>1 DEF RootType
  <1>3. /\ op[root.gen].pc \in Past /\ op[root.gen].puts = {}
        /\ root = Document(root.gen, op[root.gen].entries)
    BY <1>1 DEF WrittenIn
  <1>4. op[root.gen].entries \in Entries
    BY <1>2 DEF TypeInv, TypeOK, OpRec
  <1> QED
    BY <1>2, <1>3, <1>4, DocumentFields

\* What is in the root's shards stays as long as it is the root.
LEMMA RootShards ==
    ASSUME TypeInv, WrittenInv, ReadableInv, [Next]_vars, root.kind = "manifest",
           NEW b \in BucketsOf(root)
    PROVE  shard'[root.gen][b] = Partition(op[root.gen].entries, root.buckets, b)
  <1> DEFINE g == root.gen
  <1>1. g \in Mutation /\ op[g].pc \in Past /\ op[g].puts = {}
    BY RootGen
  <1>2. shard[g][b] = Partition(op[g].entries, root.buckets, b)
    BY DEF ReadableInv, RootReadable
  <1>3. b \in Bucket
    BY BucketsTyped DEF TypeInv
  <1>4. \A m \in Mutation : op[m].pc = "cleanup" => op[m].root.gen # g
    BY <1>1, StoreConstants DEF ReadableInv
  <1>5. op[g].pc # "unstage"
    BY <1>1 DEF Past
  <1> HIDE DEF g
  <1>6. shard'[g][b] = shard[g][b]
    BY <1>1, <1>3, <1>4, <1>5, ShardSteps
  <1> QED
    BY <1>2, <1>6 DEF g

LEMMA ReadableInit == Init => ReadableInv
  <1> SUFFICES ASSUME Init PROVE ReadableInv
    OBVIOUS
  <1>1. root.kind # "manifest"
    BY DEF Init, NoRoot, Inline
  <1>2. \A m \in Mutation : op[m].pc \in {"new", "idle"}
    BY DEF Init, NewOp
  <1> QED
    BY <1>1, <1>2 DEF ReadableInv, RootReadable

LEMMA ReadableStep == TypeInv /\ WrittenInv /\ ReadableInv /\ [Next]_vars => ReadableInv'
  <1> SUFFICES ASSUME TypeInv, WrittenInv, ReadableInv, [Next]_vars PROVE ReadableInv'
    OBVIOUS
  <1>1. ASSUME NEW m \in Mutation, op'[m].pc = "stage" PROVE Size(op'[m].entries) > Capacity
    <2>1. CASE Planned(m)
      BY <1>1, <2>1 DEF Planned
    <2>2. CASE ~Planned(m)
      BY <1>1, <2>2, StageSteps DEF Same, ReadableInv
    <2> QED
      BY <2>1, <2>2
  <1>2. ASSUME NEW m \in Mutation, op'[m].pc \in {"stage", "commit"},
               Size(op'[m].entries) > Capacity
        PROVE  Laid(m)'
    BY <1>2, LaidStep
  <1>3. ASSUME NEW m \in Mutation, op'[m].pc \in {"verify", "cleanup"}
        PROVE  op'[m].root.gen = Nobody \/ op'[m].root.gen # root'.gen
    <2>1. op'[m].root = op[m].root
      BY <1>3, OpRoots
    <2>2. ASSUME NEW n \in Mutation, Commits(n)
          PROVE  op[m].root.gen = Nobody \/ op[m].root.gen # root'.gen
      <3>1. op[n].pc \notin Past
        BY <2>2 DEF Commits, Past
      <3>2. op[m].root.gen # n
        BY <3>1, Uncleaned
      <3>3. op[n].entries \in Entries
        BY DEF TypeInv, TypeOK, OpRec
      <3>4. root'.gen \in {n, Nobody}
        BY <2>2, <3>3, DocumentFields DEF Commits
      <3> QED
        BY <3>2, <3>4
    <2>3. CASE \E n \in Mutation : Commits(n)
      BY <2>1, <2>2, <2>3
    <2>4. CASE ~\E n \in Mutation : Commits(n)
      <3>1. root' = root
        BY <2>4, RootSteps
      <3>2. op[m].pc \in {"verify", "cleanup"}
        BY <1>3, <2>4, VerifySteps
      <3> QED
        BY <2>1, <3>1, <3>2 DEF ReadableInv
    <2> QED
      BY <2>3, <2>4
  <1>4. RootReadable'
    <2> SUFFICES ASSUME root'.kind = "manifest", NEW b \in BucketsOf(root')
                 PROVE  shard'[root'.gen][b] =
                            Partition(op'[root'.gen].entries, root'.buckets, b)
      BY DEF RootReadable, BucketsOf
    <2>1. CASE root' = root
      <3>1. op'[root.gen].entries = op[root.gen].entries
        BY <2>1, RootGen, PastStays DEF WrittenInv
      <3>2. b \in BucketsOf(root)
        BY <2>1
      <3> QED
        BY <2>1, <3>1, <3>2, RootShards
    <2>2. CASE root' # root
      <3>1. PICK m \in Mutation : Commits(m) /\ shard' = shard
        BY <2>2, RootSteps
      <3> DEFINE new == op[m].entries
      <3>2. new \in Entries
        BY DEF TypeInv, TypeOK, OpRec
      <3>3. root' = Document(m, new) /\ op'[m].entries = new /\ op[m].pc = "commit"
        BY <3>1 DEF Commits, Same
      <3>4. Size(new) > Capacity /\ root'.gen = m /\ root'.buckets = BucketCount(new)
        BY <3>2, <3>3, DocumentFields
      <3>5. Laid(m) /\ op[m].puts = {}
        BY <3>3, <3>4 DEF ReadableInv, WrittenInv, Quiet
      <3>6. b \in 0 .. BucketCount(new) - 1
        BY <3>4 DEF BucketsOf
      <3>7. shard[m][b] = Partition(new, BucketCount(new), b)
        BY <3>5, <3>6 DEF Laid
      <3> HIDE DEF new
      <3> QED
        BY <3>1, <3>3, <3>4, <3>7
    <2> QED
      BY <2>1, <2>2
  <1> QED
    BY <1>1, <1>2, <1>3, <1>4 DEF ReadableInv

LEMMA ReadableInvariance == Spec => [](TypeInv /\ WrittenInv /\ ReadableInv)
  <1>1. Init => TypeInv /\ WrittenInv /\ ReadableInv
    BY TypeInit, WrittenInit, ReadableInit
  <1>2. TypeInv /\ [Next]_vars => TypeInv'
    BY TypeStep, TypesKeep
  <1>3. TypeInv /\ WrittenInv /\ ReadableInv /\ [Next]_vars
           => (TypeInv /\ WrittenInv /\ ReadableInv)'
    BY <1>2, WrittenStep, ReadableStep
  <1> QED
    BY <1>1, <1>3, PTL DEF Spec

\* In every reachable state, whoever lost which lease, was killed or failed where,
\* the document at the root names shards that are all there, with what the mutation
\* that wrote it laid out in them.
THEOREM RootAlwaysReadable == Spec => []RootReadable
  <1>1. ReadableInv => RootReadable
    BY DEF ReadableInv
  <1> QED
    BY <1>1, ReadableInvariance, PTL

-----------------------------------------------------------------------------
(* What is stored *)

LEMMA ErringStep ==
    ASSUME TypeInv, Erring, [Next]_vars
    PROVE  Erring'
  <1> SUFFICES ASSUME NEW m \in Mutation, op'[m].err
               PROVE  op'[m].pc \in {"release", "failed", "dead"}
    BY DEF Erring
  <1>0. op[m].err => op[m].pc \in {"release", "failed", "dead"}
    BY DEF Erring
  <1>1. CASE UNCHANGED vars
    BY <1>0, <1>1 DEF vars
  <1>2. ASSUME NEW n \in Mutation, n # m, Step(n) \/ Renew(n) PROVE op'[m] = op[m]
    BY <1>2, Own
  <1>3. CASE Renew(m)
    BY <1>0, <1>3, RenewFields
  <1>4. CASE Step(m)
    <2>0. ASSUME Abort(m) PROVE op'[m].pc = "release"
      BY <2>0, AbortFields
    <2>1. CASE TakeLock(m) \/ Acquire(m) \/ EndCleanup(m)
      BY <1>0, <2>1, GotoFields DEF TakeLock, Acquire, EndCleanup
    <2>2. CASE Release(m)
      <3>1. op[m].err
        BY <2>2, GotoFields DEF Release
      <3> QED
        BY <2>2, <3>1, GotoFields DEF Release
    <2>3. CASE ReadRoot(m)
      BY <1>0, <2>0, <2>3, ReadRootFields DEF ReadRoot
    <2>4. CASE Plan(m)
      <3> DEFINE new == Changed(m)
                 all == 0 .. BucketCount(new) - 1
      <3>1. \/ Abort(m) \/ Goto(m, "release")
            \/ op' = [op EXCEPT ![m].pc = "commit", ![m].entries = new]
            \/ op' = [op EXCEPT ![m].pc = "stage", ![m].entries = new, ![m].puts = all]
        BY <2>4 DEF Plan
      <3>2. op[m].pc = "plan"
        BY <2>4 DEF Plan
      <3> HIDE DEF new, all
      <3>3. CASE Abort(m)
        BY <2>0, <3>3
      <3>4. CASE Goto(m, "release")
        BY <3>4, GotoFields
      <3>5. CASE op' = [op EXCEPT ![m].pc = "commit", ![m].entries = new]
        BY <1>0, <3>2, <3>5, CommitFields
      <3>6. CASE op' = [op EXCEPT ![m].pc = "stage", ![m].entries = new, ![m].puts = all]
        BY <1>0, <3>2, <3>6, LayFields
      <3> QED
        BY <3>1, <3>3, <3>4, <3>5, <3>6
    <2>5. CASE CheckStaged(m)
      BY <1>0, <2>0, <2>5, UnstagedFields, GotoFields DEF CheckStaged
    <2>6. CASE EndUnstage(m)
      BY <2>0, <2>6 DEF EndUnstage
    <2>7. CASE Commit(m)
      <3>1. op[m].pc = "commit" /\ (Abort(m) \/ Goto(m, "verify"))
        BY <2>7 DEF Commit
      <3> QED
        BY <1>0, <2>0, <3>1, GotoFields
    <2>8. CASE Verify(m)
      <3>1. op[m].pc = "verify"
        BY <2>8 DEF Verify
      <3>2. CASE op' = [op EXCEPT ![m].pc = "cleanup", ![m].dels = BucketsOf(op[m].root)]
        BY <1>0, <3>1, <3>2, VerifyFields
      <3> QED
        BY <2>0, <2>8, <3>2 DEF Verify
    <2>9. ASSUME NEW b \in Bucket, Stage(m, b) PROVE op'[m].pc \in {"release", "failed", "dead"}
      <3>1. CASE op' = [op EXCEPT ![m].puts = @ \ {b}]
        BY <1>0, <3>1, StageFields
      <3>2. CASE op[m].pc = "stage" /\ op' = [Unstaged(m) EXCEPT ![m].puts = @ \ {b}]
        BY <1>0, <3>2, UnstagedFields
      <3> QED
        BY <2>9, <3>1, <3>2 DEF Stage
    <2>10. ASSUME NEW b \in Bucket, Unstage(m, b) \/ Cleanup(m, b)
           PROVE  op'[m].pc \in {"release", "failed", "dead"}
      BY <1>0, <2>10, DeleteFields DEF Unstage, Cleanup
    <2> QED
      BY <1>4, <2>1, <2>2, <2>3, <2>4, <2>5, <2>6, <2>7, <2>8, <2>9, <2>10 DEF Step
  <1>5. ASSUME NEW r \in Read, ReadStep(r) PROVE op'[m] = op[m]
    <2>1. CASE Answer(r)
      <3>1. CASE m \in {r} \X Plaintexts(r)
        BY <2>1, <3>1 DEF Answer, NewOp
      <3>2. CASE m \notin {r} \X Plaintexts(r)
        BY <2>1, <3>2 DEF Answer
      <3> QED
        BY <3>1, <3>2
    <2> QED
      BY <1>5, <2>1 DEF ReadStep, GetRoot, RetryRead, ReadRaises
  <1>6. ASSUME NEW p \in Process, Die(p) PROVE op'[m].pc \in {"release", "failed", "dead"}
    BY <1>0, <1>6, DeathFields
  <1>7. CASE LeaseLapses \/ LeaseReaped
    BY <1>0, <1>7 DEF LeaseLapses, LeaseReaped
  <1> QED
    BY <1>0, <1>1, <1>2, <1>3, <1>4, <1>5, <1>6, <1>7 DEF Next

\* What is found under the root, while it is the root.
LEMMA RootCells ==
    ASSUME TypeInv, WrittenInv, ReadableInv, NEW k \in Key
    PROVE  /\ StoredCell(k) = CellIn(root, k)
           /\ CellIn(root, k) \in Cell
           /\ root.kind = "manifest" =>
                 /\ Hash[k] % root.buckets \in BucketsOf(root)
                 /\ CellIn(root, k) = op[root.gen].entries[k]
  <1>1. root \in RootType /\ TypeOK
    BY DEF TypeInv
  <1>2. CASE root.kind = "manifest"
    <2> DEFINE b == Hash[k] % root.buckets
               entries == op[root.gen].entries
    <2>1. root.buckets \in 1 .. MaxShards /\ root.gen \in Mutation
      BY <1>2, RootGen
    <2>2. b \in BucketsOf(root)
      BY <1>2, <2>1, InBucket DEF BucketsOf
    <2>3. shard[root.gen][b] = Partition(entries, root.buckets, b)
      BY <1>2, <2>2 DEF ReadableInv, RootReadable
    <2>4. entries \in Entries
      BY <2>1 DEF TypeInv, TypeOK, OpRec
    <2>5. shard[root.gen][b] # Missing
      BY <2>3, <2>4, PartitionTyped, MissingIsNothing
    <2>6. CellIn(root, k) = entries[k]
      <3>1. CellIn(root, k) = Partition(entries, root.buckets, b)[k]
        BY <1>2, <2>3 DEF CellIn
      <3> QED
        BY <3>1 DEF Partition
    <2>7. Present(root, {b : i \in BucketsOf(root)})
      BY <2>5 DEF Present
    <2> QED
      BY <1>1, <2>2, <2>4, <2>5, <2>6, <2>7, CellTyped DEF StoredCell
  <1>3. CASE root.kind # "manifest"
    <2>1. BucketsOf(root) = {}
      BY <1>3 DEF BucketsOf
    <2>2. Present(root, {Hash[k] % root.buckets : i \in BucketsOf(root)})
      BY <2>1 DEF Present
    <2> QED
      BY <1>1, <1>3, <2>2, CellTyped DEF StoredCell
  <1> QED
    BY <1>2, <1>3

\* As long as the root is, so are its entries.
LEMMA CellsStay ==
    ASSUME TypeInv, WrittenInv, ReadableInv, [Next]_vars, root' = root, NEW k \in Key
    PROVE  CellIn(root, k)' = CellIn(root, k)
  <1>1. CASE root.kind = "manifest"
    <2> DEFINE b == Hash[k] % root.buckets
    <2>1. b \in BucketsOf(root)
      BY <1>1, RootCells
    <2>2. shard'[root.gen][b] = shard[root.gen][b]
      BY <1>1, <2>1, RootShards DEF ReadableInv, RootReadable
    <2> QED
      BY <1>1, <2>2 DEF CellIn
  <1>2. CASE root.kind # "manifest"
    BY <1>2 DEF CellIn
  <1> QED
    BY <1>1, <1>2

\* A commit alone changes the root while its mutation holds the lease.
LEMMA RootHeld ==
    ASSUME TypeInv, LeaseExcludes, count["overruns"] = 0, [Next]_vars,
           NEW m \in Mutation, op[m].pc \in Guarded, ~Commits(m)
    PROVE  root' = root
  <1> SUFFICES ASSUME root' # root PROVE FALSE
    OBVIOUS
  <1>1. PICK n \in Mutation : Commits(n)
    BY RootSteps
  <1>2. op[n].pc \in Guarded
    BY <1>1 DEF Commits, Guarded
  <1>3. n = m
    BY <1>2 DEF LeaseExcludes
  <1> QED
    BY <1>1, <1>3

\* A mutation has read the root as it is.
LEMMA PlanRoots ==
    ASSUME TypeInv, [Next]_vars, NEW m \in Mutation, op'[m].pc = "plan"
    PROVE  \/ op[m].pc = "plan" /\ op'[m].root = op[m].root
           \/ op'[m].root = root /\ root' = root
  <1>1. CASE UNCHANGED vars
    BY <1>1 DEF vars
  <1>2. ASSUME NEW n \in Mutation, n # m, Step(n) \/ Renew(n) PROVE op'[m] = op[m]
    BY <1>2, Own
  <1>3. CASE Renew(m)
    BY <1>3, RenewFields DEF Same
  <1>4. CASE Step(m)
    <2>0. ~Abort(m)
      BY AbortFields
    <2>1. CASE ReadRoot(m)
      BY <2>0, <2>1, ReadRootFields DEF ReadRoot
    <2>2. CASE Plan(m)
      BY <2>2, PlanSteps DEF Planned
    <2>3. CASE TakeLock(m) \/ Acquire(m) \/ EndCleanup(m) \/ Release(m)
      BY <2>3, GotoFields DEF TakeLock, Acquire, EndCleanup, Release
    <2>4. CASE CheckStaged(m)
      BY <2>0, <2>4, UnstagedFields, GotoFields DEF CheckStaged
    <2>5. CASE EndUnstage(m) \/ Commit(m) \/ Verify(m)
      <3>1. CASE Goto(m, "verify")
        BY <3>1, GotoFields
      <3>2. CASE op' = [op EXCEPT ![m].pc = "cleanup", ![m].dels = BucketsOf(op[m].root)]
        BY <3>2, VerifyFields
      <3> QED
        BY <2>0, <2>5, <3>1, <3>2 DEF EndUnstage, Commit, Verify
    <2>6. ASSUME NEW b \in Bucket, Stage(m, b)
          PROVE  op[m].pc = "plan" /\ op'[m].root = op[m].root
      <3>1. CASE op' = [op EXCEPT ![m].puts = @ \ {b}]
        BY <3>1, StageFields DEF Same
      <3>2. CASE op' = [Unstaged(m) EXCEPT ![m].puts = @ \ {b}]
        BY <3>2, UnstagedFields
      <3> QED
        BY <2>6, <3>1, <3>2 DEF Stage
    <2>7. ASSUME NEW b \in Bucket, Unstage(m, b) \/ Cleanup(m, b)
          PROVE  op[m].pc = "plan" /\ op'[m].root = op[m].root
      BY <2>7, DeleteFields DEF Unstage, Cleanup, Same
    <2> QED
      BY <1>4, <2>1, <2>2, <2>3, <2>4, <2>5, <2>6, <2>7 DEF Step
  <1>5. ASSUME NEW r \in Read, ReadStep(r) PROVE op'[m] = op[m]
    <2>1. CASE Answer(r)
      <3>1. CASE m \in {r} \X Plaintexts(r)
        BY <2>1, <3>1 DEF Answer, NewOp
      <3>2. CASE m \notin {r} \X Plaintexts(r)
        BY <2>1, <3>2 DEF Answer
      <3> QED
        BY <3>1, <3>2
    <2> QED
      BY <1>5, <2>1 DEF ReadStep, GetRoot, RetryRead, ReadRaises
  <1>6. ASSUME NEW p \in Process, Die(p)
        PROVE  op'[m].pc = op[m].pc /\ op'[m].root = op[m].root
    BY <1>6, DeathFields DEF Same
  <1>7. CASE LeaseLapses \/ LeaseReaped
    BY <1>7 DEF LeaseLapses, LeaseReaped
  <1> QED
    BY <1>1, <1>2, <1>3, <1>4, <1>5, <1>6, <1>7 DEF Next

LEMMA CurrentStep ==
    TypeInv /\ WrittenInv /\ ReadableInv /\ LeaseExcludes /\ CurrentInv /\ [Next]_vars => CurrentInv'
  <1> SUFFICES ASSUME TypeInv, WrittenInv, ReadableInv, LeaseExcludes, CurrentInv, [Next]_vars,
                      count'["overruns"] = 0, NEW m \in Mutation
               PROVE  /\ op'[m].pc \in {"plan", "stage", "commit"} => op'[m].root = root'
                      /\ op'[m].pc \in {"stage", "commit"} =>
                            /\ op'[m].entries = Changed(m)'
                            /\ ~Obsolete(m)'
    BY DEF CurrentInv
  <1>1. count["overruns"] = 0
    BY TypeStep DEF TypesKept
  <1>2. ASSUME op'[m].pc = "plan" PROVE op'[m].root = root'
    <2>1. CASE op[m].pc = "plan" /\ op'[m].root = op[m].root
      <3>1. op[m].root = root
        BY <1>1, <2>1 DEF CurrentInv
      <3>2. root' = root
        BY <1>1, <2>1, RootHeld DEF Guarded, Commits
      <3> QED
        BY <2>1, <3>1, <3>2
    <2> QED
      BY <1>2, <2>1, PlanRoots
  <1>3. ASSUME op'[m].pc \in {"stage", "commit"}
        PROVE  /\ op'[m].root = root'
               /\ op'[m].entries = Changed(m)'
               /\ ~Obsolete(m)'
    <2>1. /\ op'[m].root = op[m].root /\ op[m].root = root /\ root' = root
          /\ op'[m].value = op[m].value /\ op'[m].entries = Changed(m) /\ ~Obsolete(m)
      <3>1. CASE Planned(m)
        <4>1. op[m].root = root
          BY <1>1, <3>1 DEF CurrentInv, Planned
        <4>2. root' = root
          BY <1>1, <3>1, RootHeld DEF Planned, Guarded, Commits
        <4> QED
          BY <3>1, <4>1, <4>2 DEF Planned
      <3>2. CASE ~Planned(m)
        <4>1. op[m].pc \in {"stage", "commit"} /\ Same(op'[m], op[m])
          BY <1>3, <3>2, StageSteps
        <4>2. op[m].root = root /\ op[m].entries = Changed(m) /\ ~Obsolete(m)
          BY <1>1, <4>1 DEF CurrentInv
        <4>3. root' = root
          BY <1>1, <1>3, <4>1, RootHeld DEF Guarded, Commits
        <4> QED
          BY <4>1, <4>2, <4>3 DEF Same
      <3> QED
        BY <3>1, <3>2
    <2>2. \A k \in Key : CellIn(root, k)' = CellIn(root, k)
      BY <2>1, CellsStay
    <2>3. \A k \in Key : CellIn(op[m].root, k)' = CellIn(op[m].root, k)
      BY <2>1, <2>2 DEF CellIn
    <2>4. EntriesIn(op[m].root)' = EntriesIn(op[m].root)
      BY <2>3 DEF EntriesIn
    <2>5. Changed(m)' = Changed(m)
      BY <2>1, <2>4 DEF Changed
    <2>6. Obsolete(m)' = Obsolete(m)
      BY <2>1, <2>3, HomeTyped DEF Obsolete
    <2> QED
      BY <2>1, <2>5, <2>6
  <1> QED
    BY <1>2, <1>3

\* The entries under the root are there, and those of its generation's mutation.
RootSound ==
    \A k \in Key : /\ StoredCell(k) = CellIn(root, k)
                   /\ CellIn(root, k) \in Cell
                   /\ root.kind = "manifest" => CellIn(root, k) = op[root.gen].entries[k]

LEMMA StoreInvariance == Spec => [](StoreInv /\ RootSound)
  <1>1. Init => StoreInv
    <2> SUFFICES ASSUME Init PROVE StoreInv
      OBVIOUS
    <2>1. \A m \in Mutation : op[m].pc \in {"new", "idle"} /\ op[m].err = FALSE
      BY DEF Init, NewOp
    <2>2. Valued
      BY DEF Init, NewOp, Valued, Mutation
    <2> QED
      BY <2>1, <2>2, TypeInit, WrittenInit, ReadableInit, LeaseInit DEF StoreInv, Erring, CurrentInv
  <1>2. StoreInv /\ [Next]_vars => StoreInv'
    <2> SUFFICES ASSUME StoreInv, [Next]_vars PROVE StoreInv'
      OBVIOUS
    <2>1. TypeInv /\ WrittenInv /\ ReadableInv /\ LeaseExcludes /\ Erring /\ CurrentInv
      BY DEF StoreInv
    <2>2. TypeInv'
      BY <2>1, TypeStep, TypesKeep
    <2>3. Valued'
      BY <2>1, OpRoots DEF StoreInv, Valued, Mutation
    <2> QED
      BY <2>1, <2>2, <2>3, WrittenStep, ReadableStep, LeaseStep, ErringStep, CurrentStep DEF StoreInv
  <1>3. StoreInv => RootSound
    BY RootCells DEF StoreInv, RootSound
  <1> QED
    BY <1>1, <1>2, <1>3, PTL DEF Spec

\* A commit under the lease changes one entry.
LEMMA CommitCells ==
    ASSUME StoreInv, RootSound, RootSound', [Next]_vars, count'["overruns"] = 0,
           NEW m \in Mutation, Commits(m), NEW k \in Key
    PROVE  StoredCell(k)' = IF k = Target(m) THEN op[m].value ELSE StoredCell(k)
  <1> DEFINE new == op[m].entries
  <1>1. TypeInv /\ CurrentInv /\ count["overruns"] = 0
    BY TypeStep DEF TypesKept, StoreInv
  <1>2. op[m].root = root /\ new = Changed(m)
    BY <1>1 DEF CurrentInv, Commits
  <1>3. new[k] = IF k = Target(m) THEN op[m].value ELSE CellIn(root, k)
    BY <1>2 DEF Changed, EntriesIn
  <1>4. new \in Entries
    BY <1>1 DEF TypeInv, TypeOK, OpRec
  <1>5. root' = Document(m, new) /\ op'[m].entries = new
    BY DEF Commits, Same
  <1>6. CellIn(root, k)' = new[k]
    <2>1. CASE root'.kind = "manifest"
      <3>1. root'.gen = m
        BY <1>4, <1>5, <2>1, DocumentFields
      <3>2. CellIn(root, k)' = op'[root'.gen].entries[k]
        BY <2>1 DEF RootSound
      <3> QED
        BY <1>5, <3>1, <3>2
    <2>2. CASE root'.kind # "manifest"
      <3>1. root'.entries = new
        BY <1>4, <1>5, <2>2, DocumentFields
      <3> QED
        BY <2>2, <3>1 DEF CellIn
    <2> QED
      BY <2>1, <2>2
  <1> QED
    BY <1>3, <1>6 DEF RootSound

LEMMA StoredStays ==
    ASSUME StoreInv, RootSound, RootSound', [Next]_vars, root' = root, NEW k \in Key
    PROVE  StoredCell(k)' = StoredCell(k)
  BY CellsStay DEF StoreInv, RootSound

LEMMA EncryptedStep ==
    ASSUME StoreInv, RootSound, RootSound', [Next]_vars, NEW k \in Key, count'["overruns"] = 0,
           StoredCell(k).sealed
    PROVE  StoredCell(k)' = Absent \/ StoredCell(k)'.sealed
  <1>1. CASE root' = root
    BY <1>1, StoredStays
  <1>2. CASE root' # root
    <2>1. TypeInv
      BY DEF StoreInv
    <2>2. PICK m \in Mutation : Commits(m)
      BY <1>2, <2>1, RootSteps
    <2>3. op[m].value = Absent \/ op[m].value.sealed
      BY <2>1 DEF TypeInv, Typed
    <2>4. StoredCell(k)' = IF k = Target(m) THEN op[m].value ELSE StoredCell(k)
      BY <2>2, CommitCells
    <2> QED
      BY <2>3, <2>4
  <1> QED
    BY <1>1, <1>2

\* As long as no lease lapses under a mutation at work, an entry that is stored
\* encrypted is not written back in plaintext.
THEOREM NeverDecrypted == Spec => EncryptedStays
  <1> DEFINE Kept == \A k \in Key :
                        count'["overruns"] = 0 /\ StoredCell(k) # Missing /\ StoredCell(k).sealed
                           => StoredCell(k)' = Absent \/ StoredCell(k)'.sealed
  <1>1. StoreInv /\ RootSound /\ (StoreInv /\ RootSound)' /\ [Next]_vars => [Kept]_vars
    <2> SUFFICES ASSUME StoreInv, RootSound, RootSound', [Next]_vars PROVE Kept
      OBVIOUS
    <2> QED
      BY EncryptedStep
  <1> QED
    BY <1>1, StoreInvariance, PTL DEF Spec, EncryptedStays

-----------------------------------------------------------------------------
(* The map the store implements *)

\* What a caller has been told, by where its mutation stands.
ToldOf(q) ==
    CASE ~q.err /\ q.pc \in {"verify", "cleanup", "release"} -> "applied"
      [] q.pc = "ok" -> "ok"
      [] q.err \/ q.pc \in {"failed", "dead"} -> "failed"
      [] OTHER -> "open"

LEMMA ToldValues ==
    ASSUME NEW q, q.err => q.pc \in {"release", "failed", "dead"}
    PROVE  /\ ~q.err /\ q.pc \in {"verify", "cleanup", "release"} => ToldOf(q) = "applied"
           /\ q.pc = "ok" => ToldOf(q) = "ok"
           /\ q.err \/ q.pc \in {"failed", "dead"} => ToldOf(q) = "failed"
           /\ ~q.err /\ q.pc \notin {"verify", "cleanup", "release", "ok", "failed", "dead"}
                 => ToldOf(q) = "open"
  <1>1. ASSUME ~q.err, q.pc \in {"verify", "cleanup", "release"} PROVE ToldOf(q) = "applied"
    BY <1>1 DEF ToldOf
  <1>2. ASSUME q.pc = "ok" PROVE ToldOf(q) = "ok"
    BY <1>2 DEF ToldOf
  <1>3. ASSUME q.err \/ q.pc \in {"failed", "dead"} PROVE ToldOf(q) = "failed"
    BY <1>3 DEF ToldOf
  <1>4. ASSUME ~q.err, q.pc \notin {"verify", "cleanup", "release", "ok", "failed", "dead"}
        PROVE  ToldOf(q) = "open"
    BY <1>4 DEF ToldOf
  <1> QED
    BY <1>1, <1>2, <1>3, <1>4

\* A call is told how it ended, at most once, or nothing.
EndedOf(q, p) ==
    \/ ToldOf(p) = ToldOf(q)
    \/ ToldOf(q) = "applied" /\ ToldOf(p) = "ok"
    \/ ToldOf(q) \in {"open", "applied"} /\ ToldOf(p) = "failed"

LEMMA Endings ==
    ASSUME NEW q, NEW p, q.err => q.pc \in {"release", "failed", "dead"},
           p.err => p.pc \in {"release", "failed", "dead"},
           \/ p.pc = q.pc /\ p.err = q.err
           \/ q.pc \notin {"ok", "failed", "dead"} /\ p.err
           \/ q.pc \notin {"ok", "failed", "dead"} /\ p.pc \in {"failed", "dead"}
           \/ q.pc \in {"verify", "cleanup"} /\ p.pc \in {"cleanup", "release"}
           \/ q.pc = "release" /\ ~q.err /\ p.pc = "ok"
           \/ q.pc \in {"new", "lease", "root", "plan", "stage"}
              /\ p.pc \in {"lease", "root", "plan", "stage", "unstage", "commit"}
           \/ q.pc = "dead" /\ p.pc = "dead"
    PROVE  EndedOf(q, p)
  <1> USE ToldValues DEF EndedOf
  <1>1. CASE p.pc = q.pc /\ p.err = q.err
    BY <1>1 DEF ToldOf
  <1>2. CASE q.pc \notin {"ok", "failed", "dead"} /\ p.err
    BY <1>2
  <1>3. CASE q.pc \notin {"ok", "failed", "dead"} /\ p.pc \in {"failed", "dead"}
    BY <1>3
  <1>4. CASE q.pc \in {"verify", "cleanup"} /\ p.pc \in {"cleanup", "release"}
    BY <1>4
  <1>5. CASE q.pc = "release" /\ ~q.err /\ p.pc = "ok"
    BY <1>5
  <1>6. CASE /\ q.pc \in {"new", "lease", "root", "plan", "stage"}
             /\ p.pc \in {"lease", "root", "plan", "stage", "unstage", "commit"}
    BY <1>6
  <1>7. CASE q.pc = "dead" /\ p.pc = "dead"
    BY <1>7
  <1> QED
    BY <1>1, <1>2, <1>3, <1>4, <1>5, <1>6, <1>7

\* A step other than an effective commit tells the callers of writes at most how
\* one ended.
LEMMA WriteEnds ==
    ASSUME StoreInv, Erring', [Next]_vars, NEW w \in Write
    PROVE  Commits(w) \/ EndedOf(op[w], op'[w])
  <1> DEFINE Ends == EndedOf(op[w], op'[w])
  <1>0. /\ TypeInv /\ w \in Mutation
        /\ op[w].err => op[w].pc \in {"release", "failed", "dead"}
        /\ op'[w].err => op'[w].pc \in {"release", "failed", "dead"}
    BY DEF StoreInv, Erring, Mutation
  <1>1. ASSUME op'[w] = op[w] PROVE Ends
    BY <1>1 DEF EndedOf
  <1>2. ASSUME op'[w].pc = op[w].pc, op'[w].err = op[w].err PROVE Ends
    BY <1>0, <1>2, Endings
  <1>3. ASSUME Abort(w), op[w].pc \notin {"ok", "failed", "dead"} PROVE Ends
    BY <1>0, <1>3, AbortFields, Endings
  <1>4. ASSUME Unstaged(w) = op' \/ \E b \in Bucket : op' = [Unstaged(w) EXCEPT ![w].puts = @ \ {b}],
               op[w].pc = "stage"
        PROVE  Ends
    <2>1. op'[w].pc = "unstage"
      BY <1>0, <1>4, UnstagedFields
    <2> QED
      BY <1>0, <1>4, <2>1, Endings
  <1>5. CASE UNCHANGED vars
    BY <1>1, <1>5 DEF vars
  <1>6. ASSUME NEW n \in Mutation, n # w, Step(n) \/ Renew(n) PROVE Ends
    BY <1>0, <1>1, <1>6, Own
  <1>7. CASE Renew(w)
    BY <1>0, <1>2, <1>7, RenewFields
  <1>8. CASE Step(w)
    <2>1. CASE TakeLock(w)
      <3>1. op[w].pc = "new" /\ op'[w].pc = "lease"
        BY <1>0, <2>1, GotoFields DEF TakeLock
      <3> QED
        BY <1>0, <3>1, Endings
    <2>2. CASE Acquire(w)
      <3>1. op[w].pc = "lease" /\ op'[w].pc \in {"root", "failed"}
        BY <1>0, <2>2, GotoFields DEF Acquire
      <3> QED
        BY <1>0, <3>1, Endings
    <2>3. CASE ReadRoot(w)
      <3>1. op[w].pc = "root"
        BY <2>3 DEF ReadRoot
      <3>2. CASE op' = [op EXCEPT ![w].pc = "plan", ![w].root = root]
        <4>1. op'[w].pc = "plan"
          BY <1>0, <3>2, ReadRootFields
        <4> QED
          BY <1>0, <3>1, <4>1, Endings
      <3> QED
        BY <1>3, <2>3, <3>1, <3>2 DEF ReadRoot
    <2>4. CASE Plan(w)
      <3>1. op[w].pc = "plan"
        BY <2>4 DEF Plan
      <3>2. ~Obsolete(w)
        BY DEF Obsolete
      <3>3. CASE Planned(w)
        <4>1. op'[w].pc \in {"stage", "commit"}
          BY <3>3 DEF Planned
        <4> QED
          BY <1>0, <3>1, <4>1, Endings
      <3> QED
        BY <1>0, <1>3, <2>4, <3>1, <3>2, <3>3, PlanChoices
    <2>5. CASE CheckStaged(w)
      <3>1. op[w].pc = "stage"
        BY <2>5 DEF CheckStaged
      <3>2. CASE Goto(w, "commit")
        <4>1. op'[w].pc = "commit"
          BY <1>0, <3>2, GotoFields
        <4> QED
          BY <1>0, <3>1, <4>1, Endings
      <3> QED
        BY <1>3, <1>4, <2>5, <3>1, <3>2 DEF CheckStaged
    <2>6. CASE EndUnstage(w)
      BY <1>3, <2>6 DEF EndUnstage
    <2>7. CASE Commit(w)
      <3>1. CASE Abort(w)
        BY <1>3, <2>7, <3>1 DEF Commit
      <3>2. CASE Goto(w, "verify")
        <4>1. op[w].pc = "commit" /\ root' = Document(w, op[w].entries)
          <5>1. op'[w].pc = "verify"
            BY <1>0, <3>2, GotoFields
          <5>2. ~Abort(w)
            BY <1>0, <5>1, AbortFields
          <5> QED
            BY <2>7, <5>2 DEF Commit
        <4> QED
          BY <1>0, <3>2, <4>1, GotoFields DEF Commits
      <3> QED
        BY <2>7, <3>1, <3>2 DEF Commit
    <2>8. CASE Verify(w)
      <3>1. op[w].pc = "verify"
        BY <2>8 DEF Verify
      <3>2. CASE op' = [op EXCEPT ![w].pc = "cleanup", ![w].dels = BucketsOf(op[w].root)]
        <4>1. op'[w].pc = "cleanup"
          BY <1>0, <3>2, VerifyFields
        <4> QED
          BY <1>0, <3>1, <4>1, Endings
      <3> QED
        BY <1>3, <2>8, <3>1, <3>2 DEF Verify
    <2>9. CASE EndCleanup(w)
      <3>1. op[w].pc = "cleanup" /\ op'[w].pc = "release"
        BY <1>0, <2>9, GotoFields DEF EndCleanup
      <3> QED
        BY <1>0, <3>1, Endings
    <2>10. CASE Release(w)
      <3>1. op[w].pc = "release"
        BY <2>10 DEF Release
      <3>2. CASE op[w].err \/ op[w].lost
        <4>1. op'[w].pc = "failed"
          BY <1>0, <2>10, <3>2, GotoFields DEF Release
        <4> QED
          BY <1>0, <3>1, <4>1, Endings
      <3>3. CASE ~(op[w].err \/ op[w].lost)
        <4>1. op'[w].pc = "ok"
          BY <1>0, <2>10, <3>3, GotoFields DEF Release
        <4> QED
          BY <1>0, <3>1, <3>3, <4>1, Endings
      <3> QED
        BY <3>2, <3>3
    <2>11. ASSUME NEW b \in Bucket, Stage(w, b) PROVE Ends
      <3>1. CASE op' = [op EXCEPT ![w].puts = @ \ {b}]
        BY <1>0, <1>2, <3>1, StageFields
      <3> QED
        BY <1>4, <2>11, <3>1 DEF Stage
    <2>12. ASSUME NEW b \in Bucket, Unstage(w, b) \/ Cleanup(w, b) PROVE Ends
      <3>1. op' = [op EXCEPT ![w].dels = @ \ {b}]
        BY <2>12 DEF Unstage, Cleanup
      <3> QED
        BY <1>0, <1>2, <3>1, DeleteFields
    <2> QED
      BY <1>8, <2>1, <2>2, <2>3, <2>4, <2>5, <2>6, <2>7, <2>8, <2>9, <2>10, <2>11, <2>12 DEF Step
  <1>9. ASSUME NEW r \in Read, ReadStep(r) PROVE op'[w] = op[w]
    <2>1. CASE Answer(r)
      <3>1. w \notin {r} \X Plaintexts(r)
        BY <1>0, NeededCells, StoreConstants DEF Plaintexts
      <3> QED
        BY <1>0, <2>1, <3>1 DEF Answer
    <2> QED
      BY <1>9, <2>1 DEF ReadStep, GetRoot, RetryRead, ReadRaises
  <1>10. ASSUME NEW p \in Process, Die(p) PROVE Ends
    <2>1. \/ op'[w].pc = op[w].pc /\ op'[w].err = op[w].err
          \/ op[w].pc \notin {"idle", "ok", "failed"} /\ op'[w].pc = "dead"
      BY <1>0, <1>10, DeathFields
    <2>2. CASE op[w].pc \notin {"idle", "ok", "failed"} /\ op'[w].pc = "dead"
      BY <1>0, <2>2, Endings
    <2> QED
      BY <1>2, <2>1, <2>2
  <1>11. ASSUME LeaseLapses \/ LeaseReaped PROVE op'[w] = op[w]
    BY <1>11 DEF LeaseLapses, LeaseReaped
  <1> QED
    BY <1>0, <1>1, <1>5, <1>6, <1>7, <1>8, <1>9, <1>10, <1>11 DEF Next

-----------------------------------------------------------------------------
(* What reads have found *)

\* A read that stands where it did, over the shards it needs, has found the same.
LEMMA FoundSame ==
    ASSUME TypeInv, NEW r \in Read, read'[r] = read[r],
           \A b \in Needed(r) : shard'[read[r].root.gen][b] = shard[read[r].root.gen][b]
    PROVE  Found(r)' = Found(r)
  <1>1. Needed(r)' = Needed(r)
    BY DEF Needed
  <1>2. Present(read[r].root, Needed(r))' = Present(read[r].root, Needed(r))
    BY <1>1 DEF Present
  <1>3. ASSUME NEW k \in read[r].keys PROVE CellIn(read[r].root, k)' = CellIn(read[r].root, k)
    <2>1. CASE read[r].root.kind = "manifest"
      <3>1. Hash[k] % read[r].root.buckets \in Needed(r)
        BY <1>3, <2>1, NeededCells
      <3> QED
        BY <2>1, <3>1 DEF CellIn
    <2>2. CASE read[r].root.kind # "manifest"
      BY <2>2 DEF CellIn
    <2> QED
      BY <2>1, <2>2
  <1>4. [k \in read[r].keys |-> CellIn(read[r].root, k).token]'
           = [k \in read[r].keys |-> CellIn(read[r].root, k).token]
    BY <1>3
  <1>5. CASE read[r].pc = "answered"
    BY <1>5 DEF Found
  <1>6. CASE read[r].pc = "shards" /\ Present(read[r].root, Needed(r))
    BY <1>2, <1>4, <1>6 DEF Found
  <1>7. CASE read[r].pc # "answered" /\ ~(read[r].pc = "shards" /\ Present(read[r].root, Needed(r)))
    BY <1>2, <1>7 DEF Found
  <1> QED
    BY <1>5, <1>6, <1>7

LEMMA NeededTyped ==
    ASSUME TypeInv, NEW r \in Read, NEW b \in Needed(r)
    PROVE  /\ read[r].root.kind = "manifest" /\ read[r].root.gen \in Mutation
           /\ b \in BucketsOf(read[r].root) /\ b \in Bucket
  <1>1. read[r].root \in RootType /\ read[r].keys \in Asked
    BY DEF TypeInv, TypeOK, ReadRec
  <1>2. read[r].root.kind = "manifest"
    BY DEF Needed
  <1>3. read[r].root.gen \in Mutation /\ read[r].root.buckets \in 1 .. MaxShards
    BY <1>1, <1>2 DEF RootType
  <1>4. b \in BucketsOf(read[r].root)
    <2>1. CASE read[r].keys = Key
      BY <1>2, <2>1 DEF Needed
    <2>2. CASE read[r].keys # Key
      BY <1>1, <1>2, <1>3, <2>2, InBucket, StoreConstants DEF Needed, BucketsOf
    <2> QED
      BY <2>1, <2>2
  <1> QED
    BY <1>1, <1>2, <1>3, <1>4, BucketsTyped

\* A generation in a reader's hands is not being put or undone.
LEMMA FoundKept ==
    ASSUME TypeInv, WrittenInv, [Next]_vars, NEW r \in Read, read'[r] = read[r],
           ~\E m \in Mutation : Cleans(m)
    PROVE  Found(r)' = Found(r)
  <1> SUFFICES ASSUME NEW b \in Needed(r)
               PROVE  shard'[read[r].root.gen][b] = shard[read[r].root.gen][b]
    BY FoundSame
  <1> DEFINE g == read[r].root.gen
  <1>1. WrittenIn(read[r].root, op)
    BY DEF WrittenInv, Written
  <1>2. read[r].root.kind = "manifest" /\ g \in Mutation /\ b \in Bucket
    BY NeededTyped
  <1>3. op[g].pc \in Past /\ op[g].puts = {}
    BY <1>1, <1>2 DEF WrittenIn
  <1>4. op[g].pc # "unstage"
    BY <1>3 DEF Past
  <1> HIDE DEF g
  <1> QED
    BY <1>2, <1>3, <1>4, ShardSteps DEF g

\* A deletion leaves what a read has found, or takes it away.
LEMMA FoundOrGone ==
    ASSUME TypeInv, NEW m \in Mutation, NEW b \in Bucket, Cleanup(m, b),
           NEW r \in Read
    PROVE  \/ Found(r)' = Found(r)
           \/ read[r].pc = "shards" /\ Found(r)' = Missing
  <1> DEFINE g == read[r].root.gen
  <1>0. read' = read /\ shard \in [Mutation -> [Bucket -> Entries \cup {Missing}]]
    BY DEF Cleanup, TypeInv, TypeOK
  <1>1. CASE read[r].pc # "shards"
    BY <1>0, <1>1 DEF Found
  <1>2. CASE \A c \in Needed(r) : shard'[g][c] = shard[g][c]
    BY <1>0, <1>2, FoundSame
  <1>3. CASE /\ read[r].pc = "shards"
             /\ \E c \in Needed(r) : shard'[g][c] # shard[g][c]
    <2>1. PICK c \in Needed(r) : shard'[g][c] # shard[g][c]
      BY <1>3
    <2>2. shard'[g][c] = Missing
      <3>1. g \in Mutation /\ c \in Bucket
        BY <2>1, NeededTyped
      <3> HIDE DEF g
      <3> QED
        BY <1>0, <2>1, <3>1 DEF Cleanup
    <2>3. ~Present(read[r].root, Needed(r))'
      BY <1>0, <2>2 DEF Present, Needed
    <2> QED
      BY <1>0, <1>3, <2>3 DEF Found
  <1> QED
    BY <1>1, <1>2, <1>3

-----------------------------------------------------------------------------
(* The refinement *)

Status(r) == IF read[r].pc \in {"answered", "failed"} THEN read[r].pc ELSE "open"
Shown(r)  == [keys |-> read[r].keys, seen |-> Found(r), pc |-> Status(r)]

MapKept   == StoredMap' = StoredMap
ToldKept  == \A w \in Write : Told(w)' = Told(w)
ShownKept == \A r \in Read : Shown(r)' = Shown(r)

\* What a step of the map looks like from here.
Applies(w) == /\ Told(w) = "open" /\ Told(w)' \in {"applied", "failed"}
              /\ \A o \in Write \ {w} : Told(o)' = Told(o)
              /\ StoredMap' = [StoredMap EXCEPT ![KeyOf[w]] = ValueOf[w]]
              /\ ShownKept
Ends == /\ MapKept
        /\ \A w \in Write : EndedOf(op[w], op'[w])
        /\ \A r \in Read : \/ Shown(r)' = Shown(r)
                           \/ /\ Status(r) = "open" /\ Status(r)' = "failed"
                              /\ read'[r].keys = read[r].keys
Forgets == /\ MapKept /\ ToldKept
           /\ \A r \in Read : \/ Shown(r)' = Shown(r)
                              \/ /\ Status(r) = "open"
                                 /\ Shown(r)' = [Shown(r) EXCEPT !.seen = Missing]
Looks(r) == /\ MapKept /\ ToldKept
            /\ \A o \in Read \ {r} : Shown(o)' = Shown(o)
            /\ Status(r) = "open"
            /\ Shown(r)' = [Shown(r) EXCEPT !.seen = [k \in read[r].keys |-> StoredMap[k]]]
Answers(r) == /\ MapKept /\ ToldKept
              /\ \A o \in Read \ {r} : Shown(o)' = Shown(o)
              /\ Status(r) = "open" /\ Found(r) # Missing
              /\ Shown(r)' = [Shown(r) EXCEPT !.pc = "answered"]

LEMMA MapStutters == ASSUME MapKept, ToldKept, ShownKept
                     PROVE  UNCHANGED Map!vars
  BY DEF MapKept, ToldKept, ShownKept, Map!vars, Shown, Status

LEMMA MapApplies == ASSUME NEW w \in Write, Applies(w)
                    PROVE  Map!Next
  <1> DEFINE told  == [o \in Write |-> Told(o)]
             told2 == [o \in Write |-> Told(o)']
  <1>1. /\ told[w] = "open"
        /\ \E outcome \in {"applied", "failed"} : told2 = [told EXCEPT ![w] = outcome]
    BY DEF Applies
  <1>2. Map!Apply(w)
    BY <1>1, Zenon DEF Applies, Map!Apply
  <1>3. [r \in Read |-> Shown(r)]' = [r \in Read |-> Shown(r)]
    BY DEF Applies, ShownKept
  <1> QED
    BY <1>2, <1>3, Zenon DEF Map!Next, Shown, Status

LEMMA MapEnds == ASSUME Ends PROVE Map!Next
  <1> DEFINE told  == [o \in Write |-> Told(o)]
             told2 == [o \in Write |-> Told(o)']
             seen  == [r \in Read |-> Shown(r)]
             seen2 == [r \in Read |-> Shown(r)']
  <1>1. ASSUME NEW w \in Write
        PROVE  \/ told2[w] = told[w]
               \/ told[w] = "applied" /\ told2[w] = "ok"
               \/ told[w] \in {"open", "applied"} /\ told2[w] = "failed"
    <2>1. Told(w) = ToldOf(op[w]) /\ Told(w)' = ToldOf(op'[w])
      BY DEF Told, ToldOf
    <2> QED
      BY <2>1 DEF Ends, EndedOf
  <1>2. ASSUME NEW r \in Read
        PROVE  \/ seen2[r] = seen[r]
               \/ /\ seen[r].pc = "open"
                  /\ seen2[r].pc = "failed" /\ seen2[r].keys = seen[r].keys
    BY DEF Ends, Shown
  <1>3. StoredMap' = StoredMap
    BY DEF Ends, MapKept
  <1>4. Map!End
    BY <1>1, <1>2, <1>3, Zenon DEF Map!End, Shown, Status
  <1> QED
    BY <1>4 DEF Map!Next

LEMMA ToldUnchanged == ASSUME ToldKept
                       PROVE  [w \in Write |-> Told(w)]' = [w \in Write |-> Told(w)]
  BY DEF ToldKept

LEMMA MapForgets == ASSUME Forgets PROVE Map!Next
  <1> DEFINE seen  == [r \in Read |-> Shown(r)]
             seen2 == [r \in Read |-> Shown(r)']
  <1>1. ASSUME NEW r \in Read
        PROVE  \/ seen2[r] = seen[r]
               \/ /\ seen[r].pc = "open"
                  /\ seen2[r] = [seen[r] EXCEPT !.seen = Missing]
    BY DEF Forgets, Shown
  <1>2. StoredMap' = StoredMap
    BY DEF Forgets, MapKept
  <1>3. [w \in Write |-> Told(w)]' = [w \in Write |-> Told(w)]
    BY ToldUnchanged DEF Forgets
  <1>4. Map!Forget
    BY <1>1, <1>2, <1>3, Zenon DEF Map!Forget, Shown, Status
  <1> QED
    BY <1>4 DEF Map!Next

LEMMA MapLooks == ASSUME NEW r \in Read, Looks(r) PROVE Map!Next
  <1> DEFINE seen  == [o \in Read |-> Shown(o)]
             seen2 == [o \in Read |-> Shown(o)']
             found == [k \in read[r].keys |-> StoredMap[k]]
  <1>1. seen[r].pc = "open" /\ seen[r].keys = read[r].keys
    BY DEF Looks, Shown
  <1>2. seen2 = [seen EXCEPT ![r].seen = found]
    <2>1. seen2[r] = [seen[r] EXCEPT !.seen = found] /\ \A o \in Read \ {r} : seen2[o] = seen[o]
      BY DEF Looks
    <2> HIDE DEF found
    <2> QED
      BY <2>1
  <1>3. found = [k \in seen[r].keys |-> StoredMap[k]]
    BY <1>1
  <1>4. StoredMap' = StoredMap
    BY DEF Looks, MapKept
  <1>5. [w \in Write |-> Told(w)]' = [w \in Write |-> Told(w)]
    BY ToldUnchanged DEF Looks
  <1>6. Map!Look(r)
    <2>1. Map!Seen(r) = found
      BY <1>3 DEF Map!Seen, Shown, Status
    <2> HIDE DEF found
    <2> QED
      BY <1>1, <1>2, <1>4, <1>5, <2>1, Zenon DEF Map!Look, Shown, Status
  <1> QED
    BY <1>6 DEF Map!Next

LEMMA MapAnswers == ASSUME NEW r \in Read, Answers(r) PROVE Map!Next
  <1> DEFINE seen  == [o \in Read |-> Shown(o)]
             seen2 == [o \in Read |-> Shown(o)']
  <1>1. seen[r].pc = "open" /\ seen[r].seen # Missing
    BY DEF Answers, Shown
  <1>2. seen2 = [seen EXCEPT ![r].pc = "answered"]
    <2>1. seen2[r] = [seen[r] EXCEPT !.pc = "answered"] /\ \A o \in Read \ {r} : seen2[o] = seen[o]
      BY DEF Answers
    <2> QED
      BY <2>1
  <1>3. StoredMap' = StoredMap
    BY DEF Answers, MapKept
  <1>4. [w \in Write |-> Told(w)]' = [w \in Write |-> Told(w)]
    BY ToldUnchanged DEF Answers
  <1>5. Map!Answer(r)
    BY <1>1, <1>2, <1>3, <1>4, Zenon DEF Map!Answer, Shown, Status
  <1> QED
    BY <1>5 DEF Map!Next

\* A commit is a step of its own.
LEMMA CommitsAlone ==
    ASSUME TypeInv, Quiet, [Next]_vars, NEW m \in Mutation, Commits(m)
    PROVE  shard' = shard /\ read' = read /\ \A o \in Mutation : o # m => op'[o] = op[o]
  <1>0. op[m].pc = "commit" /\ op'[m].pc \in {"verify", "release"} /\ op[m].puts = {}
    BY DEF Commits, Quiet
  <1>1. CASE UNCHANGED vars
    BY <1>0, <1>1 DEF vars
  <1>2. ASSUME NEW n \in Mutation, n # m, Step(n) \/ Renew(n) PROVE FALSE
    BY <1>0, <1>2, Own
  <1>3. CASE Renew(m)
    BY <1>0, <1>3, RenewFields
  <1>4. CASE Step(m)
    <2>1. Commit(m)
      BY <1>0, <1>4 DEF Step, TakeLock, Acquire, ReadRoot, Plan, CheckStaged, EndUnstage, Verify,
         EndCleanup, Release, Stage, Unstage, Cleanup
    <2> QED
      BY <1>4, <2>1, Own DEF Commit
  <1>5. ASSUME NEW r \in Read, ReadStep(r) PROVE FALSE
    <2>1. CASE Answer(r)
      <3>1. CASE m \in {r} \X Plaintexts(r)
        BY <1>0, <2>1, <3>1 DEF Answer, NewOp
      <3>2. CASE m \notin {r} \X Plaintexts(r)
        BY <1>0, <2>1, <3>2 DEF Answer
      <3> QED
        BY <3>1, <3>2
    <2> QED
      BY <1>0, <1>5, <2>1 DEF ReadStep, GetRoot, RetryRead, ReadRaises
  <1>6. ASSUME NEW p \in Process, Die(p) PROVE FALSE
    BY <1>0, <1>6, DeathFields
  <1>7. ASSUME LeaseLapses \/ LeaseReaped PROVE FALSE
    BY <1>0, <1>7 DEF LeaseLapses, LeaseReaped
  <1> QED
    BY <1>1, <1>2, <1>3, <1>4, <1>5, <1>6, <1>7 DEF Next

LEMMA MapStays ==
    ASSUME StoreInv, RootSound, RootSound', [Next]_vars, root' = root
    PROVE  MapKept
  <1>1. \A k \in Key : StoredCell(k)' = StoredCell(k)
    BY StoredStays
  <1> QED
    BY <1>1 DEF MapKept, StoredMap

\* The map, when the root's entries are there.
LEMMA Tokens ==
    ASSUME RootSound
    PROVE  StoredMap = [k \in Key |-> StoredCell(k).token]
  BY MissingIsNothing DEF StoredMap, RootSound

\* A commit applies a write, or is not seen.
LEMMA CommitSeen ==
    ASSUME StoreInv, RootSound, StoreInv', RootSound', [Next]_vars, count'["overruns"] = 0,
           NEW m \in Mutation, Commits(m)
    PROVE  Map!Next \/ UNCHANGED Map!vars
  <1>0. TypeInv /\ Quiet /\ CurrentInv /\ Erring /\ Erring' /\ count["overruns"] = 0
    BY TypeStep DEF StoreInv, WrittenInv, TypesKept
  <1>1. shard' = shard /\ read' = read /\ \A o \in Mutation : o # m => op'[o] = op[o]
    BY <1>0, CommitsAlone
  <1>2. ShownKept
    <2>1. ASSUME NEW r \in Read PROVE Shown(r)' = Shown(r)
      <3>1. Found(r)' = Found(r)
        BY <1>0, <1>1, FoundSame
      <3> QED
        BY <1>1, <3>1 DEF Shown, Status
    <2> QED
      BY <2>1 DEF ShownKept
  <1>3. \A o \in Write \ {m} : Told(o)' = Told(o)
    BY <1>1 DEF Told, Mutation
  <1>4. ASSUME NEW k \in Key
        PROVE  StoredCell(k)' = IF k = Target(m) THEN op[m].value ELSE StoredCell(k)
    BY CommitCells
  <1>5. StoredMap = [k \in Key |-> StoredCell(k).token]
        /\ StoredMap' = [k \in Key |-> StoredCell(k)'.token]
    <2>1. StoredMap = [k \in Key |-> StoredCell(k).token]
      BY Tokens
    <2>2. StoredMap' = [k \in Key |-> StoredCell(k)'.token]
      BY MissingIsNothing DEF StoredMap, RootSound
    <2> QED
      BY <2>1, <2>2
  <1>6. StoredMap' = [StoredMap EXCEPT ![Target(m)] = op[m].value.token]
    <2>1. \A k \in Key : StoredMap'[k] = IF k = Target(m) THEN op[m].value.token ELSE StoredMap[k]
      BY <1>4, <1>5
    <2>2. StoredMap = [k \in Key |-> StoredMap[k]] /\ StoredMap' = [k \in Key |-> StoredMap'[k]]
      BY <1>5
    <2> QED
      BY <2>1, <2>2
  <1>7. CASE m \in Write
    <2>1. Told(m) = "open"
      <3>1. op[m].pc = "commit" /\ ~op[m].err
        BY <1>0 DEF Commits, Erring
      <3> QED
        BY <3>1, ToldValues DEF Told, ToldOf
    <2>2. Told(m)' \in {"applied", "failed"}
      <3>1. op'[m].err => op'[m].pc \in {"release", "failed", "dead"}
        BY <1>0 DEF Erring
      <3>2. ToldOf(op'[m]) \in {"applied", "failed"}
        BY <3>1, ToldValues DEF Commits
      <3> QED
        BY <3>2 DEF Told, ToldOf
    <2>3. op[m].value.token = ValueOf[m]
      <3>1. op[m].value = Sealed(ValueOf[m])
        BY <1>7 DEF StoreInv, Valued
      <3>2. Sealed(ValueOf[m]).token = ValueOf[m]
        BY DEF Sealed, Absent
      <3> QED
        BY <3>1, <3>2
    <2>4. Target(m) = KeyOf[m]
      BY <1>7 DEF Target
    <2>5. Applies(m)
      BY <1>2, <1>3, <1>6, <2>1, <2>2, <2>3, <2>4 DEF Applies
    <2> QED
      BY <1>7, <2>5, MapApplies
  <1>8. CASE m \notin Write
    <2>1. CellIn(op[m].root, Target(m)) = [op[m].value EXCEPT !.sealed = FALSE] /\ op[m].root = root
      BY <1>0, <1>8 DEF CurrentInv, Commits, Obsolete
    <2>2. op[m].value \in Cell
      BY <1>0 DEF TypeInv, TypeOK, OpRec
    <2>3. CellIn(root, Target(m)).token = op[m].value.token
      BY <2>1, <2>2 DEF Cell
    <2>4. StoredMap[Target(m)] = op[m].value.token
      BY <1>5, <2>3, HomeTyped DEF RootSound
    <2>5. MapKept
      BY <1>5, <1>6, <2>4 DEF MapKept
    <2>6. ToldKept
      BY <1>3, <1>8 DEF ToldKept
    <2> QED
      BY <1>2, <2>5, <2>6, MapStutters
  <1> QED
    BY <1>7, <1>8

\* Without a commit, a step of a mutation ends calls or makes reads look again.
LEMMA WorkSeen ==
    ASSUME StoreInv, RootSound, StoreInv', RootSound', [Next]_vars,
           NEW m \in Mutation, Step(m) \/ Renew(m), ~\E n \in Mutation : Commits(n)
    PROVE  Map!Next
  <1>0. TypeInv /\ WrittenInv /\ Erring /\ Erring'
    BY DEF StoreInv
  <1>1. read' = read /\ \A o \in Mutation : o # m => op'[o] = op[o]
    BY <1>0, Own
  <1>2. root' = root
    BY <1>0, RootSteps
  <1>3. MapKept
    BY <1>2, MapStays
  <1>4. CASE Cleans(m)
    <2>1. PICK b \in Bucket : Cleanup(m, b)
      BY <1>4 DEF Cleans
    <2>2. op'[m].pc = op[m].pc /\ op'[m].err = op[m].err
      BY <1>0, <2>1, DeleteFields DEF Cleanup
    <2>3. ToldKept
      BY <1>1, <2>2 DEF ToldKept, Told, Mutation
    <2>4. ASSUME NEW r \in Read
          PROVE  \/ Shown(r)' = Shown(r)
                 \/ /\ Status(r) = "open"
                    /\ Shown(r)' = [Shown(r) EXCEPT !.seen = Missing]
      <3>1. CASE Found(r)' = Found(r)
        BY <1>1, <3>1 DEF Shown, Status
      <3>2. CASE read[r].pc = "shards" /\ Found(r)' = Missing
        BY <1>1, <3>2 DEF Shown, Status
      <3> QED
        BY <1>0, <2>1, <3>1, <3>2, FoundOrGone
    <2>5. Forgets
      BY <1>3, <2>3, <2>4 DEF Forgets
    <2> QED
      BY <2>5, MapForgets
  <1>5. CASE ~Cleans(m)
    <2>1. ASSUME NEW n \in Mutation PROVE ~Cleans(n)
      <3>1. CASE n = m
        BY <1>5, <3>1
      <3>2. CASE n # m
        <4> SUFFICES ASSUME NEW b \in Bucket, Cleanup(n, b) PROVE FALSE
          BY DEF Cleans
        <4>1. op'[n] = op[n]
          BY <1>1, <3>2
        <4>2. op \in [Mutation -> OpRec] /\ op[n] \in OpRec
          BY <1>0 DEF TypeInv, TypeOK
        <4>3. op'[n].dels = op[n].dels \ {b} /\ b \in op[n].dels
          BY <4>2 DEF Cleanup, OpRec
        <4> QED
          BY <4>1, <4>3
      <3> QED
        BY <3>1, <3>2
    <2>2. ASSUME NEW r \in Read PROVE Shown(r)' = Shown(r)
      <3>1. Found(r)' = Found(r)
        BY <1>0, <1>1, <2>1, FoundKept
      <3> QED
        BY <1>1, <3>1 DEF Shown, Status
    <2>3. \A w \in Write : EndedOf(op[w], op'[w])
      BY <1>0, WriteEnds DEF Mutation
    <2>4. Ends
      BY <1>3, <2>2, <2>3 DEF Ends
    <2> QED
      BY <2>4, MapEnds
  <1> QED
    BY <1>4, <1>5

\* Where a read's step leaves the reads.
LEMMA OtherReads ==
    ASSUME TypeInv, NEW r \in Read, ReadStep(r), NEW o \in Read, o # r
    PROVE  Shown(o)' = Shown(o)
  <1>1. read \in [Read -> ReadRec]
    BY DEF TypeInv, TypeOK
  <1>2. read'[o] = read[o] /\ shard' = shard
    BY <1>1 DEF ReadStep, GetRoot, Answer, RetryRead, ReadRaises
  <1>3. Found(o)' = Found(o)
    BY <1>2, FoundSame
  <1> QED
    BY <1>2, <1>3 DEF Shown, Status

LEMMA ReadFails ==
    ASSUME TypeInv, NEW r \in Read, ReadStep(r), read' = [read EXCEPT ![r].pc = "failed"],
           read[r].pc \in {"root", "shards"}
    PROVE  Status(r) = "open" /\ Status(r)' = "failed" /\ read'[r].keys = read[r].keys
  <1>1. read \in [Read -> ReadRec] /\ read[r] \in ReadRec
    BY DEF TypeInv, TypeOK
  <1>2. read'[r] = [read[r] EXCEPT !.pc = "failed"]
    BY <1>1
  <1>3. read'[r].pc = "failed" /\ read'[r].keys = read[r].keys
    BY <1>1, <1>2 DEF ReadRec
  <1> QED
    BY <1>3 DEF Status

\* A read looks at the map, or its call ends.
LEMMA ReadSeen ==
    ASSUME StoreInv, RootSound, StoreInv', RootSound', [Next]_vars, NEW r \in Read, ReadStep(r)
    PROVE  Map!Next \/ UNCHANGED Map!vars
  <1>0. TypeInv /\ TypeInv' /\ ReadableInv
    BY DEF StoreInv
  <1>1. read \in [Read -> ReadRec] /\ read[r] \in ReadRec /\ read[r].keys \subseteq Key
        /\ read[r].keys \in Asked
    <2>1. read \in [Read -> ReadRec] /\ read[r] \in ReadRec
      BY <1>0 DEF TypeInv, TypeOK
    <2> QED
      BY <2>1, StoreConstants DEF ReadRec
  <1>2. root' = root /\ shard' = shard
    BY DEF ReadStep, GetRoot, Answer, RetryRead, ReadRaises
  <1>3. MapKept
    BY <1>2, MapStays
  <1>4. ASSUME NEW w \in Write PROVE op'[w] = op[w]
    <2>1. w \in Mutation
      BY DEF Mutation
    <2>2. CASE Answer(r)
      <3>1. w \notin {r} \X Plaintexts(r)
        BY <1>1, <2>1, StoreConstants DEF Plaintexts
      <3> QED
        BY <2>1, <2>2, <3>1 DEF Answer
    <2> QED
      BY <2>2 DEF ReadStep, GetRoot, RetryRead, ReadRaises
  <1>5. ToldKept
    BY <1>4 DEF ToldKept, Told
  <1>6. \A w \in Write : EndedOf(op[w], op'[w])
    BY <1>4 DEF EndedOf
  <1>7. \A o \in Read \ {r} : Shown(o)' = Shown(o)
    BY <1>0, OtherReads
  <1>8. CASE read' = [read EXCEPT ![r].pc = "failed"] /\ read[r].pc \in {"root", "shards"}
    <2>1. Ends
      BY <1>0, <1>3, <1>6, <1>7, <1>8, ReadFails DEF Ends
    <2> QED
      BY <2>1, MapEnds
  <1>9. CASE GetRoot(r) /\ read' = [read EXCEPT ![r].pc = "shards", ![r].root = root]
    <2> DEFINE found == [k \in read[r].keys |-> StoredMap[k]]
    <2>1. read'[r] = [read[r] EXCEPT !.pc = "shards", !.root = root]
      BY <1>1, <1>9
    <2>2. read'[r].pc = "shards" /\ read'[r].root = root /\ read'[r].keys = read[r].keys
      BY <1>1, <2>1 DEF ReadRec
    <2>3. Present(read[r].root, Needed(r))'
      <3> SUFFICES ASSUME NEW b \in Needed(r)' PROVE shard'[root.gen][b] # Missing
        BY <2>2 DEF Present
      <3>1. root.kind = "manifest"
        BY <2>2 DEF Needed
      <3>2. b \in BucketsOf(root)
        <4>1. CASE read[r].keys = Key
          BY <2>2, <3>1, <4>1 DEF Needed, BucketsOf
        <4>2. CASE read[r].keys # Key
          <5>1. PICK k \in read[r].keys : b = Hash[k] % root.buckets
            BY <2>2, <3>1, <4>2 DEF Needed
          <5>2. k \in Key
            BY <1>1
          <5> QED
            BY <3>1, <5>1, <5>2, RootCells DEF StoreInv
        <4> QED
          BY <4>1, <4>2
      <3>3. shard[root.gen][b] = Partition(op[root.gen].entries, root.buckets, b)
        BY <1>0, <3>1, <3>2 DEF ReadableInv, RootReadable
      <3>4. op[root.gen].entries \in Entries
        <4>1. root.gen \in Mutation
          BY <3>1, RootGen DEF StoreInv
        <4> QED
          BY <1>0, <4>1 DEF TypeInv, TypeOK, OpRec
      <3> QED
        BY <1>2, <3>3, <3>4, PartitionTyped, MissingIsNothing
    <2>4. Found(r)' = [k \in read[r].keys |-> CellIn(root, k)'.token]
      <3>1. Found(r)' = [k \in read'[r].keys |-> CellIn(read[r].root, k)'.token]
        BY <2>2, <2>3 DEF Found
      <3>2. \A k \in read[r].keys : CellIn(read[r].root, k)' = CellIn(root, k)'
        BY <1>2, <2>2 DEF CellIn
      <3> QED
        BY <2>2, <3>1, <3>2
    <2>5. ASSUME NEW k \in read[r].keys PROVE CellIn(root, k)'.token = StoredMap[k]
      <3>1. k \in Key
        BY <1>1
      <3>2. CellIn(root, k)' = CellIn(root, k)
        BY <1>2 DEF CellIn
      <3>3. StoredMap[k] = StoredCell(k).token
        BY <3>1, Tokens
      <3> QED
        BY <3>1, <3>2, <3>3 DEF RootSound
    <2>6. Found(r)' = found
      BY <2>4, <2>5
    <2>7. read[r].pc = "root"
      BY <1>9 DEF GetRoot
    <2> HIDE DEF found
    <2>8. Shown(r)' = [Shown(r) EXCEPT !.seen = found] /\ Status(r) = "open"
      BY <2>2, <2>6, <2>7 DEF Shown, Status
    <2>9. Looks(r)
      BY <1>3, <1>5, <1>7, <2>8 DEF Looks, found
    <2> QED
      BY <2>9, MapLooks
  <1>10. CASE Answer(r)
    <2> DEFINE found == [k \in Key |-> IF k \in read[r].keys THEN CellIn(read[r].root, k)
                                                             ELSE Absent]
               tokens == [k \in read[r].keys |-> CellIn(read[r].root, k).token]
    <2>1. read'[r] = [read[r] EXCEPT !.pc = "answered", !.answer = found]
      BY <1>1, <1>10 DEF Answer
    <2> HIDE DEF found
    <2>2. read'[r].pc = "answered" /\ read'[r].keys = read[r].keys /\ read'[r].answer = found
      BY <1>1, <2>1 DEF ReadRec
    <2>3. read[r].pc = "shards" /\ Present(read[r].root, Needed(r))
      BY <1>10 DEF Answer
    <2>4. Found(r) = tokens
      BY <2>3 DEF Found
    <2>5. Found(r)' = [k \in read[r].keys |-> found[k].token]
      BY <2>2 DEF Found
    <2>6. \A k \in read[r].keys : found[k] = CellIn(read[r].root, k)
      BY <1>1 DEF found
    <2>7. Found(r)' = Found(r)
      BY <2>4, <2>5, <2>6
    <2>8. Found(r) # Missing
      <3>1. \A k \in read[r].keys : CellIn(read[r].root, k) \in Cell
        BY <1>0, <2>3, NeededCells
      <3>2. tokens \in [read[r].keys -> Token \cup {NoToken}]
        BY <3>1 DEF Cell
      <3> QED
        BY <1>1, <2>4, <3>2, MissingIsNothing
    <2>9. Shown(r)' = [Shown(r) EXCEPT !.pc = "answered"] /\ Status(r) = "open"
      BY <2>2, <2>3, <2>7 DEF Shown, Status
    <2>10. Answers(r)
      BY <1>3, <1>5, <1>7, <2>8, <2>9 DEF Answers
    <2> QED
      BY <2>10, MapAnswers
  <1>11. CASE RetryRead(r)
    <2> DEFINE pc == IF read[r].tries + 1 >= Retries THEN "failed" ELSE "root"
    <2>1. read'[r] = [read[r] EXCEPT !.tries = @ + 1, !.pc = pc]
      BY <1>1, <1>11 DEF RetryRead
    <2>2. pc \in {"failed", "root"}
      OBVIOUS
    <2> HIDE DEF pc
    <2>3. read'[r].pc = pc /\ read'[r].keys = read[r].keys
      BY <1>1, <2>1 DEF ReadRec
    <2>4. read[r].pc = "shards" /\ ~Present(read[r].root, Needed(r))
      BY <1>11 DEF RetryRead
    <2>5. Found(r) = Missing /\ Found(r)' = Missing
      BY <2>2, <2>3, <2>4 DEF Found
    <2>6. CASE pc = "failed"
      <3>1. Status(r) = "open" /\ Status(r)' = "failed"
        BY <2>3, <2>4, <2>6 DEF Status
      <3>2. Ends
        BY <1>3, <1>6, <1>7, <2>3, <3>1 DEF Ends
      <3> QED
        BY <3>2, MapEnds
    <2>7. CASE pc = "root"
      <3>1. Status(r) = "open" /\ Status(r)' = "open"
        BY <2>3, <2>4, <2>7 DEF Status
      <3>2. Shown(r)' = Shown(r)
        BY <2>3, <2>5, <3>1 DEF Shown
      <3>3. ShownKept
        BY <1>7, <3>2 DEF ShownKept
      <3> QED
        BY <1>3, <1>5, <3>3, MapStutters
    <2> QED
      BY <2>2, <2>6, <2>7
  <1> QED
    BY <1>8, <1>9, <1>10, <1>11 DEF ReadStep, GetRoot, ReadRaises

LEMMA DeathSeen ==
    ASSUME StoreInv, RootSound, StoreInv', RootSound', [Next]_vars, NEW p \in Process, Die(p),
           ~\E n \in Mutation : Commits(n)
    PROVE  Map!Next
  <1>0. TypeInv /\ Erring'
    BY DEF StoreInv
  <1>1. root' = root /\ shard' = shard
    BY DEF Die
  <1>2. MapKept
    BY <1>1, MapStays
  <1>3. \A w \in Write : EndedOf(op[w], op'[w])
    BY <1>0, WriteEnds DEF Mutation
  <1>4. ASSUME NEW r \in Read
        PROVE  \/ Shown(r)' = Shown(r)
               \/ /\ Status(r) = "open" /\ Status(r)' = "failed"
                  /\ read'[r].keys = read[r].keys
    <2>1. CASE read'[r] = read[r]
      <3>1. Found(r)' = Found(r)
        BY <1>0, <1>1, <2>1, FoundSame
      <3> QED
        BY <2>1, <3>1 DEF Shown, Status
    <2>2. CASE /\ read[r].pc \in {"root", "shards"}
               /\ read'[r] = [read[r] EXCEPT !.pc = "failed"]
      <3>1. read[r] \in ReadRec
        BY <1>0 DEF TypeInv, TypeOK
      <3>2. read'[r].pc = "failed" /\ read'[r].keys = read[r].keys
        BY <2>2, <3>1 DEF ReadRec
      <3> QED
        BY <2>2, <3>2 DEF Status
    <2> QED
      BY <1>0, <2>1, <2>2, Deaths
  <1>5. Ends
    BY <1>2, <1>3, <1>4 DEF Ends
  <1> QED
    BY <1>5, MapEnds

LEMMA MapSteps ==
    ASSUME StoreInv, RootSound, StoreInv', RootSound', [Next]_vars, count'["overruns"] = 0
    PROVE  Map!Next \/ UNCHANGED Map!vars
  <1>1. CASE \E m \in Mutation : Commits(m)
    BY <1>1, CommitSeen
  <1>2. ASSUME UNCHANGED <<root, shard, op, read>> PROVE UNCHANGED Map!vars
    <2>1. MapKept
      BY <1>2, MapStays
    <2>2. ToldKept
      BY <1>2 DEF ToldKept, Told
    <2>3. ASSUME NEW r \in Read PROVE Shown(r)' = Shown(r)
      <3>1. Found(r)' = Found(r)
        BY <1>2, FoundSame DEF StoreInv
      <3> QED
        BY <1>2, <3>1 DEF Shown, Status
    <2>4. ShownKept
      BY <2>3 DEF ShownKept
    <2> QED
      BY <2>1, <2>2, <2>4, MapStutters
  <1>3. CASE ~\E m \in Mutation : Commits(m)
    <2>1. CASE UNCHANGED vars
      BY <1>2, <2>1 DEF vars
    <2>2. CASE LeaseLapses \/ LeaseReaped
      BY <1>2, <2>2 DEF LeaseLapses, LeaseReaped
    <2>3. ASSUME NEW m \in Mutation, Step(m) \/ Renew(m) PROVE Map!Next
      BY <1>3, <2>3, WorkSeen
    <2>4. ASSUME NEW r \in Read, ReadStep(r) PROVE Map!Next \/ UNCHANGED Map!vars
      BY <2>4, ReadSeen
    <2>5. ASSUME NEW p \in Process, Die(p) PROVE Map!Next
      BY <1>3, <2>5, DeathSeen
    <2> QED
      BY <2>1, <2>2, <2>3, <2>4, <2>5 DEF Next
  <1> QED
    BY <1>1, <1>3

LEMMA MapBegins == Init => Map!Init
  <1> SUFFICES ASSUME Init PROVE Map!Init
    OBVIOUS
  <1>1. ASSUME NEW w \in Write PROVE Told(w) = "open"
    <2>1. op[w].pc = "new" /\ op[w].err = FALSE
      BY <1>1 DEF Init, NewOp, Mutation
    <2> QED
      BY <2>1, ToldValues DEF Told, ToldOf
  <1>2. ASSUME NEW r \in Read PROVE Found(r) = Missing /\ read[r].pc = "root"
    <2>1. read[r].pc = "root"
      BY DEF Init, NewRead
    <2> QED
      BY <2>1 DEF Found
  <1> QED
    BY <1>1, <1>2 DEF Map!Init

\* The store implements the map its callers are promised as long as no lease
\* lapses under a mutation at work: whatever fails and whoever dies, each write
\* is applied at most once and to one entry, one that was told to have succeeded
\* was applied, repairs and changes of layout are not seen, and a read sees the
\* entries it asked for as they were at one moment.
THEOREM MapImplemented == Spec => ImplementsMap
  <1>1. /\ StoreInv /\ RootSound /\ (StoreInv /\ RootSound)' /\ [Next]_vars
        => [count'["overruns"] = 0 => Map!Next]_(Map!vars)
    <2> SUFFICES ASSUME StoreInv, RootSound, StoreInv', RootSound', [Next]_vars,
                        count'["overruns"] = 0
                 PROVE  Map!Next \/ UNCHANGED Map!vars
      OBVIOUS
    <2> QED
      BY MapSteps
  <1> QED
    BY <1>1, MapBegins, StoreInvariance, PTL DEF Spec, ImplementsMap

=============================================================================
