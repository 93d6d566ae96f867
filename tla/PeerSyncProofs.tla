--------------------------- MODULE PeerSyncProofs ---------------------------
(***************************************************************************)
(* Theorems about PeerSync, for every set of items and of syncs that       *)
(* administrators ask for, and for every bound.                            *)
(***************************************************************************)
EXTENDS PeerSync, TLAPS

-----------------------------------------------------------------------------
(* Type correctness *)

\* A sync stores only what it has fetched, and the item at hand is one of those
\* still to be done.
Sound(x) ==
    /\ x.pc \in {"store", "put"} => \A i \in x.todo : x.fetched[i] # 0
    /\ x.pc \in {"put", "flag"} => x.item \in x.todo

WorkInv ==
    /\ \A s \in Sync : Sound(sync[s])
    /\ edit.pc = "write" => edit.seen # NoItem

TypeInv == TypeOK /\ WorkInv

\* The bounds are natural numbers.
LEMMA BoundsType ==
    /\ MaxChanges \in Nat /\ MaxEdits \in Nat /\ MaxFaults \in Nat
    /\ MaxGeneration \in Nat /\ MaxRestarts \in Nat
BY PeerSyncConstants

\* What a sync and an edit are at rest.
LEMMA RestType ==
    /\ Some \in Item
    /\ Rest \in SyncRec /\ Rest.pc = "idle" /\ Sound(Rest)
    /\ NoEdit \in EditRec /\ NoEdit.pc = "idle"
<1>1. Some \in Item
  BY PeerSyncConstants DEF Some
<1>2. 0 \in 0..MaxGeneration
  BY BoundsType
<1>3. Rest \in SyncRec /\ Rest.pc = "idle"
  BY <1>1, <1>2 DEF Rest, SyncRec, SyncPc
<1>4. NoEdit \in EditRec /\ NoEdit.pc = "idle"
  BY <1>1 DEF NoEdit, EditRec
<1> QED
  BY <1>1, <1>3, <1>4 DEF Sound

\* A call that fails leaves the counter within its bound.
LEMMA FaultType ==
    ASSUME TypeOK, UNCHANGED faults \/ Fault
    PROVE  faults' \in 0..MaxFaults
BY BoundsType DEF TypeOK, Fault

\* The system starts with what the types say.
LEMMA TypeInit == Init => TypeInv
<1> SUFFICES ASSUME Init PROVE TypeInv
  OBVIOUS
<1>1. PICK all \in BOOLEAN : offered = [i \in Item |-> IF all THEN 1 ELSE 0]
  BY DEF Init
<1>2. offered \in [Item -> 0..2]
  BY <1>1
<1>3. InitialStatus \in Status
  BY BoundsType DEF InitialStatus, Status
<1>4. /\ changes \in 0..MaxChanges /\ edits \in 0..MaxEdits
      /\ faults \in 0..MaxFaults /\ restarts \in 0..MaxRestarts
  BY BoundsType DEF Init
<1>5. sync \in [Sync -> SyncRec] /\ edit \in EditRec
  BY RestType DEF Init
<1>6. /\ local \in [Item -> Stored \cup {NoItem}]
      /\ gone \in [Item -> BOOLEAN] /\ overlap \in BOOLEAN /\ kept \in [Item -> 0..2]
  <2>1. 0 \in 0..2
    OBVIOUS
  <2>2. kept \in [Item -> 0..2]
    BY <2>1 DEF Init
  <2>3. local \in [Item -> Stored \cup {NoItem}] /\ gone \in [Item -> BOOLEAN]
    BY DEF Init
  <2> QED BY <2>2, <2>3 DEF Init
<1>7. status \in Status /\ stored \in Status
  BY <1>3 DEF Init
<1>8. TypeOK
  BY <1>2, <1>4, <1>5, <1>6, <1>7 DEF TypeOK
<1>9. WorkInv
  BY RestType DEF Init, WorkInv
<1> QED
  BY <1>8, <1>9 DEF TypeInv

\* A step that replaces one sync by another sound record leaves the rest as it was.
LEMMA StepOfSync ==
    ASSUME TypeInv, NEW s \in Sync, NEW x \in SyncRec, Sound(x),
           sync' = [sync EXCEPT ![s] = x], edit' = edit
    PROVE  /\ sync' \in [Sync -> SyncRec] /\ edit' \in EditRec
           /\ sync'[s] = x
           /\ \A o \in Sync \ {s} : sync'[o] = sync[o]
           /\ WorkInv'
<1>1. /\ sync' \in [Sync -> SyncRec] /\ sync'[s] = x
      /\ \A o \in Sync \ {s} : sync'[o] = sync[o]
  BY DEF TypeInv, TypeOK
<1>2. \A o \in Sync : Sound(sync'[o])
  BY <1>1 DEF TypeInv, WorkInv
<1>3. edit' \in EditRec /\ (edit.pc = "write" => edit.seen # NoItem)'
  BY DEF TypeInv, TypeOK, WorkInv
<1>4. WorkInv'
  BY <1>2, <1>3 DEF WorkInv
<1> QED
  BY <1>1, <1>3, <1>4

\* A sync that ends is at rest.
LEMMA EndStep ==
    ASSUME TypeInv, NEW s \in Sync, End(s), edit' = edit
    PROVE  /\ sync' \in [Sync -> SyncRec] /\ edit' \in EditRec /\ WorkInv'
           /\ sync'[s] = Rest /\ \A o \in Sync \ {s} : sync'[o] = sync[o]
BY RestType, StepOfSync DEF End

\* A sync that fails stores nothing more.
LEMMA FailStep ==
    ASSUME TypeInv, NEW s \in Sync, Move(s, "fail"), edit' = edit
    PROVE  /\ sync' \in [Sync -> SyncRec] /\ edit' \in EditRec /\ WorkInv'
           /\ sync'[s].pc = "fail" /\ \A o \in Sync \ {s} : sync'[o] = sync[o]
<1> DEFINE x == [sync[s] EXCEPT !.pc = "fail"]
<1>1. sync[s] \in SyncRec
  BY DEF TypeInv, TypeOK
<1>2. x \in SyncRec /\ x.pc = "fail" /\ Sound(x)
  BY <1>1 DEF SyncRec, SyncPc, Sound
<1>3. sync' = [sync EXCEPT ![s] = x]
  BY DEF Move
<1> HIDE DEF x
<1> QED
  BY <1>2, <1>3, StepOfSync

\* Beginning a sync.
LEMMA BeginType ==
    ASSUME TypeInv, NEW s \in Sync, Begin(s)
    PROVE  TypeInv'
<1> DEFINE x == [Rest EXCEPT !.pc = "fetch", !.since = status.generation]
<1>1. x \in SyncRec /\ Sound(x)
  BY RestType DEF SyncRec, SyncPc, Sound, TypeInv, TypeOK, Status
<1>2. sync' = [sync EXCEPT ![s] = x]
  BY DEF Begin
<1>3. UNCHANGED <<offered, local, stored, edit, bounds, gone, kept>>
  BY DEF Begin
<1> HIDE DEF x
<1>4. sync' \in [Sync -> SyncRec] /\ edit' \in EditRec /\ WorkInv'
  BY <1>1, <1>2, <1>3, StepOfSync
<1>5. status' \in Status /\ overlap' \in BOOLEAN
  BY DEF TypeInv, TypeOK, Begin, Status
<1>6. TypeOK'
  BY <1>3, <1>4, <1>5 DEF TypeInv, TypeOK, bounds
<1> QED
  BY <1>4, <1>6 DEF TypeInv

\* Fetching from the peer.
LEMMA FetchType ==
    ASSUME TypeInv, NEW s \in Sync, Fetch(s)
    PROVE  TypeInv'
<1> DEFINE x == [sync[s] EXCEPT !.pc = "store", !.fetched = offered,
                                !.todo = {i \in Item : offered[i] # 0}]
<1>1. sync[s] \in SyncRec /\ offered \in [Item -> 0..2]
  BY DEF TypeInv, TypeOK
<1>2. x \in SyncRec /\ Sound(x)
  BY <1>1 DEF SyncRec, SyncPc, Sound
<1>3. /\ UNCHANGED <<offered, edit, changes, edits, restarts>>
      /\ UNCHANGED <<local, gone, kept>> /\ UNCHANGED <<status, overlap>>
  BY DEF Fetch, Aside, ItemsKept
<1>4. sync' \in [Sync -> SyncRec] /\ edit' \in EditRec /\ WorkInv'
  <2>1. CASE sync' = [sync EXCEPT ![s] = x]
    <3> HIDE DEF x
    <3> QED BY <1>2, <1>3, <2>1, StepOfSync
  <2>2. CASE FetchFailed(s)
    BY <1>3, <2>2, FailStep DEF FetchFailed
  <2>3. CASE End(s)
    BY <1>3, <2>3, EndStep
  <2> QED
    BY <2>1, <2>2, <2>3 DEF Fetch
<1>5. (UNCHANGED faults \/ Fault) /\ (stored' = status \/ UNCHANGED stored)
  BY DEF Fetch
<1>6. faults' \in 0..MaxFaults /\ stored' \in Status
  BY <1>5, FaultType DEF TypeInv, TypeOK
<1>7. TypeOK'
  BY <1>3, <1>4, <1>6 DEF TypeInv, TypeOK
<1> QED
  BY <1>4, <1>7 DEF TypeInv

\* Reading an item that is to be stored.
LEMMA LookType ==
    ASSUME TypeInv, NEW s \in Sync, Look(s)
    PROVE  TypeInv'
<1>1. sync[s] \in SyncRec /\ Sound(sync[s]) /\ sync[s].pc = "store"
  BY DEF TypeInv, TypeOK, WorkInv, Look
<1>2. PICK i \in sync[s].todo :
         sync' = [sync EXCEPT ![s] =
              IF Overridden(local[i]) THEN [sync[s] EXCEPT !.todo = sync[s].todo \ {i}]
              ELSE [sync[s] EXCEPT !.pc = "put", !.item = i, !.seen = local[i]]]
  BY DEF Look
<1> DEFINE x == [sync[s] EXCEPT !.todo = sync[s].todo \ {i}]
           y == [sync[s] EXCEPT !.pc = "put", !.item = i, !.seen = local[i]]
<1>3. i \in Item /\ local[i] \in Stored \cup {NoItem}
  BY <1>1 DEF SyncRec, TypeInv, TypeOK
<1>4. x \in SyncRec /\ Sound(x)
  BY <1>1 DEF SyncRec, SyncPc, Sound
<1>5. y \in SyncRec /\ Sound(y)
  BY <1>1, <1>3 DEF SyncRec, SyncPc, Sound
<1>6. /\ UNCHANGED <<offered, edit, changes, edits, restarts>> /\ UNCHANGED <<local, gone, kept>>
      /\ UNCHANGED <<status, stored, faults, overlap>>
  BY DEF Look, Aside, ItemsKept
<1>7. sync' = [sync EXCEPT ![s] = x] \/ sync' = [sync EXCEPT ![s] = y]
  BY <1>2
<1> HIDE DEF x, y
<1>8. sync' \in [Sync -> SyncRec] /\ edit' \in EditRec /\ WorkInv'
  BY <1>4, <1>5, <1>6, <1>7, StepOfSync
<1>9. TypeOK'
  BY <1>6, <1>8 DEF TypeInv, TypeOK
<1> QED
  BY <1>8, <1>9 DEF TypeInv

\* Going on to the next item.
LEMMA FollowingStep ==
    ASSUME TypeInv, NEW s \in Sync, NEW pc \in {"store", "orphan"}, NEW stores \in BOOLEAN,
           Following(s, pc, stores), edit' = edit,
           pc = "store" => sync[s].pc \in {"store", "put"}
    PROVE  /\ sync' \in [Sync -> SyncRec] /\ edit' \in EditRec /\ WorkInv'
           /\ sync'[s].pc = pc /\ sync'[s].fetched = sync[s].fetched
           /\ sync'[s].todo = sync[s].todo \ {sync[s].item}
           /\ \A o \in Sync \ {s} : sync'[o] = sync[o]
<1> DEFINE x == [sync[s] EXCEPT !.pc = pc, !.todo = sync[s].todo \ {sync[s].item}, !.item = Some,
                                !.seen = NoItem, !.done = sync[s].done \/ stores]
<1>1. sync[s] \in SyncRec /\ Sound(sync[s])
  BY DEF TypeInv, TypeOK, WorkInv
<1>2. /\ x \in SyncRec /\ x.pc = pc /\ x.fetched = sync[s].fetched
      /\ x.todo = sync[s].todo \ {sync[s].item}
  BY <1>1, RestType DEF SyncRec, SyncPc
<1>3. Sound(x)
  BY <1>1, <1>2 DEF Sound
<1>4. sync' = [sync EXCEPT ![s] = x]
  BY DEF Following
<1> HIDE DEF x
<1> QED
  BY <1>2, <1>3, <1>4, StepOfSync

\* Storing an item.
LEMMA PutType ==
    ASSUME TypeInv, NEW s \in Sync, Put(s)
    PROVE  TypeInv'
<1> DEFINE i == sync[s].item
<1>1. sync[s] \in SyncRec /\ Sound(sync[s]) /\ sync[s].pc = "put"
  BY DEF TypeInv, TypeOK, WorkInv, Put
<1>2. i \in Item /\ sync[s].fetched[i] \in 1..2
  BY <1>1 DEF SyncRec, Sound
<1>3. /\ UNCHANGED <<offered, edit, changes, edits, restarts>>
      /\ UNCHANGED <<status, stored, overlap>>
  BY DEF Put, Aside
<1>4. sync' \in [Sync -> SyncRec] /\ edit' \in EditRec /\ WorkInv'
  <2>1. PICK stores \in BOOLEAN : Following(s, "store", stores)
    BY DEF Put
  <2> QED
    BY <1>1, <1>3, <2>1, FollowingStep
<1>5. faults' \in 0..MaxFaults
  <2>1. UNCHANGED faults \/ Fault
    BY DEF Put
  <2> QED BY <2>1, FaultType DEF TypeInv
<1>6. local' \in [Item -> Stored \cup {NoItem}] /\ gone' \in [Item -> BOOLEAN] /\ kept' = kept
  <2>1. Synced(sync[s].fetched[i], local[i]) \in Stored
    BY <1>2 DEF Synced, Stored
  <2>2. CASE /\ local' = [local EXCEPT ![i] = Synced(sync[s].fetched[i], local[i])]
             /\ gone' = [gone EXCEPT ![i] = offered[i] = 0] /\ UNCHANGED kept
    <3>1. local' \in [Item -> Stored \cup {NoItem}]
      BY <2>1, <2>2 DEF TypeInv, TypeOK
    <3>2. gone' \in [Item -> BOOLEAN]
      BY <2>2 DEF TypeInv, TypeOK
    <3> QED BY <2>2, <3>1, <3>2
  <2>3. CASE UNCHANGED <<local, gone, kept>>
    BY <2>3 DEF TypeInv, TypeOK
  <2> QED
    BY <2>2, <2>3 DEF Put, ItemsKept
<1>7. TypeOK'
  BY <1>3, <1>4, <1>5, <1>6 DEF TypeInv, TypeOK
<1> QED
  BY <1>4, <1>7 DEF TypeInv

\* Looking for the items the fetch did not have.
LEMMA DetectType ==
    ASSUME TypeInv, NEW s \in Sync, Detect(s)
    PROVE  TypeInv'
<1>1. sync[s] \in SyncRec
  BY DEF TypeInv, TypeOK
<1>2. PICK items \in SUBSET Item : ToMark(s, items)
  BY DEF Detect
<1> DEFINE x == [sync[s] EXCEPT !.pc = "orphan", !.todo = items, !.fetched = Rest.fetched]
<1>3. Rest.fetched \in [Item -> 0..2]
  BY DEF Rest
<1>4. x \in SyncRec /\ Sound(x)
  BY <1>1, <1>3 DEF SyncRec, SyncPc, Sound
<1>5. sync' = [sync EXCEPT ![s] = x]
  BY <1>2 DEF ToMark
<1>6. /\ UNCHANGED <<offered, edit, changes, edits, restarts>> /\ UNCHANGED <<local, gone, kept>>
      /\ UNCHANGED <<status, stored, overlap>> /\ (UNCHANGED faults \/ Fault)
  BY DEF Detect, Aside, ItemsKept
<1> HIDE DEF x
<1>7. sync' \in [Sync -> SyncRec] /\ edit' \in EditRec /\ WorkInv'
  BY <1>4, <1>5, <1>6, StepOfSync
<1>8. faults' \in 0..MaxFaults
  BY <1>6, FaultType DEF TypeInv
<1>9. TypeOK'
  BY <1>6, <1>7, <1>8 DEF TypeInv, TypeOK
<1> QED
  BY <1>7, <1>9 DEF TypeInv

\* Reading an item that is to be marked.
LEMMA OrphanType ==
    ASSUME TypeInv, NEW s \in Sync, Orphan(s)
    PROVE  TypeInv'
<1>1. sync[s] \in SyncRec
  BY DEF TypeInv, TypeOK
<1>2. PICK i \in sync[s].todo :
         sync' = [sync EXCEPT ![s] = [sync[s] EXCEPT !.pc = "flag", !.item = i, !.seen = local[i]]]
  BY DEF Orphan
<1> DEFINE x == [sync[s] EXCEPT !.pc = "flag", !.item = i, !.seen = local[i]]
<1>3. i \in Item /\ local[i] \in Stored \cup {NoItem}
  BY <1>1 DEF SyncRec, TypeInv, TypeOK
<1>4. x \in SyncRec /\ Sound(x)
  BY <1>1, <1>3 DEF SyncRec, SyncPc, Sound
<1>5. sync' = [sync EXCEPT ![s] = x]
  BY <1>2
<1>6. /\ UNCHANGED <<offered, edit, changes, edits, restarts>> /\ UNCHANGED <<local, gone, kept>>
      /\ UNCHANGED <<status, stored, faults, overlap>>
  BY DEF Orphan, Aside, ItemsKept
<1> HIDE DEF x
<1>7. sync' \in [Sync -> SyncRec] /\ edit' \in EditRec /\ WorkInv'
  BY <1>4, <1>5, <1>6, StepOfSync
<1>8. TypeOK'
  BY <1>6, <1>7 DEF TypeInv, TypeOK
<1> QED
  BY <1>7, <1>8 DEF TypeInv

\* Marking an item.
LEMMA FlagType ==
    ASSUME TypeInv, NEW s \in Sync, Flag(s)
    PROVE  TypeInv'
<1>1. sync[s] \in SyncRec
  BY DEF TypeInv, TypeOK
<1>2. /\ UNCHANGED <<offered, edit, changes, edits, restarts>>
      /\ UNCHANGED <<status, stored, overlap, gone, kept>>
      /\ Following(s, "orphan", FALSE) /\ (UNCHANGED faults \/ Fault)
  BY DEF Flag, Aside
<1>3. sync' \in [Sync -> SyncRec] /\ edit' \in EditRec /\ WorkInv'
  BY <1>2, FollowingStep
<1>4. local' \in [Item -> Stored \cup {NoItem}]
  <2>1. CASE /\ sync[s].seen # NoItem
             /\ local' = [local EXCEPT ![sync[s].item] = [sync[s].seen EXCEPT !.orphan = TRUE]]
    <3>1. sync[s].seen \in Stored
      BY <1>1, <2>1 DEF SyncRec
    <3>2. [sync[s].seen EXCEPT !.orphan = TRUE] \in Stored
      BY <3>1 DEF Stored
    <3> QED BY <2>1, <3>2 DEF TypeInv, TypeOK
  <2>2. CASE UNCHANGED local
    BY <2>2 DEF TypeInv, TypeOK
  <2> QED
    BY <2>1, <2>2 DEF Flag
<1>5. faults' \in 0..MaxFaults
  BY <1>2, FaultType DEF TypeInv
<1>6. TypeOK'
  BY <1>2, <1>3, <1>4, <1>5 DEF TypeInv, TypeOK
<1> QED
  BY <1>3, <1>6 DEF TypeInv

\* A sync that ends well leaves a status.
LEMMA SucceededType ==
    ASSUME TypeInv, NEW s \in Sync
    PROVE  Succeeded(s) \in Status /\ Succeeded(s).generation >= status.generation
<1>1. status.generation \in 0..MaxGeneration
  BY DEF TypeInv, TypeOK, Status
<1>2. /\ AfterGeneration(status.generation) \in 0..MaxGeneration
      /\ AfterGeneration(status.generation) >= status.generation
  BY <1>1, BoundsType DEF AfterGeneration
<1> QED
  BY <1>1, <1>2 DEF Succeeded, Status

\* A sync that ends well.
LEMMA FinishType ==
    ASSUME TypeInv, NEW s \in Sync, Finish(s)
    PROVE  TypeInv'
<1>1. /\ UNCHANGED <<offered, edit, changes, edits, restarts>> /\ UNCHANGED <<local, gone, kept>>
      /\ UNCHANGED overlap /\ (UNCHANGED faults \/ Fault)
      /\ status' = Succeeded(s) /\ (stored' = status' \/ UNCHANGED stored)
  BY DEF Finish, Aside, ItemsKept
<1>2. sync' \in [Sync -> SyncRec] /\ edit' \in EditRec /\ WorkInv'
  BY <1>1, EndStep, FailStep DEF Finish
<1>3. status' \in Status /\ stored' \in Status
  BY <1>1, SucceededType DEF TypeInv, TypeOK
<1>4. faults' \in 0..MaxFaults
  BY <1>1, FaultType DEF TypeInv
<1>5. TypeOK'
  BY <1>1, <1>2, <1>3, <1>4 DEF TypeInv, TypeOK
<1> QED
  BY <1>2, <1>5 DEF TypeInv

\* A sync that ends with an error.
LEMMA FailType ==
    ASSUME TypeInv, NEW s \in Sync, Fail(s)
    PROVE  TypeInv'
<1>1. /\ UNCHANGED <<offered, edit, changes, edits, restarts>> /\ UNCHANGED <<local, gone, kept>>
      /\ UNCHANGED overlap /\ (UNCHANGED faults \/ Fault) /\ End(s)
      /\ status' = [status EXCEPT !.progress = FALSE] /\ (stored' = status' \/ UNCHANGED stored)
  BY DEF Fail, Aside, ItemsKept
<1>2. sync' \in [Sync -> SyncRec] /\ edit' \in EditRec /\ WorkInv'
  BY <1>1, EndStep
<1>3. status' \in Status /\ stored' \in Status
  BY <1>1 DEF TypeInv, TypeOK, Status
<1>4. faults' \in 0..MaxFaults
  BY <1>1, FaultType DEF TypeInv
<1>5. TypeOK'
  BY <1>1, <1>2, <1>3, <1>4 DEF TypeInv, TypeOK
<1> QED
  BY <1>2, <1>5 DEF TypeInv

\* A step of a sync.
LEMMA AdvanceType ==
    ASSUME TypeInv, NEW s \in Sync, Advance(s)
    PROVE  TypeInv'
BY FetchType, LookType, PutType, DetectType, OrphanType, FlagType, FinishType, FailType
   DEF Advance

\* What the peer does.
LEMMA PeerType ==
    ASSUME TypeInv, Offer \/ Revise \/ IntervalPasses
    PROVE  TypeInv'
<1>1. CASE Offer
  <2>1. PICK i \in Item : /\ offered' = [offered EXCEPT ![i] = IF offered[i] = 0 THEN 1 ELSE 0]
                          /\ gone' = [gone EXCEPT ![i] = gone[i] \/ offered[i] # 0]
    BY <1>1 DEF Offer
  <2>2. offered' \in [Item -> 0..2] /\ gone' \in [Item -> BOOLEAN]
    <3>1. (IF offered[i] = 0 THEN 1 ELSE 0) \in 0..2
      OBVIOUS
    <3>2. offered' \in [Item -> 0..2]
      BY <2>1, <3>1 DEF TypeInv, TypeOK
    <3>3. gone' \in [Item -> BOOLEAN]
      BY <2>1 DEF TypeInv, TypeOK
    <3> QED BY <3>2, <3>3
  <2>3. changes' \in 0..MaxChanges
    BY <1>1, BoundsType DEF Offer, TypeInv, TypeOK
  <2>4. UNCHANGED <<local, status, stored, sync, edit, edits, faults, restarts, overlap, kept>>
    BY <1>1 DEF Offer
  <2>5. TypeOK'
    BY <2>2, <2>3, <2>4 DEF TypeInv, TypeOK
  <2> QED BY <2>4, <2>5 DEF TypeInv, WorkInv
<1>2. CASE Revise
  <2>1. PICK i \in Item : offered[i] # 0 /\ offered' = [offered EXCEPT ![i] = 3 - offered[i]]
    BY <1>2 DEF Revise
  <2>2. offered' \in [Item -> 0..2]
    <3>1. 3 - offered[i] \in 0..2
      BY <2>1 DEF TypeInv, TypeOK
    <3> QED BY <2>1, <3>1 DEF TypeInv, TypeOK
  <2>3. changes' \in 0..MaxChanges
    BY <1>2, BoundsType DEF Revise, TypeInv, TypeOK
  <2>4. UNCHANGED <<local, status, stored, sync, edit, edits, faults, restarts, gone, overlap, kept>>
    BY <1>2 DEF Revise, history
  <2>5. TypeOK'
    BY <2>2, <2>3, <2>4 DEF TypeInv, TypeOK
  <2> QED BY <2>4, <2>5 DEF TypeInv, WorkInv
<1>3. CASE IntervalPasses
  <2>1. status' \in Status /\ stored' \in Status
    BY <1>3 DEF IntervalPasses, TypeInv, TypeOK, Status
  <2>2. /\ UNCHANGED <<offered, local, sync, edit, changes, edits, faults, restarts>>
        /\ UNCHANGED <<gone, overlap, kept>>
    BY <1>3 DEF IntervalPasses, bounds, history
  <2>3. TypeOK'
    BY <2>1, <2>2 DEF TypeInv, TypeOK
  <2> QED BY <2>2, <2>3 DEF TypeInv, WorkInv
<1> QED
  BY <1>1, <1>2, <1>3

\* Setting or clearing a local override.
LEMMA EditType ==
    ASSUME TypeInv, ReadOverride \/ WriteOverride
    PROVE  TypeInv'
<1>1. CASE ReadOverride
  <2>1. PICK i \in Item, on \in BOOLEAN :
           local[i] # NoItem /\ edit' = [pc |-> "write", item |-> i, on |-> on, seen |-> local[i]]
    BY <1>1 DEF ReadOverride
  <2>2. edit' \in EditRec /\ edit'.seen # NoItem
    BY <2>1 DEF EditRec, TypeInv, TypeOK
  <2>3. edits' \in 0..MaxEdits /\ overlap' \in BOOLEAN
    BY <1>1, BoundsType DEF ReadOverride, TypeInv, TypeOK
  <2>4. UNCHANGED <<offered, local, status, stored, sync, changes, faults, restarts, gone, kept>>
    BY <1>1 DEF ReadOverride
  <2>5. TypeOK'
    BY <2>2, <2>3, <2>4 DEF TypeInv, TypeOK
  <2> QED BY <2>2, <2>4, <2>5 DEF TypeInv, WorkInv
<1>2. CASE WriteOverride
  <2>1. /\ edit.pc = "write" /\ edit' = NoEdit
        /\ UNCHANGED <<offered, status, stored, sync, changes, edits, restarts, gone, overlap>>
    BY <1>2 DEF WriteOverride
  <2>2. /\ edit.item \in Item /\ edit.seen \in Stored
    BY <2>1 DEF TypeInv, TypeOK, WorkInv, EditRec
  <2>3. /\ local' \in [Item -> Stored \cup {NoItem}] /\ kept' \in [Item -> 0..2]
        /\ faults' \in 0..MaxFaults
    <3>1. CASE /\ local' = [local EXCEPT ![edit.item] = [edit.seen EXCEPT !.override = edit.on]]
               /\ kept' = [kept EXCEPT ![edit.item] = IF edit.on THEN edit.seen.content ELSE 0]
               /\ UNCHANGED faults
      <4>1. edit.on \in BOOLEAN /\ edit.seen.content \in 0..2
        BY <2>2 DEF TypeInv, TypeOK, EditRec, Stored
      <4>2. [edit.seen EXCEPT !.override = edit.on] \in Stored
        BY <2>2, <4>1 DEF Stored
      <4>3. (IF edit.on THEN edit.seen.content ELSE 0) \in 0..2
        BY <4>1
      <4>4. local' \in [Item -> Stored \cup {NoItem}]
        BY <3>1, <4>2 DEF TypeInv, TypeOK
      <4>5. kept' \in [Item -> 0..2]
        BY <3>1, <4>3 DEF TypeInv, TypeOK
      <4> QED BY <3>1, <4>4, <4>5 DEF TypeInv, TypeOK
    <3>2. CASE Fault /\ UNCHANGED <<local, kept>>
      BY <3>2, FaultType DEF TypeInv, TypeOK
    <3> QED
      BY <1>2, <3>1, <3>2 DEF WriteOverride
  <2>4. TypeOK'
    BY <2>1, <2>3, RestType DEF TypeInv, TypeOK
  <2>5. WorkInv'
    BY <2>1, RestType DEF TypeInv, WorkInv
  <2> QED BY <2>4, <2>5 DEF TypeInv
<1> QED
  BY <1>1, <1>2

\* A restart leaves nothing of a sync.
LEMMA RestartType ==
    ASSUME TypeInv, Restart
    PROVE  TypeInv'
<1>1. /\ sync' = [s \in Sync |-> Rest] /\ edit' = NoEdit /\ status' = stored
      /\ UNCHANGED <<offered, local, stored, changes, edits, faults>>
      /\ UNCHANGED <<gone, overlap, kept>>
  BY DEF Restart, Loaded, history
<1>2. restarts' \in 0..MaxRestarts
  BY BoundsType DEF Restart, TypeInv, TypeOK
<1>3. sync' \in [Sync -> SyncRec] /\ edit' \in EditRec
  BY <1>1, RestType
<1>4. TypeOK'
  BY <1>1, <1>2, <1>3 DEF TypeInv, TypeOK
<1>5. WorkInv'
  BY <1>1, RestType DEF WorkInv
<1> QED
  BY <1>4, <1>5 DEF TypeInv

\* Every step keeps the types.
LEMMA TypeStep == TypeInv /\ [Next]_vars => TypeInv'
<1> SUFFICES ASSUME TypeInv, [Next]_vars PROVE TypeInv'
  OBVIOUS
<1>1. CASE Offer \/ Revise \/ IntervalPasses
  BY <1>1, PeerType
<1>2. CASE ReadOverride \/ WriteOverride
  BY <1>2, EditType
<1>3. CASE \E s \in Sync : Begin(s) \/ Advance(s)
  BY <1>3, BeginType, AdvanceType
<1>4. CASE Restart
  BY <1>4, RestartType
<1>5. CASE UNCHANGED vars
  BY <1>5 DEF vars, bounds, history, TypeInv, TypeOK, WorkInv
<1> QED
  BY <1>1, <1>2, <1>3, <1>4, <1>5 DEF Next

\* Whatever the peer, the administrators and failures do, items and syncs keep
\* their types.
THEOREM TypeCorrect == Spec => []TypeOK
<1>1. Init => TypeInv
  BY TypeInit
<1>2. TypeInv /\ [Next]_vars => TypeInv'
  BY TypeStep
<1>3. TypeInv => TypeOK
  BY DEF TypeInv
<1> QED
  BY <1>1, <1>2, <1>3, PTL DEF Spec

-----------------------------------------------------------------------------
(* The generation *)

\* The status in memory is never behind the database.
GenerationInv == status.generation >= stored.generation

\* No step makes the status in memory fall behind, or what is stored go back.
LEMMA GenerationStep ==
    ASSUME TypeInv, GenerationInv, [Next]_vars
    PROVE  GenerationInv' /\ stored'.generation >= stored.generation
<1>0. status \in Status /\ stored \in Status
  BY DEF TypeInv, TypeOK
<1>1. status.generation \in Nat /\ stored.generation \in Nat
  BY <1>0, BoundsType DEF Status
<1>2. CASE UNCHANGED <<status, stored>>
  BY <1>1, <1>2 DEF GenerationInv
<1>3. CASE IntervalPasses
  BY <1>0, <1>1, <1>3 DEF IntervalPasses, GenerationInv, Status
<1>4. CASE Restart
  BY <1>1, <1>4 DEF Restart, Loaded, GenerationInv
<1>5. ASSUME NEW s \in Sync, Begin(s)
      PROVE  GenerationInv' /\ stored'.generation >= stored.generation
  BY <1>0, <1>1, <1>5 DEF Begin, GenerationInv, Status
<1>6. ASSUME NEW s \in Sync, Fetch(s)
      PROVE  GenerationInv' /\ stored'.generation >= stored.generation
  BY <1>1, <1>6 DEF Fetch, GenerationInv
<1>7. ASSUME NEW s \in Sync, Finish(s)
      PROVE  GenerationInv' /\ stored'.generation >= stored.generation
  <2>1. status' = Succeeded(s) /\ (stored' = status' \/ UNCHANGED stored)
    BY <1>7 DEF Finish
  <2>2. status'.generation >= status.generation /\ status'.generation \in Nat
    BY <2>1, SucceededType, BoundsType DEF Status
  <2> QED BY <1>1, <2>1, <2>2 DEF GenerationInv
<1>8. ASSUME NEW s \in Sync, Fail(s)
      PROVE  GenerationInv' /\ stored'.generation >= stored.generation
  <2>1. /\ status' = [status EXCEPT !.progress = FALSE]
        /\ stored' = status' \/ UNCHANGED stored
    BY <1>8 DEF Fail
  <2> QED BY <1>0, <1>1, <2>1 DEF GenerationInv, Status
<1>9. CASE Offer \/ Revise \/ ReadOverride \/ WriteOverride \/ UNCHANGED vars
  BY <1>2, <1>9 DEF Offer, Revise, ReadOverride, WriteOverride, vars
<1>10. ASSUME NEW s \in Sync, Look(s) \/ Put(s) \/ Detect(s) \/ Orphan(s) \/ Flag(s)
       PROVE  GenerationInv' /\ stored'.generation >= stored.generation
  BY <1>2, <1>10 DEF Look, Put, Detect, Orphan, Flag
<1> QED
  BY <1>3, <1>4, <1>5, <1>6, <1>7, <1>8, <1>9, <1>10 DEF Next, Advance

\* Whatever syncs overlap, fail or are cut short, the generation of the peer in
\* the database never goes back.
THEOREM GenerationNeverBack == Spec => GenerationGrows
<1>1. Init => TypeInv /\ GenerationInv
  BY TypeInit, BoundsType DEF Init, GenerationInv, InitialStatus
<1>2. TypeInv /\ GenerationInv /\ [Next]_vars => (TypeInv /\ GenerationInv)'
  BY TypeStep, GenerationStep
<1>3. TypeInv /\ GenerationInv /\ [Next]_vars => [stored'.generation >= stored.generation]_stored
  BY GenerationStep
<1> QED
  BY <1>1, <1>2, <1>3, PTL DEF Spec, GenerationGrows

-----------------------------------------------------------------------------
(* Orphans and overrides *)

\* One actor at a time.
Alone ==
    /\ \A s, o \in Sync : Busy(s) /\ Busy(o) => s = o
    /\ edit.pc = "write" => \A s \in Sync : ~Busy(s)

\* What a sync that has the items to itself knows of them.
Honest(x, items, left) ==
    /\ x.pc \in {"put", "flag"} => x.seen = items[x.item]
    /\ x.pc = "put" => ~Overridden(x.seen)
    /\ x.pc \in {"store", "put"} =>
           \A i \in Item : items[i] # NoItem /\ x.fetched[i] = 0 => left[i]
    /\ x.pc \in {"orphan", "flag"} => \A i \in x.todo : left[i]

ItemsInv == \A i \in Item :
    /\ local[i] # NoItem /\ (offered[i] = 0 \/ local[i].orphan) => gone[i]
    /\ kept[i] # 0 => local[i] # NoItem /\ local[i].override /\ local[i].content = kept[i]

SafeInv ==
    ~overlap => /\ Alone
                /\ \A s \in Sync : Honest(sync[s], local, gone)
                /\ edit.pc = "write" => edit.seen = local[edit.item]
                /\ ItemsInv

\* A peer just added has nothing stored here.
LEMMA SafeInit == Init => SafeInv
<1> SUFFICES ASSUME Init PROVE SafeInv
  OBVIOUS
<1>1. \A s \in Sync : sync[s] = Rest
  BY DEF Init
<1>2. Alone
  BY <1>1, RestType DEF Init, Alone, Busy
<1>3. \A s \in Sync : Honest(sync[s], local, gone)
  BY <1>1, RestType DEF Honest
<1>4. ItemsInv
  BY DEF Init, ItemsInv
<1> QED
  BY <1>2, <1>3, <1>4, RestType DEF Init, SafeInv

\* While a sync has the items to itself nobody else is at work.
LEMMA OthersRest ==
    ASSUME TypeInv, SafeInv, ~overlap, NEW s \in Sync, Busy(s)
    PROVE  edit.pc = "idle" /\ \A o \in Sync \ {s} : sync[o].pc = "idle"
BY DEF TypeInv, TypeOK, EditRec, SafeInv, Alone, Busy

\* So a step of a sync need only be right about that sync and the items.
LEMMA StepAlone ==
    ASSUME TypeInv, SafeInv, ~overlap, NEW s \in Sync, Busy(s),
           NEW x \in SyncRec, sync' = [sync EXCEPT ![s] = x],
           UNCHANGED edit, UNCHANGED overlap, Honest(x, local', gone'), ItemsInv'
    PROVE  SafeInv'
<1>1. /\ edit'.pc = "idle" /\ sync'[s] = x
      /\ \A o \in Sync \ {s} : sync'[o].pc = "idle"
  BY OthersRest DEF TypeInv, TypeOK
<1>2. Alone'
  BY <1>1 DEF Alone, Busy
<1>3. \A o \in Sync : Honest(sync[o], local, gone)'
  <2> SUFFICES ASSUME NEW o \in Sync PROVE Honest(sync[o], local, gone)'
    OBVIOUS
  <2>1. CASE o = s
    BY <1>1, <2>1 DEF Honest
  <2>2. CASE o # s
    BY <1>1, <2>2 DEF Honest
  <2> QED BY <2>1, <2>2
<1> QED
  BY <1>1, <1>2, <1>3 DEF SafeInv

\* A sync that ends or fails, and leaves the items alone, needs to know nothing.
LEMMA StopAlone ==
    ASSUME TypeInv, SafeInv, ~overlap, NEW s \in Sync, Busy(s),
           End(s) \/ Move(s, "fail"), UNCHANGED <<offered, edit>>,
           UNCHANGED <<local, gone, kept>>, UNCHANGED overlap
    PROVE  SafeInv'
<1>1. sync[s] \in SyncRec
  BY DEF TypeInv, TypeOK
<1>2. PICK x \in SyncRec : x.pc \in {"idle", "fail"} /\ sync' = [sync EXCEPT ![s] = x]
  <2>1. CASE End(s)
    BY <2>1, RestType DEF End
  <2>2. CASE Move(s, "fail")
    <3>1. [sync[s] EXCEPT !.pc = "fail"] \in SyncRec
      BY <1>1 DEF SyncRec, SyncPc
    <3>2. [sync[s] EXCEPT !.pc = "fail"].pc = "fail"
      BY <1>1 DEF SyncRec
    <3> QED BY <2>2, <3>1, <3>2 DEF Move
  <2> QED BY <2>1, <2>2
<1>3. Honest(x, local', gone') /\ ItemsInv'
  BY <1>2 DEF Honest, ItemsInv, SafeInv
<1> QED
  BY <1>2, <1>3, StepAlone

\* Beginning a sync beside nobody.
LEMMA BeginSafe ==
    ASSUME TypeInv, SafeInv, NEW s \in Sync, Begin(s)
    PROVE  SafeInv'
<1> DEFINE x == [Rest EXCEPT !.pc = "fetch", !.since = status.generation]
<1> SUFFICES ASSUME ~overlap' PROVE SafeInv'
  BY DEF SafeInv
<1>1. x \in SyncRec /\ x.pc = "fetch"
  BY RestType DEF SyncRec, SyncPc, TypeInv, TypeOK, Status
<1>2. /\ ~overlap /\ edit.pc = "idle" /\ \A o \in Sync \ {s} : ~Busy(o)
      /\ sync' = [sync EXCEPT ![s] = x]
      /\ UNCHANGED <<offered, local, edit, gone, kept>>
  BY DEF Begin
<1> HIDE DEF x
<1>3. sync'[s] = x /\ \A o \in Sync \ {s} : sync'[o].pc = "idle"
  BY <1>1, <1>2 DEF TypeInv, TypeOK, Busy
<1>4. Alone'
  BY <1>2, <1>3 DEF Alone, Busy
<1>5. \A o \in Sync : Honest(sync[o], local, gone)'
  <2> SUFFICES ASSUME NEW o \in Sync PROVE Honest(sync[o], local, gone)'
    OBVIOUS
  <2>1. sync'[o].pc \in {"fetch", "idle"}
    BY <1>1, <1>3
  <2> QED BY <2>1 DEF Honest
<1>6. ItemsInv'
  BY <1>2 DEF SafeInv, ItemsInv
<1> QED
  BY <1>2, <1>4, <1>5, <1>6 DEF SafeInv

\* What the fetch lacks the peer does not offer: it is gone.
LEMMA FetchSafe ==
    ASSUME TypeInv, SafeInv, ~overlap, NEW s \in Sync, Fetch(s)
    PROVE  SafeInv'
<1> DEFINE x == [sync[s] EXCEPT !.pc = "store", !.fetched = offered,
                                !.todo = {i \in Item : offered[i] # 0}]
<1>1. sync[s] \in SyncRec /\ offered \in [Item -> 0..2]
  BY DEF TypeInv, TypeOK
<1>2. x \in SyncRec /\ x.pc = "store" /\ x.fetched = offered
  BY <1>1 DEF SyncRec, SyncPc
<1>3. /\ Busy(s) /\ UNCHANGED <<offered, edit>> /\ UNCHANGED <<local, gone, kept>>
      /\ UNCHANGED overlap
  BY DEF Fetch, Aside, ItemsKept, Busy
<1>4. CASE sync' = [sync EXCEPT ![s] = x]
  <2> HIDE DEF x
  <2>1. ItemsInv'
    BY <1>3 DEF SafeInv, ItemsInv
  <2>2. Honest(x, local', gone')
    BY <1>2, <1>3 DEF Honest, SafeInv, ItemsInv
  <2> QED BY <1>2, <1>3, <1>4, <2>1, <2>2, StepAlone
<1>5. CASE FetchFailed(s) \/ End(s)
  BY <1>3, <1>5, StopAlone DEF FetchFailed
<1> QED
  BY <1>4, <1>5 DEF Fetch

\* An item is stored only if no override was read, and nobody writes meanwhile.
LEMMA LookSafe ==
    ASSUME TypeInv, SafeInv, ~overlap, NEW s \in Sync, Look(s)
    PROVE  SafeInv'
<1>1. sync[s] \in SyncRec /\ sync[s].pc = "store" /\ Honest(sync[s], local, gone)
  BY DEF TypeInv, TypeOK, Look, SafeInv
<1>2. PICK i \in sync[s].todo :
         sync' = [sync EXCEPT ![s] =
              IF Overridden(local[i]) THEN [sync[s] EXCEPT !.todo = sync[s].todo \ {i}]
              ELSE [sync[s] EXCEPT !.pc = "put", !.item = i, !.seen = local[i]]]
  BY DEF Look
<1> DEFINE x == [sync[s] EXCEPT !.todo = sync[s].todo \ {i}]
           y == [sync[s] EXCEPT !.pc = "put", !.item = i, !.seen = local[i]]
<1>3. i \in Item /\ local[i] \in Stored \cup {NoItem}
  BY <1>1 DEF SyncRec, TypeInv, TypeOK
<1>4. x \in SyncRec /\ x.pc = "store" /\ x.fetched = sync[s].fetched
  BY <1>1 DEF SyncRec, SyncPc
<1>5. /\ y \in SyncRec /\ y.pc = "put" /\ y.fetched = sync[s].fetched
      /\ y.item = i /\ y.seen = local[i]
  BY <1>1, <1>3 DEF SyncRec, SyncPc
<1>6. /\ Busy(s) /\ UNCHANGED <<offered, edit>> /\ UNCHANGED <<local, gone, kept>>
      /\ UNCHANGED overlap
  BY DEF Look, Aside, ItemsKept, Busy
<1>7. \/ sync' = [sync EXCEPT ![s] = x]
      \/ sync' = [sync EXCEPT ![s] = y] /\ ~Overridden(local[i])
  BY <1>2
<1> HIDE DEF x, y
<1>8. ItemsInv'
  BY <1>6 DEF SafeInv, ItemsInv
<1>9. CASE sync' = [sync EXCEPT ![s] = x]
  <2>1. Honest(x, local', gone')
    BY <1>1, <1>4, <1>6 DEF Honest
  <2> QED BY <1>4, <1>6, <1>8, <1>9, <2>1, StepAlone
<1>10. CASE sync' = [sync EXCEPT ![s] = y] /\ ~Overridden(local[i])
  <2>1. Honest(y, local', gone')
    BY <1>1, <1>5, <1>6, <1>10 DEF Honest, Overridden
  <2> QED BY <1>5, <1>6, <1>8, <1>10, <2>1, StepAlone
<1> QED
  BY <1>7, <1>9, <1>10

\* What is stored is neither overridden nor an orphan.
LEMMA PutSafe ==
    ASSUME TypeInv, SafeInv, ~overlap, NEW s \in Sync, Put(s)
    PROVE  SafeInv'
<1> DEFINE i == sync[s].item
           new == Synced(sync[s].fetched[i], local[i])
<1>1. /\ sync[s] \in SyncRec /\ sync[s].pc = "put"
      /\ Honest(sync[s], local, gone) /\ Sound(sync[s]) /\ ItemsInv
  BY DEF TypeInv, TypeOK, WorkInv, Put, SafeInv
<1>2. i \in Item /\ sync[s].fetched[i] # 0 /\ ~Overridden(local[i])
  BY <1>1 DEF SyncRec, Sound, Honest
<1>3. Busy(s) /\ UNCHANGED <<offered, edit>> /\ UNCHANGED <<overlap, kept>>
  BY DEF Put, Aside, ItemsKept, Busy
<1>4. PICK stores \in BOOLEAN : Following(s, "store", stores)
  BY DEF Put
<1> DEFINE x == [sync[s] EXCEPT !.pc = "store", !.todo = sync[s].todo \ {i}, !.item = Some,
                                !.seen = NoItem, !.done = sync[s].done \/ stores]
<1>5. x \in SyncRec /\ x.pc = "store" /\ x.fetched = sync[s].fetched
  BY <1>1, RestType DEF SyncRec, SyncPc
<1>6. sync' = [sync EXCEPT ![s] = x]
  BY <1>4 DEF Following
<1> HIDE DEF x
<1>7. Honest(x, local', gone') /\ ItemsInv'
  <2>1. CASE UNCHANGED <<local, gone, kept>>
    <3>1. ItemsInv'
      BY <1>1, <1>3, <2>1 DEF ItemsInv
    <3>2. Honest(x, local', gone')
      BY <1>1, <1>5, <2>1 DEF Honest
    <3> QED BY <3>1, <3>2
  <2>2. CASE /\ local' = [local EXCEPT ![i] = new]
             /\ gone' = [gone EXCEPT ![i] = offered[i] = 0]
    <3>1. /\ local'[i] = new /\ (gone'[i] <=> offered[i] = 0)
          /\ \A j \in Item \ {i} : local'[j] = local[j] /\ gone'[j] = gone[j]
      BY <1>2, <2>2 DEF TypeInv, TypeOK
    <3>2. ~new.orphan
      BY DEF Synced
    <3>3. kept[i] = 0
      BY <1>1, <1>2 DEF ItemsInv, Overridden
    <3> HIDE DEF new
    <3>4. ItemsInv'
      BY <1>1, <1>2, <1>3, <3>1, <3>2, <3>3 DEF ItemsInv
    <3>5. \A j \in Item : local'[j] # NoItem /\ x.fetched[j] = 0 => gone'[j]
      BY <1>1, <1>2, <1>5, <3>1 DEF Honest
    <3>6. Honest(x, local', gone')
      BY <1>5, <3>5 DEF Honest
    <3> QED BY <3>4, <3>6
  <2> QED
    BY <2>1, <2>2 DEF Put, ItemsKept
<1> QED
  BY <1>3, <1>5, <1>6, <1>7, StepAlone

\* What is to be marked was not in the fetch: it is gone.
LEMMA DetectSafe ==
    ASSUME TypeInv, SafeInv, ~overlap, NEW s \in Sync, Detect(s)
    PROVE  SafeInv'
<1>1. sync[s] \in SyncRec /\ Honest(sync[s], local, gone) /\ sync[s].pc = "store"
  BY DEF TypeInv, TypeOK, SafeInv, Detect
<1>2. PICK items \in SUBSET Item :
         /\ ToMark(s, items)
         /\ items = {} \/ items = {i \in Item : local[i] # NoItem /\ sync[s].fetched[i] = 0}
  BY DEF Detect
<1> DEFINE x == [sync[s] EXCEPT !.pc = "orphan", !.todo = items, !.fetched = Rest.fetched]
<1>3. Rest.fetched \in [Item -> 0..2]
  BY DEF Rest
<1>4. x \in SyncRec /\ x.pc = "orphan" /\ x.todo = items
  BY <1>1, <1>3 DEF SyncRec, SyncPc
<1>5. sync' = [sync EXCEPT ![s] = x]
  BY <1>2 DEF ToMark
<1>6. /\ Busy(s) /\ UNCHANGED <<offered, edit>> /\ UNCHANGED <<local, gone, kept>>
      /\ UNCHANGED overlap
  BY DEF Detect, Aside, ItemsKept, Busy
<1> HIDE DEF x
<1>7. \A i \in items : gone[i]
  BY <1>1, <1>2 DEF Honest
<1>8. Honest(x, local', gone')
  BY <1>4, <1>6, <1>7 DEF Honest
<1>9. ItemsInv'
  BY <1>6 DEF SafeInv, ItemsInv
<1> QED
  BY <1>4, <1>5, <1>6, <1>8, <1>9, StepAlone

\* The item to be marked is read as it is.
LEMMA OrphanSafe ==
    ASSUME TypeInv, SafeInv, ~overlap, NEW s \in Sync, Orphan(s)
    PROVE  SafeInv'
<1>1. sync[s] \in SyncRec /\ Honest(sync[s], local, gone) /\ sync[s].pc = "orphan"
  BY DEF TypeInv, TypeOK, SafeInv, Orphan
<1>2. PICK i \in sync[s].todo :
         sync' = [sync EXCEPT ![s] = [sync[s] EXCEPT !.pc = "flag", !.item = i, !.seen = local[i]]]
  BY DEF Orphan
<1> DEFINE x == [sync[s] EXCEPT !.pc = "flag", !.item = i, !.seen = local[i]]
<1>3. i \in Item /\ local[i] \in Stored \cup {NoItem}
  BY <1>1 DEF SyncRec, TypeInv, TypeOK
<1>4. x \in SyncRec /\ x.pc = "flag" /\ x.item = i /\ x.seen = local[i] /\ x.todo = sync[s].todo
  BY <1>1, <1>3 DEF SyncRec, SyncPc
<1>5. sync' = [sync EXCEPT ![s] = x]
  BY <1>2
<1>6. /\ Busy(s) /\ UNCHANGED <<offered, edit>> /\ UNCHANGED <<local, gone, kept>>
      /\ UNCHANGED overlap
  BY DEF Orphan, Aside, ItemsKept, Busy
<1> HIDE DEF x
<1>7. Honest(x, local', gone')
  BY <1>1, <1>4, <1>6 DEF Honest
<1>8. ItemsInv'
  BY <1>6 DEF SafeInv, ItemsInv
<1> QED
  BY <1>4, <1>5, <1>6, <1>7, <1>8, StepAlone

\* The item is written back as it is, with the mark it deserves.
LEMMA FlagSafe ==
    ASSUME TypeInv, SafeInv, ~overlap, NEW s \in Sync, Flag(s)
    PROVE  SafeInv'
<1> DEFINE i == sync[s].item
           new == [local[i] EXCEPT !.orphan = TRUE]
           x == [sync[s] EXCEPT !.pc = "orphan", !.todo = sync[s].todo \ {i}, !.item = Some,
                                !.seen = NoItem, !.done = sync[s].done \/ FALSE]
<1>1. /\ sync[s] \in SyncRec /\ sync[s].pc = "flag" /\ ItemsInv
      /\ Honest(sync[s], local, gone) /\ Sound(sync[s])
  BY DEF TypeInv, TypeOK, WorkInv, Flag, SafeInv
<1>2. i \in Item /\ sync[s].seen = local[i] /\ gone[i]
  BY <1>1 DEF SyncRec, Sound, Honest
<1>3. Busy(s) /\ UNCHANGED <<offered, edit>> /\ UNCHANGED <<overlap, gone, kept>>
  BY DEF Flag, Aside, Busy
<1>4. x \in SyncRec /\ x.pc = "orphan" /\ x.todo = sync[s].todo \ {i}
  BY <1>1, RestType DEF SyncRec, SyncPc
<1>5. sync' = [sync EXCEPT ![s] = x]
  BY DEF Flag, Following
<1> HIDE DEF x
<1>6. Honest(x, local', gone')
  BY <1>1, <1>3, <1>4 DEF Honest
<1>7. ItemsInv'
  <2>1. CASE local[i] # NoItem /\ local' = [local EXCEPT ![i] = new]
    <3>1. local'[i] = new /\ \A j \in Item \ {i} : local'[j] = local[j]
      BY <1>2, <2>1 DEF TypeInv, TypeOK
    <3>2. local[i] \in Stored
      BY <1>2, <2>1 DEF TypeInv, TypeOK
    <3>3. /\ new \in Stored /\ new # NoItem
          /\ new.override = local[i].override /\ new.content = local[i].content
      BY <3>2, PeerSyncConstants DEF Stored
    <3> HIDE DEF new
    <3> QED BY <1>1, <1>2, <1>3, <3>1, <3>3 DEF ItemsInv
  <2>2. CASE UNCHANGED local
    BY <1>1, <1>3, <2>2 DEF ItemsInv
  <2> QED
    BY <1>2, <2>1, <2>2 DEF Flag
<1> QED
  BY <1>3, <1>4, <1>5, <1>6, <1>7, StepAlone

\* A sync that ends leaves the items alone.
LEMMA EndSafe ==
    ASSUME TypeInv, SafeInv, ~overlap, NEW s \in Sync, Finish(s) \/ Fail(s)
    PROVE  SafeInv'
<1>1. /\ Busy(s) /\ UNCHANGED <<offered, edit>> /\ UNCHANGED <<local, gone, kept>>
      /\ UNCHANGED overlap /\ (End(s) \/ Move(s, "fail"))
  BY DEF Finish, Fail, Aside, ItemsKept, Busy
<1> QED
  BY <1>1, StopAlone

\* A step of a sync.
LEMMA AdvanceSafe ==
    ASSUME TypeInv, SafeInv, NEW s \in Sync, Advance(s)
    PROVE  SafeInv'
<1>1. UNCHANGED overlap
  BY DEF Advance, Fetch, Look, Put, Detect, Orphan, Flag, Finish, Fail
<1>2. CASE overlap
  BY <1>1, <1>2 DEF SafeInv
<1>3. CASE ~overlap
  BY <1>3, FetchSafe, LookSafe, PutSafe, DetectSafe, OrphanSafe, FlagSafe, EndSafe DEF Advance
<1> QED
  BY <1>2, <1>3

\* What the peer stops exporting is gone, and what it knows of that stays true.
LEMMA PeerSafe ==
    ASSUME TypeInv, SafeInv, Offer \/ Revise \/ IntervalPasses
    PROVE  SafeInv'
<1>1. UNCHANGED <<local, sync, edit, overlap, kept>>
  BY DEF Offer, Revise, IntervalPasses, history
<1> SUFFICES ASSUME ~overlap, SafeInv PROVE SafeInv'
  BY <1>1 DEF SafeInv
<1>2. \A i \in Item : /\ gone[i] => gone'[i]
                      /\ offered'[i] = 0 => offered[i] = 0 \/ gone'[i]
  <2>1. CASE Offer
    <3>1. PICK i \in Item : /\ offered' = [offered EXCEPT ![i] = IF offered[i] = 0 THEN 1 ELSE 0]
                            /\ gone' = [gone EXCEPT ![i] = gone[i] \/ offered[i] # 0]
      BY <2>1 DEF Offer
    <3> QED BY <3>1 DEF TypeInv, TypeOK
  <2>2. CASE Revise
    <3>1. PICK i \in Item : offered[i] # 0 /\ offered' = [offered EXCEPT ![i] = 3 - offered[i]]
      BY <2>2 DEF Revise
    <3>2. gone' = gone
      BY <2>2 DEF Revise, history
    <3>3. \A j \in Item : offered'[j] = 0 => offered[j] = 0
      BY <3>1 DEF TypeInv, TypeOK
    <3> QED BY <3>2, <3>3
  <2>3. CASE IntervalPasses
    BY <2>3 DEF IntervalPasses, history
  <2> QED BY <2>1, <2>2, <2>3
<1>3. ItemsInv'
  BY <1>1, <1>2 DEF SafeInv, ItemsInv
<1>4. \A s \in Sync : Honest(sync[s], local, gone)'
  <2> SUFFICES ASSUME NEW s \in Sync PROVE Honest(sync[s], local, gone)'
    OBVIOUS
  <2>1. sync[s] \in SyncRec /\ Honest(sync[s], local, gone)
    BY DEF TypeInv, TypeOK, SafeInv
  <2>2. sync[s].todo \subseteq Item
    BY <2>1 DEF SyncRec
  <2> QED BY <1>1, <1>2, <2>1, <2>2 DEF Honest
<1>5. Alone'
  BY <1>1 DEF SafeInv, Alone, Busy
<1> QED
  BY <1>1, <1>3, <1>4, <1>5 DEF SafeInv

\* An override is written to the item as it was read, while no sync is at work.
LEMMA EditSafe ==
    ASSUME TypeInv, SafeInv, ReadOverride \/ WriteOverride
    PROVE  SafeInv'
<1> SUFFICES ASSUME ~overlap' PROVE SafeInv'
  BY DEF SafeInv
<1>1. CASE ReadOverride
  <2>1. /\ ~overlap /\ \A s \in Sync : ~Busy(s)
        /\ UNCHANGED <<offered, local, sync, gone, kept>>
    BY <1>1 DEF ReadOverride
  <2>2. edit'.seen = local'[edit'.item]
    BY <1>1 DEF ReadOverride
  <2>3. Alone'
    BY <2>1 DEF Alone, Busy
  <2>4. (\A s \in Sync : Honest(sync[s], local, gone))' /\ ItemsInv'
    BY <2>1 DEF SafeInv, Honest, ItemsInv
  <2> QED BY <2>2, <2>3, <2>4 DEF SafeInv
<1>2. CASE WriteOverride
  <2>1. /\ ~overlap /\ edit.pc = "write" /\ edit' = NoEdit
        /\ UNCHANGED <<offered, sync, gone, overlap>>
    BY <1>2 DEF WriteOverride
  <2>2. \A s \in Sync : sync[s].pc = "idle"
    BY <2>1 DEF SafeInv, Alone, Busy
  <2>3. Alone'
    BY <2>1, <2>2 DEF Alone, Busy
  <2>4. \A s \in Sync : Honest(sync[s], local, gone)'
    BY <2>1, <2>2 DEF Honest
  <2>5. ItemsInv'
    <3> DEFINE i == edit.item
               new == [local[i] EXCEPT !.override = edit.on]
    <3>1. /\ i \in Item /\ local[i] = edit.seen /\ local[i] \in Stored /\ edit.on \in BOOLEAN
      BY <2>1 DEF TypeInv, TypeOK, WorkInv, EditRec, SafeInv
    <3>2. CASE /\ local' = [local EXCEPT ![i] = new]
               /\ kept' = [kept EXCEPT ![i] = IF edit.on THEN local[i].content ELSE 0]
      <4>1. /\ local'[i] = new /\ \A j \in Item \ {i} : local'[j] = local[j] /\ kept'[j] = kept[j]
            /\ kept'[i] # 0 => edit.on /\ kept'[i] = local[i].content
        BY <3>1, <3>2 DEF TypeInv, TypeOK
      <4>2. /\ new \in Stored /\ new # NoItem /\ new.override = edit.on
            /\ new.content = local[i].content /\ new.orphan = local[i].orphan
        BY <3>1, PeerSyncConstants DEF Stored
      <4>3. local[i] # NoItem
        BY <3>1, PeerSyncConstants
      <4> HIDE DEF new
      <4> QED BY <2>1, <3>1, <4>1, <4>2, <4>3 DEF SafeInv, ItemsInv
    <3>3. CASE UNCHANGED <<local, kept>>
      BY <2>1, <3>3 DEF SafeInv, ItemsInv
    <3> QED
      BY <1>2, <3>1, <3>2, <3>3 DEF WriteOverride
  <2> QED BY <2>1, <2>3, <2>4, <2>5, RestType DEF SafeInv
<1> QED
  BY <1>1, <1>2

\* A restart leaves the items as they are, and nobody at work.
LEMMA RestartSafe ==
    ASSUME TypeInv, SafeInv, Restart
    PROVE  SafeInv'
<1>1. /\ \A s \in Sync : sync'[s].pc = "idle"
      /\ edit'.pc = "idle" /\ UNCHANGED <<offered, local>>
      /\ UNCHANGED <<gone, overlap, kept>>
  BY RestType DEF Restart, history
<1>2. Alone'
  BY <1>1 DEF Alone, Busy
<1>3. \A s \in Sync : Honest(sync[s], local, gone)'
  BY <1>1 DEF Honest
<1>4. ~overlap => ItemsInv'
  BY <1>1 DEF SafeInv, ItemsInv
<1> QED
  BY <1>1, <1>2, <1>3, <1>4 DEF SafeInv

\* Every step keeps what the actors know of the items true.
LEMMA SafeStep == TypeInv /\ SafeInv /\ [Next]_vars => SafeInv'
<1> SUFFICES ASSUME TypeInv, SafeInv, [Next]_vars PROVE SafeInv'
  OBVIOUS
<1>1. CASE Offer \/ Revise \/ IntervalPasses
  BY <1>1, PeerSafe
<1>2. CASE ReadOverride \/ WriteOverride
  BY <1>2, EditSafe
<1>3. CASE \E s \in Sync : Begin(s) \/ Advance(s)
  BY <1>3, BeginSafe, AdvanceSafe
<1>4. CASE Restart
  BY <1>4, RestartSafe
<1>5. CASE UNCHANGED vars
  BY <1>5 DEF vars, history, SafeInv, Alone, Busy, Honest, ItemsInv
<1> QED
  BY <1>1, <1>2, <1>3, <1>4, <1>5 DEF Next

\* An item is marked as orphaned only if the peer has stopped exporting it since
\* it was stored, whatever fails and however often the process is restarted, as
\* long as syncs do not overlap.
THEOREM OnlyTheGoneAreOrphans == Spec => []OrphanWasGone
<1>1. Init => TypeInv /\ SafeInv
  BY TypeInit, SafeInit
<1>2. TypeInv /\ SafeInv /\ [Next]_vars => (TypeInv /\ SafeInv)'
  BY TypeStep, SafeStep
<1>3. SafeInv => OrphanWasGone
  BY DEF SafeInv, ItemsInv, OrphanWasGone
<1> QED
  BY <1>1, <1>2, <1>3, PTL DEF Spec

\* A local override keeps an item as it was through any number of syncs, as long
\* as it is not set while one is under way.
THEOREM OverridesStand == Spec => []OverrideHolds
<1>1. Init => TypeInv /\ SafeInv
  BY TypeInit, SafeInit
<1>2. TypeInv /\ SafeInv /\ [Next]_vars => (TypeInv /\ SafeInv)'
  BY TypeStep, SafeStep
<1>3. SafeInv => OverrideHolds
  BY DEF SafeInv, ItemsInv, OverrideHolds
<1> QED
  BY <1>1, <1>2, <1>3, PTL DEF Spec
=============================================================================
