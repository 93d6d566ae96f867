------------------------------ MODULE PeerSync ------------------------------
(***************************************************************************)
(* Importing what a peer registry exports: the scheduler and requests of   *)
(* administrators sync one peer, item by item, and mark as orphaned what   *)
(* the peer no longer exports.                                             *)
(*                                                                         *)
(*   registry/services/peer_federation_service.py                          *)
(*   registry/services/peer_sync_scheduler.py                              *)
(*   registry/services/federation/peer_registry_client.py                  *)
(*   registry/repositories/documentdb/peer_federation_repository.py        *)
(*                                                                         *)
(* One process, which may be restarted; the fetch blocks its event loop.   *)
(* An item stands for a server or an agent, stored alike under the prefix  *)
(* of the peer. What the peer offers is what it exports to this registry:  *)
(* enabled and visible items of its own, which it sends whatever           *)
(* generation is asked for. The peer is enabled, with an interval.         *)
(***************************************************************************)
EXTENDS Naturals

CONSTANTS
    Item,       \* what the peer may offer
    Manual,     \* syncs an administrator asks for
    NoItem,     \* nothing stored
    MaxChanges, \* bound: changes of what the peer offers
    MaxEdits,   \* bound: local overrides set or cleared
    MaxFaults,  \* bound: failed calls
    MaxGeneration, \* bound: the generation counts no further
    MaxRestarts \* bound: restarts of the process

Stored == [content : 1..2, override : BOOLEAN, orphan : BOOLEAN]

ASSUME PeerSyncConstants ==
    /\ Item # {} /\ NoItem \notin Stored
    /\ "scheduler" \notin Manual
    /\ {MaxChanges, MaxEdits, MaxFaults, MaxGeneration, MaxRestarts} \subseteq Nat

Sync == Manual \cup {"scheduler"}

VARIABLES
    offered,    \* [Item -> which of two contents the peer exports, or 0]
    local,      \* [Item -> what is stored here]
    status,     \* the sync status of the peer in memory, one object for all syncs
    stored,     \* the sync status in the database
    sync,       \* [Sync -> the sync]
    edit,       \* the handler that sets or clears a local override
    changes, edits, faults, restarts,
    gone,       \* history: [Item -> not offered at some time since it was stored]
    overlap,    \* history: two syncs have overlapped, or a sync and an edit
    kept        \* history: [Item -> the content an override keeps, or 0]

bounds == <<changes, edits, faults, restarts>>
history == <<gone, overlap, kept>>
vars == <<offered, local, status, stored, sync, edit, bounds, history>>

-----------------------------------------------------------------------------

\* ok: the last successful sync is younger than the interval.
Status == [progress : BOOLEAN, generation : 0..MaxGeneration, ok : BOOLEAN]
InitialStatus == [progress |-> FALSE, generation |-> 0, ok |-> FALSE]

SyncPc == {"idle", "fetch", "store", "put", "orphan", "flag", "fail"}
\* since: the generation it asked for. done: it has stored an item. todo: the items
\* still to be stored or marked. item, seen: the one at hand, as it was read.
SyncRec == [pc : SyncPc, since : 0..MaxGeneration, fetched : [Item -> 0..2],
            todo : SUBSET Item, item : Item, seen : Stored \cup {NoItem}, done : BOOLEAN]
EditRec == [pc : {"idle", "write"}, item : Item, on : BOOLEAN, seen : Stored \cup {NoItem}]

Some == CHOOSE i \in Item : TRUE
Rest == [pc |-> "idle", since |-> 0, fetched |-> [i \in Item |-> 0], todo |-> {},
         item |-> Some, seen |-> NoItem, done |-> FALSE]
NoEdit == [pc |-> "idle", item |-> Some, on |-> FALSE, seen |-> NoItem]

Busy(s) == sync[s].pc # "idle"
Move(s, pc) == sync' = [sync EXCEPT ![s].pc = pc]
End(s) == sync' = [sync EXCEPT ![s] = Rest]
Fault == faults < MaxFaults /\ faults' = faults + 1

\* What stays when a step is one of a sync, and which of the items' state.
Aside == UNCHANGED <<offered, edit, changes, edits, restarts>>
ItemsKept == UNCHANGED <<local, gone, kept>>

-----------------------------------------------------------------------------
(* The peer *)

Offer == /\ changes < MaxChanges
         /\ changes' = changes + 1
         /\ \E i \in Item :
               /\ offered' = [offered EXCEPT ![i] = IF @ = 0 THEN 1 ELSE 0]
               /\ gone' = [gone EXCEPT ![i] = @ \/ offered[i] # 0]
         /\ UNCHANGED <<local, status, stored, sync, edit, edits, faults, restarts, overlap, kept>>

Revise == /\ changes < MaxChanges
          /\ changes' = changes + 1
          /\ \E i \in Item : /\ offered[i] # 0
                             /\ offered' = [offered EXCEPT ![i] = 3 - @]
          /\ UNCHANGED <<local, status, stored, sync, edit, edits, faults, restarts, history>>

\* The time since the last successful sync reaches the interval.
IntervalPasses ==
    /\ status.ok \/ stored.ok
    /\ status' = [status EXCEPT !.ok = FALSE] /\ stored' = [stored EXCEPT !.ok = FALSE]
    /\ UNCHANGED <<offered, local, sync, edit, bounds, history>>

-----------------------------------------------------------------------------
(* A sync begins *)

\* _should_sync_peer, on the status in the database.
ShouldSync == ~stored.progress /\ ~stored.ok

Begin(s) ==
    /\ ~Busy(s)
    /\ s = "scheduler" => ShouldSync
    /\ sync' = [sync EXCEPT ![s] = [Rest EXCEPT !.pc = "fetch", !.since = status.generation]]
    /\ status' = [status EXCEPT !.progress = TRUE]
    /\ overlap' = (overlap \/ edit.pc # "idle" \/ \E o \in Sync \ {s} : Busy(o))
    /\ UNCHANGED <<offered, local, stored, edit, bounds, gone, kept>>

\* Mutant: a fetch that failed is taken for one of nothing.
FetchFailed_Empty(s) == Move(s, "store")
FetchFailed(s) == Move(s, "fail")

\* The status is stored as it is in memory, and the event loop is not given up
\* until the peer has answered. If the status cannot be stored nothing follows.
Fetch(s) ==
    /\ sync[s].pc = "fetch"
    /\ \/ /\ stored' = status /\ UNCHANGED faults
          /\ sync' = [sync EXCEPT ![s] = [@ EXCEPT !.pc = "store", !.fetched = offered,
                                                   !.todo = {i \in Item : offered[i] # 0}]]
       \/ Fault /\ stored' = status /\ FetchFailed(s)
       \/ Fault /\ UNCHANGED stored /\ End(s)
    /\ Aside /\ ItemsKept /\ UNCHANGED <<status, overlap>>

-----------------------------------------------------------------------------
(* Storing what was fetched, one item after the other, in any order *)

\* Mutant: the override of a stored item is not looked at.
Overridden_Never(item) == FALSE
\* is_locally_overridden
Overridden(item) == item # NoItem /\ item.override

\* An item is read; one with a local override is left alone.
Look(s) ==
    /\ sync[s].pc = "store"
    /\ \E i \in sync[s].todo :
          sync' = [sync EXCEPT ![s] =
              IF Overridden(local[i]) THEN [@ EXCEPT !.todo = sync[s].todo \ {i}]
              ELSE [@ EXCEPT !.pc = "put", !.item = i, !.seen = local[i]]]
    /\ Aside /\ ItemsKept /\ UNCHANGED <<status, stored, faults, overlap>>

\* The item at hand is done with.
Following(s, pc, stores) ==
    sync' = [sync EXCEPT ![s] =
        [@ EXCEPT !.pc = pc, !.todo = sync[s].todo \ {sync[s].item}, !.item = Some,
                  !.seen = NoItem, !.done = sync[s].done \/ stores]]

\* Mutant: the new metadata is laid over that of the stored item.
Synced_KeepsMark(content, item) ==
    [content |-> content, override |-> FALSE, orphan |-> item # NoItem /\ item.orphan]
\* Mutant: an update carries the metadata and not the item.
Synced_MetadataOnly(content, item) == [content |-> 0, override |-> FALSE, orphan |-> FALSE]
\* The sync metadata is written anew: no override, not an orphan.
Synced(content, item) == [content |-> content, override |-> FALSE, orphan |-> FALSE]

\* An update finds the item or fails, a registration finds the path free or
\* fails; in either case the next item follows.
Put(s) ==
    LET i == sync[s].item
        lands == (sync[s].seen = NoItem) = (local[i] = NoItem)
    IN
    /\ sync[s].pc = "put"
    /\ \/ /\ lands
          /\ local' = [local EXCEPT ![i] = Synced(sync[s].fetched[i], @)]
          /\ gone' = [gone EXCEPT ![i] = offered[i] = 0]
          /\ Following(s, "store", TRUE) /\ UNCHANGED <<kept, faults>>
       \/ ~lands /\ Following(s, "store", FALSE) /\ ItemsKept /\ UNCHANGED faults
       \/ Fault /\ Following(s, "store", FALSE) /\ ItemsKept
    /\ Aside /\ UNCHANGED <<status, stored, overlap>>

-----------------------------------------------------------------------------
(* Orphans *)

\* detect_orphaned_items has found these, and the fetch is not needed any more.
ToMark(s, items) ==
    sync' = [sync EXCEPT ![s] = [@ EXCEPT !.pc = "orphan", !.todo = items,
                                          !.fetched = Rest.fetched]]

\* Items of this peer that the fetch did not have; a list that cannot be read
\* is an empty one.
Detect(s) ==
    /\ sync[s].pc = "store" /\ sync[s].todo = {}
    /\ \/ /\ ToMark(s, {i \in Item : local[i] # NoItem /\ sync[s].fetched[i] = 0})
          /\ UNCHANGED faults
       \/ Fault /\ ToMark(s, {})
    /\ Aside /\ ItemsKept /\ UNCHANGED <<status, stored, overlap>>

Orphan(s) ==
    /\ sync[s].pc = "orphan"
    /\ \E i \in sync[s].todo :
          sync' = [sync EXCEPT ![s] = [@ EXCEPT !.pc = "flag", !.item = i, !.seen = local[i]]]
    /\ Aside /\ ItemsKept /\ UNCHANGED <<status, stored, faults, overlap>>

\* The item is written back whole, as it was read, with the mark.
Flag(s) ==
    /\ sync[s].pc = "flag" /\ Following(s, "orphan", FALSE)
    /\ \/ /\ sync[s].seen # NoItem
          /\ local' = [local EXCEPT ![sync[s].item] = [sync[s].seen EXCEPT !.orphan = TRUE]]
          /\ UNCHANGED faults
       \/ Fault /\ UNCHANGED local
    /\ Aside /\ UNCHANGED <<status, stored, overlap, gone, kept>>

-----------------------------------------------------------------------------
(* A sync ends *)

AfterGeneration(n) == IF n < MaxGeneration THEN n + 1 ELSE n

\* The generation grows if an item was stored, or the sync asked for all of them.
Succeeded(s) ==
    [progress |-> FALSE, ok |-> TRUE,
     generation |-> IF sync[s].done \/ sync[s].since = 0
                    THEN AfterGeneration(status.generation) ELSE status.generation]

\* The status in memory is changed, then stored; if that fails the sync has failed.
Finish(s) ==
    /\ sync[s].pc = "orphan" /\ sync[s].todo = {}
    /\ status' = Succeeded(s)
    /\ \/ stored' = status' /\ End(s) /\ UNCHANGED faults
       \/ Fault /\ Move(s, "fail") /\ UNCHANGED stored
    /\ Aside /\ ItemsKept /\ UNCHANGED overlap

Fail(s) ==
    /\ sync[s].pc = "fail"
    /\ status' = [status EXCEPT !.progress = FALSE]
    /\ \/ stored' = status' /\ UNCHANGED faults
       \/ Fault /\ UNCHANGED stored
    /\ End(s)
    /\ Aside /\ ItemsKept /\ UNCHANGED overlap

-----------------------------------------------------------------------------
(* set_local_override: the item is read, then written back whole *)

ReadOverride ==
    /\ edit.pc = "idle" /\ edits < MaxEdits
    /\ edits' = edits + 1
    /\ \E i \in Item, on \in BOOLEAN :
          local[i] # NoItem /\ edit' = [pc |-> "write", item |-> i, on |-> on, seen |-> local[i]]
    /\ overlap' = (overlap \/ \E s \in Sync : Busy(s))
    /\ UNCHANGED <<offered, local, status, stored, sync, changes, faults, restarts, gone, kept>>

WriteOverride ==
    /\ edit.pc = "write"
    /\ edit' = NoEdit
    /\ \/ /\ local' = [local EXCEPT ![edit.item] = [edit.seen EXCEPT !.override = edit.on]]
          /\ kept' = [kept EXCEPT ![edit.item] = IF edit.on THEN edit.seen.content ELSE 0]
          /\ UNCHANGED faults
       \/ Fault /\ UNCHANGED <<local, kept>>
    /\ UNCHANGED <<offered, status, stored, sync, changes, edits, restarts, gone, overlap>>

-----------------------------------------------------------------------------

\* load_peers_and_state: the status is the one in the database.
Loaded == stored

\* The process dies and comes back: nothing of a running sync is left but what
\* the database holds.
Restart ==
    /\ restarts < MaxRestarts
    /\ restarts' = restarts + 1
    /\ status' = Loaded
    /\ sync' = [s \in Sync |-> Rest]
    /\ edit' = NoEdit
    /\ UNCHANGED <<offered, local, stored, changes, edits, faults, history>>

\* A peer just added, which offers everything or nothing.
Init ==
    /\ \E all \in BOOLEAN : offered = [i \in Item |-> IF all THEN 1 ELSE 0]
    /\ local = [i \in Item |-> NoItem]
    /\ status = InitialStatus /\ stored = InitialStatus
    /\ sync = [s \in Sync |-> Rest]
    /\ edit = NoEdit
    /\ changes = 0 /\ edits = 0 /\ faults = 0 /\ restarts = 0
    /\ gone = [i \in Item |-> FALSE] /\ overlap = FALSE
    /\ kept = [i \in Item |-> 0]

Advance(s) == \/ Fetch(s) \/ Look(s) \/ Put(s) \/ Detect(s)
              \/ Orphan(s) \/ Flag(s) \/ Finish(s) \/ Fail(s)

Next == \/ Offer \/ Revise \/ IntervalPasses
        \/ ReadOverride \/ WriteOverride
        \/ \E s \in Sync : Begin(s) \/ Advance(s)
        \/ Restart

Spec == Init /\ [][Next]_vars

\* The process runs what it has begun, its scheduler looks every minute, and
\* time passes. Nobody has to ask for a sync.
FairSpec == /\ Spec
            /\ WF_vars(Begin("scheduler")) /\ WF_vars(IntervalPasses) /\ WF_vars(WriteOverride)
            /\ \A s \in Sync : WF_vars(Advance(s))

-----------------------------------------------------------------------------

TypeOK ==
    /\ offered \in [Item -> 0..2]
    /\ local \in [Item -> Stored \cup {NoItem}]
    /\ status \in Status /\ stored \in Status
    /\ sync \in [Sync -> SyncRec] /\ edit \in EditRec
    /\ changes \in 0..MaxChanges /\ edits \in 0..MaxEdits
    /\ faults \in 0..MaxFaults /\ restarts \in 0..MaxRestarts
    /\ gone \in [Item -> BOOLEAN] /\ overlap \in BOOLEAN /\ kept \in [Item -> 0..2]

\* An item is marked as orphaned only if the peer stopped exporting it after it
\* was last stored: not because a fetch failed, and not because of a sync that
\* was cut short. Syncs that overlap may be wrong about each other's items
\* until the next one (detect_orphaned_items).
OrphanWasGone ==
    ~overlap => \A i \in Item : (local[i] # NoItem /\ local[i].orphan) => gone[i]

\* A local override keeps the item as it was, through any number of syncs, while
\* the item is orphaned and when it comes back (set_local_override).
OverrideHolds ==
    ~overlap => \A i \in Item : kept[i] # 0 =>
                   /\ local[i] # NoItem
                   /\ local[i].override /\ local[i].content = kept[i]

\* The generation of the peer never goes back, although syncs that overlap share
\* one status object and a restart loads what was stored last.
GenerationGrows == [][stored'.generation >= stored.generation]_stored

\* What is stored here is what the peer offers, but for overrides.
Mirrored == \A i \in Item :
    \/ Overridden(local[i])
    \/ offered[i] = 0 /\ (local[i] = NoItem \/ local[i].orphan)
    \/ /\ offered[i] # 0 /\ local[i] # NoItem
       /\ local[i].content = offered[i] /\ ~local[i].orphan

\* The database says a sync is in progress, and none is.
Stuck == stored.progress /\ \A s \in Sync : ~Busy(s)

\* Once the peer changes no more, the scheduler brings its items here, and marks
\* those that are gone, whatever syncs administrators ask for; unless a restart,
\* or a status that could not be stored twice, left a sync in progress that is not
\* (_should_sync_peer).
Mirrors == <>[](Mirrored \/ Stuck)
=============================================================================
