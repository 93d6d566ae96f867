---------------------------- MODULE ServerCatalog ---------------------------
(***************************************************************************)
(* One server of the registry: its active document, stored under the path, *)
(* its inactive versions, stored under path:version, and the requests that *)
(* read a document, decide, and write later, in part or whole, with or     *)
(* without the revision they have read.                                    *)
(*                                                                         *)
(*   registry/services/server_service.py                                   *)
(*   registry/repositories/documentdb/server_repository.py                 *)
(*   registry/api/server_routes.py, registry/api/_etag_utils.py            *)
(*                                                                         *)
(* A document is reduced to what the requests below write: its version,    *)
(* whether it is enabled, its tool overrides, the list of other versions,  *)
(* the metadata (text: its last writer), a stored credential, and rev for  *)
(* updated_at, which has microseconds: each write has one of its own.      *)
(* Nothing reads the search index, written last, or the marks set for      *)
(* nginx (NginxReload): both are left out, as are permissions.             *)
(***************************************************************************)
EXTENDS Naturals, FiniteSets

CONSTANTS
    Slot,        \* requests in flight at the same time
    Version,
    Tool,
    Job,         \* what a request may ask for: records [op, arg, scan]
    First,       \* what is stored at first: records [active, inactive, clock]
    Millisecond(_),  \* the millisecond of an updated_at: what an ETag tells of it
    NoDoc,       \* no document, no verdict
    MaxRequests, \* bound: requests
    MaxFaults    \* bound: failed database calls and lost processes

\* The fields a document may lack: a write of a whole card leaves those of the
\* stored document that the card has not.
Optional == {"is_enabled", "tool_overrides", "version_group", "credential"}
Decision == {"none", "block", "allow", "scan"}
Admin    == {"block", "allow"}
Op == {"register", "put", "patch", "toggle", "tool", "scan", "clear", "fetch",
       "default", "remove", "delete"}

Doc == [ver : Version, enabled : BOOLEAN, overrides : [Tool -> Decision],
        others : SUBSET Version, text : Nat, has : SUBSET Optional, rev : Nat]

\* What a request names: a version, a revision to match or none, on or off, a
\* tool and a decision about it.
Arg(op) ==
    CASE op \in {"register", "default", "remove"} -> Version
      [] op \in {"put", "patch", "toggle"} -> BOOLEAN
      [] op = "tool" -> Tool \X Admin
      [] OTHER -> {NoDoc}

\* What a scan finds (a rescan, or the scan that registering a server or giving it
\* another URL starts once it has been answered), and whether it would tag the server.
Verdict == [failed : BOOLEAN, unsafe : BOOLEAN, tag : BOOLEAN, flagged : SUBSET Tool]
ScanOf(op) == CASE op = "scan" -> Verdict
                [] op \in {"register", "put", "patch"} -> Verdict \cup {NoDoc}
                [] OTHER -> {NoDoc}

ASSUME CatalogConstants ==
    /\ \A j \in Job : j.op \in Op /\ j.arg \in Arg(j.op) /\ j.scan \in ScanOf(j.op)
    /\ NoDoc \notin Verdict
    /\ NoDoc \notin Doc
    /\ MaxRequests \in Nat /\ MaxFaults \in Nat

Stored(inactives) == {v \in Version : inactives[v] # NoDoc}

\* A server as it is between requests: the active document lists the other
\* versions, and each document has a revision of its own.
WellStored(s) ==
    /\ s.active \in Doc \cup {NoDoc} /\ s.inactive \in [Version -> Doc \cup {NoDoc}]
    /\ s.clock \in Nat
    /\ s.active = NoDoc => Stored(s.inactive) = {}
    /\ s.active # NoDoc =>
          /\ s.active.others = Stored(s.inactive) /\ s.active.ver \notin s.active.others
          /\ "version_group" \in s.active.has \/ s.active.others = {}
          /\ s.active.rev \in 1..s.clock
    /\ \A v \in Stored(s.inactive) :
          /\ s.inactive[v].ver = v
          /\ s.inactive[v].rev \in 1..s.clock /\ s.inactive[v].rev # s.active.rev
          /\ \A w \in Stored(s.inactive) \ {v} : s.inactive[w].rev # s.inactive[v].rev

ASSUME FirstStored == \A s \in First : WellStored(s)

VARIABLES
    active,     \* the document under the path
    inactive,   \* [Version -> the document under path:version]
    request,    \* [Slot -> the request]
    clock,      \* the last updated_at given
    started,    \* requests so far
    faults,     \* failed calls and lost processes so far
    promised,   \* history: the versions the answers so far say exist
    decided,    \* history: what toggles and tool decisions have established
    disturbed   \* history: kinds of requests that overlapped or failed

docs == <<active, inactive>>
history == <<promised, decided, disturbed>>
vars == <<docs, request, clock, started, faults, history>>

-----------------------------------------------------------------------------
(* Requests *)

Pc == {"idle", "read", "overrides", "check", "group", "create", "list", "write", "unset", "mark",
       "reconcile", "disable", "target", "drop", "drop_target", "promote", "demote", "ok", "refused", "dead"}
InFlight == Pc \ {"idle", "ok", "refused", "dead"}

NoJob == [op |-> "patch", arg |-> FALSE, scan |-> NoDoc]
Idle == [pc |-> "idle", id |-> 0, job |-> NoJob, card |-> NoDoc, target |-> NoDoc, seen |-> NoDoc]

Running(s) == request[s].pc \in InFlight
IfMatch(q) == q.job.op \in {"put", "patch"} /\ q.job.arg

\* An unsafe server that has no tag yet gets one before the scan decides about it:
\* the card as the request that started the scan had it is written once more, whole.
Tags(job) == /\ job.op # "scan" /\ job.scan # NoDoc
             /\ job.scan.tag /\ (job.scan.failed \/ job.scan.unsafe)

\* Requests that write whole documents they have read before, or delete them,
\* with nothing that says the document is still the one they read.
WholeCard(job) == \/ job.op \in {"register", "clear", "fetch", "default", "remove", "delete"}
                  \/ job.op = "put" /\ ~job.arg
                  \/ Tags(job)

\* What two requests that overlap may do to each other.
Clash(a, b) ==
    (IF WholeCard(a) /\ WholeCard(b) THEN {"versions"} ELSE {})
    \cup (IF WholeCard(a) \/ WholeCard(b) THEN {"decisions"} ELSE {})
    \cup (IF \E x, y \in {a, b} : x.scan # NoDoc /\ y.op = "tool" THEN {"scan"} ELSE {})

\* A request arrives, or the tool fetch starts that follows a health check of the
\* loop or of a toggle; a conditional edit names the revision its client has seen.
Arrive(s) ==
    /\ ~Running(s) /\ started < MaxRequests
    /\ \E job \in Job :
          LET q == [Idle EXCEPT !.pc = "read", !.id = started + 1, !.job = job]
          IN  /\ IfMatch(q) => active # NoDoc
              /\ request' = [request EXCEPT ![s] =
                     [q EXCEPT !.seen = IF IfMatch(q) THEN active ELSE NoDoc]]
              /\ disturbed' = disturbed \cup
                     UNION {Clash(job, request[o].job) : o \in {x \in Slot \ {s} : Running(x)}}
    /\ started' = started + 1
    /\ UNCHANGED <<docs, clock, faults, promised, decided>>

\* The request once it stands at pc; nothing is left of one that has ended.
Moved(q, pc) == IF pc \in InFlight THEN [q EXCEPT !.pc = pc] ELSE [Idle EXCEPT !.pc = pc]
To(s, pc) == request' = [request EXCEPT ![s] = Moved(@, pc)]

\* A call that fails or, below, a process that dies in the request of slot s.
Fault(s) == /\ faults < MaxFaults
            /\ faults' = faults + 1
            /\ disturbed' = disturbed \cup Clash(request[s].job, request[s].job)

Crash(s) == /\ Running(s) /\ Fault(s)
            /\ To(s, "dead")
            /\ UNCHANGED <<docs, clock, started, promised, decided>>

-----------------------------------------------------------------------------
(* The repository *)

Rev == clock + 1    \* updated_at of a write made now
Tick == clock' = Rev

\* update: the whole card is laid over the stored document.
Overlay(doc, card) ==
    [card EXCEPT !.has = @ \cup doc.has, !.rev = Rev,
                 !.enabled = IF "is_enabled" \in card.has THEN @ ELSE doc.enabled,
                 !.overrides = IF "tool_overrides" \in card.has THEN @ ELSE doc.overrides,
                 !.others = IF "version_group" \in card.has THEN @ ELSE doc.others]

\* The filter of the write: nothing, or the revision the handler has read.
Expected(q) == IfMatch(q) => active.rev = q.card.rev

\* Mutant: a patch writes the card it has merged.
Patched_WholeCard(q) == Overlay(active, [q.card EXCEPT !.text = q.id])
\* update with updated_fields: the fields of the patch.
Patched(q) == [active EXCEPT !.text = q.id, !.rev = Rev]

\* Mutant: set_state leaves updated_at as it is.
StateSet_SameRev(doc, enabled) == [doc EXCEPT !.enabled = enabled]
StateSet(doc, enabled) == [doc EXCEPT !.enabled = enabled, !.rev = Rev]

OverrideSet(doc, tool, decision) ==
    [doc EXCEPT !.overrides[tool] = decision, !.has = @ \cup {"tool_overrides"}, !.rev = Rev]

OverridesReplaced(doc, overrides) ==
    [doc EXCEPT !.overrides = overrides, !.has = @ \cup {"tool_overrides"}, !.rev = Rev]

\* update_field with None: $unset, and no updated_at.
CredentialUnset(doc) == [doc EXCEPT !.has = @ \ {"credential"}]

\* Mutant: a document is stored without timestamps.
Inserted_NoTimestamp(doc) == [doc EXCEPT !.rev = 0]
Inserted(doc) == [doc EXCEPT !.rev = Rev]

\* Nothing is written under the path.
NoWrite == UNCHANGED <<active, clock>>
\* Mutant: an update stores the card when there is none.
Landed_Upsert(doc, card) == active' = (IF active = NoDoc THEN Inserted(card) ELSE doc) /\ Tick
\* update_one matches no document when there is none: a write never creates.
Landed(doc, card) == IF active = NoDoc THEN NoWrite ELSE active' = doc /\ Tick

\* A request that has read nothing, or has failed, is answered with an error.
Refuse(s) == To(s, "refused")

-----------------------------------------------------------------------------
(* Reading the card *)

\* get answers None when it fails, as for a document that is not there; the
\* overrides of a tool scan cannot be read.
ReadFails(s) == /\ request[s].pc \in {"read", "overrides", "check", "target"} /\ Fault(s)
                /\ To(s, IF request[s].job.op = "register" /\ request[s].pc # "overrides"
                         THEN "create" ELSE "refused")
                /\ UNCHANGED <<docs, clock, started, promised, decided>>

\* weak_etag_for_timestamp, updated_ms: int(timestamp * 1000).
ETag(doc) == Millisecond(doc.rev)

\* Where a scan starts, with its verdict: one that could not run disables.
ScanFirst(verdict) == IF verdict.failed THEN "disable" ELSE "overrides"

\* Where a request goes that has been answered: it may have started a scan.
AfterAnswer(q) == IF q.job.scan = NoDoc THEN "ok"
                  ELSE IF Tags(q.job) THEN "mark" ELSE ScanFirst(q.job.scan)

\* Where a handler goes from the card it has read, at pc "read".
AfterRead(q) ==
    IF q.job.op = "register" THEN
        IF active = NoDoc THEN "create"
        ELSE IF q.job.arg = active.ver THEN "refused"
        ELSE IF "version_group" \in active.has THEN "check" ELSE "group"
    ELSE IF active = NoDoc \/ (IfMatch(q) /\ ETag(active) # ETag(q.seen)) THEN "refused"
    ELSE CASE q.job.op = "default" ->
                 IF q.job.arg = active.ver THEN "ok"
                 ELSE IF "version_group" \in active.has THEN "target" ELSE "refused"
           [] q.job.op = "remove" ->
                 IF q.job.arg # active.ver /\ "version_group" \in active.has
                 THEN "target" ELSE "refused"
           [] q.job.op = "scan" -> ScanFirst(q.job.scan)
           [] OTHER -> "write"

Read(s) ==
    /\ request[s].pc = "read"
    /\ request' = [request EXCEPT ![s] =
           Moved([@ EXCEPT !.card = active], AfterRead(request[s]))]
    /\ UNCHANGED <<docs, clock, started, faults, history>>

-----------------------------------------------------------------------------
(* register_server, add_server_version *)

Grouped(card) == IF "version_group" \in card.has THEN card
                 ELSE [card EXCEPT !.has = @ \cup {"version_group"}, !.others = {}]

\* The first version beside the active one: the card gets its version fields;
\* the answer of the write is not looked at.
Group(s) ==
    LET card == Grouped(request[s].card) IN
    /\ request[s].pc = "group"
    /\ request' = [request EXCEPT ![s].pc = "check", ![s].card = card]
    /\ \/ Landed(Overlay(active, card), card) /\ UNCHANGED faults /\ UNCHANGED disturbed
       \/ Fault(s) /\ NoWrite
    /\ UNCHANGED <<inactive, started, promised, decided>>

CheckVersion(s) ==
    /\ request[s].pc = "check" /\ request[s].job.op = "register"
    /\ IF inactive[request[s].job.arg] = NoDoc THEN To(s, "create") ELSE Refuse(s)
    /\ UNCHANGED <<docs, clock, started, faults, history>>

\* What register_server stores for a new server, add_server_version for a version.
NewServer(q) == [ver |-> q.job.arg, enabled |-> FALSE, overrides |-> [t \in Tool |-> "none"],
                 others |-> {}, text |-> q.id, has |-> {"is_enabled"}, rev |-> 0]
NewVersion(q) == [NewServer(q) EXCEPT !.enabled = q.card.enabled, !.text = q.card.text,
                                      !.has = @ \cup {"version_group"}]
\* The card of the request is not what is stored for a version, but what its scan tags.
VersionCard(q) == [NewServer(q) EXCEPT !.has = {}]

CreateServer(s) ==
    LET q == request[s] IN
    /\ q.pc = "create" /\ q.job.op = "register" /\ q.card = NoDoc
    /\ \/ /\ active = NoDoc
          /\ active' = Inserted(NewServer(q)) /\ Tick
          /\ request' = [request EXCEPT ![s] =
                 Moved([q EXCEPT !.card = NewServer(q)], AfterAnswer(q))]
          /\ promised' = {q.job.arg}
          /\ decided' = [enabled |-> FALSE, tools |-> NewServer(q).overrides]
          /\ UNCHANGED <<faults, disturbed>>
       \/ /\ active # NoDoc   \* the insert finds the path taken
          /\ NoWrite /\ Refuse(s)
          /\ UNCHANGED <<faults, history>>
       \/ Fault(s) /\ NoWrite /\ Refuse(s) /\ UNCHANGED <<promised, decided>>
    /\ UNCHANGED <<inactive, started>>

CreateVersion(s) ==
    LET q == request[s] IN
    /\ q.pc = "create" /\ q.job.op = "register" /\ q.card # NoDoc
    /\ \/ /\ inactive[q.job.arg] = NoDoc
          /\ inactive' = [inactive EXCEPT ![q.job.arg] = Inserted(NewVersion(q))] /\ Tick
          /\ To(s, "list")
          /\ UNCHANGED <<faults, disturbed>>
       \/ /\ inactive[q.job.arg] # NoDoc
          /\ UNCHANGED <<inactive, clock>> /\ Refuse(s)
          /\ UNCHANGED <<faults, disturbed>>
       \/ Fault(s) /\ UNCHANGED <<inactive, clock>> /\ Refuse(s)
    /\ UNCHANGED <<active, started, promised, decided>>

\* The card with the version of the request added to its list, or taken off.
Listed(q) == [q.card EXCEPT !.others = IF q.job.op = "register" THEN @ \cup {q.job.arg}
                                       ELSE @ \ {q.job.arg}]

\* The list of the active document; a failure goes unnoticed. The scan of a version
\* is one of the path, and its tag makes the card of the version the active one.
List(s) ==
    LET q == request[s] IN
    /\ q.pc = "list"
    /\ request' = [request EXCEPT ![s] = Moved([q EXCEPT !.card = VersionCard(q)], AfterAnswer(q))]
    /\ \/ /\ Landed(Overlay(active, Listed(q)), Listed(q))
          /\ disturbed' = disturbed \cup (IF Tags(q.job) THEN Clash(q.job, q.job) ELSE {})
          /\ UNCHANGED faults
       \/ Fault(s) /\ NoWrite
    /\ promised' = IF q.job.op = "register" THEN promised \cup {q.job.arg} ELSE promised \ {q.job.arg}
    /\ UNCHANGED <<inactive, started, decided>>

-----------------------------------------------------------------------------
(* remove_server_version, set_default_version, remove_server *)

FindTarget(s) ==
    LET v == request[s].job.arg IN
    /\ request[s].pc = "target"
    /\ request' = [request EXCEPT ![s] =
           Moved([@ EXCEPT !.target = inactive[v]],
                 IF inactive[v] = NoDoc THEN "refused"
                 ELSE IF request[s].job.op = "remove" THEN "drop_target" ELSE "drop")]
    /\ UNCHANGED <<docs, clock, started, faults, history>>

\* A version is removed: delete answers False when there is none any more.
RemoveTarget(s) ==
    LET q == request[s]
        listed == q.job.arg \in q.card.others IN
    /\ q.pc = "drop_target" /\ q.job.op = "remove"
    /\ \/ /\ inactive[q.job.arg] # NoDoc
          /\ inactive' = [inactive EXCEPT ![q.job.arg] = NoDoc]
          /\ To(s, IF listed THEN "list" ELSE "ok")
          /\ promised' = IF listed THEN promised ELSE promised \ {q.job.arg}
          /\ UNCHANGED <<faults, disturbed>>
       \/ /\ inactive[q.job.arg] = NoDoc
          /\ Refuse(s) /\ UNCHANGED <<inactive, promised, faults, disturbed>>
       \/ Fault(s) /\ Refuse(s) /\ UNCHANGED <<inactive, promised>>
    /\ UNCHANGED <<active, clock, started, decided>>

\* The swap deletes both documents, then stores both the other way around; what
\* the four calls answer is not looked at.
DropActive(s) ==
    /\ request[s].pc = "drop"
    /\ To(s, "drop_target")
    /\ \/ active' = NoDoc /\ UNCHANGED <<faults, disturbed>>
       \/ Fault(s) /\ UNCHANGED active
    /\ UNCHANGED <<inactive, clock, started, promised, decided>>

DropTarget(s) ==
    /\ request[s].pc = "drop_target" /\ request[s].job.op = "default"
    /\ To(s, "promote")
    /\ \/ inactive' = [inactive EXCEPT ![request[s].job.arg] = NoDoc] /\ UNCHANGED <<faults, disturbed>>
       \/ Fault(s) /\ UNCHANGED inactive
    /\ UNCHANGED <<active, clock, started, promised, decided>>

Promoted(q) == [q.target EXCEPT !.others = (q.card.others \ {q.job.arg}) \cup {q.card.ver},
                                !.has = @ \cup {"version_group"}]
Demoted(q) == [q.card EXCEPT !.others = {}]

\* What a document says about being on and about its tools.
Decisions(doc) == [enabled |-> doc.enabled, tools |-> [t \in Tool |->
                      IF doc.overrides[t] \in Admin THEN doc.overrides[t] ELSE "none"]]

Promote(s) ==
    LET new == Inserted(Promoted(request[s])) IN
    /\ request[s].pc = "promote"
    /\ To(s, "demote")
    /\ \/ /\ active = NoDoc
          /\ active' = new /\ Tick
          /\ decided' = Decisions(new)
          /\ UNCHANGED <<faults, disturbed>>
       \/ active # NoDoc /\ NoWrite /\ UNCHANGED <<faults, disturbed, decided>>
       \/ Fault(s) /\ NoWrite /\ UNCHANGED decided
    /\ UNCHANGED <<inactive, started, promised>>

Demote(s) ==
    LET q == request[s] IN
    /\ q.pc = "demote"
    /\ To(s, "ok")
    /\ \/ /\ inactive[q.card.ver] = NoDoc
          /\ inactive' = [inactive EXCEPT ![q.card.ver] = Inserted(Demoted(q))] /\ Tick
          /\ UNCHANGED <<faults, disturbed>>
       \/ inactive[q.card.ver] # NoDoc /\ UNCHANGED <<inactive, clock, faults, disturbed>>
       \/ Fault(s) /\ UNCHANGED <<inactive, clock>>
    /\ UNCHANGED <<active, started, promised, decided>>

\* delete_with_versions matches the path and path: followed by anything.
Survivors == [v \in Version |-> NoDoc]

Delete(s) ==
    /\ request[s].pc = "write" /\ request[s].job.op = "delete"
    /\ \/ /\ active # NoDoc \/ \E v \in Version : inactive[v] # NoDoc
          /\ active' = NoDoc /\ inactive' = Survivors
          /\ promised' = {}
          /\ To(s, "ok") /\ UNCHANGED <<faults, disturbed>>
       \/ /\ active = NoDoc /\ \A v \in Version : inactive[v] = NoDoc
          /\ Refuse(s) /\ UNCHANGED <<docs, promised, faults, disturbed>>
       \/ Fault(s) /\ Refuse(s) /\ UNCHANGED <<docs, promised>>
    /\ UNCHANGED <<clock, started, decided>>

-----------------------------------------------------------------------------
(* Edits of the active document: PUT, PATCH, toggles, tool decisions, fetches *)

\* The card with the metadata of the request.
Merged(q) == [q.card EXCEPT !.text = q.id]

\* The document a write of q leaves where there is one. The card a tool fetch
\* writes is one without credentials.
Edited(q) ==
    CASE q.job.op = "put"    -> Overlay(active, Merged(q))
      [] q.job.op = "fetch"  -> Overlay(active, [Merged(q) EXCEPT !.has = @ \ {"credential"}])
      [] q.job.op = "patch"  -> Patched(q)
      [] q.job.op = "toggle" -> StateSet(active, q.job.arg)
      [] q.job.op = "tool"   -> OverrideSet(active, q.job.arg[1], q.job.arg[2])
      [] q.job.op = "clear"  -> Overlay(active, [q.card EXCEPT !.has = @ \ {"credential"}])

\* What an accepted toggle or tool decision establishes.
Established(q) ==
    CASE q.job.op = "toggle" -> [decided EXCEPT !.enabled = q.job.arg]
      [] q.job.op = "tool"   -> [decided EXCEPT !.tools[q.job.arg[1]] = q.job.arg[2]]
      [] OTHER -> decided

AfterWrite(q) == IF q.job.op = "clear" THEN "unset" ELSE AfterAnswer(q)

Write(s) ==
    LET q == request[s] IN
    /\ q.pc = "write" /\ q.job.op \in {"put", "patch", "toggle", "tool", "clear", "fetch"}
    /\ \/ /\ active # NoDoc => Expected(q)
          /\ Landed(Edited(q), q.card)
          /\ IF active = NoDoc THEN Refuse(s) /\ UNCHANGED decided
             ELSE /\ request' = [request EXCEPT ![s] =
                         Moved([q EXCEPT !.card = Merged(q)], AfterWrite(q))]
                  /\ decided' = Established(q)
          /\ UNCHANGED <<faults, disturbed>>
       \/ /\ active # NoDoc /\ ~Expected(q)
          /\ NoWrite /\ Refuse(s) /\ UNCHANGED <<decided, faults, disturbed>>
       \/ Fault(s) /\ NoWrite /\ Refuse(s) /\ UNCHANGED decided
    /\ UNCHANGED <<inactive, started, promised>>

\* The credential the write of the card could only leave out is removed after it.
Unset(s) ==
    /\ request[s].pc = "unset"
    /\ \/ /\ active' = (IF active = NoDoc THEN NoDoc ELSE CredentialUnset(active))
          /\ To(s, "ok") /\ UNCHANGED <<faults, disturbed>>
       \/ Fault(s) /\ UNCHANGED active /\ Refuse(s)
    /\ UNCHANGED <<inactive, clock, started, promised, decided>>

-----------------------------------------------------------------------------
(* A security scan: its verdict says whether it could run, whether the server *)
(* is unsafe, and which tools it blames                                       *)

\* The scan a registration or an edit has started writes its card with the tag;
\* what the write answers is not looked at.
Mark(s) ==
    LET q == request[s] IN
    /\ q.pc = "mark"
    /\ To(s, ScanFirst(q.job.scan))
    /\ \/ Landed(Overlay(active, q.card), q.card) /\ UNCHANGED <<faults, disturbed>>
       \/ Fault(s) /\ NoWrite
    /\ UNCHANGED <<inactive, started, promised, decided>>

Overrides(doc) == IF doc = NoDoc THEN [t \in Tool |-> "none"] ELSE doc.overrides

ReadOverrides(s) ==
    /\ request[s].pc = "overrides"
    /\ request' = [request EXCEPT ![s].pc = "reconcile", ![s].card = active]
    /\ UNCHANGED <<docs, clock, started, faults, history>>

\* Decisions of administrators are kept; the rest is what this scan says.
Reconciled(q) ==
    [t \in Tool |-> IF Overrides(q.card)[t] \in Admin THEN Overrides(q.card)[t]
                    ELSE IF t \in q.job.scan.flagged THEN "scan" ELSE "none"]

\* An unsafe server none of whose tools has an override is disabled.
AfterReconcile(q) ==
    IF q.job.scan.unsafe /\ \A t \in Tool : Reconciled(q)[t] = "none" THEN "disable" ELSE "ok"

Reconcile(s) ==
    LET q == request[s] IN
    /\ q.pc = "reconcile"
    /\ \/ /\ Landed(OverridesReplaced(active, Reconciled(q)), q.card)
          /\ To(s, AfterReconcile(q)) /\ UNCHANGED <<faults, disturbed>>
       \/ Fault(s) /\ NoWrite /\ Refuse(s)
    /\ UNCHANGED <<inactive, started, promised, decided>>

\* The answer of set_state is not looked at.
Disable(s) ==
    /\ request[s].pc = "disable"
    /\ To(s, "ok")
    /\ \/ /\ Landed(StateSet(active, FALSE), request[s].card)
          /\ decided' = IF active = NoDoc THEN decided ELSE [decided EXCEPT !.enabled = FALSE]
          /\ UNCHANGED <<faults, disturbed>>
       \/ Fault(s) /\ NoWrite /\ UNCHANGED decided
    /\ UNCHANGED <<inactive, started, promised>>

-----------------------------------------------------------------------------

Versions(state) == (IF state.active = NoDoc THEN {} ELSE {state.active.ver})
                   \cup {v \in Version : state.inactive[v] # NoDoc}

Init == \E s \in First :
    /\ active = s.active /\ inactive = s.inactive
    /\ request = [r \in Slot |-> Idle]
    /\ clock = s.clock /\ started = 0 /\ faults = 0
    /\ promised = Versions(s)
    /\ decided = IF s.active = NoDoc THEN [enabled |-> FALSE, tools |-> [t \in Tool |-> "none"]]
                 ELSE Decisions(s.active)
    /\ disturbed = {}

Next == \E s \in Slot :
    \/ Arrive(s) \/ Read(s) \/ ReadFails(s) \/ Crash(s)
    \/ Group(s) \/ CheckVersion(s) \/ CreateServer(s) \/ CreateVersion(s) \/ List(s)
    \/ FindTarget(s) \/ RemoveTarget(s) \/ DropActive(s) \/ DropTarget(s)
    \/ Promote(s) \/ Demote(s) \/ Delete(s)
    \/ Write(s) \/ Unset(s)
    \/ Mark(s) \/ ReadOverrides(s) \/ Reconcile(s) \/ Disable(s)

Spec == Init /\ [][Next]_vars

-----------------------------------------------------------------------------

\* Documents are well-formed, and every stored document carries an updated_at
\* that was given to it and to no other document.
TypeOK ==
    /\ active \in Doc \cup {NoDoc}
    /\ inactive \in [Version -> Doc \cup {NoDoc}]
    /\ LET stored == {d \in {active} \cup {inactive[v] : v \in Version} : d # NoDoc}
       IN  /\ \A d \in stored : d.rev \in 1..clock
           /\ \A d, e \in stored : d.rev = e.rev => d = e
    /\ \A s \in Slot : LET q == request[s] IN
          /\ q.pc \in Pc /\ q.id \in 0..MaxRequests /\ q.job \in Job \cup {NoJob}
          /\ {q.card, q.target, q.seen} \subseteq Doc \cup {NoDoc}
    /\ clock \in Nat /\ started \in 0..MaxRequests /\ faults \in 0..MaxFaults
    /\ promised \subseteq Version
    /\ decided \in [enabled : BOOLEAN, tools : [Tool -> Admin \cup {"none"}]]
    /\ disturbed \subseteq {"versions", "decisions", "scan"}

\* A server is stored with exactly the versions its users were told it has, and
\* its list of other versions names them: whatever toggles, patches, tool
\* decisions, rescans and conditional edits run meanwhile, none of them loses a
\* version or brings back a deleted one. Requests that rewrite whole documents
\* may run one at a time (set_default_version, delete_with_versions): among them
\* the tool fetch after a health check, and edits whose scan tags an unsafe server.
\* What a failed call has left half done is excluded, and so is a version whose scan
\* tags the server: the card of the version takes the place of the active one.
VersionsKept ==
    ("versions" \notin disturbed /\ \A s \in Slot : Running(s) => ~WholeCard(request[s].job))
    => /\ Versions([active |-> active, inactive |-> inactive]) = promised
       /\ promised # {} => active # NoDoc
       /\ active # NoDoc =>
             active.others = {v \in Version : inactive[v] # NoDoc}

\* The server is on or off, and its tools blocked or allowed, as the last
\* accepted toggle and tool decision said, although handlers write cards they
\* read earlier: patches write their fields only, conditional edits lose to a
\* changed updated_at, scans keep what administrators decided. Requests that
\* rewrite whole documents, tool fetches and the tag of an unsafe server
\* included, keep it if nothing overlaps them and, as above, no call of theirs
\* fails and no tag makes a version the active one.
DecisionsStand ==
    (active # NoDoc /\ disturbed \cap {"decisions", "scan"} = {})
    => Decisions(active) = decided

\* What an administrator decided about a tool is never undone by a scan.
\* reconcile_security_blocks says so of itself; it reads the overrides, then
\* replaces them all, and loses a decision taken in between.
AdminWins ==
    (active # NoDoc /\ "decisions" \notin disturbed)
    => \A t \in Tool : decided.tools[t] # "none" => active.overrides[t] = decided.tools[t]

\* An accepted conditional edit (If-Match) replaces exactly what its handler has
\* read, and what its client has seen: whatever changed the document in between
\* changed its updated_at. The ETag of the client has only the milliseconds of
\* it, so that a change given the millisecond of the one seen goes unnoticed.
Content(doc) == [decisions |-> Decisions(doc), text |-> doc.text, ver |-> doc.ver,
                 others |-> doc.others]
EditsWhatWasSeen ==
    \A s \in Slot : LET q == request[s] IN
       (q.pc = "write" /\ IfMatch(q) /\ request'[s].pc \in {"ok", "mark", "overrides", "disable"})
       => /\ Content(active) = Content(q.card)
          /\ \/ Content(active) = Content(q.seen)
             \/ active.rev # q.seen.rev /\ ETag(active) = ETag(q.seen)
NoLostEdit == [][EditsWhatWasSeen]_vars
=============================================================================
