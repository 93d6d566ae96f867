----------------------------- MODULE NginxReload ----------------------------
(***************************************************************************)
(* The debounced nginx reload of the registry: request handlers change the *)
(* database and mark the configuration dirty or flush it at once, a        *)
(* background loop flushes what is dirty, and one flush at a time renders, *)
(* validates, writes and reloads.                                          *)
(*                                                                         *)
(*   registry/core/nginx_service.py: NginxReloadScheduler,                 *)
(*   _write_and_validate_config, reload_nginx; registry/main.py and        *)
(*   docker/registry-entrypoint.sh (startup of the container)              *)
(*                                                                         *)
(* The rendered text is abstracted to the set of routes it contains. The   *)
(* servers are read first, agents and virtual servers while rendering. The *)
(* tool mappings of virtual servers go to files of their own, not into the *)
(* text, and are abstracted to a version number.                           *)
(***************************************************************************)
EXTENDS Naturals

CONSTANTS
    Route,          \* servers, agents and virtual servers that may be enabled
    Server,         \* those of them read by _fetch_all_enabled_servers
    BadRoute,       \* routes whose block nginx -t rejects
    Handler,        \* request handlers of this process
    Loop, Boot,     \* the flush loop and the startup code, as flushers
    Nobody,         \* the flush lock is free
    NoText,         \* the unfilled template, its hash; nginx not running
    PollExternal,   \* NGINX_RELOAD_POLL_EXTERNAL
    FaultKind,      \* the calls that may fail, see Faulty
    MaxFaults,      \* bound: failed calls
    MaxChanges,     \* bound: changes of the database
    MaxCrashes      \* bound: restarts of the container

ASSUME NginxConstants ==
    /\ BadRoute \subseteq Route
    /\ Server \subseteq Route
    /\ Route # {}
    /\ Loop \notin Handler /\ Boot \notin Handler /\ Loop # Boot
    /\ Nobody \notin Handler \cup {Loop, Boot}
    /\ \A text \in SUBSET Route : text # NoText
    /\ PollExternal \in BOOLEAN
    /\ FaultKind \subseteq {"fetch", "render", "section", "mappings", "write",
                            "test", "restore", "reload", "lateNginx"}
    /\ MaxFaults \in Nat
    /\ MaxChanges \in Nat
    /\ MaxCrashes \in Nat

VARIABLES
    db,         \* the enabled routes and the version of the tool mappings
    handler,    \* [Handler -> where it stands and what it changed]
    loop,       \* the flush loop: "sleep", "wait" for the lock, or "off"
    dirty,      \* NginxReloadScheduler._dirty
    lastHash,   \* NginxReloadScheduler._last_config_hash, as the text it is of
    flush,      \* the flush in progress: who holds the lock, its step, its text
    disk,       \* the live config, its .last-good copy, the mapping files;
                \* spoiled (history): a restore failed, nothing was accepted since
    nginx,      \* the routes the running nginx serves
    cooling,    \* the last reload is less than the minimum interval ago
    changes, faults, crashes    \* the bounded counters

vars == <<db, handler, loop, dirty, lastHash, flush, disk, nginx, cooling,
          changes, faults, crashes>>

-----------------------------------------------------------------------------
(* Data *)

Text == SUBSET Route

HandlerPc == {"idle", "changed", "flush", "returned"}
FlushStep == {"none", "fetch", "render", "mappings", "promote", "test", "restore", "reload"}
Disk == [config : {NoText} \cup Text, backup : {NoText} \cup Text,
         mapping : 0 .. MaxChanges, spoiled : BOOLEAN]

IdleHandler == [pc |-> "idle", flushes |-> FALSE, mapping |-> 0]
Virtual == Route \ Server
NoFlush == [by |-> Nobody, step |-> "none", text |-> NoText]

Valid(text) == text # NoText /\ text \cap BadRoute = {}

Faulty(kind) ==
    /\ kind \in FaultKind
    /\ faults < MaxFaults
    /\ faults' = faults + 1

Init ==
    /\ db = [routes |-> {}, mapping |-> 0]
    /\ handler = [h \in Handler |-> IdleHandler]
    /\ loop = "sleep"
    /\ dirty = FALSE
    /\ lastHash = {}
    /\ flush = NoFlush
    /\ disk = [config |-> {}, backup |-> NoText, mapping |-> 0, spoiled |-> FALSE]
    /\ nginx = {}
    /\ cooling = FALSE
    /\ changes = 0 /\ faults = 0 /\ crashes = 0

-----------------------------------------------------------------------------
(* Request handlers *)

Running == loop # "off"

\* A handler enables or disables a route: register and edit only mark the
\* configuration dirty, toggle and delete also flush it before they answer.
ChangeRoute(h, r, flushes) ==
    /\ Running
    /\ handler[h].pc = "idle"
    /\ changes < MaxChanges
    /\ db' = [db EXCEPT !.routes = IF r \in @ THEN @ \ {r} ELSE @ \cup {r}]
    /\ handler' = [handler EXCEPT ![h] =
                     [pc |-> "changed", flushes |-> flushes, mapping |-> db.mapping]]
    /\ changes' = changes + 1
    /\ UNCHANGED <<loop, dirty, lastHash, flush, disk, nginx, cooling, faults, crashes>>

\* VirtualServerService.update changes the tool mappings of an enabled virtual
\* server, backends unchanged, then runs _trigger_nginx_reload.
ChangeMapping(h) ==
    /\ Running
    /\ handler[h].pc = "idle"
    /\ changes < MaxChanges
    /\ Virtual \cap db.routes # {}
    /\ db' = [db EXCEPT !.mapping = @ + 1]
    /\ handler' = [handler EXCEPT ![h] =
                     [pc |-> "changed", flushes |-> TRUE, mapping |-> db.mapping + 1]]
    /\ changes' = changes + 1
    /\ UNCHANGED <<loop, dirty, lastHash, flush, disk, nginx, cooling, faults, crashes>>

MarkDirty(h) ==
    /\ handler[h].pc = "changed"
    /\ dirty' = TRUE
    /\ handler' = [handler EXCEPT ![h] =
                     IF handler[h].flushes THEN [@ EXCEPT !.pc = "flush"] ELSE IdleHandler]
    /\ UNCHANGED <<db, loop, lastHash, flush, disk, nginx, cooling, changes, faults, crashes>>

\* The HTTP response has gone out.
Answered(h) ==
    /\ handler[h].pc = "returned"
    /\ handler' = [handler EXCEPT ![h] = IdleHandler]
    /\ UNCHANGED <<db, loop, dirty, lastHash, flush, disk, nginx, cooling,
                   changes, faults, crashes>>

\* Another replica changes the database; this process is not told.
ExternalChange(r) ==
    /\ PollExternal
    /\ changes < MaxChanges
    /\ db' = [db EXCEPT !.routes = IF r \in @ THEN @ \ {r} ELSE @ \cup {r}]
    /\ changes' = changes + 1
    /\ UNCHANGED <<handler, loop, dirty, lastHash, flush, disk, nginx, cooling,
                   faults, crashes>>

-----------------------------------------------------------------------------
(* NginxReloadScheduler._do_reload_if_changed, under _flush_lock *)

LoopWakes ==
    /\ loop = "sleep"
    /\ dirty \/ PollExternal
    /\ loop' = "wait"
    /\ UNCHANGED <<db, handler, dirty, lastHash, flush, disk, nginx, cooling,
                   changes, faults, crashes>>

\* A tick of the loop that finds nothing to do.
LoopIdles ==
    /\ loop = "sleep"
    /\ ~dirty /\ ~PollExternal
    /\ UNCHANGED vars

Waiting(p) == IF p = Loop THEN loop = "wait" ELSE handler[p].pc = "flush"

BeginFlush(p) ==
    /\ flush.by = Nobody
    /\ Waiting(p)
    /\ flush' = [by |-> p, step |-> "fetch", text |-> NoText]
    /\ dirty' = FALSE
    /\ UNCHANGED <<db, handler, loop, lastHash, disk, nginx, cooling,
                   changes, faults, crashes>>

\* Mutant: the flush ends without releasing the lock.
Release_KeepsLock(text) ==
    /\ flush' = [flush EXCEPT !.step = "none"]
    /\ IF flush.by \in Handler
       THEN handler' = [handler EXCEPT ![flush.by].pc = "returned"] /\ UNCHANGED loop
       ELSE loop' = "sleep" /\ UNCHANGED handler
    /\ lastHash' = IF flush.by = Boot THEN disk.config ELSE text

\* The lock is released and the flusher goes on: the loop sleeps again, the
\* handler returns, startup seeds the hash with what it finds on disk and
\* starts the loop.
Release(text) ==
    /\ flush' = NoFlush
    /\ IF flush.by \in Handler
       THEN handler' = [handler EXCEPT ![flush.by].pc = "returned"] /\ UNCHANGED loop
       ELSE loop' = "sleep" /\ UNCHANGED handler
    /\ lastHash' = IF flush.by = Boot THEN disk'.config ELSE text

At(step) == flush.step = step
Continue(step) == flush' = [flush EXCEPT !.step = step] /\ UNCHANGED <<handler, loop, lastHash>>

\* Mutant: the failure is logged, the flag is left clear.
Retry_Forgets == Release(lastHash) /\ UNCHANGED dirty

\* A failure the flush reports: it leaves the dirty flag set for the next tick.
Retry == Release(lastHash) /\ dirty' = (flush.by # Boot)

\* _fetch_all_enabled_servers; at startup an exception here ends the process.
Fetch ==
    /\ At("fetch")
    /\ \/ /\ flush' = [flush EXCEPT !.step = "render", !.text = db.routes \cap Server]
          /\ UNCHANGED <<handler, loop, lastHash, dirty, faults>>
       \/ /\ flush.by # Boot
          /\ Faulty("fetch")
          /\ Retry
    /\ UNCHANGED <<db, disk, nginx, cooling, changes, crashes>>

\* Render, compare with the hash of the last applied text. render_config
\* swallows its exceptions and answers None; the generators of the sections for
\* virtual servers and agents swallow theirs and leave the section empty.
RenderDone(text) ==
    IF flush.by # Boot /\ text = lastHash
    THEN Release(lastHash)
    ELSE /\ flush' = [flush EXCEPT !.step = "mappings", !.text = text]
         /\ UNCHANGED <<handler, loop, lastHash>>

\* Mutant: the flag is cleared once the config is rendered, not before.
Render_ClearsDirty ==
    /\ At("render")
    /\ UNCHANGED disk
    /\ dirty' = FALSE
    /\ \/ RenderDone(flush.text \cup (db.routes \ Server)) /\ UNCHANGED faults
       \/ Faulty("section") /\ RenderDone(flush.text)
       \/ Faulty("render") /\ Release(lastHash)
    /\ UNCHANGED <<db, nginx, cooling, changes, crashes>>

Render ==
    /\ At("render")
    /\ UNCHANGED disk
    /\ \/ RenderDone(flush.text \cup (db.routes \ Server)) /\ UNCHANGED <<dirty, faults>>
       \/ Faulty("section") /\ RenderDone(flush.text) /\ UNCHANGED dirty
       \/ Faulty("render") /\ Release(lastHash) /\ UNCHANGED dirty
    /\ UNCHANGED <<db, nginx, cooling, changes, crashes>>

\* _commit_virtual_server_mappings swallows its exceptions.
WriteMappings ==
    /\ At("mappings")
    /\ Continue("promote")
    /\ \/ /\ disk' = IF Virtual \cap db.routes = {}
                     THEN disk ELSE [disk EXCEPT !.mapping = db.mapping]
          /\ UNCHANGED faults
       \/ Faulty("mappings") /\ UNCHANGED disk
    /\ UNCHANGED <<db, dirty, nginx, cooling, changes, crashes>>

\* _write_and_validate_config: back up the live config, move the candidate into
\* its place, run nginx -t on it ...
Promoted(d, text) == [d EXCEPT !.backup = d.config, !.config = text]

Promote ==
    /\ At("promote")
    /\ \/ /\ disk' = Promoted(disk, flush.text)
          /\ Continue("test")
          /\ UNCHANGED <<dirty, faults>>
       \/ /\ Faulty("write")
          /\ UNCHANGED disk
          /\ Retry
    /\ UNCHANGED <<db, nginx, cooling, changes, crashes>>

\* ... and drop the backup when it is accepted. A backup that cannot be removed
\* is overwritten by the next flush before it is read.
Accepted(d) == [d EXCEPT !.backup = NoText, !.spoiled = FALSE]

Test ==
    /\ At("test")
    /\ \/ /\ Valid(flush.text)
          /\ disk' = Accepted(disk)
          /\ Continue("reload")
          /\ UNCHANGED faults
       \/ /\ \/ ~Valid(flush.text) /\ UNCHANGED faults
             \/ Valid(flush.text) /\ Faulty("test")
          /\ UNCHANGED disk
          /\ Continue("restore")
    /\ UNCHANGED <<db, dirty, nginx, cooling, changes, crashes>>

\* Mutant: the rejected candidate is left in place.
Restored_NotAtAll(d) == [d EXCEPT !.backup = NoText]

\* A rejected candidate: the backup is moved back over it, then an exception. If
\* the move fails too, the exception is all there is: the rejected candidate
\* stays live, and the next flush takes it for the last good config.
Restored(d) == [d EXCEPT !.config = d.backup, !.backup = NoText]

Restore ==
    /\ At("restore")
    /\ \/ disk' = Restored(disk) /\ UNCHANGED faults
       \/ disk' = [disk EXCEPT !.spoiled = TRUE] /\ Faulty("restore")
    /\ Retry
    /\ UNCHANGED <<db, nginx, cooling, changes, crashes>>

\* Mutant: the hash is advanced whatever reload_nginx answers.
Reload_HashAnyway ==
    /\ At("reload")
    /\ UNCHANGED disk
    /\ \/ /\ ~cooling
          /\ nginx # NoText
          /\ nginx' = disk.config
          /\ cooling' = TRUE
          /\ UNCHANGED faults
       \/ /\ \/ cooling /\ UNCHANGED faults
             \/ ~cooling /\ Faulty(IF nginx = NoText THEN "lateNginx" ELSE "reload")
          /\ UNCHANGED <<nginx, cooling>>
    /\ Release(flush.text)
    /\ UNCHANGED <<db, dirty, changes, crashes>>

\* reload_nginx declines while the last reload is too recent, waits some seconds
\* for an nginx that is not up yet, and may fail; the scheduler then stays
\* dirty, startup ignores the answer.
Reload ==
    /\ At("reload")
    /\ UNCHANGED disk
    /\ \/ /\ ~cooling
          /\ nginx # NoText
          /\ nginx' = disk.config
          /\ cooling' = TRUE
          /\ Release(flush.text)
          /\ UNCHANGED <<dirty, faults>>
       \/ /\ \/ cooling /\ UNCHANGED faults
             \/ ~cooling /\ Faulty(IF nginx = NoText THEN "lateNginx" ELSE "reload")
          /\ Retry
          /\ UNCHANGED <<nginx, cooling>>
    /\ UNCHANGED <<db, changes, crashes>>

\* The minimum reload interval passes.
CoolingEnds ==
    /\ cooling
    /\ cooling' = FALSE
    /\ UNCHANGED <<db, handler, loop, dirty, lastHash, flush, disk, nginx,
                   changes, faults, crashes>>

-----------------------------------------------------------------------------
(* The container: registry-entrypoint.sh *)

\* The entrypoint copies the template over the live config and starts the
\* registry, which generates the configuration through the same steps before
\* any handler runs. The mapping files stay if the container's files do.
Restart ==
    /\ handler' = [h \in Handler |-> IdleHandler]
    /\ loop' = "off"
    /\ dirty' = FALSE
    /\ lastHash' = NoText
    /\ cooling' = FALSE
    /\ flush' = [by |-> Boot, step |-> "fetch", text |-> NoText]
    /\ nginx' = NoText
    /\ \E mapping \in {0, disk.mapping} :
         disk' = [config |-> NoText, backup |-> NoText, mapping |-> mapping,
                  spoiled |-> FALSE]
    /\ UNCHANGED <<db, changes, faults>>

Crash == crashes < MaxCrashes /\ crashes' = crashes + 1 /\ Restart

\* The entrypoint starts nginx once the placeholders of the live config are
\* replaced, be it by a candidate on trial, or after a timeout longer than
\* startup takes. An nginx that rejects its config ends the container.
StartNginx ==
    /\ nginx = NoText
    /\ disk.config # NoText \/ loop # "off"
    /\ IF Valid(disk.config)
       THEN /\ nginx' = disk.config
            /\ UNCHANGED <<db, handler, loop, dirty, lastHash, flush, disk, cooling,
                           changes, faults>>
       ELSE Restart
    /\ UNCHANGED crashes

-----------------------------------------------------------------------------

FlushStepTaken == Fetch \/ Render \/ WriteMappings \/ Promote \/ Test \/ Restore \/ Reload

Next ==
    \/ \E h \in Handler :
         \/ \E r \in Route, flushes \in BOOLEAN : ChangeRoute(h, r, flushes)
         \/ ChangeMapping(h) \/ MarkDirty(h) \/ Answered(h)
    \/ \E r \in Route : ExternalChange(r)
    \/ \E p \in Handler \cup {Loop} : BeginFlush(p)
    \/ LoopWakes \/ LoopIdles \/ FlushStepTaken \/ CoolingEnds \/ Crash
    \/ StartNginx

Spec == Init /\ [][Next]_vars

\* Handlers and the loop are scheduled, calls return, time passes.
Fairness ==
    /\ \A h \in Handler : WF_vars(MarkDirty(h)) /\ WF_vars(Answered(h))
    /\ \A p \in Handler \cup {Loop} : SF_vars(BeginFlush(p))
    /\ WF_vars(LoopWakes) /\ WF_vars(FlushStepTaken)
    /\ SF_vars(CoolingEnds) /\ WF_vars(StartNginx)

FairSpec == Spec /\ Fairness

-----------------------------------------------------------------------------
(* Properties *)

\* The scheduler, the flush and the files keep their types.
TypeOK ==
    /\ db \in [routes : Text, mapping : 0 .. MaxChanges]
    /\ handler \in [Handler -> [pc : HandlerPc, flushes : BOOLEAN,
                                mapping : 0 .. MaxChanges]]
    /\ loop \in {"sleep", "wait", "off"}
    /\ dirty \in BOOLEAN
    /\ lastHash \in {NoText} \cup Text
    /\ flush \in [by : Handler \cup {Loop, Boot, Nobody}, step : FlushStep,
                  text : {NoText} \cup Text]
    /\ disk \in Disk
    /\ nginx \in {NoText} \cup Text
    /\ cooling \in BOOLEAN
    /\ changes \in 0 .. MaxChanges
    /\ faults \in 0 .. MaxFaults
    /\ crashes \in 0 .. MaxCrashes
    /\ flush.by = Nobody <=> flush.step = "none"
    /\ flush.by = Boot <=> loop = "off"
    /\ flush.by \in Handler => handler[flush.by].pc = "flush"

\* Once startup is over and whenever no candidate is on trial, nginx would boot
\* from the live config: it is one nginx -t accepted, even if the test itself or
\* any other call of a flush failed. _write_and_validate_config: the rejected
\* candidate is replaced "so the gateway can still cold-start on the last-good
\* config". Only a restore that fails breaks this, against its "any error leaves
\* the last-good config in place", and the next accepted candidate mends it.
OnTrial == flush.step \in {"test", "restore"}
ColdStartable == loop # "off" /\ ~OnTrial /\ ~disk.spoiled => Valid(disk.config)

\* The text whose hash the scheduler remembers is the one nginx serves, so that
\* "rendered output differs from the last-applied version" never skips a reload
\* that is due.
HashIsApplied == lastHash # NoText /\ nginx # NoText => nginx = lastHash

HandlerDone(h) == handler[h].pc \in {"idle", "returned"}
Quiescent ==
    /\ flush.by = Nobody
    /\ loop = "sleep"
    /\ nginx # NoText
    /\ ~dirty
    /\ \A h \in Handler : HandlerDone(h)

\* No change of this process is forgotten: once nothing is dirty, waiting or in
\* flight, nginx serves the routes of the database, even if changes came
\* between the reads of a flush and although any of its calls failed.
NoChangeForgotten == Quiescent => nginx = db.routes

\* Once the changes end, nginx comes to serve the routes of the database for
\* good, also those changed by another replica.
Converges == <>[](nginx = db.routes)
=============================================================================
