---------------------------- MODULE HealthMonitor ---------------------------
(***************************************************************************)
(* Health checks of one MCP server by one replica, the token they call it  *)
(* with, and the nginx route that depends on what they find.               *)
(*                                                                         *)
(*   registry/health/service.py: HealthMonitoringService                   *)
(*   registry/api/server_routes.py: toggle, refresh, oauth-config, edit    *)
(*   registry/core/nginx_service.py: the condition of a location block     *)
(*                                                                         *)
(* Checks read the card of the server and use it later. The status they    *)
(* write is shared by the periodic loop, immediate checks, the pages that  *)
(* show it and the rendering of the nginx configuration. A flush is a read *)
(* of the enabled servers, then a look at the status map and the reload;   *)
(* NginxReload has its steps. The server is remote, its configuration of   *)
(* OAuth complete.                                                         *)
(***************************************************************************)
EXTENDS BackendOAuth

CONSTANTS
    Polls,          \* NGINX_RELOAD_POLL_EXTERNAL
    Endpoint        \* upstreams the endpoint of a card may lead to

ASSUME HealthConstants ==
    /\ "loop" \in Caller /\ Polls \in BOOLEAN
    /\ Client # {} /\ Host # {} /\ Endpoint \subseteq Host

VARIABLES
    card,       \* the server in the database: enabled, its configuration, its endpoint
    up,         \* the upstreams that answer
    status,     \* server_health_status[path]
    check,      \* [Caller -> the health check: the loop's, or an immediate one]
    view,       \* what a page that shows the status has read of the card
    handler,    \* what the handler that changed the card still has to do
    dirty,      \* NginxReloadScheduler._dirty
    flush,      \* the flush: whether it runs, the enabled servers it has read
    route       \* the upstreams nginx routes the path to, one or none

\* The events that MaxEvents bounds are, beside those of the token: changes of
\* the card, outages, immediate checks, and pages shown.

token == <<cache, held, call, drops, minted, lost>>
world == <<card, up>>
gateway == <<dirty, flush, route>>
rest == <<view, handler>>
vars == <<oauth, world, gateway, rest, status, check>>

-----------------------------------------------------------------------------

Status == {"unknown", "disabled", "checking", "healthy", "unhealthy"}
IsHealthy(s) == s = "healthy"

\* Where a check of a card sends its probe, and the token: to the mcp_endpoint (or
\* sse_endpoint) the card may name, else to the upstream of its proxy_pass_url.
Destination(server) ==
    IF server.endpoint = Nothing THEN server.config.host ELSE server.endpoint

CheckPc == {"idle", "read", "bearer", "probe", "answered", "report"}
\* prev: the status when the check began; marks: the handler that asked for the
\* check marks the nginx configuration dirty when it has ended.
Check == [pc : CheckPc, config : Config \cup {Nothing}, endpoint : Endpoint \cup {Nothing},
          prev : Status, result : Status, marks : BOOLEAN]
IdleCheck == [pc |-> "idle", config |-> Nothing, endpoint |-> Nothing,
              prev |-> "unknown", result |-> "unknown", marks |-> FALSE]

\* What a check has read of the card.
CheckOfCard == [IdleCheck EXCEPT !.config = card.config, !.endpoint = card.endpoint]

Init ==
    /\ OAuthInit
    /\ card = [enabled |-> TRUE, config |-> CHOOSE config \in Config : TRUE,
               endpoint |-> Nothing]
    /\ up = Host /\ status = "unknown"
    /\ check = [c \in Caller |-> IdleCheck]
    /\ view = "none" /\ handler = "none"
    /\ dirty = FALSE /\ flush = [runs |-> FALSE, hosts |-> {}] /\ route = {}

-----------------------------------------------------------------------------
(* The card and the upstream *)

\* Mutant: an edit writes back a card it has read without its credentials.
Edited_NoCredentials(new) ==
    /\ Event
    /\ card' = [new EXCEPT !.config.client = Nothing]
    /\ UNCHANGED <<up, token, gateway, view, status, check>>

\* The card is written whole.
Edited(new) ==
    /\ Event
    /\ card' = new
    /\ UNCHANGED <<up, token, gateway, view, status, check>>

\* A handler of this process, or of another replica, whose handler does nothing
\* here, switches the server on or off. What was just enabled is checked.
ToggleServer ==
    /\ handler = "none"
    /\ Edited([card EXCEPT !.enabled = ~@])
    /\ handler' \in {"none", IF card.enabled THEN "mark" ELSE "check"}

\* ... or registers another upstream, or another endpoint or none, for it; a form that
\* changes both is two such edits.
EditServer ==
    /\ handler = "none"
    /\ \/ \E h \in Host \ {card.config.host} : Edited([card EXCEPT !.config.host = h])
       \/ \E p \in (Endpoint \cup {Nothing}) \ {card.endpoint} :
             Edited([card EXCEPT !.endpoint = p])
    /\ handler' \in {"none", "mark"}

\* PUT /oauth-config stores a credential, be it the same again.
PutConfig ==
    /\ handler = "none" /\ drops < MaxDrops
    /\ \E k \in Client :
         Edited([card EXCEPT !.config.client = k])
    /\ handler' \in {"none", "invalidate"}

\* ... and drops the token in this process; an edit marks the nginx configuration.
HandlerEnds ==
    /\ \/ handler = "mark" /\ dirty' = TRUE /\ UNCHANGED oauth
       \/ handler = "invalidate" /\ Invalidate /\ UNCHANGED dirty
    /\ handler' = "none"
    /\ UNCHANGED <<world, flush, route, view, status, check>>

\* A refresh of the enabled server, or a task that checks it after it was
\* registered or switched to another version.
AskForCheck ==
    /\ handler = "none" /\ card.enabled /\ Event
    /\ handler' = "check"
    /\ UNCHANGED <<token, world, gateway, view, status, check>>

Outage ==
    /\ Event
    /\ \E h \in Host : up' = IF h \in up THEN up \ {h} ELSE up \cup {h}
    /\ UNCHANGED <<card, token, gateway, rest, status, check>>

TokenExpires == Expire /\ UNCHANGED <<world, gateway, rest, status, check>>

-----------------------------------------------------------------------------
(* Health checks *)

\* A step of with_bearer; when it returns, the check goes on to the probe before
\* anything else runs, an immediate one by announcing it.
Resolving(c, state) ==
    LET resolved == call'[c].pc = "done"
        announces == resolved /\ c # "loop"
    IN  /\ check' = [check EXCEPT ![c] =
                       [state EXCEPT !.pc = IF resolved THEN "probe" ELSE "bearer",
                                     !.prev = IF announces THEN status ELSE @]]
        /\ status' = IF announces THEN "checking" ELSE status

\* _perform_health_checks lists the enabled servers and reads their cards ...
LoopReads ==
    /\ check["loop"].pc = "idle" /\ card.enabled
    /\ check' = [check EXCEPT !["loop"] = [CheckOfCard EXCEPT !.pc = "read"]]
    /\ UNCHANGED <<oauth, world, gateway, rest, status>>

\* ... and checks them in batches: _check_single_service.
LoopStarts ==
    /\ check["loop"].pc = "read"
    /\ Ask("loop", check["loop"].config)
    /\ Resolving("loop", [check["loop"] EXCEPT !.prev = status])
    /\ UNCHANGED <<world, gateway, rest>>

\* perform_immediate_health_check, called by a handler that marks the nginx
\* configuration dirty afterwards, or as a task nobody waits for.
ImmediateStarts(c, marks) ==
    /\ c # "loop" /\ check[c].pc = "idle"
    /\ handler = "check" /\ handler' = "none"
    /\ Ask(c, card.config)
    /\ Resolving(c, [CheckOfCard EXCEPT !.marks = marks])
    /\ UNCHANGED <<world, gateway, view>>

Resolve(c) ==
    /\ check[c].pc = "bearer"
    /\ TakeLock(c) \/ MintSucceeds(c) \/ MintFails(c)
    /\ Resolving(c, check[c])
    /\ UNCHANGED <<world, gateway, rest>>

\* Where the probe was sent, it is answered or not. Who refuses the token, or is sent
\* none, is asked again without, and any answer counts (_try_ping_without_auth).
Answer(c) ==
    LET result == IF Destination(check[c]) \in up THEN "healthy" ELSE "unhealthy" IN
    /\ check[c].pc = "probe"
    /\ check' = [check EXCEPT ![c] = [IdleCheck EXCEPT !.pc = "answered", !.result = result,
                                       !.prev = check[c].prev, !.marks = check[c].marks]]
    /\ Used(c)
    /\ UNCHANGED <<world, gateway, rest, status>>

\* The result is stored. The loop reports a change at the end of its cycle, an
\* immediate check marks the configuration at once if the status is not the one
\* it began with.
Finish(c) ==
    LET changed == check[c].result # check[c].prev
        later == IF c = "loop" THEN changed ELSE check[c].marks
    IN
    /\ check[c].pc = "answered"
    /\ status' = check[c].result
    /\ check' = [check EXCEPT ![c] = [IdleCheck EXCEPT !.pc = IF later THEN "report" ELSE @]]
    /\ dirty' = (dirty \/ (c # "loop" /\ changed))
    /\ UNCHANGED <<oauth, world, flush, route, rest>>

\* The loop broadcasts, which may fail, then marks the configuration dirty; so
\* does the handler that asked for an immediate check.
Report(c) ==
    /\ check[c].pc = "report"
    /\ dirty' \in IF c = "loop" THEN {TRUE, dirty} ELSE {TRUE}
    /\ check' = [check EXCEPT ![c] = IdleCheck]
    /\ UNCHANGED <<oauth, world, flush, route, rest, status>>

-----------------------------------------------------------------------------
(* Pages that show the status, and the nginx configuration *)

\* A page reads the servers ...
Look ==
    /\ view = "none" /\ Event
    /\ view' = IF card.enabled THEN "on" ELSE "off"
    /\ UNCHANGED <<token, world, gateway, handler, status, check>>

\* ... and _get_service_health_data_fast writes the status it shows.
Show ==
    /\ view # "none" /\ view' = "none"
    /\ status' = CASE view = "off" -> "disabled"
                   [] view = "on" /\ status = "disabled" -> "checking"
                   [] OTHER -> status
    /\ UNCHANGED <<oauth, world, gateway, handler, check>>

FlushReads ==
    /\ ~flush.runs /\ (dirty \/ Polls)
    /\ dirty' = FALSE
    /\ flush' = [runs |-> TRUE, hosts |-> IF card.enabled THEN {card.config.host} ELSE {}]
    /\ UNCHANGED <<oauth, world, route, rest, status, check>>

\* The location block is a comment unless the server is healthy.
FlushApplies ==
    /\ flush.runs
    /\ route' = IF IsHealthy(status) THEN flush.hosts ELSE {}
    /\ flush' = [runs |-> FALSE, hosts |-> {}]
    /\ UNCHANGED <<oauth, world, dirty, rest, status, check>>

-----------------------------------------------------------------------------

Next ==
    \/ ToggleServer \/ EditServer \/ PutConfig \/ AskForCheck \/ HandlerEnds
    \/ Outage \/ TokenExpires \/ LoopReads \/ LoopStarts
    \/ \E c \in Caller :
         \/ \E marks \in BOOLEAN : ImmediateStarts(c, marks)
         \/ Resolve(c) \/ Answer(c) \/ Finish(c) \/ Report(c)
    \/ Look \/ Show
    \/ FlushReads \/ FlushApplies

Spec == Init /\ [][Next]_vars

\* The process runs what it has begun, upstreams and token endpoint answer or
\* time out, the loop comes round, and so does the scheduler of the flushes.
FairSpec ==
    /\ Spec
    /\ WF_vars(HandlerEnds) /\ WF_vars(LoopReads) /\ WF_vars(LoopStarts)
    /\ WF_vars(FlushReads) /\ WF_vars(FlushApplies)
    /\ \A c \in Caller : WF_vars(Resolve(c)) /\ WF_vars(Answer(c))
                         /\ WF_vars(Finish(c)) /\ WF_vars(Report(c))

-----------------------------------------------------------------------------

TypeOK ==
    /\ OAuthTypeOK
    /\ card \in [enabled : BOOLEAN, config : Config, endpoint : Endpoint \cup {Nothing}]
    /\ up \subseteq Host
    /\ status \in Status /\ check \in [Caller -> Check]
    /\ view \in {"none", "on", "off"} /\ handler \in {"none", "mark", "invalidate", "check"}
    /\ dirty \in BOOLEAN /\ flush \in [runs : BOOLEAN, hosts : SUBSET Host]
    /\ route \subseteq Host

\* The token a check sends was minted with the credential, and for the
\* proxy_pass_url, of the card the check has read, however late it sends it and
\* whatever was edited, cached, stored or invalidated since; and it is sent there
\* unless that card names an endpoint of its own. Only proxy_pass_url is in the
\* fingerprint (_fingerprint): where mcp_endpoint leads elsewhere, the token goes
\* elsewhere with it, and a token minted before the endpoint was repointed still
\* does afterwards.
BearerForItsCard ==
    \A c \in Caller :
        (check[c].pc = "probe" /\ call[c].bearer # Nothing) =>
            /\ call[c].bearer = check[c].config
            /\ check[c].endpoint = Nothing => Destination(check[c]) = call[c].bearer.host

\* When the card and the upstreams change no more, and administrators ask for no
\* more checks, nginx routes to the upstream of proxy_pass_url if the server is
\* enabled and answers where it is probed, and nowhere else: whatever late results,
\* failed mints, stale pages, "checking" in the middle of a flush or lost marks came
\* before, no call waits for a lock that is never released, and no status stays that
\* no check found.
RouteSettles ==
    <>[](route = IF card.enabled /\ Destination(card) \in up
                 THEN {card.config.host} ELSE {})
=============================================================================
