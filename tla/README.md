# Verification of the MCP gateway registry

TLA+ models of the concurrent and failure-prone parts of the registry
(`registry/`), the TLC runs that check them on small instances, and theorems
about them checked by TLAPS. Every definition is translated from the code;
`PROJECT.json` maps each to its lines. Paths below are relative to the
repository.

## The system

The registry is a FastAPI service that several replicas run side by side over
one MongoDB/DocumentDB. A gateway nginx lives in each registry container and
routes MCP traffic to the registered servers; an authentication server answers
its subrequests. Replicas share no memory: they meet in the database, in the
secret store and at third parties (OAuth providers, peer registries). Inside a
replica, asyncio tasks interleave at every `await`.

| Component | State | Operations | Talks to | What is hard |
|---|---|---|---|---|
| Agent batch API (`services/agent_batch_*`, `repositories/documentdb/agent_batch_job_repository.py`) | job documents, one loop and one heartbeat per replica | submit, claim, process item, record, renew, finalize, start, stop | MongoDB | leases, takeover, crash between effect and record, lost replies, check-then-insert |
| nginx configuration and reload (`core/nginx_service.py`, `main.py`, `docker/registry-entrypoint.sh`) | dirty flag, last hash, live config and backup, mapping files, running nginx | mark_dirty, flush_now, flush loop, render, write-validate-restore, reload, startup | database, nginx, entrypoint | changes during a flush, failures half-way, stale hash, restart with a candidate on trial |
| Egress credential vault (`egress_auth/`, `egress_operational_repository.py`) | one token per user, server and purpose; refresh lease; nonces | vend, refresh, callback, disconnect | secret store, OAuth provider, MongoDB | rotating refresh tokens, lease expiry, lost replies, overwrites |
| Secrets Manager store (`secrets/secrets_manager/store.py`) | root manifest, shards by generation, mutation lease | put, get, delete, list, migrate, repair | AWS, MongoDB | crash between shard and root writes, readers of an old generation, a lease lost under its holder |
| Agent batch item processor | agents, search index | register, update, delete | agent service | repeated execution after a crash |
| Rate limiter (`rate_limiting/`, `api/rate_limit_routes.py`) | window counters, definitions, memberships, quarantine; their caches in each replica of the authentication server | check, put and delete of definitions and memberships, quarantine, switches | MongoDB | races at the limit, several gates per request, stale caches, fail-open and fail-closed |
| Peer federation (`services/peer_federation_service.py`, scheduler) | peers, sync status in memory and in the database, synced items, overrides | sync, schedule, orphan handling, override, remove | peer registries | failed fetch, overlapping syncs, restart during a sync, overrides |
| External reconciliation (`services/federation_reconciliation.py`) | servers, agents, skills of a source | reconcile | external registries | what counts as stale |
| Health monitoring (`health/service.py`) | status map, check times, WebSocket connections | periodic check, immediate check, status pages, broadcast | servers, backend OAuth, nginx scheduler | late results after a toggle, one status written by checks and pages, read by flushes |
| Backend OAuth cache (`core/backend_oauth.py`) | a token and a lock per server path | resolve, invalidate | token endpoints | single flight, expiry, a lock dropped under its holder, a token bound to its upstream |
| Server catalog (`services/server_service.py`, `repositories/documentdb/server_repository.py`, `api/server_routes.py`) | an active document per server, one per inactive version, tool overrides, `updated_at` | register, replace, patch, toggle, decide about a tool, rescan, switch and remove versions, delete | database, search, nginx | cards read and written later, conditional edits, swaps in several calls |
| Agents, virtual servers, skills, scopes | documents | CRUD | database, search, nginx | ordering of database, index and nginx |
| Backend sessions and Lua router | client and backend sessions | create, look up, expire | backends | concurrent initialisation |
| Sessions, replay store, admin safety | documents | create, validate, check last admin | database | check-then-act |
| Audit, telemetry, update check, metrics service | logs, locks, counters | append, send | external | cross-replica lock |
| Frontend, CLI, charts, terraform | | | | no protocol of the registry |

What makes each of the modelled components correct:

* **Batch jobs.** A job is run by one worker at a time; each item has one result,
  in order; nothing is lost when workers die; a finished job is final and its
  verdict is the one its results deserve; one job per idempotency key; every job
  ends.
* **nginx.** No change of the database is forgotten; the remembered hash is of
  what nginx runs; the file on disk is one nginx boots from, unless the backup of a
  rejected one cannot be moved back; nginx converges.
* **Vault entry.** A rotated refresh token is never presented again; an entry is
  marked dead only if it is; the vault holds the newest token; a dead replica
  does not stop the refresh; a disconnect lasts.
* **Secret store.** The root always leads to a whole generation of shards; one
  mutation at a time; readers and writers see a map from keys to tokens; what is
  encrypted stays encrypted.
* **Rate limits.** No window lets more through than its limit, whichever replicas
  the calls come to; nobody gets past a limit uncounted while nothing fails; what a
  short window denies is not charged to a long one; a quarantine holds one cache
  lifetime after it was imposed.
* **Server catalog.** No version is lost or comes back, and what administrators have
  decided stands, beside requests that write single fields or test `updated_at`; a
  conditional edit replaces what its handler has read, and what its client has seen
  up to the millisecond of the ETag.
* **Peer federation.** Only what a peer stopped exporting is marked as orphaned;
  a local override keeps the item as it is; the generation does not go back; the
  items end up as the peer has them.
* **Backend OAuth.** A caller gets a token minted with the credential and for the
  `proxy_pass_url` of the card it has read, and sends it there unless that card names
  an endpoint of its own; callers at the same time do not stampede the token endpoint;
  a failing endpoint leaves nobody waiting.
* **Health.** Whatever late results, failed tokens, stale pages and flushes in the
  middle of a check have done, the route comes to be what the card and the upstreams
  say.

`PROJECT.json` lists the hazards behind these at their lines, those of the
components not modelled yet included.

## Modules

| Module | Models | Uses |
|---|---|---|
| `BatchLifecycle` | what the batch API promises a caller: open, one outcome per item, one final verdict | |
| `AgentBatch` | submission handlers, job documents, worker loops, heartbeats, failing calls, deaths, lapsing leases | `INSTANCE BatchLifecycle` |
| `MCAgentBatch` | instances for TLC | `AgentBatch` |
| `AgentBatchProofs` | the theorems | `AgentBatch`, `FiniteSetTheorems`, `TLAPS` |
| `NginxReload` | handlers, flush loop, the flush step by step, files, nginx, the entrypoint | |
| `MCNginxReload` | instances for TLC | `NginxReload` |
| `NginxReloadProofs` | the theorems | `NginxReload`, `TLAPS` |
| `EgressRefresh` | one vault entry: vends, the lease, callbacks, disconnect, the provider | |
| `MCEgressRefresh` | instances for TLC | `EgressRefresh` |
| `EgressRefreshProofs` | the theorems | `EgressRefresh`, `TLAPS` |
| `CredentialMap` | what a secret store promises: a map, changed once by a successful write, of which a read sees one moment | |
| `SecretsManagerStore` | one principal's document: guarded mutations, generations of shards, readers with retries, repairs | `INSTANCE CredentialMap` |
| `MCSecretsManagerStore` | instances for TLC | `SecretsManagerStore` |
| `SecretsManagerStoreProofs` | the theorems | `SecretsManagerStore`, `FiniteSetTheorems`, `WellFoundedInduction`, `TLAPS` |
| `RateLimiter` | checks gate by gate, counters, cached lookups, administrators' changes | |
| `MCRateLimiter` | instances for TLC | `RateLimiter` |
| `RateLimiterProofs` | the theorems | `RateLimiter`, `FiniteSetTheorems`, `WellFoundedInduction`, `TLAPS` |
| `ServerCatalog` | one server with its versions, and requests that read and write it call by call | |
| `MCServerCatalog` | instances for TLC | `ServerCatalog` |
| `ServerCatalogProofs` | the theorems | `ServerCatalog`, `TLAPS` |
| `PeerSync` | one peer: syncs item by item, status, orphans, overrides, scheduler, restart | |
| `MCPeerSync` | instances for TLC | `PeerSync` |
| `PeerSyncProofs` | the theorems | `PeerSync`, `TLAPS` |
| `BackendOAuth` | the registry's own token for one server path: cache, lock, callers, invalidation | |
| `HealthMonitor` | checks of one server that call with that token, the status, the handlers, pages and flushes around it | composes `BackendOAuth` (EXTENDS) |
| `MCHealthMonitor` | instances for TLC | `HealthMonitor` |
| `HealthMonitorProofs` | the theorems about both | `HealthMonitor`, `TLAPS` |

### AgentBatch

One step per MongoDB call. `sub[j]` follows `AgentBatchService.submit` through
its three calls; `job[j]` is the document; `worker[w]` is the loop of a replica
with its local variables (`job`, `idx`, the outcome not yet recorded, the
verdict not yet written, `_lease_lost`) and its heartbeat task. The filters are
the code's: claiming tests state and expiry, renewing tests state and owner,
recording and finalizing test the job id alone. `Claim` takes the oldest
claimable job by `arrival`, the order of `submitted_at`. Faults: a call raises
before its effect (`DatabaseCallRaises`, `HeartbeatRaises`), or `record_item_result`
after it (`RecordReplyLost`). `Die` is a crash or `stop()`.

Time is one bit, whether a running job's lease has lapsed. The configuration
says the TTL must exceed the time between renewals; a lease that lapses under
the worker that runs the job all the same is an *overrun*, counted and bounded
by `MaxOverruns`. Properties that need the timing are checked and proved with
`MaxOverruns = 0`, the others without. The limit of active jobs per user is
tested as in the code, before the insertion; that concurrent submissions can
all pass the test follows from the model and no property is about it.

### NginxReload

The rendered text is the set of routes in it; the tool mappings of virtual
servers, which go to files of their own, are a version number. `flush` is the
holder of `_flush_lock` with the step it is at, so that handlers change the
database between any two reads and writes of the flush; `Boot` is the startup
code, which runs the same steps without the hash test and ignores failures.
`Promote`, `Test` and `Restore` are `_write_and_validate_config`: backup and rename,
`nginx -t`, and the move of the backup over a rejected candidate, which may itself
fail (`nginx_service.py:639-640`, `662-669`). Then the rejected file stays live, which the
history field `spoiled` marks until the next candidate is accepted; the next flush backs
it up as the last good one. `StartNginx` is the entrypoint's polling for a config without
placeholders; `Restart` its copying of the template. `Faulty(kind)` lets one
call of a kind fail; a run enables kinds. Two kinds are inside the rendering:
`render` (the database or template cannot be read: the flush gives up and has
cleared the flag) and `section` (the generators of the virtual server and agent
blocks swallow the exception and leave the section empty). With
`NGINX_RELOAD_POLL_EXTERNAL` off either loses the change until the next one, so
`nginx_faults` leaves both out; `nginx_restart`, with polling on, has both and converges. That a flush within
the minimum interval is declined is in the model; no property is about it. A
route is in the rendered text when its server is enabled: health, and with it
the other conditions of a location block, is abstracted, and the virtual server
and agent sections are one. Not modelled: registry-only mode, a
missing nginx binary, the last flush of a graceful `stop()`, the cache of
server names.

### EgressRefresh

One vault entry and its lease. A token is the consent it stems from, its
generation, whether it is near expiry and whether it is marked failed. `grant`
is the provider's side: a rotating provider accepts a grant's newest refresh
token once. Vends follow `get_valid_token` and `_refresh_single_flight` through
first read, acquire, second read, provider call, write, release; the holder id
is the process, so two vends of one process share it, as in the code. `lost` and
`connected` are history variables: the grants of which a rotated token was never
stored, and the user's last say. Not modelled: PAT entries, the bindings that
refuse a vend after reconfiguration, providers that do not rotate (for which a
refresh token presented twice is harmless), the in-process fallback used when
MongoDB is unavailable.

### SecretsManagerStore and CredentialMap

`op[m]` follows a mutation (`put_token`, `delete_token`, or the repair a read
schedules) through `_mutation_guard`, `_mutate` and `_commit_entries`: process
lock, lease, root, layout, shards in parallel, read-back, commit, verification,
removal of the old generation, release. `read[r]` is `get_token` or
`list_for_user` with its bounded retries. Sizes are counted in entries, and a
generation is named by the mutation that wrote it. Every call may fail, before or
after its effect where that differs; the write of the root is the commit. A
process dies with all its calls, a lease lapses when its holder is dead or, as an
*overrun*, under a holder at work.

`CredentialMap` is what callers are promised, with the entries as one map.
`ImplementsMap` is the refinement: `map` is what a reader finds under the root now
(`StoredCell`), `write` and `read` are read off the control states. It is claimed
until a lease lapses under a mutation at work; `RootReadable` has no such
condition. Not modelled: the client's own retries. That no number of shards can
hold an entry (`FittingCounts` empty, the mutation aborts) is in the module; no
instance reaches it.

### RateLimiter

`request[r]` follows `RateLimiter.check` through its lookups and gates in the order
of the code: target quarantine, caller memberships, caller quarantine, the three
kinds of definitions, then one conditional increment per gate, the shortest window
first. The repositories' caches are per replica, by query, with their lifetime;
`incr_if_allowed` is its update and, when no counter matches, its insert, whose
duplicate key means that someone else came first. Lookups and increments may
fail; the answer is then the one the code's settings give. Administrators change
definitions, memberships and switches call by call. Time moves in ticks longer
than one database call. Not modelled: validation of definitions, metrics, the TTL
deletion of past windows, clocks that differ between replicas.

### ServerCatalog

One server: `active` is the document under its path, `inactive[v]` the one under
`path:v`. A slot is a request in flight at the point it has reached, with the
documents it has read; each step is one repository call. `rev` stands for
`updated_at`, which conditional edits compare; `text` stands for all descriptive
metadata. An ETag has only the millisecond of it (`Millisecond`); that no two writes
get the same microsecond is assumed. `promised` and `decided` are history: the versions,
and the decisions about the server and its tools, that the answers so far have established.
`disturbed` notes which kinds of requests overlapped or failed; a property
excludes the kinds that write whole documents without a condition, which do
overwrite each other in this code (`WholeCard`). Two of these no client asks for:

* `fetch`, the tool fetch that follows a health check of the loop or of a toggle
  (`_update_tools_background`, `health/service.py:1289` and `1341`), reads the card, asks
  the server for its tools, and writes the card back;
* registering a server, or giving it another `proxy_pass_url` with PUT or PATCH, starts a
  scan once it has been answered (`server_routes.py:7243`, `7437`). A job's `scan` is its
  verdict. If the server is unsafe and carries no tag yet, `Mark` writes the card the
  request had, tag included (`server_routes.py:686-693`), before the overrides are
  reconciled. The scan of a new version tags the active path with the card of the version
  (`VersionCard`), which is noted in `disturbed`.

Scans are modelled with what the settings can add to them switched on: unsafe servers are
blocked, a scan that fails blocks. Every other writer of a whole card does what `put` without
`If-Match` does: the edit form, the refresh, the overwriting registration, group and rating
changes, the federation's store (`server_routes.py:3045`, `3423`, `2255`, `4714`).

At first the server is as requests leave it
(`WellStored`). Not modelled: groups, ratings, OAuth
configuration, the search index, path variants; the effect of a change on nginx is
a handler of `NginxReload`.

### PeerSync

`sync[s]` follows `sync_peer` for the scheduler and for each sync an administrator
asks for: status in progress, one fetch that blocks the event loop, the items in
any order (read, then write, skipping overrides), detection of what the fetch did
not have, marking (read, then write), the final status. `edit` is
`set_local_override`, a read and a write. `status` is the object in memory all
syncs share, `stored` the document. A server and an agent are treated alike and
are an *item*; its contents are two values. `gone`, `kept` and `overlap` are
history. A page is assumed to hold every item (see below). Not modelled: adding,
changing and removing peers, filters, security scans, authentication.

### BackendOAuth and HealthMonitor

`call[c]` follows `resolve_bearer`: up to its first await (`Ask`: the fast path, or
the lock of the path), the lock and the second look (`TakeLock`), the answer of the
token endpoint (`MintSucceeds`, `MintFails`). What runs between two awaits is one
action. A token is known by what it was minted for, a configuration of credential and
upstream of `proxy_pass_url`, which is what the fingerprint hashes; whether it is fresh is
one bit. A
lock is named by the number of invalidations before it, for `invalidate` removes the
lock from the dictionary while it may be held. `minted` and `lost` are history.

`HealthMonitor` EXTENDS it: a check is a caller, and every step of a token is taken
together with the check it belongs to (`Resolving`). `check["loop"]` is the server's
part in a cycle of `_perform_health_checks` (card read, then checked in batches, then
broadcast and mark); the others are `perform_immediate_health_check`, called by a
handler that marks the nginx configuration afterwards, or as a task. `status` is
`server_health_status[path]`, which checks write, pages write when they show it
(`Look`, `Show`: the read of the servers, then the write), and flushes read
(`FlushReads`, `FlushApplies`: the enabled servers, then the status and the reload;
`NginxReload` has what is between). `card` is the record in the database, which
handlers of this process or of another replica write. It may name an `endpoint`
(`mcp_endpoint`, `sse_endpoint`): the probe goes there first (`Destination`,
`core/endpoint_utils.py:77-80`, `health/service.py:958-977`), while the fingerprint and the
route know `proxy_pass_url` only. An upstream answers or does not;
when it refuses a token, or is sent none, the code asks again without one and takes
the refusal as a sign of life, so a failed token does not make a server unhealthy.
Not modelled: the borrowed identities of discovery, incomplete OAuth configurations,
WebSocket connections and broadcasts, local servers, the transports of the probe. The tool
fetch after a check is in `ServerCatalog`.

## Runs

| Run | Instance | Shows |
|---|---|---|
| `batch_healthy` | 2 workers, 2 jobs of 1 and 2 items, a crash, 2 failed calls, no overrun, fair | types, one runner, exactly-once, implements `BatchLifecycle`; a re-execution costs a crash or fault; every job ends |
| `batch_slow` | 2 symmetric workers, a submission of 2 items and its retry, a crash, a failed call, 2 overruns | nothing skipped, one job per key |
| `nginx_faults` | 2 handlers, a server and a virtual server that nginx rejects, 3 changes, 2 faults outside the rendering | nothing forgotten, hash right, config bootable unless a restore fails |
| `nginx_restart` | one handler, another replica, a restart, a fault of any kind, polling, fair | convergence |
| `egress_vends` | 2 vends of one replica, 1 of another, a callback delivered twice, a consent without refresh token, an expiry, a disconnect, a crash, a fault, fair | no replay, no false death, vault in sync, refresh not blocked |
| `secrets_map` | 2 writers on 2 replicas, a reader, 2 entries of which one is still plaintext, shards of one entry, a fault, a crash, an overrun | the root leads to a whole generation, the lease excludes, implements `CredentialMap`, no plaintext comes back |
| `rate_limits` | 2 requests of one caller on 2 replicas under limits of every axis and two windows, one change of an administrator, a fault, 2 ticks | limits, counting, order of windows, quarantine |
| `servers` | any 3 requests of 11 kinds, 2 at a time, tool fetches and scans of edits and registrations among them, about a server with 2 versions and a tool, two writes per millisecond, a fault or crash | versions, decisions, conditional edits |
| `federation` | 1 item, the scheduler and an administrator's sync, 2 changes, an override, a fault, a restart, fair | orphans, overrides, the syncs bring the item up to date |
| `health_checks` | the loop and one immediate check, 1 credential, 2 upstreams of which an endpoint may name one, an invalidation, 3 events (toggle, move, endpoint, outage, refresh, page, expiry, refused token), polling, fair | tokens are those of the card, no stampede, the route settles |

The bounds suffice for the cases that matter: two workers are a holder and a
taker-over; two items tell the first from a later one, and an item recorded from
one not; one crash and one fault occur at every step and in both orders; three
changes put one before, one during and one after a flush; two vends of a replica
and one of another are every relation two vends have to a lease. Two writers and
a reader are a mutation, the one that comes after it or into it, and a reader
between the two; two entries in shards of one make a document that has a manifest
or not. Two requests race for the first and for the last place of a window, and
two ticks let a cache expire and a window end. Two requests to the catalogue
overlap and a third finds what they left; with two writes to a millisecond, one that
follows what a client has seen shares its ETag or not. An endpoint leads to the upstream
of `proxy_pass_url` or to the other. Two changes of a peer let an item go and
come back; what two items would add, one at fault in a sync that stores the other,
is in the theorems, which are about any set of items. Two checks are one that holds the token's lock and one
that waits for it, on the old lock or the new; three events are an edit during a
check, and one that undoes it or gets in its way. The counters bound events of the environment only (crashes, faults,
expiries, changes, requests) and never disable a step of the code.

Deadlock is not checked where the system may come to rest: all calls answered and
all bounds used (`secrets_map`, `rate_limits`, `servers`), or a peer whose status
is stuck in progress (`federation`).

Runs that find a statement of the repository violated:

| Run | Statement | What happens |
|---|---|---|
| `egress_disconnect` | the entry is deleted | a refresh in flight writes it back |
| `server_rescan` | decisions of administrators always win | a rescan replaces all overrides by what it computed before the decision |

### Where code and texts part

Other disagreements met while modelling. Each is a behaviour of the model; the
properties are stated so as to hold beside it.

* A batch worker that lost its lease finalizes all the same if it gets there before
  its next heartbeat (`agent_batch_worker.py`). The batch properties that need
  exclusion are stated without overruns.
* Tool mapping files of virtual servers are written only when the rendered text
  changes, though a change of the mappings alone does not change it
  (`nginx_service.py`); `virtual_server_service.py` expects them regenerated.
  `HashIsApplied` is about the text only.
* A section generator of the nginx rendering that cannot read the database leaves
  its section empty; the config without those routes is loaded and hashed.
* A rejected nginx config whose backup cannot be moved back stays live
  (`nginx_service.py:662-669`), though the function's text (`575-576`) says that any error leaves
  the last-good config in place. nginx itself goes on with what it runs, but a start of the
  container's nginx would meet the file, and if the change is taken back the flush finds
  the hash unchanged and leaves the file until the next one. `ColdStartable` excludes it.
* After a start the last-good config nginx would be restored to is the template.
* A provider's reply that was lost rotates the token: the retry presents the old
  one and the entry is marked failed. `FailedOnlyIfDead` counts such a grant as lost.
* `RATE_LIMIT_QUARANTINE_FAIL_CLOSED` has no effect when the membership of the
  caller cannot be read: the exception leaves `check`, and the authentication server
  allows the call (`docs/faq/quarantine-a-caller-or-target.md:104`,
  `docs/unified-parameter-reference.md:924` say otherwise). `QuarantineHolds` is
  about checks in which no call failed.
* A server in two server groups limited over the same window is counted twice in one
  counter, where `rate_limiting/models.py` says each has its own.
* Two first requests of a window race to insert its counter; the loser is throttled,
  below the limit. `WithinLimit` only says "not more".
* `update_field` does not change `updated_at` (`server_repository.py`), which
  `_etag_utils.py` relies on to change with every mutation. What it removes, a stored
  credential, is not in what `NoLostEdit` compares.
* The tool fetch and the tag of an unsafe scan write back whole cards read earlier: a
  toggle, a tool decision or a new version accepted in between is lost, with nothing
  asked of the client but a health check or a new URL. `VersionsKept` and
  `DecisionsStand` exclude what overlaps such a request.
* The scan of a new version that tags it replaces the active card of the server by the
  one of the version (`server_routes.py:4743`, `2333`, then `686-693`).
* An ETag has milliseconds (`_etag_utils.py:37-39`), `updated_at` microseconds: a write
  within the millisecond of the one a client has seen goes unnoticed, and a conditional
  edit replaces it unseen, where `_etag_utils.py` relies on a change of `updated_at` with
  every mutation. `NoLostEdit` says exactly that; what the handler has read
  is compared in full by the filter of the write.
* An override of an administrator for one tool keeps a server enabled that a scan
  finds unsafe (`AfterReconcile`).
* A restart during a sync leaves `sync_in_progress` in the database, and the scheduler
  skips the peer from then on, though `peer_sync_scheduler.py` and the guide say that
  the interval decides. This is `Stuck` in `Mirrors`.
* Only the first page of a peer's export is fetched; what lies beyond would be marked
  as orphaned. The model assumes that one page is enough.
* Deleting a peer deletes its items; the documentation says they become orphans.
* A local override set while a sync has the item in hand is lost. `OverrideHolds` is
  about the others.
* The fingerprint binds a cached token to the host of `proxy_pass_url`
  (`backend_oauth.py:234-236`), so that no edit "ships the token minted for the old host to
  the new one". A card may name its endpoint apart, and the probe goes there: when
  `mcp_endpoint` is repointed, the token that was minted before goes to the new host.
  `BearerForItsCard` promises no more than the code binds.
* `resolve_bearer` says that without a token "the health check then fails/records
  unhealthy, which is the correct signal" (`core/backend_oauth.py`). The check asks
  again without credentials (`_try_ping_without_auth`) and takes 400, 401 and 403 for
  healthy, so the server is recorded as healthy and routed (`Answer`).
* An immediate check marks the nginx configuration only when its status is not the one
  it began with. A flush in between meets "checking" and drops the route, and if the
  check ends where it began nothing brings it back but the polling of
  `NGINX_RELOAD_POLL_EXTERNAL`, or the handler's own mark. `RouteSettles` is checked with
  polling on, the default.

## Fairness

* `AgentBatch`: weak fairness of each called submission, each loop's steps and
  the passing of a lease's time. asyncio schedules every ready task; a dead
  process need not come back (`Start` is not fair). The run leaves one worker
  alive.
* `NginxReload`: weak fairness of the steps of the flush, of handlers and of the
  entrypoint's polling; strong fairness of getting the flush lock (`asyncio.Lock`
  is first come, first served) and of the minimum interval's end. Changes and
  faults are not fair.
* `PeerSync`: weak fairness of what the process has begun (each sync, an override's
  write), of the scheduler's beginning a sync when it finds one due, for it looks
  every minute, and of the passing of the interval. Nobody has to ask for a sync, and
  changes, faults and restarts are not fair.
* `HealthMonitor`: weak fairness of what the process has begun (a check's steps, a
  handler's end), of the loop's next cycle and of the flushes. asyncio schedules every
  ready task, a lock is first come first served, and every request to an upstream or a
  token endpoint has a timeout. Handlers, pages, outages, expiries and immediate checks
  are not fair.
* `SecretsManagerStore`, `RateLimiter` and `ServerCatalog` have safety properties only
  and no fairness.
* `EgressRefresh`: weak fairness of the vends, which includes that somebody keeps
  asking for the token, for the refresh is lazy; weak fairness of the lease's time.

## Theorems

`AgentBatchProofs`, for every number of jobs, items, users and workers and every
bound, from `BatchConstants`:

* `TypeCorrect`: `TypeOK` is inductive by itself.
* `ResumePointerSound`, `NothingSkipped`: "no finished job lacks a result" is not
  inductive. What is: every item below `next_index`, and below the index of each
  running loop, has a result, and a loop leaves its items only at the end
  (`ResumeInv`). Each writer of `next_index` started at one, so takeovers and even
  two workers at once keep it. No timing assumption.
* `CountersSound`: recording adds one result and one count in one update.
* `KeysUnique`: with `SubmitInv`, that a handler that has not inserted has no
  document, the unique index decides.
* Under `MaxOverruns = 0`: `LeaseHeldWhileRunning` (`LeaseInv`: a busy loop owns
  the document, its lease is held, it has not been told otherwise, and its index
  is `next_index`), which is inductive and gives `OneRunner`, `ResultsExactlyOnce`
  and `FinishedIsFinal`.
* Under `MaxOverruns = 0` also `RerunsBounded`: no invariant of one counter alone
  says who pays for a repeated execution. `PaidFor` does: of a job's executions, the
  recorded items, the one in hand and the deaths and failed calls so far account for
  all, so a death moves what was in hand to the bill.
* Under `MaxOverruns = 0` `LifecycleImplemented`: each step of a handler, a worker or
  the lease's time opens, completes or closes one job of `BatchLifecycle`, or leaves
  its mapping alone. A record maps to `Complete` because the loop stands at
  `next_index` (`LeaseInv`), a verdict to `Close` because nothing is skipped
  (`ResumeInv`) and what the worker has read back is still in the document (`RunInv`).
  The abstract fairness is not part of it.

`NginxReloadProofs`, for any routes, handlers and bounds, from `NginxConstants`:

* `TypeCorrect`: `TypeInv` adds that a flush has a text once it has rendered one.
* `GoodStaysGood`: in every step short of a restart the last config nginx accepted is
  kept, in the live file or in the copy beside it (`Trial`: while a candidate is on
  trial the copy is good, or the candidate was never put in place), or the disk is
  `spoiled`: a restore has failed and nothing was accepted since. No run states it;
  `ColdStartable`, with the same exception, follows from it.
* Under `MaxCrashes = 0`: `AlwaysColdStartable` and `HashAlwaysApplied`. A restart
  whose first generation fails leaves the template as it is, so neither holds across
  restarts; that nginx comes round again is `Converges`.
* `NothingForgotten`, under `MaxCrashes = 0`, with `PollExternal` off and no failing
  call inside the rendering: with polling on the property is about other replicas'
  writes too and only eventually true, and the two failures inside the rendering do
  lose the change (see above). The invariant relates what a flush has read so far to
  the database: they agree, or the flag is set again, or a handler is on its way to
  set it.

`RateLimiterProofs`, for any definitions, groups, documents, calls, replicas, changes
and bounds, from `LimiterConstants` and `MembershipConstants` (what the request models
validate: limits of at least one, a target in no group but quarantine, reserved names
that no definition and no caller's document may use: `rate_limiting/models.py`):

* `TypeCorrect`: that an answered request is done, a lookup has a document left to look
  up, and a cached reply has the type of its query, is inductive (`TypeInv`).
* `BurstFirst`: `Spares` says that what has been counted so far is no longer than any
  gate left, the one being inserted included.
* `QuarantineEnforced`: nothing about a request alone is inductive. `QuarantineInv`
  relates four things: since when a document is in quarantine, when each cached reply
  was fetched (`Known`: one that outlives the quarantine by more than a lifetime
  shows it), the groups an administrator is about to write, and which documents a
  request has yet to read (`Screened`).
* `AllCounted`: what no change touches is in every cached reply (`StoreInv`), the
  groups of the documents read so far are collected (`ReadInv`), and each definition
  looked up has its gate, or its counter passed (`GatedInv`).
* `LimitsHold`, where the definitions that share a target's counter have one limit
  (`SeparateTargets`): a counter is at least the number of requests that passed it, and
  a request passes only below its gate's limit, which is no laxer than the lowest in
  force. The condition is needed: the counter of a `server_group` names the server, not
  the group (`limiter.py`, `_build_target_gates`), so that a server in two such groups
  has its calls counted twice in one counter, and TLC finds the lower of two limits
  exceeded as soon as it is dropped. `docs/design/rate-limiting.md:242` has one bucket
  per group.

`SecretsManagerStoreProofs`, for any keys, tokens, layouts, calls, replicas and bounds,
from `StoreConstants` (the keys of a document are finite) and `MissingIsNothing` (the
marker of a missing shard is not data). Failures, deaths and lapsed leases are
unbounded:

* `TypeCorrect`: `TypeInv` adds that a manifest names a mutation and a legal number of
  shards, that what is written is encrypted, and that entries too many for one document
  have a number of shards that holds them.
* `OneMutationAtATime`: `LeaseExcludes` is inductive once types are known. Its condition,
  that no lease has lapsed under a mutation at work, is part of the property.
* `RootAlwaysReadable` needs no lease. `WrittenInv`: any manifest in anyone's hands is
  of a mutation past its commit, which has put all its shards and puts no more.
  `ReadableInv`: while a generation is staged, each shard is there or still to be put
  (`Laid`); and the generation a mutation is about to remove is the root's no more,
  because its own commit replaced that root, and whoever commits after it, with or
  without a lease, brings a generation of its own.
* `NeverDecrypted`, `MapImplemented`: `CurrentInv` adds that, while no lease has lapsed,
  what a mutation at work has read is the root, and what it is about to commit is the
  root's entries with its one change. So a commit maps to `Write`'s effect and changes
  one entry; a repair rewrites an entry with itself, encrypted. The moment a read sees
  is that of its read of the root: the shards under the root it holds may go but never
  change, so what it finds later is that map or nothing, and then it tries again.

`EgressRefreshProofs`, for every set of replicas, vends, callbacks and consents
and every bound, from `EgressConstants`:

* `TypeCorrect`: `TypeOK` is inductive by itself.
* Under `MaxOverruns = 0` (no lease lapses under the vend that refreshes; without
  it the lease does not exclude and none of the three holds): `NoReplay`,
  `NoFalseDeath` and `VaultFollowsProvider`. None is inductive: whether the next
  call presents a rotated token depends on what the vends in flight hold. The
  invariant is `EgressInv`, in four parts. `Exclusive`: the vend at work holds the
  live lease and no other vend is at work, so nobody refreshes between its second
  read and its write. `StoredOnce`: the nonce lets one callback of a consent
  through, and nothing of the consent was stored or refreshed before, so a
  callback never overwrites a newer generation of its own grant. `Generations`:
  the token in the vault, and the one a working vend is about to present, is its
  grant's newest unless a rotated one was lost, or one behind while the write of
  the newest is under way. `Deaths`: what is marked failed, or about to be, the
  provider has refused for good.

`PeerSyncProofs`, for every set of items and of syncs and every bound, from
`PeerSyncConstants`:

* `TypeCorrect`: `TypeOK` is not inductive, for a sync stores what it finds in its
  fetch under the item at hand. `TypeInv` adds that this item is one of those still
  to be done, and that each of those was in the fetch.
* `GenerationNeverBack`: the status in memory is never behind the database
  (`GenerationInv`). Overlapping syncs, failures and restarts included.
* `OnlyTheGoneAreOrphans`, `OverridesStand`, under the condition of the properties that
  no two actors have overlapped. The invariant is `SafeInv`: one actor at a time
  (`Alone`); what it read is still what is stored, what a fetch lacks is gone, what it
  is about to mark is gone (`Honest`); what is stored here and no longer offered is
  gone, and what an override keeps is there (`ItemsInv`). Restarts preserve it as they
  leave nobody at work.

`ServerCatalogProofs`, for any versions, tools, slots, requests, first states and bounds,
from `CatalogConstants` (what a request may name) and `FirstStored`: the server is first
as it is between requests, its active document listing exactly the stored versions under
their own names and each document with a revision of its own. Below, `TypeInv` and `VersionInv` say
that requests which are not disturbed lead back to such a state.

* `TypeCorrect`: no two documents ever share an `updated_at`. `TypeInv` adds which
  requests come to which point, and with which documents.
* `EditsAsSeen`: a conditional edit replaces what its handler has read, and what its
  client has seen unless the stored document was given the same ETag since. The invariant
  is `SeenInv`: as long as the active document has the revision the client named, it is the
  document seen, all but the credential, whose removal leaves `updated_at` alone; what a
  request has read under that revision is that document too. Deletions, new registrations
  and switches of version in between included.
* `VersionsNeverLost`: `VersionsKept` says nothing of the moments at which a request that
  rewrites whole documents is under way. `VersionInv` does: `Midway` says, for each point
  of such a request, which documents are stored, what its card lists, and what has been
  promised, from the two deletions of a switch to its two writes. `AloneInv` makes it the
  only such request, tool fetches and edits that tag among them, unless "versions" is
  noted as disturbed; toggles, patches, tool
  decisions, rescans and conditional edits beside it change no version (`EditStep`, where
  a conditional edit needs `SeenInv`), hence nothing that `Midway` speaks of (`EditAside`).
* `DecisionsHold`: `DecisionInv` adds to the property that the card of a request that
  writes it back later says what the active document says, and that the overrides a scan
  has read are the stored ones as to what administrators decided.

`HealthMonitorProofs`, first of the token alone, for any callers, configurations and
bounds, from `OAuthConstants`:

* `TokenTypes`: `OAuthTypeOK` needs that a call under way knows its configuration
  (`CallsInv`).
* `BearerBound`: an entry carries the fingerprint of what its token was minted for
  (`CacheInv`), and the fingerprint tells credentials and hosts of `proxy_pass_url` apart
  (`FingerprintIsConfig`), so a hit is a token of the caller's own configuration. It says
  what a caller gets, not where it sends it.
* `NoStampedeEver`: "once, and once more for each lost" is not inductive. `MintInv` adds
  that whatever was requested under a lock and is not paid for by a lost token is in
  the cache or under way, so a caller that finds neither may ask again. That nothing
  else is under way when a caller mints is that it takes a free lock (`CallsInv`).

Then of the checks, from these and `HealthConstants`: a step of the composition is a
step of the token's, or an event elsewhere that leaves the token alone (`StepOfToken`),
because the cards that checks use are configurations (`ChecksInv`). So `OAuthInv` is
kept, and `ChecksNoStampede` and `HealthTypes` hold for any number of checks at once.
`CheckBearerBound` also needs that a check and its call for a token go by the same
configuration from the first await to the probe, which `ChecksInv` says too.

Model-checked only: the liveness properties `EveryJobEnds`, `Converges`,
`StaleIsResolved`, `Mirrors` and `RouteSettles`, which are outside the prover's reach.
Every safety property of a passing run is a theorem.

## Plan

1. Done: `AgentBatch`, `NginxReload`, `EgressRefresh`, `SecretsManagerStore`,
   `RateLimiter`, `ServerCatalog`, `PeerSync`, `BackendOAuth` and `HealthMonitor` with
   their proofs.
2. `PeerSync`: adding, changing and removing a peer beside its syncs.
3. `BatchItems`: the item processor under repeated execution, composed with
   `AgentBatch`; `AdminSafety`, the reconciliation with external registries.

## Not modelled

Search ranking, text rendering, identity providers, scanners, audit and metrics
are arithmetic, formatting or input and output without a protocol between actors.
`PROJECT.json` gives the reason for each component.
