---------------------------- MODULE BackendOAuth ----------------------------
(***************************************************************************)
(* The token with which the registry itself calls one MCP server: cached   *)
(* under the server's path in the memory of a process, minted by one       *)
(* caller at a time, bound to the configuration it was minted with and to  *)
(* the upstream of the proxy_pass_url it was minted for.                   *)
(*                                                                         *)
(*   registry/core/backend_oauth.py: resolve_bearer,                       *)
(*   resolve_obo_discovery_bearer, invalidate                              *)
(*                                                                         *)
(* A caller asks with the server card it has read, however long ago. The   *)
(* lock of the path is an asyncio lock in a dictionary; an invalidation    *)
(* takes it out while callers may hold it or wait for it, and the next     *)
(* caller makes another: a lock is named by the number of invalidations    *)
(* before it. What waits for the token endpoint is a step; what runs       *)
(* between two awaits is one action.                                       *)
(***************************************************************************)
EXTENDS Naturals

CONSTANTS
    Caller,         \* what asks for the token: health checks, tool fetches, scans
    Client,         \* token endpoints with client and secret
    Host,           \* upstreams the server may be registered with
    Nothing,        \* no entry, no token
    MaxDrops,       \* bound: invalidations
    MaxEvents       \* bound: failing calls of the token endpoint, tokens that
                    \* come near their end, and what a composition adds

Config == [client : Client, host : Host]

Entry == [fingerprint : Config, token : Config, fresh : BOOLEAN]

ASSUME OAuthConstants ==
    /\ Nothing \notin Config /\ Nothing \notin Entry
    /\ MaxDrops \in Nat /\ MaxEvents \in Nat

Lock == 0..MaxDrops

VARIABLES
    cache,      \* _cache[path]: a token, known by what it was minted for
    held,       \* the locks that are locked
    call,       \* [Caller -> where its call of resolve_bearer stands]
    drops, events,  \* the bounded counters
    minted,     \* history: [Lock -> [Config -> requests to the token endpoint]]
    lost        \* history: [Config -> tokens that failed, expired or were dropped]

oauth == <<cache, held, call, drops, events, minted, lost>>

-----------------------------------------------------------------------------

Call == [pc : {"idle", "waits", "mints", "done"}, config : Config \cup {Nothing},
         lock : Lock, bearer : Config \cup {Nothing}]
IdleCall == [pc |-> "idle", config |-> Nothing, lock |-> 0, bearer |-> Nothing]

\* Mutant: the token is not bound to its destination.
Fingerprint_ClientOnly(config) == [client |-> config.client, host |-> CHOOSE h \in Host : TRUE]

\* The configuration of the credential and the upstream of proxy_pass_url; not the
\* endpoint a card may name beside it.
Fingerprint(config) == [client |-> config.client, host |-> config.host]

\* A fresh entry of the current configuration.
Hit(config) ==
    /\ cache # Nothing
    /\ cache.fresh /\ cache.fingerprint = Fingerprint(config)

OAuthInit ==
    /\ cache = Nothing /\ held = {} /\ drops = 0 /\ events = 0
    /\ call = [c \in Caller |-> IdleCall]
    /\ minted = [l \in Lock |-> [k \in Config |-> 0]]
    /\ lost = [k \in Config |-> 0]

-----------------------------------------------------------------------------

Event == events < MaxEvents /\ events' = events + 1

Return(c, config, bearer) ==
    call' = [call EXCEPT ![c] = [pc |-> "done", config |-> config,
                                 lock |-> call[c].lock, bearer |-> bearer]]

Mint(c, config, l) ==
    /\ held' = held \cup {l}
    /\ call' = [call EXCEPT ![c] = [pc |-> "mints", config |-> config,
                                    lock |-> l, bearer |-> Nothing]]
    /\ minted' = [minted EXCEPT ![l][config] = @ + 1]

\* resolve_bearer up to its first await: the fast path, or the lock of the path,
\* which is taken at once when it is free and nobody waits for it.
Ask(c, config) ==
    LET free == drops \notin held /\ \A d \in Caller :
                    ~(call[d].pc = "waits" /\ call[d].lock = drops)
    IN
    /\ call[c].pc = "idle"
    /\ \/ Hit(config) /\ Return(c, config, cache.token) /\ UNCHANGED <<held, minted>>
       \/ ~Hit(config) /\ free /\ Mint(c, config, drops)
       \/ /\ ~Hit(config) /\ ~free
          /\ call' = [call EXCEPT ![c] = [pc |-> "waits", config |-> config,
                                          lock |-> drops, bearer |-> Nothing]]
          /\ UNCHANGED <<held, minted>>
    /\ UNCHANGED <<cache, drops, events, lost>>

\* Mutant: a waiter does not look again.
TakeLock_NoSecondLook(c) ==
    /\ call[c].pc = "waits" /\ call[c].lock \notin held
    /\ Mint(c, call[c].config, call[c].lock)
    /\ UNCHANGED <<cache, drops, events, lost>>

\* A waiter gets the lock and looks again: another may have acquired the token.
TakeLock(c) ==
    /\ call[c].pc = "waits" /\ call[c].lock \notin held
    /\ \/ /\ Hit(call[c].config)
          /\ Return(c, call[c].config, cache.token)
          /\ UNCHANGED <<held, minted>>
       \/ ~Hit(call[c].config) /\ Mint(c, call[c].config, call[c].lock)
    /\ UNCHANGED <<cache, drops, events, lost>>

\* The token endpoint answers. What is written may be older than an invalidation.
MintSucceeds(c) ==
    LET config == call[c].config IN
    /\ call[c].pc = "mints"
    /\ cache' = [fingerprint |-> Fingerprint(config), token |-> config, fresh |-> TRUE]
    /\ held' = held \ {call[c].lock}
    /\ Return(c, config, config)
    /\ lost' = [k \in Config |-> IF Hit(k) /\ k # config THEN lost[k] + 1 ELSE lost[k]]
    /\ UNCHANGED <<drops, events, minted>>

\* Mutant: the lock is released only on the way of success.
MintFails_KeepsLock(c) ==
    /\ call[c].pc = "mints" /\ Event
    /\ Return(c, call[c].config, Nothing)
    /\ lost' = [lost EXCEPT ![call[c].config] = @ + 1]
    /\ UNCHANGED <<cache, held, drops, minted>>

\* The token endpoint refuses or cannot be reached, or the secret cannot be
\* decrypted: the caller goes on without a token.
MintFails(c) ==
    /\ call[c].pc = "mints"
    /\ Event
    /\ held' = held \ {call[c].lock}
    /\ Return(c, call[c].config, Nothing)
    /\ lost' = [lost EXCEPT ![call[c].config] = @ + 1]
    /\ UNCHANGED <<cache, drops, minted>>

\* The caller has used the token.
Used(c) ==
    /\ call[c].pc = "done"
    /\ call' = [call EXCEPT ![c] = IdleCall]
    /\ UNCHANGED <<cache, held, drops, events, minted, lost>>

\* Time passes until the token is within the margin before its end.
Expire ==
    /\ cache # Nothing /\ cache.fresh
    /\ Event
    /\ cache' = [cache EXCEPT !.fresh = FALSE]
    /\ lost' = [k \in Config |-> IF Hit(k) THEN lost[k] + 1 ELSE lost[k]]
    /\ UNCHANGED <<held, call, drops, minted>>

\* invalidate: the entry and the lock go, whoever holds it.
Invalidate ==
    /\ drops < MaxDrops /\ drops' = drops + 1
    /\ cache' = Nothing
    /\ lost' = [k \in Config |-> IF Hit(k) THEN lost[k] + 1 ELSE lost[k]]
    /\ UNCHANGED <<held, call, events, minted>>

\* The cache among callers with any cards.
OAuthNext ==
    \/ \E c \in Caller : \/ \E config \in Config : Ask(c, config)
                         \/ TakeLock(c) \/ MintSucceeds(c) \/ MintFails(c) \/ Used(c)
    \/ Expire \/ Invalidate

OAuthSpec == OAuthInit /\ [][OAuthNext]_oauth

-----------------------------------------------------------------------------

OAuthTypeOK ==
    /\ cache \in Entry \cup {Nothing}
    /\ held \subseteq Lock
    /\ call \in [Caller -> Call]
    /\ drops \in 0..MaxDrops /\ events \in 0..MaxEvents
    /\ minted \in [Lock -> [Config -> Nat]] /\ lost \in [Config -> Nat]

\* A caller is given a token that was minted for the configuration and the
\* proxy_pass_url of the card it asked with, whatever others cached and whatever
\* was invalidated in between (_fingerprint). Where the caller then sends it is its
\* own affair: BearerForItsCard of HealthMonitor.
BearerForItsHost ==
    \A c \in Caller : call[c].bearer # Nothing => call[c].bearer = call[c].config

\* Concurrent callers do not stampede the token endpoint. Under one lock a token
\* is requested once, and once more for each one that failed, expired or was
\* dropped; an invalidation costs its callers one request more, under the next
\* lock (the docstring of invalidate).
NoStampede == \A l \in Lock, k \in Config : minted[l][k] <= 1 + lost[k]
=============================================================================
