------------------------ MODULE HealthMonitorProofs ------------------------
(***************************************************************************)
(* Theorems about BackendOAuth by itself, and about the health checks that *)
(* ask it: they keep what it promises, for the cards they ask with are     *)
(* configurations, and every step is one of the token's, or leaves the     *)
(* token alone. For any callers, configurations and bounds.                *)
(***************************************************************************)
EXTENDS HealthMonitor, TLAPS

\* A request for a token of k is under way under lock l.
InFlight(l, k) ==
    \E c \in Caller : call[c].pc = "mints" /\ call[c].lock = l /\ call[c].config = k

\* What is not idle knows its configuration, what mints holds its lock, and no
\* lock is newer than the last invalidation.
CallsInv ==
    \A c \in Caller : /\ call[c].pc # "idle" => call[c].config \in Config
                      /\ call[c].pc = "mints" => call[c].lock \in held

\* Two callers that mint hold different locks.
LockInv ==
    \A c, d \in Caller : (call[c].pc = "mints" /\ call[d].pc = "mints" /\ c # d)
                            => call[c].lock # call[d].lock

CacheInv == cache # Nothing => cache.fingerprint = Fingerprint(cache.token)

\* A request that is not paid for by a lost token has left one, or is under way.
MintInv ==
    \A l \in Lock, k \in Config :
        /\ minted[l][k] <= 1 + lost[k]
        /\ (~Hit(k) /\ ~InFlight(l, k)) => minted[l][k] <= lost[k]

OAuthInv == OAuthTypeOK /\ CallsInv /\ LockInv /\ CacheInv /\ BearerForItsHost /\ MintInv

-----------------------------------------------------------------------------

\* The fingerprint tells configurations apart.
LEMMA FingerprintIsConfig == \A k \in Config : Fingerprint(k) = k
  BY DEF Fingerprint, Config

\* The type invariant holds initially and at every step of the cache.
LEMMA TypeInit == OAuthInit => OAuthTypeOK
  BY OAuthConstants DEF OAuthInit, OAuthTypeOK, IdleCall, Call, Lock

LEMMA ReturnType ==
  ASSUME OAuthTypeOK, NEW c \in Caller, NEW config \in Config,
         NEW bearer \in Config \cup {Nothing}, Return(c, config, bearer)
  PROVE  call' \in [Caller -> Call]
  <1>1. [pc |-> "done", config |-> config, lock |-> call[c].lock, bearer |-> bearer] \in Call
    BY DEF OAuthTypeOK, Call
  <1> QED
    BY <1>1 DEF Return, OAuthTypeOK

LEMMA MintType ==
  ASSUME OAuthTypeOK, NEW c \in Caller, NEW config \in Config, NEW l \in Lock,
         Mint(c, config, l)
  PROVE  held' \subseteq Lock /\ call' \in [Caller -> Call]
         /\ minted' \in [Lock -> [Config -> Nat]]
  <1>1. [pc |-> "mints", config |-> config, lock |-> l, bearer |-> Nothing] \in Call
    BY DEF Call
  <1>2. minted[l] \in [Config -> Nat] /\ minted[l][config] + 1 \in Nat
    BY DEF OAuthTypeOK
  <1> QED
    BY <1>1, <1>2 DEF Mint, OAuthTypeOK

LEMMA TypeNext == OAuthTypeOK /\ CallsInv /\ [OAuthNext]_oauth => OAuthTypeOK'
  <1> SUFFICES ASSUME OAuthTypeOK, CallsInv, [OAuthNext]_oauth PROVE OAuthTypeOK'
    OBVIOUS
  <1> USE OAuthConstants, FingerprintIsConfig
  <1>0. drops \in Lock
    BY DEF OAuthTypeOK, Lock
  <1>1. ASSUME NEW c \in Caller, NEW config \in Config, Ask(c, config) PROVE OAuthTypeOK'
    <2>1. CASE Hit(config) /\ Return(c, config, cache.token) /\ UNCHANGED <<held, minted>>
      <3>1. cache.token \in Config
        BY <2>1 DEF Hit, OAuthTypeOK, Entry
      <3> QED
        BY <1>1, <2>1, <3>1, ReturnType DEF Ask, OAuthTypeOK
    <2>2. CASE Mint(c, config, drops)
      BY <1>0, <1>1, <2>2, MintType DEF Ask, OAuthTypeOK
    <2>3. CASE /\ call' = [call EXCEPT ![c] = [pc |-> "waits", config |-> config,
                                              lock |-> drops, bearer |-> Nothing]]
               /\ UNCHANGED <<held, minted>>
      <3>1. [pc |-> "waits", config |-> config, lock |-> drops, bearer |-> Nothing] \in Call
        BY <1>0 DEF Call
      <3> QED
        BY <1>1, <2>3, <3>1 DEF Ask, OAuthTypeOK
    <2> QED
      BY <1>1, <2>1, <2>2, <2>3 DEF Ask
  <1>2. ASSUME NEW c \in Caller, TakeLock(c) PROVE OAuthTypeOK'
    <2>0. call[c].config \in Config /\ call[c].lock \in Lock
      BY <1>2 DEF TakeLock, CallsInv, OAuthTypeOK, Call
    <2>1. CASE Hit(call[c].config) /\ Return(c, call[c].config, cache.token)
               /\ UNCHANGED <<held, minted>>
      <3>1. cache.token \in Config
        BY <2>1 DEF Hit, OAuthTypeOK, Entry
      <3> QED
        BY <1>2, <2>0, <2>1, <3>1, ReturnType DEF TakeLock, OAuthTypeOK
    <2>2. CASE Mint(c, call[c].config, call[c].lock)
      BY <1>2, <2>0, <2>2, MintType DEF TakeLock, OAuthTypeOK
    <2> QED
      BY <1>2, <2>1, <2>2 DEF TakeLock
  <1>3. ASSUME NEW c \in Caller, MintSucceeds(c) PROVE OAuthTypeOK'
    <2>1. call[c].config \in Config /\ call[c].lock \in Lock
      BY <1>3 DEF MintSucceeds, CallsInv, OAuthTypeOK, Call
    <2>2. call' \in [Caller -> Call]
      BY <1>3, <2>1, ReturnType DEF MintSucceeds
    <2>3. cache' \in Entry
      BY <1>3, <2>1 DEF MintSucceeds, Entry
    <2>4. lost' \in [Config -> Nat]
      BY <1>3 DEF MintSucceeds, OAuthTypeOK
    <2> QED
      BY <1>3, <2>2, <2>3, <2>4 DEF MintSucceeds, OAuthTypeOK
  <1>4. ASSUME NEW c \in Caller, MintFails(c) PROVE OAuthTypeOK'
    <2>1. call[c].config \in Config /\ call[c].lock \in Lock
      BY <1>4 DEF MintFails, CallsInv, OAuthTypeOK, Call
    <2>2. call' \in [Caller -> Call]
      BY <1>4, <2>1, ReturnType DEF MintFails
    <2> QED
      BY <1>4, <2>1, <2>2 DEF MintFails, Event, OAuthTypeOK
  <1>5. ASSUME NEW c \in Caller, Used(c) PROVE OAuthTypeOK'
    BY <1>5 DEF Used, IdleCall, OAuthTypeOK, Call, Lock
  <1>6. CASE Expire
    <2>1. cache' \in Entry
      BY <1>6 DEF Expire, OAuthTypeOK, Entry
    <2>2. lost' \in [Config -> Nat]
      BY <1>6 DEF Expire, OAuthTypeOK
    <2> QED
      BY <1>6, <2>1, <2>2 DEF Expire, Event, OAuthTypeOK
  <1>7. CASE Invalidate
    BY <1>7 DEF Invalidate, OAuthTypeOK
  <1>8. CASE UNCHANGED oauth
    BY <1>8 DEF oauth, OAuthTypeOK
  <1> QED
    BY <1>1, <1>2, <1>3, <1>4, <1>5, <1>6, <1>7, <1>8 DEF OAuthNext

-----------------------------------------------------------------------------
(* What a caller does, for the other invariants *)

\* Idle calls have no bearer, and no mint under way has one yet.
LEMMA InvInit == OAuthInit => OAuthInv
  BY TypeInit, OAuthConstants
  DEF OAuthInit, OAuthInv, OAuthTypeOK, CallsInv, LockInv, CacheInv, BearerForItsHost,
      MintInv, IdleCall

\* Each step keeps what callers know of their calls, and mutual exclusion under
\* each lock.
LEMMA CallsNext == OAuthTypeOK /\ CallsInv /\ LockInv /\ [OAuthNext]_oauth
                     => CallsInv' /\ LockInv'
  <1> SUFFICES ASSUME OAuthTypeOK, CallsInv, LockInv, [OAuthNext]_oauth
               PROVE  CallsInv' /\ LockInv'
    OBVIOUS
  <1>1. ASSUME NEW c \in Caller, NEW config \in Config, Ask(c, config)
        PROVE  CallsInv' /\ LockInv'
    BY <1>1 DEF Ask, Return, Mint, CallsInv, LockInv, OAuthTypeOK
  <1>2. ASSUME NEW c \in Caller, TakeLock(c) PROVE CallsInv' /\ LockInv'
    BY <1>2 DEF TakeLock, Return, Mint, CallsInv, LockInv, OAuthTypeOK
  <1>3. ASSUME NEW c \in Caller, MintSucceeds(c) \/ MintFails(c) PROVE CallsInv' /\ LockInv'
    BY <1>3 DEF MintSucceeds, MintFails, Return, CallsInv, LockInv, OAuthTypeOK
  <1>4. ASSUME NEW c \in Caller, Used(c) PROVE CallsInv' /\ LockInv'
    BY <1>4 DEF Used, IdleCall, CallsInv, LockInv, OAuthTypeOK
  <1>5. CASE Expire \/ Invalidate \/ UNCHANGED oauth
    BY <1>5 DEF Expire, Invalidate, oauth, CallsInv, LockInv
  <1> QED
    BY <1>1, <1>2, <1>3, <1>4, <1>5 DEF OAuthNext

\* An entry keeps the fingerprint of what its token was minted for, so what a
\* caller is given is of its own configuration.
LEMMA BearerNext == OAuthTypeOK /\ CallsInv /\ CacheInv /\ BearerForItsHost /\ [OAuthNext]_oauth
                      => CacheInv' /\ BearerForItsHost'
  <1> SUFFICES ASSUME OAuthTypeOK, CallsInv, CacheInv, BearerForItsHost, [OAuthNext]_oauth
               PROVE  CacheInv' /\ BearerForItsHost'
    OBVIOUS
  <1>0. ASSUME NEW k \in Config, Hit(k) PROVE cache.token = k
    BY <1>0, FingerprintIsConfig DEF Hit, CacheInv, OAuthTypeOK, Entry
  <1>1. ASSUME NEW c \in Caller, NEW config \in Config, Ask(c, config)
        PROVE  CacheInv' /\ BearerForItsHost'
    BY <1>0, <1>1 DEF Ask, Return, Mint, CacheInv, BearerForItsHost, OAuthTypeOK
  <1>2. ASSUME NEW c \in Caller, TakeLock(c) PROVE CacheInv' /\ BearerForItsHost'
    <2>1. call[c].config \in Config
      BY <1>2 DEF TakeLock, CallsInv
    <2> QED
      BY <1>0, <1>2, <2>1 DEF TakeLock, Return, Mint, CacheInv, BearerForItsHost, OAuthTypeOK
  <1>3. ASSUME NEW c \in Caller, MintSucceeds(c) PROVE CacheInv' /\ BearerForItsHost'
    BY <1>3 DEF MintSucceeds, Return, CacheInv, BearerForItsHost, OAuthTypeOK
  <1>4. ASSUME NEW c \in Caller, MintFails(c) PROVE CacheInv' /\ BearerForItsHost'
    BY <1>4 DEF MintFails, Return, CacheInv, BearerForItsHost, OAuthTypeOK
  <1>5. ASSUME NEW c \in Caller, Used(c) PROVE CacheInv' /\ BearerForItsHost'
    BY <1>5 DEF Used, IdleCall, CacheInv, BearerForItsHost, OAuthTypeOK
  <1>6. CASE Expire
    BY <1>6 DEF Expire, CacheInv, BearerForItsHost, OAuthTypeOK, Entry
  <1>7. CASE Invalidate \/ UNCHANGED oauth
    BY <1>7 DEF Invalidate, oauth, CacheInv, BearerForItsHost, Fingerprint
  <1> QED
    BY <1>1, <1>2, <1>3, <1>4, <1>5, <1>6, <1>7 DEF OAuthNext

\* A request that starts under a free lock, for a token that is not cached, is
\* the only one under way, and all before it are paid for.
LEMMA MintPaid ==
  ASSUME OAuthTypeOK, CallsInv, MintInv,
         NEW c \in Caller, NEW config \in Config, NEW l \in Lock,
         call[c].pc # "mints", l \notin held, ~Hit(config), Mint(c, config, l),
         UNCHANGED <<cache, lost>>
  PROVE  MintInv'
  <1> SUFFICES ASSUME NEW m \in Lock, NEW k \in Config
               PROVE  /\ minted'[m][k] <= 1 + lost[k]
                      /\ (~Hit(k)' /\ ~InFlight(m, k)') => minted'[m][k] <= lost[k]
    BY DEF MintInv
  <1>1. Hit(k)' <=> Hit(k)
    BY DEF Hit, Fingerprint
  <1>2. call'[c].pc = "mints" /\ call'[c].lock = l /\ call'[c].config = config
    BY DEF Mint, OAuthTypeOK
  <1>3. \A d \in Caller : d # c => call'[d] = call[d]
    BY DEF Mint, OAuthTypeOK
  <1>4. CASE m = l /\ k = config
    <2>1. ~InFlight(m, k)
      BY <1>4 DEF InFlight, CallsInv
    <2>2. minted[m][k] <= lost[k]
      BY <1>4, <2>1 DEF MintInv
    <2>3. minted'[m][k] = minted[m][k] + 1
      BY <1>4 DEF Mint, OAuthTypeOK
    <2>4. minted[m][k] \in Nat /\ lost[k] \in Nat
      BY DEF OAuthTypeOK
    <2>5. InFlight(m, k)'
      BY <1>2, <1>4 DEF InFlight
    <2> QED
      BY <2>2, <2>3, <2>4, <2>5
  <1>5. CASE ~(m = l /\ k = config)
    <2>1. minted'[m][k] = minted[m][k]
      BY <1>5 DEF Mint, OAuthTypeOK
    <2>2. InFlight(m, k) => InFlight(m, k)'
      BY <1>3 DEF InFlight
    <2> QED
      BY <1>1, <2>1, <2>2 DEF MintInv
  <1> QED
    BY <1>4, <1>5

\* A step that starts and ends no request, and loses no token uncounted.
LEMMA MintKept ==
  ASSUME OAuthTypeOK, MintInv, lost' \in [Config -> Nat],
         \A k \in Config : lost[k] <= lost'[k],
         \A k \in Config : (Hit(k) /\ ~Hit(k)') => lost[k] < lost'[k],
         \A l \in Lock, k \in Config :
            (InFlight(l, k) /\ ~InFlight(l, k)') => (Hit(k)' \/ lost[k] < lost'[k]),
         UNCHANGED minted
  PROVE  MintInv'
  <1> SUFFICES ASSUME NEW l \in Lock, NEW k \in Config
               PROVE  /\ minted[l][k] <= 1 + lost'[k]
                      /\ (~Hit(k)' /\ ~InFlight(l, k)') => minted[l][k] <= lost'[k]
    BY DEF MintInv
  <1>1. minted[l][k] \in Nat /\ lost[k] \in Nat /\ lost'[k] \in Nat
    BY DEF OAuthTypeOK
  <1>2. /\ minted[l][k] <= 1 + lost[k]
        /\ (~Hit(k) /\ ~InFlight(l, k)) => minted[l][k] <= lost[k]
    BY DEF MintInv
  <1>3. CASE lost[k] < lost'[k]
    BY <1>1, <1>2, <1>3
  <1>4. CASE lost[k] = lost'[k]
    <2>1. (~Hit(k)' /\ ~InFlight(l, k)') => (~Hit(k) /\ ~InFlight(l, k))
      BY <1>1, <1>4
    <2> QED
      BY <1>1, <1>2, <1>4, <2>1
  <1> QED
    BY <1>1, <1>3, <1>4

LEMMA MintNext == OAuthTypeOK /\ CallsInv /\ MintInv /\ [OAuthNext]_oauth => MintInv'
  <1> SUFFICES ASSUME OAuthTypeOK, CallsInv, MintInv, [OAuthNext]_oauth PROVE MintInv'
    OBVIOUS
  <1>0. /\ drops \in Lock
        /\ \A k \in Config : lost[k] \in Nat
    BY OAuthConstants DEF OAuthTypeOK, Lock
  <1>a. ASSUME NEW c \in Caller, call[c].pc # "mints", call'[c].pc # "mints",
               \A d \in Caller : d # c => call'[d] = call[d],
               UNCHANGED <<cache, lost, minted>>
        PROVE  MintInv'
    <2>1. \A k \in Config : Hit(k)' <=> Hit(k)
      BY <1>a DEF Hit, Fingerprint
    <2>2. \A l \in Lock, k \in Config : InFlight(l, k) => InFlight(l, k)'
      BY <1>a DEF InFlight
    <2>3. lost' \in [Config -> Nat] /\ \A k \in Config : lost[k] <= lost'[k]
      BY <1>0, <1>a DEF OAuthTypeOK
    <2> QED
      BY <1>a, <2>1, <2>2, <2>3, MintKept
  <1>1. ASSUME NEW c \in Caller, NEW config \in Config, Ask(c, config) PROVE MintInv'
    <2>1. CASE ~Hit(config) /\ drops \notin held /\ Mint(c, config, drops)
      BY <1>0, <1>1, <2>1, MintPaid DEF Ask
    <2>2. CASE Return(c, config, cache.token) /\ UNCHANGED <<held, minted>>
      <3>1. call'[c].pc # "mints" /\ \A d \in Caller : d # c => call'[d] = call[d]
        BY <2>2 DEF Return, OAuthTypeOK
      <3> QED
        BY <1>1, <1>a, <2>2, <3>1 DEF Ask
    <2>3. CASE /\ call' = [call EXCEPT ![c] = [pc |-> "waits", config |-> config,
                                              lock |-> drops, bearer |-> Nothing]]
               /\ UNCHANGED <<held, minted>>
      <3>1. call'[c].pc # "mints" /\ \A d \in Caller : d # c => call'[d] = call[d]
        BY <2>3 DEF OAuthTypeOK
      <3> QED
        BY <1>1, <1>a, <2>3, <3>1 DEF Ask
    <2> QED
      BY <1>1, <2>1, <2>2, <2>3 DEF Ask
  <1>2. ASSUME NEW c \in Caller, TakeLock(c) PROVE MintInv'
    <2>0. call[c].config \in Config /\ call[c].lock \in Lock
      BY <1>2 DEF TakeLock, CallsInv, OAuthTypeOK, Call
    <2>1. CASE ~Hit(call[c].config) /\ Mint(c, call[c].config, call[c].lock)
      BY <1>2, <2>0, <2>1, MintPaid DEF TakeLock
    <2>2. CASE Return(c, call[c].config, cache.token) /\ UNCHANGED <<held, minted>>
      <3>1. call'[c].pc # "mints" /\ \A d \in Caller : d # c => call'[d] = call[d]
        BY <2>2 DEF Return, OAuthTypeOK
      <3> QED
        BY <1>2, <1>a, <2>2, <3>1 DEF TakeLock
    <2> QED
      BY <1>2, <2>1, <2>2 DEF TakeLock
  <1>3. ASSUME NEW c \in Caller, MintSucceeds(c) PROVE MintInv'
    <2>0. call[c].config \in Config
      BY <1>3 DEF MintSucceeds, CallsInv
    <2>1. \A d \in Caller : d # c => call'[d] = call[d]
      BY <1>3 DEF MintSucceeds, Return, OAuthTypeOK
    <2>2. \A k \in Config : k = call[c].config => Hit(k)'
      <3>1. cache' = [fingerprint |-> Fingerprint(call[c].config),
                      token |-> call[c].config, fresh |-> TRUE]
        BY <1>3 DEF MintSucceeds
      <3>2. cache' \in Entry
        BY <2>0, <3>1, FingerprintIsConfig DEF Entry
      <3>3. cache' # Nothing
        BY <3>2, OAuthConstants
      <3> QED
        BY <3>1, <3>3 DEF Hit, Fingerprint
    <2>3. \A l \in Lock, k \in Config :
             (InFlight(l, k) /\ ~InFlight(l, k)') => k = call[c].config
      BY <2>1 DEF InFlight
    <2>4. \A k \in Config : (Hit(k) /\ ~Hit(k)') => lost[k] < lost'[k]
      BY <1>0, <1>3, <2>2 DEF MintSucceeds
    <2>5. /\ lost' \in [Config -> Nat]
          /\ \A k \in Config : lost[k] <= lost'[k]
      BY <1>0, <1>3 DEF MintSucceeds, OAuthTypeOK
    <2> QED
      BY <1>3, <2>2, <2>3, <2>4, <2>5, MintKept DEF MintSucceeds
  <1>4. ASSUME NEW c \in Caller, MintFails(c) PROVE MintInv'
    <2>0. call[c].config \in Config
      BY <1>4 DEF MintFails, CallsInv
    <2>1. \A d \in Caller : d # c => call'[d] = call[d]
      BY <1>4 DEF MintFails, Return, OAuthTypeOK
    <2>2. \A k \in Config : Hit(k)' <=> Hit(k)
      BY <1>4 DEF MintFails, Hit, Fingerprint
    <2>3. \A l \in Lock, k \in Config :
             (InFlight(l, k) /\ ~InFlight(l, k)') => k = call[c].config
      BY <2>1 DEF InFlight
    <2>4. /\ lost' \in [Config -> Nat]
          /\ \A k \in Config : lost[k] <= lost'[k]
          /\ lost[call[c].config] < lost'[call[c].config]
      BY <1>0, <1>4, <2>0 DEF MintFails, OAuthTypeOK
    <2> QED
      BY <1>4, <2>2, <2>3, <2>4, MintKept DEF MintFails
  <1>5. ASSUME NEW c \in Caller, Used(c) PROVE MintInv'
    <2>1. call[c].pc # "mints" /\ call'[c].pc # "mints"
          /\ \A d \in Caller : d # c => call'[d] = call[d]
      BY <1>5 DEF Used, IdleCall, OAuthTypeOK
    <2> QED
      BY <1>5, <1>a, <2>1 DEF Used
  <1>6. ASSUME Expire \/ Invalidate PROVE MintInv'
    <2>0. UNCHANGED call /\ UNCHANGED minted
      BY <1>6 DEF Expire, Invalidate
    <2>1. \A l \in Lock, k \in Config : InFlight(l, k)' <=> InFlight(l, k)
      BY <2>0 DEF InFlight
    <2>2. lost' = [k \in Config |-> IF Hit(k) THEN lost[k] + 1 ELSE lost[k]]
      BY <1>6 DEF Expire, Invalidate
    <2>3. \A k \in Config : Hit(k) => lost[k] < lost'[k]
      BY <1>0, <2>2
    <2>4. /\ lost' \in [Config -> Nat]
          /\ \A k \in Config : lost[k] <= lost'[k]
      BY <1>0, <2>2
    <2> QED
      BY <2>0, <2>1, <2>3, <2>4, MintKept
  <1>7. ASSUME UNCHANGED oauth PROVE MintInv'
    <2>1. /\ \A k \in Config : Hit(k)' <=> Hit(k)
          /\ \A l \in Lock, k \in Config : InFlight(l, k)' <=> InFlight(l, k)
          /\ UNCHANGED <<minted, lost>>
      BY <1>7 DEF oauth, InFlight, Hit, Fingerprint
    <2> QED
      BY <2>1 DEF MintInv
  <1> QED
    BY <1>1, <1>2, <1>3, <1>4, <1>5, <1>6, <1>7 DEF OAuthNext

\* The invariant is inductive.
LEMMA InvNext == OAuthInv /\ [OAuthNext]_oauth => OAuthInv'
  BY TypeNext, CallsNext, BearerNext, MintNext DEF OAuthInv

LEMMA Invariance == OAuthSpec => []OAuthInv
  BY InvInit, InvNext, PTL DEF OAuthSpec

-----------------------------------------------------------------------------

\* Cache, locks and calls keep their types (resolve_bearer, invalidate).
THEOREM TokenTypes == OAuthSpec => []OAuthTypeOK
  BY Invariance, PTL DEF OAuthInv

\* A caller's token was minted for the configuration and the upstream of the card
\* it asked with, for any callers, cards and invalidations.
THEOREM BearerBound == OAuthSpec => []BearerForItsHost
  BY Invariance, PTL DEF OAuthInv

\* Under one lock the token endpoint is asked once for a token, and once more for
\* each that was lost, however many callers there are.
THEOREM NoStampedeEver == OAuthSpec => []NoStampede
  <1>1. OAuthInv => NoStampede
    BY DEF OAuthInv, MintInv, NoStampede
  <1> QED
    BY <1>1, Invariance, PTL

-----------------------------------------------------------------------------
(* The checks *)

\* A check knows its configuration until it is answered, and its call of
\* with_bearer asks for that one.
ChecksInv ==
    \A c \in Caller :
        /\ check[c].pc \in {"read", "bearer", "probe"} => check[c].config \in Config
        /\ check[c].pc \in {"bearer", "probe"} => call[c].config = check[c].config

HealthInv == TypeOK /\ ChecksInv /\ OAuthInv

-----------------------------------------------------------------------------
(* Every step is one of the token's, or spends an event elsewhere *)

LEMMA StepOfToken ==
  ASSUME TypeOK, ChecksInv, [Next]_vars
  PROVE  [OAuthNext]_oauth \/ (UNCHANGED token /\ Event)
  <1> USE DEF token, oauth
  <1>1. CASE ToggleServer \/ EditServer
    BY <1>1 DEF ToggleServer, EditServer, Edited
  <1>2. CASE PutConfig
    BY <1>2 DEF PutConfig, Edited
  <1>3. CASE AskForCheck \/ Outage \/ Look
    BY <1>3 DEF AskForCheck, Outage, Look
  <1>4. CASE HandlerEnds
    BY <1>4 DEF HandlerEnds, OAuthNext
  <1>5. CASE TokenExpires
    BY <1>5 DEF TokenExpires, OAuthNext
  <1>6. CASE LoopReads \/ Show \/ FlushReads \/ FlushApplies
    BY <1>6 DEF LoopReads, Show, FlushReads, FlushApplies
  <1>7. CASE LoopStarts
    <2>1. "loop" \in Caller /\ check["loop"].config \in Config
      BY <1>7, HealthConstants DEF LoopStarts, ChecksInv
    <2> QED
      BY <1>7, <2>1 DEF LoopStarts, OAuthNext
  <1>8. ASSUME NEW c \in Caller, NEW marks \in BOOLEAN, ImmediateStarts(c, marks)
        PROVE  OAuthNext
    <2>1. card.config \in Config
      BY DEF TypeOK
    <2> QED
      BY <1>8, <2>1 DEF ImmediateStarts, OAuthNext
  <1>9. ASSUME NEW c \in Caller, Resolve(c) \/ Answer(c) PROVE OAuthNext
    BY <1>9 DEF Resolve, Answer, OAuthNext
  <1>10. ASSUME NEW c \in Caller, Finish(c) \/ Report(c) PROVE UNCHANGED oauth
    BY <1>10 DEF Finish, Report
  <1>11. CASE UNCHANGED vars
    BY <1>11 DEF vars
  <1> QED
    BY <1>1, <1>2, <1>3, <1>4, <1>5, <1>6, <1>7, <1>8, <1>9, <1>10, <1>11 DEF Next

\* An event elsewhere keeps the invariant of the token.
LEMMA ElsewhereKeeps == OAuthInv /\ UNCHANGED token /\ Event => OAuthInv'
  <1> SUFFICES ASSUME OAuthInv, UNCHANGED token, Event PROVE OAuthInv'
    OBVIOUS
  <1>1. OAuthTypeOK'
    BY OAuthConstants DEF OAuthInv, OAuthTypeOK, token, Event
  <1>2. CallsInv' /\ LockInv' /\ CacheInv' /\ BearerForItsHost'
    BY DEF OAuthInv, CallsInv, LockInv, CacheInv, BearerForItsHost, token, Fingerprint
  <1>3. /\ \A k \in Config : Hit(k)' <=> Hit(k)
        /\ \A l \in Lock, k \in Config : InFlight(l, k)' <=> InFlight(l, k)
        /\ UNCHANGED <<minted, lost>>
    BY DEF token, InFlight, Hit, Fingerprint
  <1> QED
    BY <1>1, <1>2, <1>3 DEF OAuthInv, MintInv

-----------------------------------------------------------------------------
(* The type invariant *)

LEMMA HealthInit == Init => HealthInv
  <1> SUFFICES ASSUME Init PROVE HealthInv
    OBVIOUS
  <1>1. OAuthInv
    BY InvInit DEF Init
  <1>2. card \in [enabled : BOOLEAN, config : Config, endpoint : Endpoint \cup {Nothing}]
    <2>1. PICK k \in Client, h \in Host : TRUE
      BY HealthConstants
    <2>2. [client |-> k, host |-> h] \in Config
      BY DEF Config
    <2>3. (CHOOSE config \in Config : TRUE) \in Config
      BY <2>2
    <2> QED
      BY <2>3 DEF Init
  <1>3. IdleCheck \in Check
    BY DEF IdleCheck, Check, CheckPc, Status
  <1>4. check \in [Caller -> Check] /\ ChecksInv
    BY <1>3 DEF Init, ChecksInv, IdleCheck
  <1>5. /\ up \subseteq Host /\ status \in Status
        /\ view \in {"none", "on", "off"}
        /\ handler \in {"none", "mark", "invalidate", "check"}
        /\ dirty \in BOOLEAN /\ flush \in [runs : BOOLEAN, hosts : SUBSET Host]
        /\ route \subseteq Host
    BY DEF Init, Status
  <1> QED
    BY <1>1, <1>2, <1>4, <1>5 DEF HealthInv, TypeOK, OAuthInv

\* A step of with_bearer is one of the caller's call, for the same configuration.
LEMMA ResolveStep ==
  ASSUME OAuthTypeOK, NEW c \in Caller, NEW config \in Config,
         Ask(c, config) \/ (call[c].config = config
                              /\ (TakeLock(c) \/ MintSucceeds(c) \/ MintFails(c)))
  PROVE  call'[c].config = config /\ \A d \in Caller : d # c => call'[d] = call[d]
  <1>1. CASE Ask(c, config)
    BY <1>1 DEF Ask, Return, Mint, OAuthTypeOK
  <1>2. CASE call[c].config = config /\ TakeLock(c)
    BY <1>2 DEF TakeLock, Return, Mint, OAuthTypeOK
  <1>3. CASE call[c].config = config /\ (MintSucceeds(c) \/ MintFails(c))
    BY <1>3 DEF MintSucceeds, MintFails, Return, OAuthTypeOK
  <1> QED
    BY <1>1, <1>2, <1>3

\* The status "checking", or the one before, and a check that goes on.
LEMMA ResolvingKeeps ==
  ASSUME TypeOK, ChecksInv, NEW c \in Caller, NEW state \in Check,
         state.config \in Config, Resolving(c, state),
         call'[c].config = state.config, \A d \in Caller : d # c => call'[d] = call[d]
  PROVE  status' \in Status /\ check' \in [Caller -> Check] /\ ChecksInv'
  <1>1. status' \in Status
    BY DEF Resolving, TypeOK, Status
  <1> DEFINE new == [state EXCEPT !.pc = IF call'[c].pc = "done" THEN "probe" ELSE "bearer",
                                  !.prev = IF call'[c].pc = "done" /\ c # "loop"
                                           THEN status ELSE @]
  <1>2. check' = [check EXCEPT ![c] = new]
    BY DEF Resolving
  <1>3. new \in Check /\ new.config = state.config
    BY DEF Check, CheckPc, TypeOK
  <1>4. check' \in [Caller -> Check]
    BY <1>2, <1>3 DEF TypeOK
  <1>5. check'[c].config = state.config /\ \A d \in Caller : d # c => check'[d] = check[d]
    BY <1>2, <1>3 DEF TypeOK
  <1>6. ChecksInv'
    BY <1>5 DEF ChecksInv
  <1> QED
    BY <1>1, <1>4, <1>6

\* OAuthTypeOK is kept by InvNext and ElsewhereKeeps; the rest is the monitor's.
LEMMA HealthNext == HealthInv /\ [Next]_vars => HealthInv'
  <1> SUFFICES ASSUME HealthInv, [Next]_vars PROVE HealthInv'
    OBVIOUS
  <1> USE DEF HealthInv
  <1>0. OAuthInv' /\ OAuthTypeOK'
    BY StepOfToken, InvNext, ElsewhereKeeps DEF OAuthInv
  <1> SUFFICES TypeOK' /\ ChecksInv'
    BY <1>0
  <1> USE <1>0
  <1>i. IdleCheck \in Check /\ IdleCheck.pc = "idle"
    BY DEF IdleCheck, Check, CheckPc, Status
  <1>e. CheckOfCard \in Check /\ CheckOfCard.config = card.config /\ card.config \in Config
    BY DEF CheckOfCard, IdleCheck, Check, CheckPc, Status, TypeOK
  <1>u. UNCHANGED <<check, call>> => ChecksInv'
    BY DEF HealthInv, ChecksInv
  <1>1. CASE ToggleServer \/ EditServer \/ PutConfig
    <2>1. card' \in [enabled : BOOLEAN, config : Config, endpoint : Endpoint \cup {Nothing}]
      <3>1. CASE ToggleServer
        BY <3>1 DEF ToggleServer, Edited, TypeOK
      <3>2. CASE EditServer
        BY <3>2 DEF EditServer, Edited, TypeOK, Config
      <3>3. CASE PutConfig
        BY <3>3 DEF PutConfig, Edited, TypeOK, Config
      <3> QED
        BY <1>1, <3>1, <3>2, <3>3
    <2>2. UNCHANGED <<up, token, gateway, view, status, check>>
      BY <1>1 DEF ToggleServer, EditServer, PutConfig, Edited
    <2>3. handler' \in {"none", "mark", "invalidate", "check"}
      BY <1>1 DEF ToggleServer, EditServer, PutConfig
    <2> QED
      BY <1>u, <2>1, <2>2, <2>3 DEF TypeOK, gateway, token
  <1>3. CASE AskForCheck \/ Outage \/ Look
    BY <1>3, <1>u DEF AskForCheck, Outage, Look, TypeOK, world, gateway, rest, token
  <1>4. CASE HandlerEnds
    BY <1>4, <1>u DEF HandlerEnds, TypeOK, world, Invalidate, oauth
  <1>5. CASE TokenExpires
    BY <1>5, <1>u DEF TokenExpires, TypeOK, world, gateway, rest, Expire
  <1>6. CASE LoopReads
    <2> DEFINE new == [CheckOfCard EXCEPT !.pc = "read"]
    <2>1. new \in Check /\ new.pc = "read" /\ new.config \in Config
      BY <1>e DEF Check, CheckPc
    <2>2. check' = [check EXCEPT !["loop"] = new] /\ UNCHANGED call
      BY <1>6 DEF LoopReads, oauth
    <2> HIDE DEF new
    <2>3. check' \in [Caller -> Check] /\ ChecksInv'
      BY <2>1, <2>2, HealthConstants DEF TypeOK, ChecksInv
    <2> QED
      BY <1>6, <2>3 DEF LoopReads, TypeOK, world, gateway, rest
  <1>7. CASE LoopStarts
    <2> DEFINE state == [check["loop"] EXCEPT !.prev = status]
    <2>1. state \in Check /\ state.config = check["loop"].config
          /\ check["loop"].config \in Config
      BY <1>7, HealthConstants DEF LoopStarts, Check, TypeOK, ChecksInv
    <2>2. call'["loop"].config = state.config
          /\ \A d \in Caller : d # "loop" => call'[d] = call[d]
      BY <1>7, <2>1, HealthConstants, ResolveStep DEF LoopStarts, TypeOK
    <2>3. Resolving("loop", state)
      BY <1>7 DEF LoopStarts
    <2> HIDE DEF state
    <2>4. status' \in Status /\ check' \in [Caller -> Check] /\ ChecksInv'
      BY <2>1, <2>2, <2>3, HealthConstants, ResolvingKeeps
    <2> QED
      BY <1>7, <2>4 DEF LoopStarts, TypeOK, world, gateway, rest
  <1>8. ASSUME NEW c \in Caller, NEW marks \in BOOLEAN, ImmediateStarts(c, marks)
        PROVE  TypeOK' /\ ChecksInv'
    <2> DEFINE state == [CheckOfCard EXCEPT !.marks = marks]
    <2>1. state \in Check /\ state.config = card.config
      BY <1>e DEF Check
    <2>2. call'[c].config = state.config /\ \A d \in Caller : d # c => call'[d] = call[d]
      BY <1>e, <1>8, <2>1, ResolveStep DEF ImmediateStarts, TypeOK
    <2>3. Resolving(c, state)
      BY <1>8 DEF ImmediateStarts
    <2> HIDE DEF state
    <2>4. status' \in Status /\ check' \in [Caller -> Check] /\ ChecksInv'
      BY <1>e, <2>1, <2>2, <2>3, ResolvingKeeps
    <2> QED
      BY <1>8, <2>4 DEF ImmediateStarts, TypeOK, world, gateway
  <1>9. ASSUME NEW c \in Caller, Resolve(c) PROVE TypeOK' /\ ChecksInv'
    <2>1. check[c] \in Check /\ check[c].config \in Config
          /\ call[c].config = check[c].config
      BY <1>9 DEF Resolve, TypeOK, ChecksInv
    <2>2. call'[c].config = check[c].config /\ \A d \in Caller : d # c => call'[d] = call[d]
      BY <1>9, <2>1, ResolveStep DEF Resolve, TypeOK
    <2>3. status' \in Status /\ check' \in [Caller -> Check] /\ ChecksInv'
      BY <1>9, <2>1, <2>2, ResolvingKeeps DEF Resolve
    <2> QED
      BY <1>9, <2>3 DEF Resolve, TypeOK, world, gateway, rest
  <1>10. ASSUME NEW c \in Caller, Answer(c) PROVE TypeOK' /\ ChecksInv'
    <2>1. /\ \A d \in Caller : d # c => check'[d] = check[d] /\ call'[d] = call[d]
          /\ check'[c].pc = "answered"
      BY <1>10 DEF Answer, Used, TypeOK, OAuthTypeOK, IdleCheck
    <2>2. check' \in [Caller -> Check]
      <3>1. PICK result \in {"healthy", "unhealthy"} :
               check' = [check EXCEPT ![c] = [IdleCheck EXCEPT !.pc = "answered",
                            !.result = result, !.prev = check[c].prev,
                            !.marks = check[c].marks]]
        BY <1>10 DEF Answer
      <3>2. [IdleCheck EXCEPT !.pc = "answered", !.result = result,
                              !.prev = check[c].prev, !.marks = check[c].marks] \in Check
        BY DEF TypeOK, IdleCheck, Check, CheckPc, Status
      <3> QED
        BY <3>1, <3>2 DEF TypeOK
    <2>3. ChecksInv'
      BY <2>1 DEF ChecksInv
    <2> QED
      BY <1>10, <2>2, <2>3 DEF Answer, TypeOK, world, gateway, rest
  <1>11. ASSUME NEW c \in Caller, Finish(c) PROVE TypeOK' /\ ChecksInv'
    <2> DEFINE later == IF c = "loop" THEN check[c].result # check[c].prev
                                      ELSE check[c].marks
               new == [IdleCheck EXCEPT !.pc = IF later THEN "report" ELSE @]
    <2>1. check' = [check EXCEPT ![c] = new] /\ UNCHANGED call
      BY <1>11 DEF Finish, oauth
    <2>2. new \in Check /\ new.pc \in {"report", "idle"}
      BY <1>i DEF Check, CheckPc, IdleCheck, Status
    <2> HIDE DEF new
    <2>3. check' \in [Caller -> Check] /\ ChecksInv'
      BY <2>1, <2>2 DEF TypeOK, ChecksInv
    <2>4. status' \in Status /\ dirty' \in BOOLEAN
      BY <1>11 DEF Finish, TypeOK, Check
    <2> QED
      BY <1>11, <2>3, <2>4 DEF Finish, TypeOK, world, rest
  <1>12. ASSUME NEW c \in Caller, Report(c) PROVE TypeOK' /\ ChecksInv'
    <2>1. check' \in [Caller -> Check] /\ UNCHANGED call /\ ChecksInv'
      BY <1>12, <1>i DEF Report, TypeOK, ChecksInv, oauth
    <2> QED
      BY <1>12, <2>1 DEF Report, TypeOK, world, rest
  <1>13. CASE Show
    BY <1>13, <1>u DEF Show, TypeOK, Status, world, gateway, oauth
  <1>14. CASE FlushReads
    BY <1>14, <1>u DEF FlushReads, TypeOK, Config, world, rest, oauth
  <1>15. CASE FlushApplies
    BY <1>15, <1>u DEF FlushApplies, TypeOK, world, rest, oauth
  <1>16. CASE UNCHANGED vars
    BY <1>16, <1>u DEF vars, TypeOK, world, gateway, rest, oauth
  <1> QED
    BY <1>1, <1>3, <1>4, <1>5, <1>6, <1>7, <1>8, <1>9, <1>10, <1>11, <1>12,
       <1>13, <1>14, <1>15, <1>16 DEF Next

LEMMA HealthInvariance == Spec => []HealthInv
  BY HealthInit, HealthNext, PTL DEF Spec

-----------------------------------------------------------------------------

\* The checks, the handlers and the flushes keep every type.
THEOREM HealthTypes == Spec => []TypeOK
  BY HealthInvariance, PTL DEF HealthInv

\* The token a health check sends is one of the credential and the proxy_pass_url
\* of the card it has read, and goes there unless the card names an endpoint, however
\* late the check and whatever was edited, stored or invalidated since; for any
\* callers, credentials, upstreams and endpoints.
THEOREM CheckBearerBound == Spec => []BearerForItsCard
  <1>1. HealthInv => BearerForItsCard
    <2> SUFFICES ASSUME HealthInv, NEW c \in Caller,
                        check[c].pc = "probe", call[c].bearer # Nothing
                 PROVE  /\ call[c].bearer = check[c].config
                        /\ check[c].endpoint = Nothing
                              => Destination(check[c]) = call[c].bearer.host
      BY DEF BearerForItsCard
    <2>1. call[c].bearer = call[c].config
      BY DEF HealthInv, OAuthInv, BearerForItsHost
    <2>2. call[c].config = check[c].config
      BY DEF HealthInv, ChecksInv
    <2> QED
      BY <2>1, <2>2 DEF Destination
  <1> QED
    BY <1>1, HealthInvariance, PTL

\* Health checks at the same time do not stampede the token endpoint.
THEOREM ChecksNoStampede == Spec => []NoStampede
  <1>1. HealthInv => NoStampede
    BY DEF HealthInv, OAuthInv, MintInv, NoStampede
  <1> QED
    BY <1>1, HealthInvariance, PTL
=============================================================================
