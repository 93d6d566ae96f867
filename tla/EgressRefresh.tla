---------------------------- MODULE EgressRefresh ---------------------------
(***************************************************************************)
(* One entry of the egress credential vault: vends read it and refresh it  *)
(* when it is near expiry, one replica at a time under a lease in MongoDB, *)
(* OAuth callbacks store a new consent in it, the user disconnects it.     *)
(*                                                                         *)
(*   registry/egress_auth/service.py: EgressAuthService                    *)
(*   registry/repositories/documentdb/egress_operational_repository.py     *)
(*                                                                         *)
(* A token is abstracted to the consent it came from and its generation    *)
(* since. The provider rotates refresh tokens: it takes a grant's newest   *)
(* one, once, and answers any older one with invalid_grant.                *)
(***************************************************************************)
EXTENDS Naturals, FiniteSets

CONSTANTS
    Vend,           \* the requests for a valid token, each repeated for ever
    Callback,       \* the deliveries of OAuth callbacks
    Process,        \* the replicas of the registry
    ProcessOf,      \* [Vend \cup Callback -> Process]
    Consent,        \* the signed states of the authorize URLs, one per consent
    StateOf,        \* [Callback -> Consent]
    Refreshable,    \* consents for which the provider issued a refresh token
    NoToken,        \* the vault entry does not exist
    Nobody,         \* the lease does not exist
    FaultKind,      \* the calls that may fail, see Faulty
    MaxExpiries,    \* bound: access tokens that come near their expiry
    MaxFaults,      \* bound: failed calls
    MaxCrashes,     \* bound: process deaths
    MaxOverruns,    \* bound: leases that lapse under a running refresh
    MaxDisconnects  \* bound: deletions of the entry by the user

ASSUME EgressConstants ==
    /\ ProcessOf \in [Vend \cup Callback -> Process]
    /\ StateOf \in [Callback -> Consent]
    /\ Refreshable \subseteq Consent
    /\ Nobody \notin Process
    /\ FaultKind \subseteq {"acquire", "acquired", "read", "call", "reply",
                            "exchange", "put", "release"}
    /\ {MaxExpiries, MaxFaults, MaxCrashes, MaxOverruns, MaxDisconnects} \subseteq Nat

VARIABLES
    vault,      \* the vault entry
    lease,      \* the lease document: its holder, and whether it is unexpired
    grant,      \* [Consent -> the grant as the provider knows it]
    vend,       \* [Vend -> where it stands and the token it works on]
    callback,   \* [Callback -> where it stands]
    nonces,     \* the consents whose state nonce is consumed
    lost,       \* consents of which a rotated token was never stored (history)
    connected,  \* the user's last say: a consent stored, not disconnected (history)
    count       \* the bounded counters

vars == <<vault, lease, grant, vend, callback, nonces, lost, connected, count>>

-----------------------------------------------------------------------------
(* Data *)

Token == [consent : Consent, gen : Nat, stale : BOOLEAN, failed : BOOLEAN]
Grant == [gen : Nat, alive : BOOLEAN]

VendPc     == {"idle", "acquire", "reread", "refresh", "put", "fail", "release"}
Counted    == {"expiries", "faults", "crashes", "overruns", "disconnects"}
CallbackPc == {"new", "exchange", "store", "done", "refused"}

Resting == [pc |-> "idle", token |-> NoToken]
Free    == [holder |-> Nobody, live |-> FALSE]

\* Inside the try block of _refresh_single_flight.
Working(v) == vend[v].pc \in {"reread", "refresh", "put", "fail", "release"}

Bounded(what, max) == count[what] < max /\ count' = [count EXCEPT ![what] = @ + 1]
Faulty(kind) == kind \in FaultKind /\ Bounded("faults", MaxFaults)
NoFault == UNCHANGED count

Init ==
    /\ vault = NoToken
    /\ lease = Free
    /\ grant = [s \in Consent |-> [gen |-> 0, alive |-> FALSE]]
    /\ vend = [v \in Vend |-> Resting]
    /\ callback = [c \in Callback |-> "new"]
    /\ nonces = {}
    /\ lost = {}
    /\ connected = FALSE
    /\ count = [what \in Counted |-> 0]

-----------------------------------------------------------------------------
(* EgressAuthService.get_valid_token and _refresh_single_flight *)

Goto(v, pc) == vend' = [vend EXCEPT ![v].pc = pc]
Answer(v)   == vend' = [vend EXCEPT ![v] = Resting]

RefreshDue == vault # NoToken /\ ~vault.failed /\ vault.stale

\* The first read finds no connection, a dead one, or a token to vend as it is.
AnswerAtOnce(v) ==
    /\ vend[v].pc = "idle"
    /\ ~RefreshDue
    /\ UNCHANGED vars

\* The first read finds an active entry near its expiry.
Read(v) ==
    /\ vend[v].pc = "idle"
    /\ RefreshDue
    /\ vend' = [vend EXCEPT ![v] = [pc |-> "acquire", token |-> vault]]
    /\ UNCHANGED <<vault, lease, grant, callback, nonces, lost, connected, count>>

\* Mutant: a lease is never taken over.
Acquirable_IfFree == lease.holder = Nobody

\* Mutant: acquire_lease succeeds for every caller.
Acquirable_Always == TRUE

\* acquire_lease: the document is missing or expired; an unexpired one refuses
\* every caller, those of the holder's own process included.
Acquirable == lease.holder = Nobody \/ ~lease.live

Taken(v) == lease' = [holder |-> ProcessOf[v], live |-> TRUE]

\* A contended vend reads the entry once more and answers with what it finds.
Acquire(v) ==
    /\ vend[v].pc = "acquire"
    /\ \/ Acquirable /\ Taken(v) /\ Goto(v, "reread") /\ NoFault
       \/ ~Acquirable /\ UNCHANGED lease /\ Answer(v) /\ NoFault
       \/ Faulty("acquire") /\ UNCHANGED lease /\ Answer(v)
       \/ Acquirable /\ Faulty("acquired") /\ Taken(v) /\ Answer(v)
    /\ UNCHANGED <<vault, grant, callback, nonces, lost, connected>>

\* Mutant: the token of the first read is refreshed.
Reread_FirstRead(v) ==
    /\ vend[v].pc = "reread"
    /\ Goto(v, IF vend[v].token.consent \in Refreshable THEN "refresh" ELSE "release")
    /\ UNCHANGED <<vault, lease, grant, callback, nonces, lost, connected, count>>

\* The read under the lease. The status of the entry is not tested again.
Reread(v) ==
    /\ vend[v].pc = "reread"
    /\ \/ /\ IF vault # NoToken /\ vault.stale /\ vault.consent \in Refreshable
             THEN vend' = [vend EXCEPT ![v] = [pc |-> "refresh", token |-> vault]]
             ELSE Goto(v, "release")
          /\ NoFault
       \/ Faulty("read") /\ Goto(v, "release")
    /\ UNCHANGED <<vault, lease, grant, callback, nonces, lost, connected>>

\* What the provider thinks of a refresh token.
Accepted(token) == grant[token.consent].alive /\ grant[token.consent].gen = token.gen
Rotate(token)   == grant' = [grant EXCEPT ![token.consent].gen = @ + 1]

\* oauth_engine.refresh_token: a new token; invalid_grant; or an error, before
\* or after the provider acted on the request.
Refresh(v) ==
    LET token == vend[v].token IN
    /\ vend[v].pc = "refresh"
    /\ \/ Accepted(token) /\ Rotate(token) /\ Goto(v, "put") /\ NoFault /\ UNCHANGED lost
       \/ ~Accepted(token) /\ Goto(v, "fail") /\ NoFault /\ UNCHANGED <<grant, lost>>
       \/ Faulty("call") /\ Goto(v, "release") /\ UNCHANGED <<grant, lost>>
       \/ /\ Accepted(token) /\ Rotate(token)
          /\ Faulty("reply") /\ Goto(v, "release")
          /\ lost' = lost \cup {token.consent}
    /\ UNCHANGED <<vault, lease, callback, nonces, connected>>

\* Mutant: the refresh token that was presented is kept.
Refreshed_OldRefreshToken(token) == [token EXCEPT !.stale = FALSE]

Refreshed(token) == [token EXCEPT !.gen = @ + 1, !.stale = FALSE, !.failed = FALSE]

\* The new token replaces whatever the entry holds by now.
Put(v) ==
    /\ vend[v].pc = "put"
    /\ \/ vault' = Refreshed(vend[v].token) /\ NoFault /\ UNCHANGED lost
       \/ Faulty("put") /\ lost' = lost \cup {vend[v].token.consent} /\ UNCHANGED vault
    /\ Goto(v, "release")
    /\ UNCHANGED <<lease, grant, callback, nonces, connected>>

\* Dead refresh token: the token that was read replaces it, as refresh_failed.
MarkFailed(v) ==
    /\ vend[v].pc = "fail"
    /\ \/ vault' = [vend[v].token EXCEPT !.failed = TRUE] /\ NoFault
       \/ Faulty("put") /\ UNCHANGED vault
    /\ Goto(v, "release")
    /\ UNCHANGED <<lease, grant, callback, nonces, lost, connected>>

\* Mutant: the lease document is left to its expiry, as held by nobody.
Released_KeepsRecord(p) == IF lease.holder = p THEN [lease EXCEPT !.holder = Nobody] ELSE lease

\* release_lease deletes the document if its holder is this process, whichever
\* of the process's vends acquired it.
Released(p) == IF lease.holder = p THEN Free ELSE lease

Release(v) ==
    /\ vend[v].pc = "release"
    /\ \/ lease' = Released(ProcessOf[v]) /\ NoFault
       \/ Faulty("release") /\ UNCHANGED lease
    /\ Answer(v)
    /\ UNCHANGED <<vault, grant, callback, nonces, lost, connected>>

-----------------------------------------------------------------------------
(* EgressAuthService.handle_callback and disconnect *)

ConsumeNonce(c) ==
    /\ callback[c] = "new"
    /\ IF StateOf[c] \in nonces
       THEN callback' = [callback EXCEPT ![c] = "refused"] /\ UNCHANGED nonces
       ELSE /\ callback' = [callback EXCEPT ![c] = "exchange"]
            /\ nonces' = nonces \cup {StateOf[c]}
    /\ UNCHANGED <<vault, lease, grant, vend, lost, connected, count>>

Exchange(c) ==
    /\ callback[c] = "exchange"
    /\ \/ /\ grant' = [grant EXCEPT ![StateOf[c]].alive = TRUE]
          /\ callback' = [callback EXCEPT ![c] = "store"]
          /\ NoFault
       \/ /\ Faulty("exchange")
          /\ callback' = [callback EXCEPT ![c] = "done"]
          /\ UNCHANGED grant
    /\ UNCHANGED <<vault, lease, vend, nonces, lost, connected>>

Store(c) ==
    /\ callback[c] = "store"
    /\ callback' = [callback EXCEPT ![c] = "done"]
    /\ \/ /\ vault' = [consent |-> StateOf[c], gen |-> 0, stale |-> FALSE, failed |-> FALSE]
          /\ connected' = TRUE
          /\ NoFault
       \/ Faulty("put") /\ UNCHANGED <<vault, connected>>
    /\ UNCHANGED <<lease, grant, vend, nonces, lost>>

Disconnect ==
    /\ Bounded("disconnects", MaxDisconnects)
    /\ vault' = NoToken
    /\ connected' = FALSE
    /\ UNCHANGED <<lease, grant, vend, callback, nonces, lost>>

-----------------------------------------------------------------------------
(* Processes, time and the provider *)

\* A replica dies: its requests end where they are, its lease stays.
Die(p) ==
    /\ Bounded("crashes", MaxCrashes)
    /\ vend' = [v \in Vend |-> IF ProcessOf[v] = p THEN Resting ELSE vend[v]]
    /\ callback' = [c \in Callback |->
                      IF ProcessOf[c] = p /\ callback[c] \in {"exchange", "store"}
                      THEN "done" ELSE callback[c]]
    /\ lost' = lost \cup {vend[v].token.consent :
                            v \in {u \in Vend : ProcessOf[u] = p /\ vend[u].pc = "put"}}
    /\ UNCHANGED <<vault, lease, grant, nonces, connected>>

\* expires_at_dt passes. The TTL equals the time one HTTP call to the provider
\* may take, nothing renews the lease; one that lapses under its refresh is an
\* overrun.
LeaseLapses ==
    /\ lease.live
    /\ lease' = [lease EXCEPT !.live = FALSE]
    /\ IF \E v \in Vend : ProcessOf[v] = lease.holder /\ Working(v)
       THEN Bounded("overruns", MaxOverruns)
       ELSE UNCHANGED count
    /\ UNCHANGED <<vault, grant, vend, callback, nonces, lost, connected>>

TokenNearsExpiry ==
    /\ vault # NoToken
    /\ ~vault.stale
    /\ vault' = [vault EXCEPT !.stale = TRUE]
    /\ Bounded("expiries", MaxExpiries)
    /\ UNCHANGED <<lease, grant, vend, callback, nonces, lost, connected>>

\* A grant is revoked at the provider.
Revoke(s) ==
    /\ grant[s].alive
    /\ grant' = [grant EXCEPT ![s].alive = FALSE]
    /\ UNCHANGED <<vault, lease, vend, callback, nonces, lost, connected, count>>

-----------------------------------------------------------------------------

VendStep(v) ==
    \/ Read(v) \/ Acquire(v) \/ Reread(v) \/ Refresh(v)
    \/ Put(v) \/ MarkFailed(v) \/ Release(v)

Next ==
    \/ \E v \in Vend : VendStep(v) \/ AnswerAtOnce(v)
    \/ \E c \in Callback : ConsumeNonce(c) \/ Exchange(c) \/ Store(c)
    \/ Disconnect
    \/ \E p \in Process : Die(p)
    \/ LeaseLapses \/ TokenNearsExpiry
    \/ \E s \in Consent : Revoke(s)

Spec == Init /\ [][Next]_vars

\* A request that was accepted runs on, wall clock time passes, and the token
\* keeps being asked for: the refresh is lazy.
Fairness ==
    /\ \A v \in Vend : WF_vars(VendStep(v))
    /\ WF_vars(LeaseLapses)

FairSpec == Spec /\ Fairness

-----------------------------------------------------------------------------
(* Properties *)

\* The entry, the lease and the requests keep their types, and a lease document
\* that is gone is not unexpired.
TypeOK ==
    /\ vault \in Token \cup {NoToken}
    /\ lease \in [holder : Process \cup {Nobody}, live : BOOLEAN]
    /\ grant \in [Consent -> Grant]
    /\ vend \in [Vend -> [pc : VendPc, token : Token \cup {NoToken}]]
    /\ callback \in [Callback -> CallbackPc]
    /\ nonces \subseteq Consent
    /\ lost \subseteq Consent
    /\ connected \in BOOLEAN
    /\ count \in [Counted -> Nat]
    /\ lease.live => lease.holder # Nobody
    /\ \A v \in Vend : vend[v].pc # "idle" => vend[v].token # NoToken

\* Without overruns, a refresh token the provider has rotated is never presented
\* again, by any replica, unless the token that replaced it was lost: the lease
\* and the read under it leave no vend with an old one, however long ago its
\* first read was.
RotatedNeverReplayed ==
    \A v \in Vend :
        vend[v].pc = "refresh" /\ vend[v].token.consent \notin lost =>
            vend[v].token.gen = grant[vend[v].token.consent].gen

\* Without overruns, an entry is refresh_failed only because the provider ended
\* the grant or the rotated token was lost; never because two vends raced.
FailedOnlyIfDead ==
    vault # NoToken /\ vault.failed =>
        ~grant[vault.consent].alive \/ vault.consent \in lost

\* Without overruns, between refreshes the vault holds the newest token of the
\* grant it shows, also after callbacks and disconnects ran into a refresh.
VaultInSync ==
    vault # NoToken /\ vault.consent \notin lost /\ (\A v \in Vend : ~Working(v)) =>
        vault.gen = grant[vault.consent].gen

\* A token near its expiry is refreshed in the end, or found dead: a replica
\* that dies in the middle, or whose release fails, does not leave the others
\* vending the old token for ever.
StaleIsResolved ==
    RefreshDue /\ vault.consent \in Refreshable ~> ~RefreshDue

\* "Delete the vault entry (idempotent)": once the user has disconnected, the
\* entry stays away until the user consents again.
DisconnectSticks == ~connected => vault = NoToken
=============================================================================
