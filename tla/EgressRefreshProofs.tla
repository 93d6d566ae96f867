------------------------ MODULE EgressRefreshProofs -------------------------
(***************************************************************************)
(* Theorems about EgressRefresh, for every set of replicas, requests,      *)
(* callbacks and consents and for every bound.                             *)
(***************************************************************************)
EXTENDS EgressRefresh, TLAPS

-----------------------------------------------------------------------------
(* Type correctness *)

\* The counters of the environment stay natural numbers.
LEMMA CountType ==
    ASSUME TypeOK,
           \/ UNCHANGED count
           \/ \E what \in Counted,
                 max \in Nat : Bounded(what, max)
    PROVE  count' \in [Counted -> Nat]
<1>1. CASE UNCHANGED count
  BY <1>1 DEF TypeOK
<1>2. ASSUME NEW what \in Counted,
             NEW max \in Nat, Bounded(what, max)
      PROVE  count' \in [Counted -> Nat]
  <2>1. count[what] + 1 \in Nat
    BY DEF TypeOK
  <2> QED
    BY <1>2, <2>1 DEF TypeOK, Bounded
<1> QED
  BY <1>1, <1>2

\* The bounds of the counters are natural numbers.
LEMMA BoundsType ==
    /\ MaxExpiries \in Nat /\ MaxFaults \in Nat /\ MaxCrashes \in Nat
    /\ MaxOverruns \in Nat /\ MaxDisconnects \in Nat
BY EgressConstants

\* A request belongs to a replica, a callback to a consent.
LEMMA ActorType ==
    /\ \A v \in Vend : ProcessOf[v] \in Process /\ ProcessOf[v] # Nobody
    /\ \A c \in Callback : StateOf[c] \in Consent
BY EgressConstants

\* A call that may fail leaves the counters typed.
LEMMA FaultType ==
    ASSUME TypeOK, NEW kind, NoFault \/ Faulty(kind)
    PROVE  count' \in [Counted -> Nat]
<1>1. UNCHANGED count \/ Bounded("faults", MaxFaults)
  BY DEF NoFault, Faulty
<1> QED
  BY <1>1, BoundsType, CountType DEF Counted

\* What storing the answer of the provider keeps of a token, and changes.
LEMMA RefreshedFields ==
    ASSUME NEW token \in Token
    PROVE  /\ Refreshed(token) \in Token
           /\ Refreshed(token).consent = token.consent
           /\ Refreshed(token).gen = token.gen + 1
           /\ ~Refreshed(token).failed
<1> DEFINE next == token.gen + 1
<1>1. next \in Nat
  BY DEF Token
<1>2. Refreshed(token) = [token EXCEPT !.gen = next, !.stale = FALSE, !.failed = FALSE]
  BY Zenon DEF Refreshed
<1>3. next = token.gen + 1
  OBVIOUS
<1> HIDE DEF next
<1> QED
  BY <1>1, <1>2, <1>3 DEF Token

\* Marking a token as failed changes nothing else of it.
LEMMA FailedFields ==
    ASSUME NEW token \in Token
    PROVE  /\ [token EXCEPT !.failed = TRUE] \in Token
           /\ [token EXCEPT !.failed = TRUE].consent = token.consent
           /\ [token EXCEPT !.failed = TRUE].gen = token.gen
BY DEF Token

\* The initial state is typed.
LEMMA TypeInit == Init => TypeOK
<1> SUFFICES ASSUME Init PROVE TypeOK
  OBVIOUS
<1>1. lease \in [holder : Process \cup {Nobody}, live : BOOLEAN] /\ ~lease.live
  BY DEF Init, Free
<1>2. grant \in [Consent -> Grant]
  BY DEF Init, Grant
<1>3. vend \in [Vend -> [pc : VendPc, token : Token \cup {NoToken}]]
  BY DEF Init, Resting, VendPc
<1>4. \A v \in Vend : vend[v].pc = "idle"
  BY DEF Init, Resting
<1>5. callback \in [Callback -> CallbackPc]
  BY DEF Init, CallbackPc
<1>6. count \in [Counted -> Nat]
  BY DEF Init
<1> QED
  BY <1>1, <1>2, <1>3, <1>4, <1>5, <1>6 DEF Init, TypeOK

\* Every step of every actor keeps the types.
LEMMA TypeStep == TypeOK /\ [Next]_vars => TypeOK'
<1> SUFFICES ASSUME TypeOK, [Next]_vars PROVE TypeOK'
  OBVIOUS
<1> USE DEF TypeOK
<1>1. ASSUME NEW v \in Vend, Read(v) PROVE TypeOK'
  BY <1>1 DEF Read, RefreshDue, VendPc
<1>2. ASSUME NEW v \in Vend, Acquire(v) PROVE TypeOK'
  <2>1. count' \in [Counted -> Nat]
    <3>1. NoFault \/ Faulty("acquire") \/ Faulty("acquired")
      BY <1>2 DEF Acquire
    <3> QED
      BY <3>1, FaultType
  <2>2. /\ vend' \in [Vend -> [pc : VendPc, token : Token \cup {NoToken}]]
        /\ \A u \in Vend : vend'[u].pc # "idle" => vend'[u].token # NoToken
    <3>1. Goto(v, "reread") \/ Answer(v)
      BY <1>2 DEF Acquire
    <3> QED
      BY <1>2, <3>1 DEF Acquire, Goto, Answer, Resting, VendPc
  <2>3. /\ lease' \in [holder : Process \cup {Nobody}, live : BOOLEAN]
        /\ lease'.live => lease'.holder # Nobody
    <3>1. UNCHANGED lease \/ Taken(v)
      BY <1>2 DEF Acquire
    <3> QED
      <4>1. CASE UNCHANGED lease
        BY <4>1
      <4>2. CASE Taken(v)
        BY <4>2, ActorType DEF Taken
      <4> QED
        BY <3>1, <4>1, <4>2
  <2> QED
    BY <1>2, <2>1, <2>2, <2>3 DEF Acquire
<1>3. ASSUME NEW v \in Vend, Reread(v) PROVE TypeOK'
  <2>1. count' \in [Counted -> Nat]
    <3>1. NoFault \/ Faulty("read")
      BY <1>3 DEF Reread
    <3> QED
      BY <3>1, FaultType
  <2>2. /\ vend' \in [Vend -> [pc : VendPc, token : Token \cup {NoToken}]]
        /\ \A u \in Vend : vend'[u].pc # "idle" => vend'[u].token # NoToken
    <3>1. \/ vault # NoToken /\ vend' = [vend EXCEPT ![v] = [pc |-> "refresh", token |-> vault]]
          \/ Goto(v, "release")
      BY <1>3 DEF Reread
    <3> QED
      BY <1>3, <3>1 DEF Reread, Goto, VendPc
  <2> QED
    BY <1>3, <2>1, <2>2 DEF Reread
<1>4. ASSUME NEW v \in Vend, Refresh(v) PROVE TypeOK'
  <2>1. count' \in [Counted -> Nat]
    <3>1. NoFault \/ Faulty("call") \/ Faulty("reply")
      BY <1>4 DEF Refresh
    <3> QED
      BY <3>1, FaultType
  <2>2. /\ vend' \in [Vend -> [pc : VendPc, token : Token \cup {NoToken}]]
        /\ \A u \in Vend : vend'[u].pc # "idle" => vend'[u].token # NoToken
    <3>1. Goto(v, "put") \/ Goto(v, "fail") \/ Goto(v, "release")
      BY <1>4 DEF Refresh
    <3> QED
      BY <1>4, <3>1 DEF Refresh, Goto, VendPc
  <2>3. vend[v].token \in Token
    BY <1>4 DEF Refresh
  <2>4. grant' \in [Consent -> Grant] /\ lost' \subseteq Consent
    <3>1. /\ UNCHANGED grant \/ Rotate(vend[v].token)
          /\ UNCHANGED lost \/ lost' = lost \cup {vend[v].token.consent}
      BY <1>4 DEF Refresh
    <3>2. vend[v].token.consent \in Consent
      BY <2>3 DEF Token
    <3>3. [grant[vend[v].token.consent] EXCEPT !.gen = @ + 1] \in Grant
      BY <3>2 DEF Grant
    <3>4. ASSUME Rotate(vend[v].token) PROVE grant' \in [Consent -> Grant]
      BY <3>2, <3>3, <3>4 DEF Rotate
    <3> QED
      BY <3>1, <3>2, <3>4
  <2> QED
    BY <1>4, <2>1, <2>2, <2>4 DEF Refresh
<1>5. ASSUME NEW v \in Vend, Put(v) PROVE TypeOK'
  <2>1. count' \in [Counted -> Nat]
    <3>1. NoFault \/ Faulty("put")
      BY <1>5 DEF Put
    <3> QED
      BY <3>1, FaultType
  <2>2. vend[v].token \in Token /\ vend[v].token.consent \in Consent
    BY <1>5 DEF Put, Token
  <2>3. Refreshed(vend[v].token) \in Token
    BY <2>2, RefreshedFields
  <2>4. vault' \in Token \cup {NoToken} /\ lost' \subseteq Consent
    BY <1>5, <2>2, <2>3 DEF Put
  <2>5. /\ vend' \in [Vend -> [pc : VendPc, token : Token \cup {NoToken}]]
        /\ \A u \in Vend : vend'[u].pc # "idle" => vend'[u].token # NoToken
    BY <1>5 DEF Put, Goto, VendPc
  <2> QED
    BY <1>5, <2>1, <2>4, <2>5 DEF Put
<1>6. ASSUME NEW v \in Vend, MarkFailed(v) PROVE TypeOK'
  <2>1. count' \in [Counted -> Nat]
    <3>1. NoFault \/ Faulty("put")
      BY <1>6 DEF MarkFailed
    <3> QED
      BY <3>1, FaultType
  <2>2. vault' \in Token \cup {NoToken}
    <3>1. vend[v].token \in Token
      BY <1>6 DEF MarkFailed
    <3>2. [vend[v].token EXCEPT !.failed = TRUE] \in Token
      BY <3>1, FailedFields
    <3> QED
      BY <1>6, <3>2 DEF MarkFailed
  <2>3. /\ vend' \in [Vend -> [pc : VendPc, token : Token \cup {NoToken}]]
        /\ \A u \in Vend : vend'[u].pc # "idle" => vend'[u].token # NoToken
    BY <1>6 DEF MarkFailed, Goto, VendPc
  <2> QED
    BY <1>6, <2>1, <2>2, <2>3 DEF MarkFailed
<1>7. ASSUME NEW v \in Vend, Release(v) PROVE TypeOK'
  <2>1. count' \in [Counted -> Nat]
    <3>1. NoFault \/ Faulty("release")
      BY <1>7 DEF Release
    <3> QED
      BY <3>1, FaultType
  <2>2. /\ lease' \in [holder : Process \cup {Nobody}, live : BOOLEAN]
        /\ lease'.live => lease'.holder # Nobody
    <3>1. UNCHANGED lease \/ lease' = Free
      BY <1>7 DEF Release, Released
    <3>2. CASE UNCHANGED lease
      BY <3>2
    <3>3. CASE lease' = Free
      BY <3>3 DEF Free
    <3> QED
      BY <3>1, <3>2, <3>3
  <2>3. /\ vend' \in [Vend -> [pc : VendPc, token : Token \cup {NoToken}]]
        /\ \A u \in Vend : vend'[u].pc # "idle" => vend'[u].token # NoToken
    BY <1>7 DEF Release, Answer, Resting, VendPc
  <2> QED
    BY <1>7, <2>1, <2>2, <2>3 DEF Release
<1>8. ASSUME NEW c \in Callback, ConsumeNonce(c) PROVE TypeOK'
  BY <1>8, EgressConstants DEF ConsumeNonce, CallbackPc
<1>9. ASSUME NEW c \in Callback, Exchange(c) PROVE TypeOK'
  <2>1. count' \in [Counted -> Nat]
    <3>1. NoFault \/ Faulty("exchange")
      BY <1>9 DEF Exchange
    <3> QED
      BY <3>1, FaultType
  <2>2. grant' \in [Consent -> Grant]
    <3>1. [grant[StateOf[c]] EXCEPT !.alive = TRUE] \in Grant
      BY ActorType DEF Grant
    <3> QED
      BY <1>9, <3>1 DEF Exchange
  <2>3. callback' \in [Callback -> CallbackPc]
    BY <1>9 DEF Exchange, CallbackPc
  <2> QED
    BY <1>9, <2>1, <2>2, <2>3 DEF Exchange
<1>10. ASSUME NEW c \in Callback, Store(c) PROVE TypeOK'
  <2>1. count' \in [Counted -> Nat]
    <3>1. NoFault \/ Faulty("put")
      BY <1>10 DEF Store
    <3> QED
      BY <3>1, FaultType
  <2>2. vault' \in Token \cup {NoToken} /\ connected' \in BOOLEAN
    <3>1. [consent |-> StateOf[c], gen |-> 0, stale |-> FALSE, failed |-> FALSE] \in Token
      BY ActorType DEF Token
    <3> QED
      BY <1>10, <3>1 DEF Store
  <2>3. callback' \in [Callback -> CallbackPc]
    BY <1>10 DEF Store, CallbackPc
  <2> QED
    BY <1>10, <2>1, <2>2, <2>3 DEF Store
<1>11. CASE Disconnect
  <2>1. count' \in [Counted -> Nat]
    BY <1>11, BoundsType, CountType DEF Counted, Disconnect
  <2> QED
    BY <1>11, <2>1 DEF Disconnect
<1>12. ASSUME NEW p \in Process, Die(p) PROVE TypeOK'
  <2>1. count' \in [Counted -> Nat]
    BY <1>12, BoundsType, CountType DEF Counted, Die
  <2>2. /\ vend' \in [Vend -> [pc : VendPc, token : Token \cup {NoToken}]]
        /\ \A u \in Vend : vend'[u].pc # "idle" => vend'[u].token # NoToken
    BY <1>12 DEF Die, Resting, VendPc
  <2>3. callback' \in [Callback -> CallbackPc]
    BY <1>12 DEF Die, CallbackPc
  <2>4. lost' \subseteq Consent
    BY <1>12 DEF Die, Token
  <2> QED
    BY <1>12, <2>1, <2>2, <2>3, <2>4 DEF Die
<1>13. CASE LeaseLapses
  <2>1. count' \in [Counted -> Nat]
    BY <1>13, BoundsType, CountType DEF Counted, LeaseLapses
  <2> QED
    BY <1>13, <2>1 DEF LeaseLapses
<1>14. CASE TokenNearsExpiry
  <2>1. count' \in [Counted -> Nat]
    BY <1>14, BoundsType, CountType DEF Counted, TokenNearsExpiry
  <2>2. vault' \in Token
    BY <1>14 DEF TokenNearsExpiry, Token
  <2> QED
    BY <1>14, <2>1, <2>2 DEF TokenNearsExpiry
<1>15. ASSUME NEW s \in Consent, Revoke(s) PROVE TypeOK'
  BY <1>15 DEF Revoke, Grant
<1>16. CASE UNCHANGED vars
  BY <1>16 DEF vars
<1>17. ASSUME NEW v \in Vend, AnswerAtOnce(v) PROVE TypeOK'
  BY <1>16, <1>17 DEF AnswerAtOnce
<1> QED
  BY <1>1, <1>2, <1>3, <1>4, <1>5, <1>6, <1>7, <1>8, <1>9, <1>10, <1>11, <1>12, <1>13,
     <1>14, <1>15, <1>16, <1>17 DEF Next, VendStep

\* The entry, the lease and the requests keep their types, for every number of
\* them.
THEOREM TypeCorrect == Spec => []TypeOK
BY TypeInit, TypeStep, PTL DEF Spec

-----------------------------------------------------------------------------
(* The lease admits one refresh at a time *)

\* A vend inside the refresh holds an unexpired lease in the name of its
\* replica, and is alone.
Exclusive ==
    \A v \in Vend : Working(v) =>
        /\ lease.live
        /\ lease.holder = ProcessOf[v]
        /\ \A u \in Vend : Working(u) => u = v

\* A lease that can be acquired is nobody's.
LEMMA NobodyWorks ==
    ASSUME TypeOK, Exclusive, Acquirable
    PROVE  \A v \in Vend : ~Working(v)
BY ActorType DEF Exclusive, Acquirable

\* Steps that neither touch the lease nor let another vend into the refresh.
LEMMA ExclusiveFrame ==
    ASSUME Exclusive, UNCHANGED lease, \A v \in Vend : Working(v)' => Working(v)
    PROVE  Exclusive'
BY DEF Exclusive

\* No step lets a second vend into the refresh, as long as no lease lapses under
\* a running one.
LEMMA ExclusiveStep ==
    ASSUME MaxOverruns = 0, TypeOK, Exclusive, [Next]_vars
    PROVE  Exclusive'
<1>1. ASSUME NEW v \in Vend, Read(v) PROVE Exclusive'
  BY <1>1, ExclusiveFrame DEF Read, Working, TypeOK
<1>2. ASSUME NEW v \in Vend, Acquire(v) PROVE Exclusive'
  <2>1. CASE UNCHANGED lease /\ Answer(v)
    BY <2>1, ExclusiveFrame DEF Answer, Resting, Working, TypeOK
  <2>2. CASE Acquirable /\ Taken(v) /\ (Goto(v, "reread") \/ Answer(v))
    <3>1. \A u \in Vend : ~Working(u)
      BY <2>2, NobodyWorks
    <3>2. \A u \in Vend \ {v} : ~Working(u)'
      BY <2>2, <3>1 DEF Goto, Answer, Working, TypeOK
    <3>3. lease'.live /\ lease'.holder = ProcessOf[v]
      BY <2>2 DEF Taken
    <3> QED
      BY <3>2, <3>3 DEF Exclusive
  <2> QED
    BY <1>2, <2>1, <2>2 DEF Acquire
<1>3. ASSUME NEW v \in Vend, Reread(v) \/ Refresh(v) \/ Put(v) \/ MarkFailed(v)
      PROVE  Exclusive'
  <2>1. Working(v) /\ UNCHANGED lease
    BY <1>3 DEF Reread, Refresh, Put, MarkFailed, Working
  <2>2. \A u \in Vend \ {v} : vend'[u] = vend[u]
    BY <1>3 DEF Reread, Refresh, Put, MarkFailed, Goto, TypeOK
  <2>3. \A u \in Vend : Working(u)' => Working(u)
    BY <2>1, <2>2 DEF Working
  <2> QED
    BY <2>1, <2>3, ExclusiveFrame
<1>4. ASSUME NEW v \in Vend, Release(v) PROVE Exclusive'
  <2>1. \A u \in Vend \ {v} : ~Working(u)
    BY <1>4 DEF Release, Exclusive, Working
  <2>2. \A u \in Vend : ~Working(u)'
    BY <1>4, <2>1 DEF Release, Answer, Resting, Working, TypeOK
  <2> QED
    BY <2>2 DEF Exclusive
<1>5. ASSUME UNCHANGED <<lease, vend>> PROVE Exclusive'
  BY <1>5, ExclusiveFrame DEF Working
<1>6. ASSUME NEW c \in Callback, ConsumeNonce(c) \/ Exchange(c) \/ Store(c) PROVE Exclusive'
  BY <1>5, <1>6 DEF ConsumeNonce, Exchange, Store
<1>7. CASE Disconnect \/ TokenNearsExpiry \/ (\E s \in Consent : Revoke(s)) \/ UNCHANGED vars
  BY <1>5, <1>7 DEF Disconnect, TokenNearsExpiry, Revoke, vars
<1>8. ASSUME NEW p \in Process, Die(p) PROVE Exclusive'
  BY <1>8, ExclusiveFrame DEF Die, Resting, Working, TypeOK
<1>9. CASE LeaseLapses
  <2>1. ~\E v \in Vend : ProcessOf[v] = lease.holder /\ Working(v)
    <3>1. count["overruns"] \in Nat
      BY DEF TypeOK, Counted
    <3>2. ~Bounded("overruns", MaxOverruns)
      BY <3>1 DEF Bounded
    <3> QED
      BY <1>9, <3>2 DEF LeaseLapses
  <2>2. \A v \in Vend : ~Working(v)
    BY <2>1 DEF Exclusive
  <2> QED
    BY <1>9, <2>2 DEF LeaseLapses, Exclusive, Working
<1>10. ASSUME NEW v \in Vend, AnswerAtOnce(v) PROVE Exclusive'
  BY <1>7, <1>10 DEF AnswerAtOnce
<1> QED
  BY <1>1, <1>2, <1>3, <1>4, <1>6, <1>7, <1>8, <1>9, <1>10 DEF Next, VendStep

-----------------------------------------------------------------------------
(* A consent is stored at most once, before anything is refreshed from it *)

\* Nothing has been stored or refreshed of the consent.
Untouched(s) ==
    /\ grant[s].gen = 0
    /\ vault # NoToken => vault.consent # s
    /\ \A v \in Vend : vend[v].token # NoToken => vend[v].token.consent # s

Pending(c) == callback[c] \in {"exchange", "store"}

\* The state nonce lets one callback of a consent through.
StoredOnce ==
    /\ \A s \in Consent \ nonces : Untouched(s)
    /\ \A c \in Callback : Pending(c) =>
         /\ StateOf[c] \in nonces
         /\ Untouched(StateOf[c])
         /\ \A d \in Callback : Pending(d) /\ StateOf[d] = StateOf[c] => d = c

\* Steps that leave untouched consents untouched and let no callback through.
LEMMA StoredOnceFrame ==
    ASSUME StoredOnce,
           \A s \in Consent : Untouched(s) => Untouched(s)',
           UNCHANGED nonces,
           \A c \in Callback : Pending(c)' => Pending(c)
    PROVE  StoredOnce'
BY ActorType DEF StoredOnce

\* No step stores a consent twice, or after it was refreshed.
LEMMA StoredOnceStep ==
    ASSUME TypeOK, StoredOnce, [Next]_vars
    PROVE  StoredOnce'
<1>1. ASSUME NEW v \in Vend, Read(v) PROVE StoredOnce'
  <2>1. \A s \in Consent : Untouched(s) => Untouched(s)'
    BY <1>1 DEF Read, RefreshDue, Untouched, TypeOK
  <2> QED
    BY <1>1, <2>1, StoredOnceFrame DEF Read, Pending
<1>2. ASSUME NEW v \in Vend, Acquire(v) \/ Release(v) PROVE StoredOnce'
  <2>1. \A u \in Vend : vend'[u].token \in {vend[u].token, NoToken}
    BY <1>2 DEF Acquire, Release, Goto, Answer, Resting, TypeOK
  <2>2. UNCHANGED <<grant, vault, nonces, callback>>
    BY <1>2 DEF Acquire, Release
  <2>3. \A s \in Consent : Untouched(s) => Untouched(s)'
    BY <2>1, <2>2 DEF Untouched
  <2> QED
    BY <2>2, <2>3, StoredOnceFrame DEF Pending
<1>3. ASSUME NEW v \in Vend, Reread(v) PROVE StoredOnce'
  <2>1. ASSUME NEW u \in Vend
        PROVE  \/ vend'[u].token = vend[u].token
               \/ vault # NoToken /\ vend'[u].token = vault
    <3>1. \/ vault # NoToken /\ vend' = [vend EXCEPT ![v] = [pc |-> "refresh", token |-> vault]]
          \/ Goto(v, "release")
      BY <1>3 DEF Reread
    <3>2. CASE Goto(v, "release")
      BY <3>2 DEF Goto, TypeOK
    <3>3. CASE vault # NoToken /\ vend' = [vend EXCEPT ![v] = [pc |-> "refresh", token |-> vault]]
      BY <3>3 DEF TypeOK
    <3> QED
      BY <3>1, <3>2, <3>3
  <2>2. UNCHANGED <<grant, vault, nonces, callback>>
    BY <1>3 DEF Reread
  <2>3. \A s \in Consent : Untouched(s) => Untouched(s)'
    BY <2>1, <2>2 DEF Untouched
  <2> QED
    BY <2>2, <2>3, StoredOnceFrame DEF Pending
<1>4. ASSUME NEW v \in Vend, Refresh(v) PROVE StoredOnce'
  <2>1. vend[v].token # NoToken
    BY <1>4 DEF Refresh, TypeOK
  <2>2. \A s \in Consent : s # vend[v].token.consent => grant'[s] = grant[s]
    BY <1>4 DEF Refresh, Rotate, TypeOK
  <2>3. \A u \in Vend : vend'[u].token = vend[u].token
    BY <1>4 DEF Refresh, Goto, TypeOK
  <2>4. UNCHANGED <<vault, nonces, callback>>
    BY <1>4 DEF Refresh
  <2>5. \A s \in Consent : Untouched(s) => Untouched(s)'
    BY <2>1, <2>2, <2>3, <2>4 DEF Untouched
  <2> QED
    BY <2>4, <2>5, StoredOnceFrame DEF Pending
<1>5. ASSUME NEW v \in Vend, Put(v) \/ MarkFailed(v) PROVE StoredOnce'
  <2>1. vend[v].token # NoToken /\ vend[v].token \in Token
    BY <1>5 DEF Put, MarkFailed, TypeOK
  <2>2. vault' = vault \/ vault'.consent = vend[v].token.consent
    BY <1>5, <2>1, RefreshedFields, FailedFields DEF Put, MarkFailed
  <2>3. \A u \in Vend : vend'[u].token = vend[u].token
    BY <1>5 DEF Put, MarkFailed, Goto, TypeOK
  <2>4. UNCHANGED <<grant, nonces, callback>>
    BY <1>5 DEF Put, MarkFailed
  <2>5. \A s \in Consent : Untouched(s) => Untouched(s)'
    BY <2>1, <2>2, <2>3, <2>4 DEF Untouched
  <2> QED
    BY <2>4, <2>5, StoredOnceFrame DEF Pending
<1>6. ASSUME NEW c \in Callback, ConsumeNonce(c) PROVE StoredOnce'
  <2>1. \A s \in Consent : Untouched(s)' <=> Untouched(s)
    BY <1>6 DEF ConsumeNonce, Untouched
  <2>2. CASE StateOf[c] \in nonces
    <3>1. \A d \in Callback : Pending(d)' => Pending(d)
      BY <1>6, <2>2 DEF ConsumeNonce, Pending, TypeOK
    <3> QED
      BY <1>6, <2>1, <2>2, <3>1, StoredOnceFrame DEF ConsumeNonce
  <2>3. CASE StateOf[c] \notin nonces
    <3>1. Untouched(StateOf[c])
      BY <2>3, ActorType DEF StoredOnce
    <3>2. \A d \in Callback : Pending(d) => StateOf[d] # StateOf[c]
      BY <2>3 DEF StoredOnce
    <3>3. nonces' = nonces \cup {StateOf[c]}
      BY <1>6, <2>3 DEF ConsumeNonce
    <3>4. \A d \in Callback : Pending(d)' => Pending(d) \/ d = c
      BY <1>6, <2>3 DEF ConsumeNonce, Pending, TypeOK
    <3> QED
      BY <2>1, <3>1, <3>2, <3>3, <3>4, ActorType DEF StoredOnce
  <2> QED
    BY <2>2, <2>3
<1>7. ASSUME NEW c \in Callback, Exchange(c) PROVE StoredOnce'
  <2>1. \A s \in Consent : grant'[s].gen = grant[s].gen
    BY <1>7 DEF Exchange, TypeOK, Grant
  <2>2. \A s \in Consent : Untouched(s) => Untouched(s)'
    BY <1>7, <2>1 DEF Exchange, Untouched
  <2>3. \A d \in Callback : Pending(d)' => Pending(d)
    BY <1>7 DEF Exchange, Pending, TypeOK
  <2> QED
    BY <1>7, <2>2, <2>3, StoredOnceFrame DEF Exchange
<1>8. ASSUME NEW c \in Callback, Store(c) PROVE StoredOnce'
  <2>1. Pending(c) /\ StateOf[c] \in nonces
    BY <1>8 DEF Store, Pending, StoredOnce
  <2>2. \A s \in Consent : Untouched(s) /\ s # StateOf[c] => Untouched(s)'
    BY <1>8 DEF Store, Untouched
  <2>3. \A d \in Callback : Pending(d)' => Pending(d) /\ d # c
    BY <1>8 DEF Store, Pending, TypeOK
  <2>4. \A d \in Callback : Pending(d)' => StateOf[d] # StateOf[c]
    BY <2>1, <2>3 DEF StoredOnce
  <2>5. UNCHANGED nonces
    BY <1>8 DEF Store
  <2> QED
    BY <2>1, <2>2, <2>3, <2>4, <2>5, ActorType DEF StoredOnce
<1>9. CASE Disconnect \/ TokenNearsExpiry
  <2>1. \A s \in Consent : Untouched(s) => Untouched(s)'
    <3>1. \/ vault' = NoToken
          \/ vault # NoToken /\ vault'.consent = vault.consent
      BY <1>9 DEF Disconnect, TokenNearsExpiry, TypeOK, Token
    <3> QED
      BY <1>9, <3>1 DEF Disconnect, TokenNearsExpiry, Untouched
  <2> QED
    BY <1>9, <2>1, StoredOnceFrame DEF Disconnect, TokenNearsExpiry, Pending
<1>10. ASSUME NEW p \in Process, Die(p) PROVE StoredOnce'
  <2>1. \A v \in Vend : vend'[v].token \in {vend[v].token, NoToken}
    BY <1>10 DEF Die, Resting
  <2>2. \A c \in Callback : Pending(c)' => Pending(c)
    BY <1>10 DEF Die, Pending
  <2>3. \A s \in Consent : Untouched(s) => Untouched(s)'
    BY <1>10, <2>1 DEF Die, Untouched
  <2> QED
    BY <1>10, <2>2, <2>3, StoredOnceFrame DEF Die
<1>11. ASSUME NEW s \in Consent, Revoke(s) PROVE StoredOnce'
  <2>1. \A t \in Consent : grant'[t].gen = grant[t].gen
    BY <1>11 DEF Revoke, TypeOK, Grant
  <2>2. \A t \in Consent : Untouched(t) => Untouched(t)'
    BY <1>11, <2>1 DEF Revoke, Untouched
  <2> QED
    BY <1>11, <2>2, StoredOnceFrame DEF Revoke, Pending
<1>12. CASE LeaseLapses \/ UNCHANGED vars
  BY <1>12, StoredOnceFrame DEF LeaseLapses, vars, Untouched, Pending
<1>13. ASSUME NEW v \in Vend, AnswerAtOnce(v) PROVE StoredOnce'
  BY <1>12, <1>13 DEF AnswerAtOnce
<1> QED
  BY <1>1, <1>2, <1>3, <1>4, <1>5, <1>6, <1>7, <1>8, <1>9, <1>10, <1>11, <1>12, <1>13
     DEF Next, VendStep

-----------------------------------------------------------------------------
(* The tokens of the vault and of the refreshes are the newest *)

Presenting(v) == vend[v].pc \in {"refresh", "fail"}
Putting(v)    == vend[v].pc = "put"

Newest(token) == token.consent \in lost \/ token.gen = grant[token.consent].gen
AboutToBeNewest(token)  == token.consent \in lost \/ token.gen + 1 = grant[token.consent].gen

\* Unless a rotated token was lost, the provider holds the generation of the
\* vault and of the tokens being presented, or the one after that of the token
\* whose successor is about to be stored.
Generations ==
    /\ vault # NoToken =>
         \/ Newest(vault)
         \/ \E v \in Vend : Putting(v) /\ vend[v].token.consent = vault.consent
    /\ \A v \in Vend : Presenting(v) => Newest(vend[v].token)
    /\ \A v \in Vend : Putting(v) => AboutToBeNewest(vend[v].token)

\* Steps after which every token presented or put was so before, and no grant
\* has changed its generation.
LEMMA GenerationsFrame ==
    ASSUME TypeOK, Generations,
           \A s \in Consent : grant'[s].gen = grant[s].gen,
           UNCHANGED lost,
           \/ vault' = NoToken
           \/ /\ vault # NoToken
              /\ vault'.consent = vault.consent
              /\ vault'.gen = vault.gen
           \/ UNCHANGED vault,
           \A v \in Vend :
             /\ Presenting(v)' => Presenting(v) /\ vend'[v].token = vend[v].token
             /\ Putting(v)' => Putting(v)
             /\ Putting(v) => Putting(v)' /\ vend'[v].token = vend[v].token
    PROVE  Generations'
<1>1. \A v \in Vend : Presenting(v) \/ Putting(v) =>
          vend[v].token \in Token /\ vend[v].token.consent \in Consent
  BY DEF Presenting, Putting, TypeOK, Token
<1>2. vault # NoToken => vault \in Token /\ vault.consent \in Consent
  BY DEF TypeOK, Token
<1>3. ASSUME NEW v \in Vend, Presenting(v)' PROVE Newest(vend[v].token)'
  BY <1>1, <1>3 DEF Generations, Newest
<1>4. ASSUME NEW v \in Vend, Putting(v)' PROVE AboutToBeNewest(vend[v].token)'
  BY <1>1, <1>4 DEF Generations, AboutToBeNewest
<1>5. ASSUME vault' # NoToken
      PROVE  \/ Newest(vault)'
             \/ \E v \in Vend : Putting(v)' /\ vend'[v].token.consent = vault'.consent
  <2>1. vault # NoToken /\ vault'.consent = vault.consent /\ vault'.gen = vault.gen
    BY <1>5
  <2>2. CASE Newest(vault)
    BY <1>2, <2>1, <2>2 DEF Newest
  <2>3. CASE \E v \in Vend : Putting(v) /\ vend[v].token.consent = vault.consent
    BY <2>1, <2>3
  <2> QED
    BY <2>1, <2>2, <2>3 DEF Generations
<1> QED
  BY <1>3, <1>4, <1>5 DEF Generations

\* The read under the lease is of the newest token, for nobody is about to
\* store a newer one, and only the refresh itself rotates it.
LEMMA GenerationsStep ==
    ASSUME TypeOK, Exclusive, StoredOnce, Generations, [Next]_vars
    PROVE  Generations'
<1>1. ASSUME NEW v \in Vend, Read(v) \/ Acquire(v) \/ Release(v) PROVE Generations'
  <2>1. UNCHANGED <<grant, lost, vault>>
    BY <1>1 DEF Read, Acquire, Release
  <2>2. ~Presenting(v)' /\ ~Putting(v)' /\ ~Putting(v)
    BY <1>1 DEF Read, Acquire, Release, Goto, Answer, Resting, Presenting, Putting, TypeOK
  <2>3. \A u \in Vend \ {v} : vend'[u] = vend[u]
    BY <1>1 DEF Read, Acquire, Release, Goto, Answer, TypeOK
  <2>4. \A u \in Vend :
           /\ Presenting(u)' => Presenting(u) /\ vend'[u].token = vend[u].token
           /\ Putting(u)' => Putting(u)
           /\ Putting(u) => Putting(u)' /\ vend'[u].token = vend[u].token
    BY <2>2, <2>3 DEF Presenting, Putting
  <2> QED
    BY <2>1, <2>4, GenerationsFrame
<1>2. ASSUME NEW v \in Vend, Reread(v) PROVE Generations'
  <2>1. UNCHANGED <<grant, lost, vault>>
    BY <1>2 DEF Reread
  <2>2. \A u \in Vend : ~Putting(u)
    BY <1>2 DEF Reread, Exclusive, Working, Putting
  <2>3. vault # NoToken => Newest(vault)
    BY <2>2 DEF Generations
  <2>4. CASE vault # NoToken /\ vend' = [vend EXCEPT ![v] = [pc |-> "refresh", token |-> vault]]
    <3>1. vend'[v] = [pc |-> "refresh", token |-> vault]
      BY <2>4 DEF TypeOK
    <3>2. \A u \in Vend \ {v} : vend'[u] = vend[u]
      BY <2>4 DEF TypeOK
    <3>3. \A u \in Vend : ~Putting(u)'
      BY <2>2, <3>1, <3>2 DEF Putting
    <3>4. \A u \in Vend : Presenting(u)' => Newest(vend'[u].token)
      BY <2>3, <2>4, <3>1, <3>2 DEF Generations, Presenting
    <3> QED
      BY <2>1, <2>3, <3>3, <3>4 DEF Generations, Newest
  <2>5. CASE Goto(v, "release")
    <3>1. \A u \in Vend : ~Putting(u)' /\ (Presenting(u)' => vend'[u] = vend[u])
      BY <2>2, <2>5 DEF Goto, Putting, Presenting, TypeOK
    <3> QED
      BY <2>1, <2>3, <3>1 DEF Generations, Newest, Presenting
  <2> QED
    BY <1>2, <2>4, <2>5 DEF Reread
<1>3. ASSUME NEW v \in Vend, Refresh(v) PROVE Generations'
  <2> DEFINE token == vend[v].token
  <2>1. token \in Token /\ token.consent \in Consent
    BY <1>3 DEF Refresh, TypeOK, Token
  <2>2. /\ \A u \in Vend : ~Putting(u)
        /\ \A u \in Vend \ {v} : ~Presenting(u)
    BY <1>3 DEF Refresh, Exclusive, Working, Presenting, Putting
  <2>3. vault # NoToken => Newest(vault)
    BY <2>2 DEF Generations
  <2>4. /\ \A u \in Vend \ {v} : vend'[u] = vend[u]
        /\ vend'[v].token = token
        /\ UNCHANGED vault
    BY <1>3 DEF Refresh, Goto, TypeOK
  <2>5. CASE Accepted(token) /\ Rotate(token) /\ Goto(v, "put") /\ UNCHANGED lost
    <3>1. vend'[v].pc = "put"
      BY <2>5 DEF Goto, TypeOK
    <3>2. token.gen = grant[token.consent].gen
      BY <2>5 DEF Accepted
    <3>3. grant'[token.consent].gen = grant[token.consent].gen + 1
      BY <2>1, <2>5 DEF Rotate, TypeOK, Grant
    <3>4. \A s \in Consent \ {token.consent} : grant'[s] = grant[s]
      BY <2>5 DEF Rotate, TypeOK
    <3>5. \A u \in Vend : Putting(u)' => AboutToBeNewest(vend[u].token)'
      BY <2>2, <2>4, <3>2, <3>3 DEF Putting, AboutToBeNewest
    <3>6. \A u \in Vend : ~Presenting(u)'
      BY <2>2, <2>4, <3>1 DEF Presenting
    <3>7. vault' # NoToken =>
             \/ Newest(vault)'
             \/ Putting(v)' /\ vend'[v].token.consent = vault'.consent
      BY <2>3, <2>4, <2>5, <3>1, <3>4 DEF Newest, Putting, TypeOK, Token
    <3> QED
      BY <3>5, <3>6, <3>7 DEF Generations
  <2>6. CASE /\ UNCHANGED <<grant, lost>>
             /\ Goto(v, "fail") \/ Goto(v, "release")
    <3>1. \A u \in Vend : ~Putting(u)'
      BY <2>2, <2>4, <2>6 DEF Goto, Putting, TypeOK
    <3>2. Newest(token)
      BY <1>3 DEF Generations, Presenting, Refresh
    <3>3. \A u \in Vend : Presenting(u)' => u = v
      BY <2>2, <2>4 DEF Presenting
    <3> QED
      BY <2>3, <2>4, <2>6, <3>1, <3>2, <3>3 DEF Generations, Newest
  <2>7. CASE /\ Rotate(token) /\ Goto(v, "release")
             /\ lost' = lost \cup {token.consent}
    <3>1. vend'[v].pc = "release"
      BY <2>7 DEF Goto, TypeOK
    <3>2. \A u \in Vend : ~Putting(u)' /\ ~Presenting(u)'
      BY <2>2, <2>4, <3>1 DEF Putting, Presenting
    <3>3. \A s \in Consent \ {token.consent} : grant'[s] = grant[s]
      BY <2>7 DEF Rotate, TypeOK
    <3>4. vault' # NoToken => Newest(vault)'
      BY <2>3, <2>4, <2>7, <3>3 DEF Newest, TypeOK, Token
    <3> QED
      BY <3>2, <3>4 DEF Generations
  <2> QED
    BY <1>3, <2>5, <2>6, <2>7 DEF Refresh
<1>4. ASSUME NEW v \in Vend, Put(v) PROVE Generations'
  <2> DEFINE token == vend[v].token
  <2>1. token \in Token /\ token.consent \in Consent
    BY <1>4 DEF Put, TypeOK, Token
  <2>2. \A u \in Vend \ {v} : ~Putting(u) /\ ~Presenting(u)
    BY <1>4 DEF Put, Exclusive, Working, Presenting, Putting
  <2>3. \A u \in Vend : ~Putting(u)' /\ ~Presenting(u)'
    BY <1>4, <2>2 DEF Put, Goto, Putting, Presenting, TypeOK
  <2>4. AboutToBeNewest(token)
    BY <1>4 DEF Put, Generations, Putting
  <2>5. UNCHANGED grant
    BY <1>4 DEF Put
  <2>6. CASE vault' = Refreshed(token) /\ UNCHANGED lost
    <3>1. vault'.consent = token.consent /\ vault'.gen = token.gen + 1
      BY <2>1, <2>6, RefreshedFields
    <3>2. Newest(vault)'
      BY <2>4, <2>5, <2>6, <3>1 DEF Newest, AboutToBeNewest
    <3> QED
      BY <2>3, <3>2 DEF Generations
  <2>7. CASE lost' = lost \cup {token.consent} /\ UNCHANGED vault
    <3>1. vault # NoToken => Newest(vault)'
      BY <2>2, <2>5, <2>7 DEF Generations, Newest
    <3> QED
      BY <2>3, <2>7, <3>1 DEF Generations
  <2> QED
    BY <1>4, <2>6, <2>7 DEF Put
<1>5. ASSUME NEW v \in Vend, MarkFailed(v) PROVE Generations'
  <2> DEFINE token == vend[v].token
  <2>1. token \in Token /\ token.consent \in Consent
    BY <1>5 DEF MarkFailed, TypeOK, Token
  <2>2. /\ \A u \in Vend : ~Putting(u)
        /\ \A u \in Vend \ {v} : ~Presenting(u)
    BY <1>5 DEF MarkFailed, Exclusive, Working, Presenting, Putting
  <2>3. \A u \in Vend : ~Putting(u)' /\ ~Presenting(u)'
    BY <1>5, <2>2 DEF MarkFailed, Goto, Putting, Presenting, TypeOK
  <2>4. Newest(token) /\ (vault # NoToken => Newest(vault))
    BY <1>5, <2>2 DEF MarkFailed, Generations, Presenting
  <2>5. UNCHANGED <<grant, lost>>
    BY <1>5 DEF MarkFailed
  <2>6. \/ vault' = vault
        \/ vault'.consent = token.consent /\ vault'.gen = token.gen
    BY <1>5, <2>1, FailedFields DEF MarkFailed
  <2>7. vault' # NoToken => Newest(vault)'
    BY <2>4, <2>5, <2>6 DEF Newest
  <2> QED
    BY <2>3, <2>7 DEF Generations
<1>6. ASSUME NEW c \in Callback, ConsumeNonce(c) PROVE Generations'
  BY <1>6, GenerationsFrame DEF ConsumeNonce, Presenting, Putting
<1>7. ASSUME NEW c \in Callback, Exchange(c) PROVE Generations'
  <2>1. \A s \in Consent : grant'[s].gen = grant[s].gen
    BY <1>7 DEF Exchange, TypeOK, Grant
  <2> QED
    BY <1>7, <2>1, GenerationsFrame DEF Exchange, Presenting, Putting
<1>8. ASSUME NEW c \in Callback, Store(c) PROVE Generations'
  <2>1. grant[StateOf[c]].gen = 0
    BY <1>8 DEF Store, StoredOnce, Pending, Untouched
  <2>2. UNCHANGED <<grant, vend, lost>>
    BY <1>8 DEF Store
  <2>3. \/ UNCHANGED vault
        \/ vault' = [consent |-> StateOf[c], gen |-> 0, stale |-> FALSE, failed |-> FALSE]
    BY <1>8 DEF Store
  <2>4. CASE UNCHANGED vault
    BY <2>2, <2>4, GenerationsFrame DEF Presenting, Putting
  <2>5. CASE vault' = [consent |-> StateOf[c], gen |-> 0, stale |-> FALSE, failed |-> FALSE]
    <3>1. Newest(vault)'
      BY <2>1, <2>2, <2>5 DEF Newest
    <3> QED
      BY <2>2, <3>1 DEF Generations, Newest, AboutToBeNewest, Presenting, Putting
  <2> QED
    BY <2>3, <2>4, <2>5
<1>9. CASE Disconnect \/ TokenNearsExpiry
  <2>1. \/ vault' = NoToken
        \/ vault # NoToken /\ vault'.consent = vault.consent /\ vault'.gen = vault.gen
    BY <1>9 DEF Disconnect, TokenNearsExpiry, TypeOK, Token
  <2> QED
    BY <1>9, <2>1, GenerationsFrame DEF Disconnect, TokenNearsExpiry, Presenting, Putting
<1>10. ASSUME NEW p \in Process, Die(p) PROVE Generations'
  <2> DEFINE stopped == {u \in Vend : ProcessOf[u] = p /\ Putting(u)}
  <2>1. lost' = lost \cup {vend[u].token.consent : u \in stopped}
    BY <1>10 DEF Die, Putting
  <2>2. \A u \in Vend : vend'[u] = IF ProcessOf[u] = p THEN Resting ELSE vend[u]
    BY <1>10 DEF Die
  <2>3. \A u \in Vend : Presenting(u)' \/ Putting(u)' => vend'[u] = vend[u]
    BY <2>2 DEF Presenting, Putting, Resting
  <2>4. UNCHANGED <<vault, grant>> /\ lost \subseteq lost'
    BY <1>10, <2>1 DEF Die
  <2>5. \A u \in Vend : Presenting(u)' => Newest(vend[u].token)'
    BY <2>3, <2>4 DEF Generations, Presenting, Newest
  <2>6. \A u \in Vend : Putting(u)' => AboutToBeNewest(vend[u].token)'
    BY <2>3, <2>4 DEF Generations, Putting, AboutToBeNewest
  <2>7. ASSUME vault # NoToken, NEW u \in Vend, Putting(u),
               vend[u].token.consent = vault.consent
        PROVE  \/ Newest(vault)'
               \/ Putting(u)' /\ vend'[u].token.consent = vault'.consent
    <3>1. CASE ProcessOf[u] = p
      BY <2>1, <2>4, <2>7, <3>1 DEF Newest
    <3>2. CASE ProcessOf[u] # p
      BY <2>2, <2>4, <2>7, <3>2 DEF Putting
    <3> QED
      BY <3>1, <3>2
  <2>8. vault # NoToken /\ Newest(vault) => Newest(vault)'
    BY <2>4 DEF Newest
  <2>9. vault # NoToken /\ ~Newest(vault) =>
          \E u \in Vend : Putting(u) /\ vend[u].token.consent = vault.consent
    BY DEF Generations
  <2>10. vault' # NoToken =>
           \/ Newest(vault)'
           \/ \E u \in Vend : Putting(u)' /\ vend'[u].token.consent = vault'.consent
    BY <2>4, <2>7, <2>8, <2>9
  <2>11. \A u \in Vend : /\ Presenting(u)' => Newest(vend[u].token)'
                         /\ Putting(u)' => AboutToBeNewest(vend[u].token)'
    BY <2>5, <2>6
  <2> QED
    BY <2>10, <2>11 DEF Generations
<1>11. ASSUME NEW s \in Consent, Revoke(s) PROVE Generations'
  <2>1. \A t \in Consent : grant'[t].gen = grant[t].gen
    BY <1>11 DEF Revoke, TypeOK, Grant
  <2> QED
    BY <1>11, <2>1, GenerationsFrame DEF Revoke, Presenting, Putting
<1>12. CASE LeaseLapses \/ UNCHANGED vars
  BY <1>12, GenerationsFrame DEF LeaseLapses, vars, Presenting, Putting
<1>13. ASSUME NEW v \in Vend, AnswerAtOnce(v) PROVE Generations'
  BY <1>12, <1>13 DEF AnswerAtOnce
<1> QED
  BY <1>1, <1>2, <1>3, <1>4, <1>5, <1>6, <1>7, <1>8, <1>9, <1>10, <1>11, <1>12, <1>13
     DEF Next, VendStep

-----------------------------------------------------------------------------
(* An entry is marked failed only if it is dead *)

Dead(token) == ~grant[token.consent].alive \/ token.consent \in lost

\* What is marked failed, or about to be, is dead.
Deaths ==
    /\ FailedOnlyIfDead
    /\ \A v \in Vend : vend[v].pc = "fail" => Dead(vend[v].token)

\* Steps that neither mark a token nor bring a grant to life.
LEMMA DeathsFrame ==
    ASSUME TypeOK, Deaths,
           \A s \in Consent : grant'[s].alive => grant[s].alive,
           lost \subseteq lost',
           \/ vault' = NoToken
           \/ ~vault'.failed
           \/ /\ vault # NoToken
              /\ vault'.consent = vault.consent
              /\ vault'.failed => vault.failed
           \/ UNCHANGED vault,
           \A v \in Vend : vend'[v].pc = "fail" => vend'[v] = vend[v]
    PROVE  Deaths'
<1>1. \A v \in Vend : vend[v].pc = "fail" => vend[v].token.consent \in Consent
  BY DEF TypeOK, Token
<1>2. vault # NoToken => vault.consent \in Consent
  BY DEF TypeOK, Token
<1>3. FailedOnlyIfDead'
  BY <1>2 DEF Deaths, FailedOnlyIfDead
<1>4. ASSUME NEW v \in Vend, vend'[v].pc = "fail" PROVE Dead(vend[v].token)'
  BY <1>1, <1>4 DEF Deaths, Dead
<1> QED
  BY <1>3, <1>4 DEF Deaths

\* A refresh token is refused only if its grant has ended or it is not the
\* newest, which it is unless the newest was lost.
LEMMA DeathsStep ==
    ASSUME TypeOK, StoredOnce, Generations, Deaths, [Next]_vars
    PROVE  Deaths'
<1>1. ASSUME NEW v \in Vend, Read(v) \/ Acquire(v) \/ Reread(v) \/ Release(v)
      PROVE  Deaths'
  <2>1. UNCHANGED <<grant, lost, vault>>
    BY <1>1 DEF Read, Acquire, Reread, Release
  <2>2. vend'[v].pc # "fail"
    BY <1>1 DEF Read, Acquire, Reread, Release, Goto, Answer, Resting, TypeOK
  <2>3. \A u \in Vend \ {v} : vend'[u] = vend[u]
    BY <1>1 DEF Read, Acquire, Reread, Release, Goto, Answer, TypeOK
  <2> QED
    BY <2>1, <2>2, <2>3, DeathsFrame
<1>2. ASSUME NEW v \in Vend, Refresh(v) PROVE Deaths'
  <2> DEFINE token == vend[v].token
  <2>1. token \in Token /\ token.consent \in Consent
    BY <1>2 DEF Refresh, TypeOK, Token
  <2>2. /\ \A s \in Consent : grant'[s].alive => grant[s].alive
        /\ lost \subseteq lost'
        /\ UNCHANGED vault
    <3>1. ASSUME Rotate(token) PROVE \A s \in Consent : grant'[s].alive = grant[s].alive
      BY <2>1, <3>1 DEF Rotate, TypeOK, Grant
    <3> QED
      BY <1>2, <3>1 DEF Refresh
  <2>3. \A u \in Vend \ {v} : vend'[u] = vend[u]
    BY <1>2 DEF Refresh, Goto, TypeOK
  <2>4. CASE Goto(v, "put") \/ Goto(v, "release")
    <3>1. vend'[v].pc # "fail"
      BY <2>4 DEF Goto, TypeOK
    <3> QED
      BY <2>2, <2>3, <3>1, DeathsFrame
  <2>5. CASE ~Accepted(token) /\ Goto(v, "fail") /\ UNCHANGED <<grant, lost>>
    <3>1. Newest(token)
      BY <1>2 DEF Refresh, Generations, Presenting
    <3>2. Dead(token)
      BY <2>5, <3>1 DEF Accepted, Newest, Dead
    <3>3. vend'[v].token = token
      BY <2>5 DEF Goto, TypeOK
    <3>4. \A u \in Vend : vend'[u].pc = "fail" => Dead(vend[u].token)'
      BY <2>3, <2>5, <3>2, <3>3 DEF Deaths, Dead
    <3> QED
      BY <2>2, <2>5, <3>4 DEF Deaths, FailedOnlyIfDead
  <2> QED
    BY <1>2, <2>4, <2>5 DEF Refresh
<1>3. ASSUME NEW v \in Vend, Put(v) PROVE Deaths'
  <2>1. vend[v].token \in Token
    BY <1>3 DEF Put, TypeOK
  <2>2. UNCHANGED vault \/ ~vault'.failed
    BY <1>3, <2>1, RefreshedFields DEF Put
  <2>3. \A u \in Vend : vend'[u].pc = "fail" => vend'[u] = vend[u]
    BY <1>3 DEF Put, Goto, TypeOK
  <2>4. UNCHANGED grant /\ lost \subseteq lost'
    BY <1>3 DEF Put
  <2> QED
    BY <2>2, <2>3, <2>4, DeathsFrame
<1>4. ASSUME NEW v \in Vend, MarkFailed(v) PROVE Deaths'
  <2>1. vend[v].token \in Token /\ Dead(vend[v].token)
    BY <1>4 DEF MarkFailed, TypeOK, Deaths
  <2>2. UNCHANGED <<grant, lost>>
    BY <1>4 DEF MarkFailed
  <2>3. UNCHANGED vault \/ vault'.consent = vend[v].token.consent
    BY <1>4, <2>1, FailedFields DEF MarkFailed
  <2>4. FailedOnlyIfDead'
    BY <2>1, <2>2, <2>3 DEF Deaths, FailedOnlyIfDead, Dead
  <2>5. \A u \in Vend : vend'[u].pc = "fail" => vend'[u] = vend[u]
    BY <1>4 DEF MarkFailed, Goto, TypeOK
  <2> QED
    BY <2>2, <2>4, <2>5 DEF Deaths, Dead
<1>5. ASSUME NEW c \in Callback, ConsumeNonce(c) PROVE Deaths'
  BY <1>5, DeathsFrame DEF ConsumeNonce
<1>6. ASSUME NEW c \in Callback, Exchange(c) PROVE Deaths'
  <2>1. Untouched(StateOf[c])
    BY <1>6 DEF Exchange, StoredOnce, Pending
  <2>2. \A s \in Consent \ {StateOf[c]} : grant'[s] = grant[s]
    BY <1>6 DEF Exchange, TypeOK
  <2>3. vault # NoToken => vault.consent \in Consent \ {StateOf[c]}
    BY <2>1 DEF Untouched, TypeOK, Token
  <2>4. \A v \in Vend : vend[v].pc = "fail" => vend[v].token.consent \in Consent \ {StateOf[c]}
    BY <2>1 DEF Untouched, TypeOK, Token
  <2> QED
    BY <1>6, <2>2, <2>3, <2>4 DEF Exchange, Deaths, FailedOnlyIfDead, Dead
<1>7. ASSUME NEW c \in Callback, Store(c) PROVE Deaths'
  <2>1. UNCHANGED vault \/ ~vault'.failed
    BY <1>7 DEF Store
  <2> QED
    BY <1>7, <2>1, DeathsFrame DEF Store
<1>8. CASE Disconnect \/ TokenNearsExpiry
  <2>1. \/ vault' = NoToken
        \/ /\ vault # NoToken
           /\ vault'.consent = vault.consent
           /\ vault'.failed => vault.failed
    BY <1>8 DEF Disconnect, TokenNearsExpiry, TypeOK, Token
  <2> QED
    BY <1>8, <2>1, DeathsFrame DEF Disconnect, TokenNearsExpiry
<1>9. ASSUME NEW p \in Process, Die(p) PROVE Deaths'
  <2>1. \A v \in Vend : vend'[v].pc = "fail" => vend'[v] = vend[v]
    BY <1>9 DEF Die, Resting
  <2>2. lost \subseteq lost' /\ UNCHANGED <<vault, grant>>
    BY <1>9 DEF Die
  <2> QED
    BY <2>1, <2>2, DeathsFrame
<1>10. ASSUME NEW s \in Consent, Revoke(s) PROVE Deaths'
  <2>1. \A t \in Consent : grant'[t].alive => grant[t].alive
    BY <1>10 DEF Revoke, TypeOK, Grant
  <2> QED
    BY <1>10, <2>1, DeathsFrame DEF Revoke
<1>11. CASE LeaseLapses \/ UNCHANGED vars
  BY <1>11, DeathsFrame DEF LeaseLapses, vars
<1>12. ASSUME NEW v \in Vend, AnswerAtOnce(v) PROVE Deaths'
  BY <1>11, <1>12 DEF AnswerAtOnce
<1> QED
  BY <1>1, <1>2, <1>3, <1>4, <1>5, <1>6, <1>7, <1>8, <1>9, <1>10, <1>11, <1>12
     DEF Next, VendStep

-----------------------------------------------------------------------------
(* The theorems *)

\* What holds in every state, as long as no lease lapses under its refresh.
EgressInv == TypeOK /\ Exclusive /\ StoredOnce /\ Generations /\ Deaths

\* Without overruns the invariant holds throughout.
LEMMA EgressInvHolds ==
    ASSUME MaxOverruns = 0
    PROVE  Spec => []EgressInv
<1>1. Init => EgressInv
  <2> SUFFICES ASSUME Init PROVE EgressInv
    OBVIOUS
  <2>1. /\ vault = NoToken
        /\ \A v \in Vend : vend[v].pc = "idle" /\ vend[v].token = NoToken
        /\ \A c \in Callback : callback[c] = "new"
        /\ \A s \in Consent : grant[s].gen = 0
    BY DEF Init, Resting
  <2>2. Exclusive /\ Generations /\ Deaths
    BY <2>1 DEF Exclusive, Working, Generations, Presenting, Putting, Deaths, FailedOnlyIfDead
  <2>3. StoredOnce
    BY <2>1 DEF StoredOnce, Untouched, Pending
  <2> QED
    BY <2>2, <2>3, TypeInit DEF EgressInv
<1>2. EgressInv /\ [Next]_vars => EgressInv'
  BY TypeStep, ExclusiveStep, StoredOnceStep, GenerationsStep, DeathsStep DEF EgressInv
<1> QED
  BY <1>1, <1>2, PTL DEF Spec

\* No replica ever presents a refresh token the provider has rotated, unless
\* what replaced it was lost: for any number of replicas, requests, consents,
\* disconnects, crashes and failed calls.
THEOREM NoReplay ==
    ASSUME MaxOverruns = 0
    PROVE  Spec => []RotatedNeverReplayed
<1>1. EgressInv => RotatedNeverReplayed
  BY DEF EgressInv, Generations, RotatedNeverReplayed, Presenting, Newest
<1> QED
  BY <1>1, EgressInvHolds, PTL

\* An entry is marked refresh_failed only if the provider ended its grant or its
\* newest token was lost, however vends, callbacks and disconnects race.
THEOREM NoFalseDeath ==
    ASSUME MaxOverruns = 0
    PROVE  Spec => []FailedOnlyIfDead
<1>1. EgressInv => FailedOnlyIfDead
  BY DEF EgressInv, Deaths
<1> QED
  BY <1>1, EgressInvHolds, PTL

\* Between refreshes the vault holds the newest token of its grant.
THEOREM VaultFollowsProvider ==
    ASSUME MaxOverruns = 0
    PROVE  Spec => []VaultInSync
<1>1. EgressInv => VaultInSync
  BY DEF EgressInv, Generations, VaultInSync, Putting, Newest, Working
<1> QED
  BY <1>1, EgressInvHolds, PTL

=============================================================================
