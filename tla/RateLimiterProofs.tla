----------------------------- MODULE RateLimiterProofs ----------------------
(***************************************************************************)
(* Theorems about RateLimiter, for any definitions, groups, documents,     *)
(* requests, replicas, changes and bounds.                                 *)
(***************************************************************************)
EXTENDS RateLimiter, FiniteSetTheorems, WellFoundedInduction, TLAPS

GatesOf(r)  == {GateFor(d, Call[r]) : d \in Definition}
CounterKeys == Keys \X (0 .. MaxTime)

RequestType(r) ==
    [pc : RequestPc, docs : Seq(Subject), groups : SUBSET Groups, gates : SUBSET GatesOf(r),
     began : (0 .. MaxTime) \cup {Nothing}, gate : GatesOf(r) \cup {Nothing},
     index : (0 .. MaxTime) \cup {Nothing}, passed : SUBSET CounterKeys,
     opened : SUBSET GatesOf(r), failed : BOOLEAN, denied : GatesOf(r) \cup {Nothing},
     answer : {Nothing, "allow", "throttled", "quarantined"}]

\* A request stands where its fields say: what it is about to look up or insert
\* is there.
Typed(r, q) ==
    /\ q \in RequestType(r)
    /\ q.pc = "done" <=> q.answer # Nothing
    /\ q.pc = "member_c" => q.docs # <<>>
    /\ q.pc = "insert" => q.gate # Nothing /\ q.index # Nothing

\* What a query can answer.
Answers(query, value) ==
    /\ query[1] = "sentinel" => value \in BOOLEAN
    /\ query[1] = "member" => value \subseteq Groups
    /\ query[1] \in {"caller", "caller_target", "target"} =>
           value \subseteq {d \in Definition : d.axis = query[1] /\ d.names \cap query[2] # {}}

TypeInv ==
    /\ now \in 0 .. MaxTime /\ faults \in 0 .. MaxFaults
    /\ defs \subseteq Definition
    /\ sentinel \in [{"caller", "target"} -> BOOLEAN]
    /\ member \in [Subject -> SUBSET Groups]
    /\ since \in [Subject -> (0 .. MaxTime) \cup {Nothing}]
    /\ DOMAIN counter \subseteq CounterKeys
    /\ \A k \in DOMAIN counter : counter[k] \in Nat \ {0}
    /\ DOMAIN cache = Replica
    /\ \A p \in Replica : \A k \in DOMAIN cache[p] : Answers(k, cache[p][k].value)
    /\ DOMAIN task = Task
    /\ \A a \in Task : task[a].pc = "read" =>
          /\ task[a].change \in Change[a] /\ task[a].change.kind \in {"quarantine", "release"}
          /\ task[a].groups \subseteq Groups
    /\ DOMAIN request = Request
    /\ \A r \in Request : Typed(r, request[r])

Within(keys, window) == \A k \in keys : k[1][4] <= window
Spares(q) ==
    /\ q.pc \in LookupPc => q.passed = {}
    /\ \A h \in q.gates : Within(q.passed, h.window)
    /\ q.pc = "insert" => q.gate \in NextGates(q)
    /\ q.denied # Nothing => q.pc = "done" /\ Within(q.passed, q.denied.window)

\* A document whose quarantine is older than the reply a cache still holds is in
\* quarantine by that reply.
OlderThan(s, until) == since[s] # Nothing /\ since[s] + CacheTTL < until
Known(k, entry) ==
    /\ entry.until \in Nat /\ entry.until <= now + CacheTTL
    /\ \A s \in Subject : OlderThan(s, entry.until) =>
          /\ k = <<"member", s>> => /\ s \in Targets => QuarantineTargets \in entry.value
                                    /\ s \in Callers => QuarantineCallers \in entry.value
          /\ k = <<"sentinel", "target">> /\ s \in Targets => entry.value = TRUE
          /\ k = <<"sentinel", "caller">> /\ s \in Callers => entry.value = TRUE

RangeOf(docs) == {docs[i] : i \in DOMAIN docs}
Cleared(q) == q.pc \notin {"sentinel_t", "member_t"} /\ q.answer # "quarantined"
Old(s, time) == since[s] # Nothing /\ since[s] + CacheTTL <= time

\* Where a request stands tells which documents in quarantine it has yet to see:
\* its target's until it is cleared, its caller's until its last document is read
\* and, should that put it in quarantine, until the group is known to be off.
Screened(r, q) ==
    /\ q.began # Nothing => q.began <= now
    /\ q.began = Nothing => q.pc = "sentinel_t"
    /\ q.pc \in {"sentinel_t", "member_t"} => q.docs = Call[r].docs
    /\ ~q.failed /\ Cleared(q) => ~Old(Call[r].target, q.began)
    /\ ~q.failed /\ ~Call[r].admin => \A s \in RangeOf(Call[r].docs) : Old(s, q.began) =>
          \/ q.answer = "quarantined"
          \/ q.pc \in {"sentinel_t", "member_t", "sentinel_c"}
          \/ q.pc = "member_c" /\ (s \in RangeOf(q.docs) \/ QuarantineCallers \in q.groups)

QuarantineInv ==
    /\ \A s \in Subject : Scoped(s, member[s])
    /\ \A a \in Task : task[a].pc = "read" => Scoped(task[a].change.subject, task[a].groups)
    /\ \A s \in Subject : /\ since[s] # Nothing <=> Imposed(member[s], sentinel)
                          /\ since[s] # Nothing => since[s] <= now
    /\ \A p \in Replica : \A k \in DOMAIN cache[p] : Known(k, cache[p][k])
    /\ \A r \in Request : Screened(r, request[r])

\* What no change touches is in the database and in every reply remembered.
Faithful(k, value) ==
    /\ \A s \in Subject : k = <<"member", s>> /\ Settled(s) =>
          value \ Reserved = Member[s] \ Reserved
    /\ k[1] \in {"caller", "caller_target", "target"} =>
          {d \in Fixed : d.axis = k[1] /\ d.names \cap k[2] # {}} \subseteq value

StoreInv ==
    /\ Fixed \subseteq defs
    /\ \A s \in Subject : Settled(s) => member[s] \ Reserved = Member[s] \ Reserved
    /\ \A a \in Task : task[a].pc = "read" /\ Settled(task[a].change.subject) =>
          task[a].groups \ Reserved = Member[task[a].change.subject] \ Reserved
    /\ \A p \in Replica : \A k \in DOMAIN cache[p] : Faithful(k, cache[p][k].value)

\* Until it enforces its gates, a request has the groups of the documents it has
\* read, and all of them when it leaves the last.
Read(r, q) ==
    /\ q.pc \in {"sentinel_t", "member_t"} => q.docs = Call[r].docs
    /\ q.pc \in {"sentinel_c", "defs_c", "defs_ct"} => q.docs = <<>>
    /\ q.pc \in LookupPc => \A s \in RangeOf(Call[r].docs) :
          s \in RangeOf(q.docs) \/ (Settled(s) => Member[s] \ Reserved \subseteq q.groups)

Has(r, q, d) == \/ \E g \in q.gates : g.key = KeyOf(d, Call[r])
                \/ \E k \in q.passed : k[1] = KeyOf(d, Call[r])
\* The axes whose definitions have been looked up.
Gathered(q) == {axis \in {"caller", "caller_target", "target"} :
                   \/ q.pc \in {"enforce", "insert"} \/ q.answer = "allow"
                   \/ axis # "target" /\ q.pc = "defs_t"
                   \/ axis = "caller" /\ q.pc = "defs_ct"}
\* A gate, or a counter already passed, stands for every definition looked up; a
\* request let through has no gate left.
Gated(r, q) ==
    /\ q.answer = "allow" => q.gates = {}
    /\ ~q.failed => \A d \in Fixed : Covers(d, r) /\ d.axis \in Gathered(q) => Has(r, q, d)
\* No gate is laxer than a definition that counts in the same counter.
Strict(r, q) == \A g \in q.gates :
                   /\ g.limit \in Nat
                   /\ \A d \in Fixed : Covers(d, r) /\ g.key = KeyOf(d, Call[r]) =>
                         g.limit <= LimitOf(d, Call[r])

ReadInv   == \A r \in Request : Read(r, request[r])
GatedInv  == \A r \in Request : Gated(r, request[r])
StrictInv == \A r \in Request : Strict(r, request[r])

\* Every request that passed a counter is in its count.
Passers(k) == {o \in Request : k \in request[o].passed}
CountInv == \A k \in CounterKeys : Cardinality(Passers(k)) <= Count(k)

-----------------------------------------------------------------------------
(* Definitions, gates, windows *)

LEMMA Least == ASSUME NEW S, S \subseteq Nat, S # {}
               PROVE  \E x \in S : \A y \in S : x <= y
  <1> DEFINE Less == {ss \in Nat \X Nat : ss[1] < ss[2]}
  <1>1. IsWellFoundedOn(Less, Nat)
    BY NatLessThanWellFounded DEF OpToRel
  <1>2. \A x, y \in Nat : y < x => <<y, x>> \in Less
    OBVIOUS
  <1> HIDE DEF Less
  <1>3. PICK x \in S : \A y \in S : ~(<<y, x>> \in Less)
    BY <1>1, WFMin
  <1>4. ASSUME NEW y \in S PROVE x <= y
    <2>1. x \in Nat /\ y \in Nat
      OBVIOUS
    <2>2. ~(y < x)
      BY <2>1, <1>2, <1>3, Zenon
    <2> QED
      BY <2>1, <2>2
  <1> QED
    BY <1>4

LEMMA WindowIndex == ASSUME NEW n \in 0 .. MaxTime, NEW w \in Nat \ {0}
                     PROVE  n \div w \in 0 .. MaxTime
  <1>1. n \div w \in Nat /\ n \div w <= n
    OBVIOUS
  <1> QED
    BY <1>1, LimiterConstants

\* Among definitions of callers, Lowest keeps those of the least limit.
LEMMA LowestLimits ==
    ASSUME NEW r \in Request, NEW found, found \subseteq Definition
    PROVE  /\ Lowest(found, Call[r]) \subseteq found
           /\ \A t \in Lowest(found, Call[r]) : \A e \in found :
                 LimitOf(e, Call[r]) # NoLimit /\ e.window = t.window =>
                    LimitOf(t, Call[r]) <= LimitOf(e, Call[r])
           /\ \A e \in found : LimitOf(e, Call[r]) # NoLimit =>
                 \E t \in Lowest(found, Call[r]) : t.window = e.window
           /\ \A t \in Lowest(found, Call[r]) : LimitOf(t, Call[r]) # NoLimit
  <1> DEFINE applying == {d \in found : LimitOf(d, Call[r]) # NoLimit}
             In(w) == {e \in applying : e.window = w}
             Tight(w, d) == \A e \in applying : e.window = w =>
                                LimitOf(d, Call[r]) <= LimitOf(e, Call[r])
             tightest(w) == CHOOSE d \in In(w) : Tight(w, d)
  <1>1. Lowest(found, Call[r]) = {tightest(d.window) : d \in applying}
    BY DEF Lowest
  <1>2. ASSUME NEW d \in applying
        PROVE  tightest(d.window) \in In(d.window) /\ Tight(d.window, tightest(d.window))
    <2> DEFINE limits == {LimitOf(e, Call[r]) : e \in In(d.window)}
    <2>1. \A e \in Definition : LimitOf(e, Call[r]) \in Nat \cup {NoLimit}
      BY LimiterConstants DEF LimitOf
    <2>2. limits \subseteq Nat /\ LimitOf(d, Call[r]) \in limits
      BY <2>1
    <2>3. PICK least \in limits : \A y \in limits : least <= y
      BY <2>2, Least
    <2>4. PICK e \in In(d.window) : LimitOf(e, Call[r]) = least
      BY <2>3
    <2>5. Tight(d.window, e)
      BY <2>3, <2>4
    <2> HIDE DEF In, Tight
    <2> QED
      BY <2>4, <2>5
  <1> HIDE DEF tightest, Tight
  <1>3. /\ Lowest(found, Call[r]) \subseteq found
        /\ \A t \in Lowest(found, Call[r]) : LimitOf(t, Call[r]) # NoLimit
    BY <1>1, <1>2
  <1>4. ASSUME NEW t \in Lowest(found, Call[r]), NEW e \in found,
               LimitOf(e, Call[r]) # NoLimit, e.window = t.window
        PROVE  LimitOf(t, Call[r]) <= LimitOf(e, Call[r])
    BY <1>1, <1>2, <1>4 DEF Tight
  <1>5. ASSUME NEW e \in found, LimitOf(e, Call[r]) # NoLimit
        PROVE  \E t \in Lowest(found, Call[r]) : t.window = e.window
    <2>1. tightest(e.window) \in Lowest(found, Call[r])
      BY <1>1, <1>5
    <2>2. tightest(e.window).window = e.window
      BY <1>2, <1>5
    <2> QED
      BY <2>1, <2>2
  <1> QED
    BY <1>3, <1>4, <1>5

LEMMA GatesFound == ASSUME NEW r \in Request, NEW found, found \subseteq Definition, NEW axis
                    PROVE  Gates(found, Call[r], axis) \subseteq GatesOf(r)
  BY LowestLimits DEF Gates, GatesOf

LEMMA GateFields == ASSUME NEW r \in Request, NEW g \in GatesOf(r)
                    PROVE  /\ g.key \in Keys /\ g.window \in Nat \ {0} /\ g.key[4] = g.window
                           /\ g # Nothing /\ IsGate(g)
  <1>1. PICK d \in Definition : g = GateFor(d, Call[r])
    BY DEF GatesOf
  <1>2. d.axis \in {"caller", "caller_target", "target"}
    BY LimiterConstants
  <1>3. g.key = KeyOf(d, Call[r]) /\ g.window = d.window /\ d.window \in Nat \ {0}
    BY <1>1, LimiterConstants DEF GateFor
  <1>4. g.key[4] = g.window
    BY <1>2, <1>3 DEF KeyOf
  <1>5. g.key \in Keys
    BY <1>3 DEF Keys
  <1>6. g # Nothing /\ IsGate(g)
    BY <1>1, NothingIsNoGate DEF IsGate
  <1> QED
    BY <1>3, <1>4, <1>5, <1>6

-----------------------------------------------------------------------------
(* Types *)

LEMMA RequestFields ==
    ASSUME NEW r \in Request, NEW q \in RequestType(r)
    PROVE  /\ q.pc \in RequestPc /\ q.docs \in Seq(Subject) /\ q.groups \subseteq Groups
           /\ q.gates \subseteq GatesOf(r) /\ q.began \in (0 .. MaxTime) \cup {Nothing}
           /\ q.gate \in GatesOf(r) \cup {Nothing} /\ q.index \in (0 .. MaxTime) \cup {Nothing}
           /\ q.passed \subseteq CounterKeys /\ q.opened \subseteq GatesOf(r) /\ q.failed \in BOOLEAN
           /\ q.denied \in GatesOf(r) \cup {Nothing}
           /\ q.answer \in {Nothing, "allow", "throttled", "quarantined"}
  BY DEF RequestType

LEMMA AnsweredTyped ==
    ASSUME NEW r \in Request, NEW q \in RequestType(r),
           NEW why \in {"allow", "throttled", "quarantined"}
    PROVE  /\ Typed(r, Answered(q, why)) /\ Answered(q, why).pc = "done"
           /\ Answered(q, why).answer = why
  <1>1. <<>> \in Seq(Subject) /\ {} \in SUBSET Groups /\ {} \in SUBSET GatesOf(r)
    OBVIOUS
  <1>2. Answered(q, why) \in RequestType(r)
    BY <1>1 DEF RequestType, Answered, RequestPc
  <1>3. Answered(q, why).pc = "done" /\ Answered(q, why).answer = why
    BY DEF RequestType, Answered
  <1> QED
    BY <1>2, <1>3, LimiterConstants DEF Typed

LEMMA DeniedTyped ==
    ASSUME NEW r \in Request, NEW q \in RequestType(r), NEW why \in {"throttled", "quarantined"},
           NEW g \in GatesOf(r) \cup {Nothing}
    PROVE  Typed(r, Denied(q, why, g))
  <1> DEFINE a == Answered(q, why)
  <1>1. a \in RequestType(r) /\ a.pc = "done" /\ a.answer = why
    BY AnsweredTyped DEF Typed
  <1> HIDE DEF a
  <1>2. [a EXCEPT !.denied = g] \in RequestType(r)
    BY <1>1 DEF RequestType
  <1>3. [a EXCEPT !.denied = g].pc = "done" /\ [a EXCEPT !.denied = g].answer = why
    BY <1>1 DEF RequestType
  <1>4. Typed(r, [a EXCEPT !.denied = g])
    BY <1>2, <1>3, LimiterConstants DEF Typed
  <1> QED
    BY <1>4 DEF Denied, a

LEMMA EnforcingTyped ==
    ASSUME NEW r \in Request, NEW q \in RequestType(r), q.answer = Nothing
    PROVE  Typed(r, Enforcing(q)) /\ Typed(r, Allowed(q))
  <1> DEFINE e == [q EXCEPT !.pc = "enforce", !.gate = Nothing, !.index = Nothing]
  <1>1. Typed(r, Allowed(q))
    BY AnsweredTyped DEF Allowed
  <1>2. e \in RequestType(r) /\ e.pc = "enforce" /\ e.answer = Nothing
    BY DEF RequestType, RequestPc
  <1>3. Typed(r, e)
    BY <1>2 DEF Typed
  <1> QED
    BY <1>1, <1>3 DEF Enforcing

LEMMA AfterTargetTyped ==
    ASSUME NEW r \in Request, NEW q \in RequestType(r), q.answer = Nothing
    PROVE  Typed(r, AfterTarget(r, q))
  BY DEF Typed, RequestType, AfterTarget, RequestPc, LookupPc

LEMMA AfterCallerTyped ==
    ASSUME NEW r \in Request, NEW q \in RequestType(r), q.answer = Nothing
    PROVE  Typed(r, AfterCaller(q))
  BY DEF Typed, RequestType, AfterCaller, RequestPc, LookupPc

LEMMA AfterTyped ==
    ASSUME NEW r \in Request, NEW q, Typed(r, q), q.pc \in LookupPc, NEW value,
           Answers(Query(r, q), value)
    PROVE  Typed(r, After(r, q, value))
  <1> USE DEF Typed
  <1>1. q.answer = Nothing
    BY DEF LookupPc
  <1>2. CASE q.pc = "sentinel_t"
    <2>1. [q EXCEPT !.pc = "member_t"] \in RequestType(r)
      BY DEF RequestType, RequestPc, LookupPc
    <2> QED
      BY <1>1, <1>2, <2>1, AfterTargetTyped DEF After, RequestType
  <1>3. CASE q.pc = "member_t"
    BY <1>1, <1>3, AfterTargetTyped, DeniedTyped DEF After
  <1>4. CASE q.pc = "member_c"
    <2> DEFINE known == [q EXCEPT !.docs = Tail(@), !.groups = @ \cup value]
    <2>1. value \subseteq Groups
      BY <1>4 DEF Answers, Query
    <2>2. /\ q.docs \in Seq(Subject) /\ q.docs # <<>> /\ q.groups \subseteq Groups
    BY <1>4 DEF RequestType
    <2>3. /\ Tail(q.docs) \in Seq(Subject) /\ q.groups \cup value \in SUBSET Groups
      BY <2>1, <2>2
    <2>4. known \in RequestType(r) /\ known.answer = Nothing /\ known.pc = "member_c"
      BY <1>1, <1>4, <2>3 DEF RequestType
    <2>5. [known EXCEPT !.pc = "sentinel_c"] \in RequestType(r)
      BY <2>4 DEF RequestType, RequestPc, LookupPc
    <2>6. After(r, q, value) = IF known.docs # <<>> THEN known
                               ELSE IF QuarantineCallers \in known.groups
                               THEN [known EXCEPT !.pc = "sentinel_c"] ELSE AfterCaller(known)
      BY <1>4 DEF After
    <2>7. CASE known.docs # <<>>
      BY <2>4, <2>6, <2>7
    <2>8. CASE known.docs = <<>> /\ QuarantineCallers \in known.groups
      <3> HIDE DEF known
      <3>1. /\ [known EXCEPT !.pc = "sentinel_c"].pc = "sentinel_c"
            /\ [known EXCEPT !.pc = "sentinel_c"].answer = Nothing
        BY <2>4 DEF RequestType
      <3> QED
        BY <2>5, <2>6, <2>8, <3>1
    <2>9. CASE known.docs = <<>> /\ QuarantineCallers \notin known.groups
      <3> HIDE DEF known
      <3> QED
        BY <2>4, <2>6, <2>9, AfterCallerTyped
    <2> QED
      BY <2>7, <2>8, <2>9
  <1>5. CASE q.pc = "sentinel_c"
    BY <1>1, <1>5, AfterCallerTyped, DeniedTyped DEF After
  <1>6. CASE q.pc \in {"defs_c", "defs_ct", "defs_t"}
    <2>1. value \subseteq Definition
      BY <1>6 DEF Answers, Query
    <2>2. \A axis : Gates(value, Call[r], axis) \subseteq GatesOf(r)
      BY <2>1, GatesFound
    <2>3. CASE q.pc = "defs_c"
      BY <1>1, <2>2, <2>3 DEF After, RequestType, RequestPc, LookupPc
    <2>4. CASE q.pc = "defs_ct"
      BY <1>1, <2>2, <2>4 DEF After, RequestType, RequestPc, LookupPc
    <2>5. CASE q.pc = "defs_t"
      <3> DEFINE more == [q EXCEPT !.gates = @ \cup Gates(value, Call[r], "target")]
      <3>1. more \in RequestType(r) /\ more.answer = Nothing
        BY <1>1, <2>2 DEF RequestType
      <3>2. After(r, q, value) = Enforcing(more)
        BY <2>5 DEF After
      <3> HIDE DEF more
      <3> QED
        BY <3>1, <3>2, EnforcingTyped
    <2> QED
      BY <1>6, <2>3, <2>4, <2>5
  <1> QED
    BY <1>2, <1>3, <1>4, <1>5, <1>6 DEF LookupPc

LEMMA AfterErrorTyped ==
    ASSUME NEW r \in Request, NEW q, Typed(r, q), q.pc \in LookupPc
    PROVE  Typed(r, AfterError(r, q))
  <1>1. q \in RequestType(r) /\ q.answer = Nothing
    BY DEF Typed, LookupPc
  <1> QED
    BY <1>1, DeniedTyped, AfterTargetTyped, AfterCallerTyped, EnforcingTyped DEF AfterError

LEMMA PassedTyped ==
    ASSUME NEW r \in Request, NEW q, Typed(r, q), q.answer = Nothing,
           NEW g \in GatesOf(r), NEW k \in CounterKeys
    PROVE  Typed(r, Passed(q, g, k))
  <1> DEFINE rest == [q EXCEPT !.gates = @ \ {g}, !.passed = @ \cup {k}]
  <1>1. rest \in RequestType(r) /\ rest.answer = Nothing
    BY DEF Typed, RequestType
  <1> HIDE DEF rest
  <1>2. Typed(r, Enforcing(rest))
    BY <1>1, EnforcingTyped
  <1> QED
    BY <1>2 DEF rest, Passed

Stamped(q) == [q EXCEPT !.began = IF @ = Nothing THEN now ELSE @]

LEMMA StampedTyped ==
    ASSUME NEW r \in Request, NEW q, Typed(r, q), now \in 0 .. MaxTime
    PROVE  Typed(r, Stamped(q))
  BY DEF Typed, RequestType, Stamped

LEMMA Becomes ==
    ASSUME TypeInv, NEW r \in Request, NEW q, Typed(r, q), Become(r, q)
    PROVE  /\ DOMAIN request' = Request
           /\ request'[r] = Stamped(q)
           /\ \A o \in Request \ {r} : request'[o] = request[o]
           /\ \A o \in Request : Typed(o, request'[o])
  <1>1. DOMAIN request = Request /\ now \in 0 .. MaxTime /\ \A o \in Request : Typed(o, request[o])
    BY DEF TypeInv
  <1>2. /\ DOMAIN request' = Request
        /\ request'[r] = Stamped(q)
        /\ \A o \in Request \ {r} : request'[o] = request[o]
    BY <1>1 DEF Become, Stamped
  <1> QED
    BY <1>1, <1>2, StampedTyped

LEMMA Counted ==
    ASSUME TypeInv, NEW k \in CounterKeys, counter' = Incremented(k)
    PROVE  /\ DOMAIN counter' \subseteq CounterKeys
           /\ \A j \in DOMAIN counter' : counter'[j] \in Nat \ {0}
           /\ Count(k) \in Nat /\ Count(k)' = Count(k) + 1
           /\ \A j : j # k => Count(j)' = Count(j)
  BY DEF TypeInv, Incremented, Count

-----------------------------------------------------------------------------
(* The steps of a check, by what they make of the request *)

Raised(r) == [request[r] EXCEPT !.failed = TRUE]
Excused(r, g) == IF g.closed \/ ~FailOpen THEN Throttled(Raised(r), g)
                 ELSE Enforcing([Raised(r) EXCEPT !.gates = @ \ {g}, !.opened = @ \cup {g}])
Given(r, value) ==
    LET query == Query(r, request[r])
        p == Call[r].replica
    IN  \/ Fresh(p, query) /\ value = cache[p][query].value
        \/ value = Stored(query)
Window(g) == <<g.key, now \div g.window>>

LooksUp(r, q) == /\ request[r].pc \in LookupPc
                 /\ \E value : Given(r, value) /\ q = After(r, request[r], value)
FailsLookup(r, q) == request[r].pc \in LookupPc /\ q = AfterError(r, Raised(r))
Passes(r, q, g, k) == /\ \/ request[r].pc = "enforce" /\ g \in NextGates(request[r]) /\ k = Window(g)
                         \/ /\ request[r].pc = "insert"
                            /\ g = request[r].gate /\ k = <<g.key, request[r].index>>
                      /\ q = Passed(request[r], g, k)
Proceeds(r, q) == \E g, k : /\ Passes(r, q, g, k) /\ counter' = Incremented(k)
                            /\ Count(k) < g.limit \/ Count(k) = 0
Stopped(r, q) == \E g : /\ \/ request[r].pc = "enforce" /\ g \in NextGates(request[r])
                           \/ request[r].pc = "insert" /\ g = request[r].gate
                        /\ q = Throttled(request[r], g) \/ q = Excused(r, g)
Misses(r, q) == \E g \in NextGates(request[r]) :
                   /\ request[r].pc = "enforce"
                   /\ q = [request[r] EXCEPT !.pc = "insert", !.gate = g,
                                             !.index = now \div g.window]

LEMMA CheckSteps ==
    ASSUME TypeInv, NEW r \in Request, Check(r)
    PROVE  /\ now' = now /\ defs' = defs /\ sentinel' = sentinel /\ member' = member
           /\ since' = since /\ task' = task
           /\ \E q : /\ Become(r, q)
                     /\ \/ LooksUp(r, q) /\ counter' = counter
                        \/ FailsLookup(r, q) /\ counter' = counter
                        \/ Proceeds(r, q)
                        \/ /\ Stopped(r, q)
                           /\ \/ counter' = counter
                              \/ \E g \in NextGates(request[r]) :
                                    request[r].pc = "enforce" /\ counter' = Incremented(Window(g))
                        \/ Misses(r, q) /\ counter' = counter
  <1>1. Raised(r).pc = request[r].pc /\ Raised(r).gates = request[r].gates
        /\ Raised(r).gate = request[r].gate
    BY DEF TypeInv, Typed, RequestType, Raised
  <1>2. NextGates(Raised(r)) = NextGates(request[r])
    BY <1>1 DEF NextGates
  <1>3. CASE Hit(r)
    <2>1. LooksUp(r, After(r, request[r], cache[Call[r].replica][Query(r, request[r])].value))
      BY <1>3 DEF Hit, LooksUp, Given
    <2> QED
      BY <1>3, <2>1 DEF Hit, store
  <1>4. CASE Fetch(r)
    <2>1. LooksUp(r, After(r, request[r], Stored(Query(r, request[r]))))
      BY <1>4 DEF Fetch, LooksUp, Given
    <2> QED
      BY <1>4, <2>1 DEF Fetch, store
  <1>5. CASE LookupRaises(r)
    <2>1. FailsLookup(r, AfterError(r, Raised(r)))
      BY <1>1, <1>5 DEF LookupRaises, FailsLookup, Raised
    <2> QED
      BY <1>5, <2>1 DEF LookupRaises, Raised, store
  <1>6. CASE Match(r)
    <2>1. PICK g \in NextGates(request[r]) :
             LET k == Window(g)
                 q == request[r]
             IN  /\ q.pc = "enforce"
                 /\ \/ /\ BelowLimit(k, g) /\ counter' = Incremented(k)
                       /\ Become(r, Passed(q, g, k))
                    \/ Become(r, Throttled(q, g)) /\ counter' = counter
                    \/ /\ Become(r, [q EXCEPT !.pc = "insert", !.gate = g,
                                              !.index = now \div g.window])
                       /\ counter' = counter
      BY <1>6 DEF Match, Window
    <2>2. now' = now /\ defs' = defs /\ sentinel' = sentinel /\ member' = member
          /\ since' = since /\ task' = task
      BY <1>6 DEF Match, store
    <2> DEFINE k == Window(g)
               miss == [request[r] EXCEPT !.pc = "insert", !.gate = g, !.index = now \div g.window]
    <2>3. CASE BelowLimit(k, g) /\ counter' = Incremented(k) /\ Become(r, Passed(request[r], g, k))
      <3>1. Passes(r, Passed(request[r], g, k), g, k) /\ Count(k) < g.limit
        BY <2>1, <2>3 DEF Passes, BelowLimit
      <3>2. Proceeds(r, Passed(request[r], g, k))
        BY <2>3, <3>1, Zenon DEF Proceeds
      <3> QED
        BY <2>2, <2>3, <3>2
    <2>4. CASE Become(r, Throttled(request[r], g)) /\ counter' = counter
      <3>1. request[r].pc = "enforce" /\ g \in NextGates(request[r])
        BY <2>1
      <3>2. Stopped(r, Throttled(request[r], g))
        BY <3>1, Zenon DEF Stopped
      <3> QED
        BY <2>2, <2>4, <3>2
    <2>5. CASE Become(r, miss) /\ counter' = counter
      <3>1. Misses(r, miss)
        BY <2>1 DEF Misses
      <3> QED
        BY <2>2, <2>5, <3>1
    <2> QED
      BY <2>1, <2>3, <2>4, <2>5
  <1>7. CASE Insert(r)
    <2>1. LET g == request[r].gate
              k == <<g.key, request[r].index>>
          IN  \/ Proceeds(r, Passed(request[r], g, k)) /\ Become(r, Passed(request[r], g, k))
              \/ /\ Stopped(r, Throttled(request[r], g)) /\ Become(r, Throttled(request[r], g))
                 /\ counter' = counter
      BY <1>7 DEF Insert, Passes, Proceeds, Stopped
    <2>2. now' = now /\ defs' = defs /\ sentinel' = sentinel /\ member' = member
          /\ since' = since /\ task' = task
      BY <1>7 DEF Insert, store
    <2> QED
      BY <2>1, <2>2
  <1>8. CASE CounterRaises(r)
    <2>1. \/ /\ request[r].pc = "enforce"
             /\ \E g \in NextGates(request[r]) :
                   /\ Become(r, Excused(r, g))
                   /\ counter' = counter \/ counter' = Incremented(Window(g))
          \/ /\ request[r].pc = "insert" /\ Become(r, Excused(r, request[r].gate))
             /\ counter' = counter
      BY <1>1, <1>2, <1>8, Zenon DEF CounterRaises, Excused, Raised, Window
    <2>2. now' = now /\ defs' = defs /\ sentinel' = sentinel /\ member' = member
          /\ since' = since /\ task' = task
      BY <1>8 DEF CounterRaises, store
    <2> QED
      BY <2>1, <2>2 DEF Stopped
  <1> QED
    BY <1>3, <1>4, <1>5, <1>6, <1>7, <1>8 DEF Check

\* A reply is cached by the query it answers, and no other entry changes.
LEMMA CheckCaches ==
    ASSUME TypeInv, NEW r \in Request, Check(r)
    PROVE  /\ DOMAIN cache' = Replica
           /\ \A p \in Replica : \A k \in DOMAIN cache'[p] :
                 \/ k \in DOMAIN cache[p] /\ cache'[p][k] = cache[p][k]
                 \/ /\ request[r].pc \in LookupPc /\ k = Query(r, request[r])
                    /\ cache'[p][k] = [until |-> now + CacheTTL, value |-> Stored(k)]
  <1>1. CASE Fetch(r)
    <2> DEFINE x == Call[r].replica
               j == Query(r, request[r])
    <2>1. request[r].pc \in LookupPc /\ cache' = [cache EXCEPT ![x] = Remembered(x, j, Stored(j))]
      BY <1>1 DEF Fetch
    <2>2. DOMAIN cache = Replica
      BY DEF TypeInv
    <2> HIDE DEF j
    <2>3. \A k \in DOMAIN Remembered(x, j, Stored(j)) :
             IF k = j
             THEN Remembered(x, j, Stored(j))[k] = [until |-> now + CacheTTL, value |-> Stored(k)]
             ELSE k \in DOMAIN cache[x] /\ Remembered(x, j, Stored(j))[k] = cache[x][k]
      BY DEF Remembered
    <2>4. DOMAIN cache' = Replica
      BY <2>1, <2>2
    <2>5. \A p \in Replica : cache'[p] = IF p = x THEN Remembered(x, j, Stored(j)) ELSE cache[p]
      BY <2>1, <2>2
    <2>6. ASSUME NEW p \in Replica, NEW k \in DOMAIN cache'[p]
          PROVE  \/ k \in DOMAIN cache[p] /\ cache'[p][k] = cache[p][k]
                 \/ k = j /\ cache'[p][k] = [until |-> now + CacheTTL, value |-> Stored(k)]
      <3>1. CASE p = x
        BY <2>3, <2>5, <3>1, Zenon
      <3>2. CASE p # x
        BY <2>5, <3>2, Zenon
      <3> QED
        BY <3>1, <3>2
    <2> QED
      BY <2>1, <2>4, <2>6 DEF j
  <1>2. ASSUME ~Fetch(r) PROVE cache' = cache
    BY <1>2 DEF Check, Hit, LookupRaises, Match, Insert, CounterRaises
  <1> QED
    BY <1>1, <1>2 DEF TypeInv

LEMMA GivenAnswers ==
    ASSUME TypeInv, NEW r \in Request, request[r].pc \in LookupPc
    PROVE  /\ Answers(Query(r, request[r]), Stored(Query(r, request[r])))
           /\ \A value : Given(r, value) => Answers(Query(r, request[r]), value)
  <1> DEFINE q == request[r]
             j == Query(r, q)
  <1>1. Call[r].target \in Subject /\ Call[r].replica \in Replica
    BY LimiterConstants
  <1>2. q.pc = "member_c" => Head(q.docs) \in Subject
    BY DEF TypeInv, Typed, RequestType
  <1>3. \/ j = <<"sentinel", "target">> \/ j = <<"sentinel", "caller">>
        \/ \E s \in Subject : j = <<"member", s>>
        \/ \E names : j = <<"caller", names>> \/ j = <<"caller_target", names>>
                      \/ j = <<"target", names>>
    BY <1>1, <1>2 DEF Query, LookupPc
  <1>4. Answers(j, Stored(j))
    <2>1. CASE j = <<"sentinel", "target">> \/ j = <<"sentinel", "caller">>
      BY <2>1 DEF Answers, Stored, TypeInv
    <2>2. CASE \E s \in Subject : j = <<"member", s>>
      <3> PICK s \in Subject : j = <<"member", s>>
        BY <2>2
      <3> QED
        BY DEF Answers, Stored, TypeInv
    <2>3. CASE \E names : j = <<"caller", names>> \/ j = <<"caller_target", names>>
                          \/ j = <<"target", names>>
      <3>1. Stored(j) = {d \in defs : d.axis = j[1] /\ d.names \cap j[2] # {}}
        BY <2>3 DEF Stored
      <3>2. j[1] # "sentinel" /\ j[1] # "member"
        BY <2>3
      <3> HIDE DEF j
      <3> QED
        BY <3>1, <3>2 DEF Answers, TypeInv
    <2> QED
      BY <1>3, <2>1, <2>2, <2>3
  <1>5. ASSUME NEW value, Given(r, value) PROVE Answers(j, value)
    BY <1>1, <1>4, <1>5 DEF Given, Fresh, TypeInv
  <1> QED
    BY <1>4, <1>5

\* Every outcome of a step of a check leaves the request well-formed.
LEMMA OutcomesTyped ==
    ASSUME TypeInv, NEW r \in Request, NEW q
    PROVE  /\ LooksUp(r, q) => Typed(r, q)
           /\ FailsLookup(r, q) => Typed(r, q)
           /\ Stopped(r, q) => Typed(r, q)
           /\ Misses(r, q) => Typed(r, q)
           /\ \A g, k : Passes(r, q, g, k) => Typed(r, q) /\ g \in GatesOf(r) /\ k \in CounterKeys
           /\ \A g \in NextGates(request[r]) : g \in GatesOf(r) /\ Window(g) \in CounterKeys
  <1> DEFINE p == request[r]
  <1>1. Typed(r, p) /\ p \in RequestType(r) /\ now \in 0 .. MaxTime
    BY DEF TypeInv, Typed
  <1>2. \A g \in NextGates(p) : g \in p.gates /\ g \in GatesOf(r) /\ Window(g) \in CounterKeys
    <2>1. \A g \in NextGates(p) : g \in p.gates /\ g \in GatesOf(r)
      BY <1>1 DEF NextGates, RequestType
    <2>2. \A g \in GatesOf(r) : g.key \in Keys /\ now \div g.window \in 0 .. MaxTime
      BY <1>1, GateFields, WindowIndex
    <2> QED
      BY <2>1, <2>2 DEF Window, CounterKeys
  <1>3. p.pc = "insert" => /\ p.gate \in GatesOf(r) /\ p.answer = Nothing
                           /\ <<p.gate.key, p.index>> \in CounterKeys
    <2>1. p.pc = "insert" => p.gate \in GatesOf(r) /\ p.index \in 0 .. MaxTime /\ p.answer = Nothing
      BY <1>1, RequestFields DEF Typed
    <2> QED
      BY <2>1, GateFields DEF CounterKeys
  <1>4. p.pc \in LookupPc \cup {"enforce"} => p.answer = Nothing
    BY <1>1 DEF Typed, LookupPc
  <1>5. /\ Raised(r) \in RequestType(r) /\ Raised(r).answer = p.answer /\ Typed(r, Raised(r))
        /\ Raised(r).pc = p.pc
    BY <1>1 DEF Typed, RequestType, Raised
  <1>6. LooksUp(r, q) => Typed(r, q)
    BY <1>1, AfterTyped, GivenAnswers DEF LooksUp
  <1>7. FailsLookup(r, q) => Typed(r, q)
    BY <1>5, AfterErrorTyped DEF FailsLookup
  <1>8. ASSUME NEW g \in GatesOf(r), p.answer = Nothing
        PROVE  Typed(r, Throttled(p, g)) /\ Typed(r, Excused(r, g))
    <2> DEFINE rest == [Raised(r) EXCEPT !.gates = @ \ {g}, !.opened = @ \cup {g}]
    <2>1. rest \in RequestType(r) /\ rest.answer = Nothing
      <3> HIDE DEF p
      <3> QED
        BY <1>5, <1>8 DEF RequestType
    <2> HIDE DEF rest
    <2>2. Typed(r, Throttled(p, g)) /\ Typed(r, Throttled(Raised(r), g))
      BY <1>1, <1>5, DeniedTyped DEF Throttled
    <2>3. Typed(r, Enforcing(rest))
      BY <2>1, EnforcingTyped
    <2> QED
      BY <2>2, <2>3 DEF Excused, rest
  <1>9. Stopped(r, q) => Typed(r, q)
    BY <1>2, <1>3, <1>4, <1>8 DEF Stopped
  <1>10. ASSUME NEW g \in NextGates(p), p.pc = "enforce"
         PROVE  Typed(r, [p EXCEPT !.pc = "insert", !.gate = g, !.index = now \div g.window])
    <2>1. g \in GatesOf(r) /\ g # Nothing /\ now \div g.window \in 0 .. MaxTime
      BY <1>1, <1>2, GateFields, WindowIndex
    <2>2. (now \div g.window) # Nothing
      BY <2>1, LimiterConstants
    <2> HIDE DEF p
    <2>3. p.answer = Nothing
      BY <1>4, <1>10
    <2>4. [p EXCEPT !.pc = "insert", !.gate = g, !.index = now \div g.window] \in RequestType(r)
      BY <1>1, <2>1 DEF RequestType, RequestPc
    <2> QED
      BY <1>1, <2>1, <2>2, <2>3, <2>4 DEF RequestType, Typed
  <1>11. Misses(r, q) => Typed(r, q)
    BY <1>10 DEF Misses
  <1>12. ASSUME NEW g, NEW k, Passes(r, q, g, k)
         PROVE  Typed(r, q) /\ g \in GatesOf(r) /\ k \in CounterKeys
    <2>1. g \in GatesOf(r) /\ k \in CounterKeys /\ p.answer = Nothing /\ q = Passed(p, g, k)
      BY <1>2, <1>3, <1>4, <1>12 DEF Passes
    <2> QED
      BY <1>1, <2>1, PassedTyped
  <1> QED
    BY <1>2, <1>6, <1>7, <1>9, <1>11, <1>12

LEMMA TypeInit == Init => TypeInv
  <1> SUFFICES ASSUME Init PROVE TypeInv
    OBVIOUS
  <1>1. 0 \in 0 .. MaxTime /\ 0 \in 0 .. MaxFaults
    BY LimiterConstants
  <1>2. since \in [Subject -> (0 .. MaxTime) \cup {Nothing}]
    BY <1>1 DEF Init
  <1>3. DOMAIN counter = {} /\ \A p \in Replica : DOMAIN cache[p] = {}
    BY DEF Init
  <1>4. ASSUME NEW r \in Request PROVE Typed(r, request[r])
    <2>1. Call[r].docs \in Seq(Subject)
      BY LimiterConstants
    <2>2. Arriving(r) \in RequestType(r)
      BY <2>1 DEF Arriving, RequestType, RequestPc, LookupPc
    <2> QED
      BY <2>2 DEF Init, Arriving, Typed
  <1> QED
    BY <1>1, <1>2, <1>3, <1>4, LimiterConstants DEF Init, TypeInv

\* What the administrators' changes write is of its type.
LEMMA ChangeTypes ==
    ASSUME NEW a \in Task, NEW c \in Change[a]
    PROVE  /\ c.kind \in {"put", "quarantine", "release"} =>
                 /\ c.subject \in Subject /\ c.groups \subseteq Groups
                 /\ c.kind # "release" => Scoped(c.subject, c.groups)
                 /\ c.kind # "put" => c.groups \subseteq Reserved
           /\ c.kind \in {"enable", "disable"} => c.defs \subseteq Definition
           /\ c.kind = "switch" => c.scope \in {"caller", "target"}
  BY MembershipConstants

\* A step of an administrator, by what it does to the documents, the definitions
\* and the sentinels, and to its own record.
LEMMA AdminSteps ==
    ASSUME TypeInv, NEW a \in Task, Administer(a)
    PROVE  /\ now' = now /\ cache' = cache /\ counter' = counter /\ request' = request
           /\ faults' = faults
           /\ \/ member' = member /\ since' = since /\ sentinel' = sentinel
              \/ NoteQuarantine
           /\ DOMAIN task' = Task /\ \A b \in Task \ {a} : task'[b] = task[b]
           /\ \/ /\ task'[a].pc = "read" /\ member' = member /\ defs' = defs /\ sentinel' = sentinel
                 /\ task'[a].change \in Change[a] /\ task'[a].change.kind \in {"quarantine", "release"}
                 /\ task'[a].groups = member[task'[a].change.subject]
              \/ task'[a].pc = "done"
           /\ \/ member' = member
              \/ \E s \in Subject, groups \in SUBSET Groups :
                    /\ member' = [member EXCEPT ![s] = groups]
                    /\ \/ \E c \in Change[a] : c.kind = "put" /\ c.subject = s /\ c.groups = groups
                       \/ LET c == task[a].change
                          IN  /\ task[a].pc = "read" /\ c.subject = s
                              /\ groups = IF c.kind = "quarantine" THEN task[a].groups \cup c.groups
                                          ELSE task[a].groups \ c.groups
           /\ \/ defs' = defs
              \/ \E c \in Change[a] : \/ c.kind = "enable" /\ defs' = defs \cup c.defs
                                      \/ c.kind = "disable" /\ defs' = defs \ c.defs
           /\ \/ sentinel' = sentinel
              \/ \E scope \in {"caller", "target"} : sentinel' = [sentinel EXCEPT ![scope] = ~@]
  <1>1. DOMAIN task = Task
    BY DEF TypeInv
  <1>2. CASE PutMember(a)
    <2>1. PICK c \in Begin(a, {"put"}) : Membership(c.subject, c.groups)
      BY <1>2 DEF PutMember
    <2>2. c \in Change[a] /\ c.kind = "put" /\ c.subject \in Subject /\ c.groups \in SUBSET Groups
      BY <2>1, ChangeTypes DEF Begin
    <2> QED
      BY <1>1, <1>2, <2>1, <2>2 DEF PutMember, Membership, Finish
  <1>3. CASE ReadMember(a)
    <2>1. PICK c \in Begin(a, {"quarantine", "release"}) :
             \/ Finish(a)
             \/ task' = [task EXCEPT ![a] = [pc |-> "read", change |-> c,
                                             groups |-> member[c.subject]]]
      BY <1>3 DEF ReadMember
    <2>2. c \in Change[a] /\ c.kind \in {"quarantine", "release"}
      BY <2>1 DEF Begin
    <2> QED
      BY <1>1, <1>3, <2>1, <2>2 DEF ReadMember, Finish
  <1>4. CASE WriteMember(a)
    <2> DEFINE c == task[a].change
               groups == IF c.kind = "quarantine" THEN task[a].groups \cup c.groups
                         ELSE task[a].groups \ c.groups
    <2>1. task[a].pc = "read" /\ Membership(c.subject, groups)
      BY <1>4 DEF WriteMember
    <2>2. c.subject \in Subject /\ groups \in SUBSET Groups
      BY <2>1, ChangeTypes DEF TypeInv
    <2> QED
      BY <1>1, <1>4, <2>1, <2>2 DEF WriteMember, Membership, Finish
  <1>5. CASE ChangeLimits(a)
    <2>1. PICK c \in Begin(a, {"enable", "disable", "switch"}) :
             \/ c.kind = "enable"  /\ defs' = defs \cup c.defs  /\ UNCHANGED sentinel
             \/ c.kind = "disable" /\ defs' = defs \ c.defs     /\ UNCHANGED sentinel
             \/ /\ c.kind = "switch"
                /\ sentinel' = [sentinel EXCEPT ![c.scope] = ~@]
                /\ UNCHANGED defs
      BY <1>5 DEF ChangeLimits
    <2>2. c \in Change[a] /\ (c.kind = "switch" => c.scope \in {"caller", "target"})
      BY <2>1, ChangeTypes DEF Begin
    <2>3. /\ \/ defs' = defs
             \/ \E d \in Change[a] : \/ d.kind = "enable" /\ defs' = defs \cup d.defs
                                     \/ d.kind = "disable" /\ defs' = defs \ d.defs
          /\ \/ sentinel' = sentinel
             \/ \E scope \in {"caller", "target"} : sentinel' = [sentinel EXCEPT ![scope] = ~@]
      BY <2>1, <2>2
    <2> QED
      BY <1>1, <1>5, <2>3 DEF ChangeLimits, Finish
  <1> QED
    BY <1>2, <1>3, <1>4, <1>5 DEF Administer

LEMMA TickSteps ==
    ASSUME TypeInv, Tick
    PROVE  /\ now' = now + 1 /\ now' \in 0 .. MaxTime
           /\ faults' = faults /\ counter' = counter /\ request' = request
           /\ defs' = defs /\ sentinel' = sentinel /\ member' = member /\ since' = since /\ task' = task
           /\ DOMAIN cache' = Replica
           /\ \A p \in Replica : \A k \in DOMAIN cache'[p] :
                 k \in DOMAIN cache[p] /\ cache'[p][k] = cache[p][k]
           /\ \A r \in Request : request[r].pc # "insert"
  BY LimiterConstants DEF Tick, TypeInv, store

LEMMA TypeStep == TypeInv /\ [Next]_vars => TypeInv'
  <1> SUFFICES ASSUME TypeInv, [Next]_vars PROVE TypeInv'
    OBVIOUS
  <1>1. ASSUME NEW r \in Request, Check(r) PROVE TypeInv'
    <2>1. /\ now' = now /\ defs' = defs /\ sentinel' = sentinel /\ member' = member
          /\ since' = since /\ task' = task
      BY <1>1, CheckSteps
    <2>2. faults' \in 0 .. MaxFaults
      <3>1. faults' = faults \/ Fault
        BY <1>1 DEF Check, Hit, Fetch, LookupRaises, Match, Insert, CounterRaises
      <3> QED
        BY <3>1, LimiterConstants DEF TypeInv, Fault
    <2>3. /\ DOMAIN request' = Request /\ \A o \in Request : Typed(o, request'[o])
      <3>1. PICK q : Become(r, q) /\ Typed(r, q)
        BY <1>1, CheckSteps, OutcomesTyped DEF Proceeds
      <3> QED
        BY <3>1, Becomes
    <2>4. /\ DOMAIN counter' \subseteq CounterKeys
          /\ \A k \in DOMAIN counter' : counter'[k] \in Nat \ {0}
      <3>1. counter' = counter \/ \E k \in CounterKeys : counter' = Incremented(k)
        BY <1>1, CheckSteps, OutcomesTyped DEF Proceeds
      <3> QED
        BY <3>1, Counted DEF TypeInv
    <2>5. /\ DOMAIN cache' = Replica
          /\ \A p \in Replica : \A k \in DOMAIN cache'[p] : Answers(k, cache'[p][k].value)
      <3>1. ASSUME NEW p \in Replica, NEW k \in DOMAIN cache'[p]
            PROVE  Answers(k, cache'[p][k].value)
        <4>1. CASE k \in DOMAIN cache[p] /\ cache'[p][k] = cache[p][k]
          BY <4>1 DEF TypeInv
        <4>2. CASE /\ request[r].pc \in LookupPc /\ k = Query(r, request[r])
                   /\ cache'[p][k] = [until |-> now + CacheTTL, value |-> Stored(k)]
          <5>1. Answers(k, Stored(k))
            BY <4>2, GivenAnswers
          <5> QED
            BY <4>2, <5>1
        <4> QED
          BY <1>1, <4>1, <4>2, CheckCaches
      <3> QED
        BY <1>1, <3>1, CheckCaches
    <2> QED
      BY <2>1, <2>2, <2>3, <2>4, <2>5 DEF TypeInv
  <1>2. ASSUME NEW a \in Task, Administer(a) PROVE TypeInv'
    <2>1. now' = now /\ cache' = cache /\ counter' = counter /\ request' = request /\ faults' = faults
      BY <1>2, AdminSteps
    <2>2. defs' \subseteq Definition
      BY <1>2, AdminSteps, ChangeTypes DEF TypeInv
    <2>3. sentinel' \in [{"caller", "target"} -> BOOLEAN]
      <3>1. \/ sentinel' = sentinel
            \/ \E scope \in {"caller", "target"} : sentinel' = [sentinel EXCEPT ![scope] = ~@]
        BY <1>2, AdminSteps
      <3>2. sentinel \in [{"caller", "target"} -> BOOLEAN]
        BY DEF TypeInv
      <3> QED
        BY <3>1, <3>2
    <2>4. member' \in [Subject -> SUBSET Groups]
      BY <1>2, AdminSteps DEF TypeInv
    <2>5. since' \in [Subject -> (0 .. MaxTime) \cup {Nothing}]
      BY <1>2, AdminSteps DEF TypeInv, NoteQuarantine
    <2>6. DOMAIN task' = Task /\ \A b \in Task : task'[b].pc = "read" =>
             /\ task'[b].change \in Change[b] /\ task'[b].change.kind \in {"quarantine", "release"}
             /\ task'[b].groups \subseteq Groups
      <3>1. \/ /\ task'[a].pc = "read" /\ task'[a].change \in Change[a]
               /\ task'[a].change.kind \in {"quarantine", "release"}
               /\ task'[a].groups = member[task'[a].change.subject]
            \/ task'[a].pc = "done"
        BY <1>2, AdminSteps
      <3>2. task'[a].pc = "read" => task'[a].groups \subseteq Groups
        BY <3>1, ChangeTypes DEF TypeInv
      <3> QED
        BY <1>2, <3>1, <3>2, AdminSteps DEF TypeInv
    <2> QED
      BY <2>1, <2>2, <2>3, <2>4, <2>5, <2>6 DEF TypeInv
  <1>3. ASSUME Tick PROVE TypeInv'
    BY <1>3, TickSteps DEF TypeInv
  <1>4. ASSUME UNCHANGED vars PROVE TypeInv'
    BY <1>4 DEF TypeInv, vars
  <1> QED
    BY <1>1, <1>2, <1>3, <1>4 DEF Next

LEMMA TypeInvariance == Spec => []TypeInv
  BY TypeInit, TypeStep, PTL DEF Spec

\* Every field has its type, and a request has an answer exactly when it is done.
THEOREM TypeCorrect == Spec => []TypeOK
  <1>1. ASSUME TypeInv PROVE TypeOK
    <2>1. \A k \in CounterKeys : IsCounter(k)
      BY DEF CounterKeys, IsCounter
    <2>2. ASSUME NEW r \in Request
          PROVE  LET q == request[r]
                 IN  /\ q.pc \in RequestPc
                     /\ q.groups \subseteq Groups
                     /\ \A g \in (q.gates \cup q.opened \cup {q.gate, q.denied}) \ {Nothing} : IsGate(g)
                     /\ \A k \in q.passed : IsCounter(k)
                     /\ q.answer \in {Nothing, "allow", "throttled", "quarantined"}
                     /\ q.pc = "done" <=> q.answer # Nothing
      <3>1. Typed(r, request[r]) /\ request[r] \in RequestType(r)
        BY <1>1 DEF TypeInv, Typed
      <3>2. \A g \in GatesOf(r) : IsGate(g)
        BY GateFields
      <3> QED
        BY <2>1, <3>1, <3>2, RequestFields DEF Typed
    <2> QED
      BY <1>1, <2>1, <2>2 DEF TypeInv, TypeOK
  <1> QED
    BY <1>1, TypeInvariance, PTL

-----------------------------------------------------------------------------
(* What each outcome keeps of a request *)

Kept(p, q) == p.passed = q.passed /\ p.failed = q.failed /\ p.began = q.began

LEMMA DeniedFields ==
    ASSUME NEW r \in Request, NEW q \in RequestType(r), NEW why, NEW g
    PROVE  LET d == Denied(q, why, g)
           IN  /\ Kept(d, q) /\ d.pc = "done" /\ d.answer = why /\ d.denied = g
               /\ d.gates = {} /\ d.docs = <<>> /\ d.groups = {}
  BY DEF RequestType, Denied, Answered, Kept

LEMMA AllowedFields ==
    ASSUME NEW r \in Request, NEW q \in RequestType(r)
    PROVE  LET d == Allowed(q)
           IN  /\ Kept(d, q) /\ d.pc = "done" /\ d.answer = "allow" /\ d.denied = q.denied
               /\ d.gates = {} /\ d.docs = <<>> /\ d.groups = {}
  BY DEF RequestType, Allowed, Answered, Kept

LEMMA EnforcingFields ==
    ASSUME NEW r \in Request, NEW q \in RequestType(r)
    PROVE  LET d == Enforcing(q)
           IN  /\ Kept(d, q) /\ d.denied = q.denied /\ d.gates = q.gates
               /\ IF q.gates = {} THEN d.pc = "done" /\ d.answer = "allow"
                                  ELSE d.pc = "enforce" /\ d.answer = q.answer
  <1>1. q.gates # {} => Enforcing(q) = [q EXCEPT !.pc = "enforce", !.gate = Nothing, !.index = Nothing]
    BY DEF Enforcing
  <1>2. q.gates = {} => Enforcing(q) = Allowed(q)
    BY DEF Enforcing
  <1>3. LET d == [q EXCEPT !.pc = "enforce", !.gate = Nothing, !.index = Nothing]
        IN  Kept(d, q) /\ d.denied = q.denied /\ d.gates = q.gates /\ d.pc = "enforce"
            /\ d.answer = q.answer
    BY DEF RequestType, Kept
  <1> QED
    BY <1>1, <1>2, <1>3, AllowedFields

LEMMA AfterTargetFields ==
    ASSUME NEW r \in Request, NEW q \in RequestType(r)
    PROVE  LET d == AfterTarget(r, q)
           IN  /\ Kept(d, q) /\ d.answer = q.answer /\ d.gates = q.gates /\ d.docs = q.docs
               /\ d.groups = q.groups /\ d.denied = q.denied
               /\ d.pc = IF Call[r].admin THEN "defs_t" ELSE IF q.docs = <<>> THEN "defs_t"
                         ELSE "member_c"
  BY DEF RequestType, AfterTarget, Kept

LEMMA AfterCallerFields ==
    ASSUME NEW r \in Request, NEW q \in RequestType(r)
    PROVE  LET d == AfterCaller(q)
           IN  /\ Kept(d, q) /\ d.answer = q.answer /\ d.gates = q.gates /\ d.docs = q.docs
               /\ d.groups = q.groups /\ d.denied = q.denied
               /\ d.pc = IF RateGroups(q) = {} THEN "defs_t" ELSE "defs_c"
  BY DEF RequestType, AfterCaller, Kept

\* What a lookup that answered makes of a request, by what was looked up.
LEMMA AfterTargetLookup ==
    ASSUME NEW r \in Request, NEW q \in RequestType(r), NEW value,
           \/ q.pc = "sentinel_t" /\ value \in BOOLEAN
           \/ q.pc = "member_t"
    PROVE  LET d == After(r, q, value)
           IN  \/ /\ q.pc = "sentinel_t" /\ value = TRUE /\ d.pc = "member_t"
                  /\ Kept(d, q) /\ d.docs = q.docs /\ d.groups = q.groups /\ d.gates = q.gates
                  /\ d.answer = q.answer /\ d.denied = q.denied
               \/ /\ q.pc = "member_t" /\ QuarantineTargets \in value
                  /\ d = Denied(q, "quarantined", Nothing)
               \/ /\ \/ q.pc = "sentinel_t" /\ value = FALSE
                     \/ q.pc = "member_t" /\ QuarantineTargets \notin value
                  /\ d = AfterTarget(r, q)
  <1>1. LET d == [q EXCEPT !.pc = "member_t"]
        IN  /\ Kept(d, q) /\ d.docs = q.docs /\ d.groups = q.groups /\ d.gates = q.gates
            /\ d.answer = q.answer /\ d.denied = q.denied /\ d.pc = "member_t"
    BY DEF RequestType, Kept
  <1>2. CASE q.pc = "sentinel_t" /\ value = TRUE
    BY <1>1, <1>2 DEF After
  <1>3. CASE q.pc = "sentinel_t" /\ value = FALSE
    BY <1>3 DEF After
  <1>4. CASE q.pc = "member_t"
    BY <1>4 DEF After
  <1> QED
    BY <1>2, <1>3, <1>4

LEMMA AfterDocument ==
    ASSUME NEW r \in Request, NEW q \in RequestType(r), q.pc = "member_c", q.docs # <<>>,
           NEW value \in SUBSET Groups
    PROVE  LET d == After(r, q, value)
               groups == q.groups \cup value
           IN  /\ Kept(d, q) /\ d.docs = Tail(q.docs) /\ d.groups = groups
               /\ d.gates = q.gates /\ d.answer = q.answer /\ d.denied = q.denied
               /\ d.pc = IF Tail(q.docs) # <<>> THEN "member_c"
                         ELSE IF QuarantineCallers \in groups THEN "sentinel_c"
                         ELSE IF groups \ Reserved = {} THEN "defs_t" ELSE "defs_c"
  <1> DEFINE known == [q EXCEPT !.docs = Tail(@), !.groups = @ \cup value]
  <1>1. q.docs \in Seq(Subject) /\ q.groups \subseteq Groups
    BY DEF RequestType
  <1>2. Tail(q.docs) \in Seq(Subject) /\ q.groups \cup value \in SUBSET Groups
    BY <1>1
  <1>3. /\ known \in RequestType(r) /\ Kept(known, q) /\ known.docs = Tail(q.docs)
        /\ known.groups = q.groups \cup value /\ known.gates = q.gates
        /\ known.answer = q.answer /\ known.denied = q.denied /\ known.pc = "member_c"
    BY <1>2 DEF RequestType, Kept
  <1>4. After(r, q, value) = IF known.docs # <<>> THEN known
                             ELSE IF QuarantineCallers \in known.groups
                             THEN [known EXCEPT !.pc = "sentinel_c"] ELSE AfterCaller(known)
    BY DEF After
  <1> HIDE DEF known
  <1>5. LET d == [known EXCEPT !.pc = "sentinel_c"]
        IN  /\ Kept(d, known) /\ d.docs = known.docs /\ d.groups = known.groups
            /\ d.gates = known.gates /\ d.answer = known.answer /\ d.denied = known.denied
            /\ d.pc = "sentinel_c"
    BY <1>3 DEF RequestType, Kept
  <1>6. LET d == AfterCaller(known)
        IN  /\ Kept(d, known) /\ d.docs = known.docs /\ d.groups = known.groups
            /\ d.gates = known.gates /\ d.answer = known.answer /\ d.denied = known.denied
            /\ d.pc = IF known.groups \ Reserved = {} THEN "defs_t" ELSE "defs_c"
    BY <1>3, AfterCallerFields DEF RateGroups
  <1>7. CASE Tail(q.docs) # <<>>
    BY <1>3, <1>4, <1>7
  <1>8. CASE Tail(q.docs) = <<>> /\ QuarantineCallers \in q.groups \cup value
    BY <1>3, <1>4, <1>5, <1>8 DEF Kept
  <1>9. CASE Tail(q.docs) = <<>> /\ QuarantineCallers \notin q.groups \cup value
    BY <1>3, <1>4, <1>6, <1>9 DEF Kept
  <1> QED
    BY <1>7, <1>8, <1>9

LEMMA AfterSwitch ==
    ASSUME NEW r \in Request, NEW q \in RequestType(r), q.pc = "sentinel_c", NEW value \in BOOLEAN
    PROVE  After(r, q, value) = IF value THEN Denied(q, "quarantined", Nothing) ELSE AfterCaller(q)
  BY DEF After

LEMMA AfterDefinitions ==
    ASSUME NEW r \in Request, NEW q \in RequestType(r), q.pc \in {"defs_c", "defs_ct", "defs_t"},
           NEW value \in SUBSET Definition
    PROVE  LET d == After(r, q, value)
           IN  /\ Kept(d, q) /\ d.denied = q.denied
               /\ q.pc = "defs_c" =>
                     /\ d.pc = "defs_ct" /\ d.gates = Gates(value, Call[r], "caller")
                     /\ d.docs = q.docs /\ d.groups = q.groups /\ d.answer = q.answer
               /\ q.pc = "defs_ct" =>
                     /\ d.pc = "defs_t"
                     /\ d.gates = q.gates \cup Gates(value, Call[r], "caller_target")
                     /\ d.docs = q.docs /\ d.groups = q.groups /\ d.answer = q.answer
               /\ q.pc = "defs_t" =>
                     /\ d.gates = q.gates \cup Gates(value, Call[r], "target")
                     /\ IF d.gates = {} THEN d.pc = "done" /\ d.answer = "allow"
                                        ELSE d.pc = "enforce" /\ d.answer = q.answer
  <1>1. \A axis : Gates(value, Call[r], axis) \subseteq GatesOf(r)
    BY GatesFound
  <1>2. CASE q.pc = "defs_c"
    BY <1>2 DEF After, RequestType, Kept
  <1>3. CASE q.pc = "defs_ct"
    BY <1>3 DEF After, RequestType, Kept
  <1>4. CASE q.pc = "defs_t"
    <2> DEFINE more == [q EXCEPT !.gates = @ \cup Gates(value, Call[r], "target")]
    <2>1. /\ more \in RequestType(r) /\ Kept(more, q) /\ more.denied = q.denied
          /\ more.answer = q.answer /\ more.gates = q.gates \cup Gates(value, Call[r], "target")
      BY <1>1 DEF RequestType, Kept
    <2>2. After(r, q, value) = Enforcing(more)
      BY <1>4 DEF After
    <2> HIDE DEF more
    <2> QED
      BY <1>4, <2>1, <2>2, EnforcingFields DEF Kept
  <1> QED
    BY <1>2, <1>3, <1>4

\* A lookup keeps what was enforced, denies no gate, and leads to no insertion.
LEMMA AfterKept ==
    ASSUME NEW r \in Request, NEW q, Typed(r, q), q.pc \in LookupPc, NEW value,
           Answers(Query(r, q), value)
    PROVE  LET d == After(r, q, value)
           IN  Kept(d, q) /\ d.pc # "insert" /\ d.denied \in {q.denied, Nothing}
  <1>1. q \in RequestType(r)
    BY DEF Typed
  <1>2. CASE q.pc \in {"sentinel_t", "member_t"}
    <2>1. q.pc = "sentinel_t" => value \in BOOLEAN
      BY DEF Answers, Query
    <2>2. LET d == AfterTarget(r, q) IN Kept(d, q) /\ d.pc # "insert" /\ d.denied = q.denied
      BY <1>1, AfterTargetFields
    <2>3. LET d == Denied(q, "quarantined", Nothing)
          IN  Kept(d, q) /\ d.pc # "insert" /\ d.denied = Nothing
      BY <1>1, DeniedFields
    <2> QED
      BY <1>1, <1>2, <2>1, <2>2, <2>3, AfterTargetLookup
  <1>3. CASE q.pc = "member_c"
    <2>1. value \in SUBSET Groups /\ q.docs # <<>>
      BY <1>3 DEF Answers, Query, Typed
    <2> QED
      BY <1>1, <1>3, <2>1, AfterDocument
  <1>4. CASE q.pc = "sentinel_c"
    <2>1. value \in BOOLEAN
      BY <1>4 DEF Answers, Query
    <2> QED
      BY <1>1, <1>4, <2>1, AfterSwitch, AfterCallerFields, DeniedFields
  <1>5. CASE q.pc \in {"defs_c", "defs_ct", "defs_t"}
    <2>1. value \in SUBSET Definition
      BY <1>5 DEF Answers, Query
    <2> QED
      BY <1>1, <1>5, <2>1, AfterDefinitions
  <1> QED
    BY <1>2, <1>3, <1>4, <1>5 DEF LookupPc

LEMMA AfterErrorKept ==
    ASSUME NEW r \in Request, NEW q \in RequestType(r), q.pc \in LookupPc
    PROVE  LET d == AfterError(r, q)
           IN  Kept(d, q) /\ d.pc # "insert" /\ d.denied \in {q.denied, Nothing}
  BY AfterTargetFields, AfterCallerFields, DeniedFields, AllowedFields DEF AfterError

LEMMA PassedFields ==
    ASSUME NEW r \in Request, NEW q \in RequestType(r), NEW g \in GatesOf(r), NEW k \in CounterKeys
    PROVE  LET d == Passed(q, g, k)
           IN  /\ d.gates = q.gates \ {g} /\ d.passed = q.passed \cup {k}
               /\ d.failed = q.failed /\ d.began = q.began /\ d.denied = q.denied
               /\ IF d.gates = {} THEN d.pc = "done" /\ d.answer = "allow"
                                  ELSE d.pc = "enforce" /\ d.answer = q.answer
  <1> DEFINE rest == [q EXCEPT !.gates = @ \ {g}, !.passed = @ \cup {k}]
  <1>1. /\ rest \in RequestType(r) /\ rest.gates = q.gates \ {g} /\ rest.passed = q.passed \cup {k}
        /\ rest.failed = q.failed /\ rest.began = q.began /\ rest.denied = q.denied
        /\ rest.answer = q.answer
    BY DEF RequestType
  <1>2. Passed(q, g, k) = Enforcing(rest)
    BY DEF Passed
  <1> HIDE DEF rest
  <1> QED
    BY <1>1, <1>2, EnforcingFields DEF Kept

\* A counter that failed ends the request or lets it go on without its gate.
LEMMA ExcusedFields ==
    ASSUME NEW r \in Request, Typed(r, request[r]), NEW g \in GatesOf(r)
    PROVE  LET p == request[r]
               d == Excused(r, g)
           IN  /\ d.failed = TRUE /\ d.passed = p.passed /\ d.began = p.began
               /\ \/ d.pc = "done" /\ d.answer = "throttled" /\ d.denied = g /\ d.gates = {}
                  \/ /\ d.denied = p.denied /\ d.gates = p.gates \ {g}
                     /\ IF d.gates = {} THEN d.pc = "done" /\ d.answer = "allow"
                                        ELSE d.pc = "enforce" /\ d.answer = p.answer
  <1> DEFINE p == request[r]
             raised == Raised(r)
             rest == [raised EXCEPT !.gates = @ \ {g}, !.opened = @ \cup {g}]
  <1>1. p \in RequestType(r)
    BY DEF Typed
  <1>2. /\ raised \in RequestType(r) /\ raised.failed = TRUE /\ raised.passed = p.passed
        /\ raised.began = p.began /\ raised.denied = p.denied /\ raised.gates = p.gates
        /\ raised.answer = p.answer
    BY <1>1 DEF RequestType, Raised
  <1> HIDE DEF raised, p
  <1>3. /\ rest \in RequestType(r) /\ rest.failed = TRUE /\ rest.passed = p.passed
        /\ rest.began = p.began /\ rest.denied = p.denied /\ rest.gates = p.gates \ {g}
        /\ rest.answer = p.answer
    BY <1>2 DEF RequestType
  <1>4. Excused(r, g) = IF g.closed \/ ~FailOpen THEN Throttled(raised, g) ELSE Enforcing(rest)
    BY DEF Excused, raised
  <1> HIDE DEF rest
  <1>5. LET d == Throttled(raised, g)
        IN  /\ d.failed = TRUE /\ d.passed = p.passed /\ d.began = p.began
            /\ d.pc = "done" /\ d.answer = "throttled" /\ d.denied = g /\ d.gates = {}
    BY <1>2, DeniedFields DEF Throttled, Kept
  <1>6. LET d == Enforcing(rest)
        IN  /\ d.failed = TRUE /\ d.passed = p.passed /\ d.began = p.began
            /\ d.denied = p.denied /\ d.gates = p.gates \ {g}
            /\ IF d.gates = {} THEN d.pc = "done" /\ d.answer = "allow"
                               ELSE d.pc = "enforce" /\ d.answer = p.answer
    BY <1>3, EnforcingFields DEF Kept
  <1> QED
    BY <1>4, <1>5, <1>6 DEF p

LEMMA StampedFields ==
    ASSUME NEW r \in Request, NEW q \in RequestType(r)
    PROVE  LET d == Stamped(q)
           IN  /\ d.pc = q.pc /\ d.docs = q.docs /\ d.groups = q.groups /\ d.gates = q.gates
               /\ d.gate = q.gate /\ d.index = q.index /\ d.passed = q.passed
               /\ d.failed = q.failed /\ d.denied = q.denied /\ d.answer = q.answer
               /\ d.began = IF q.began = Nothing THEN now ELSE q.began
  BY DEF RequestType, Stamped

-----------------------------------------------------------------------------
(* Short windows before long ones *)

LEMMA StampedSpares == ASSUME NEW r \in Request, NEW q \in RequestType(r), Spares(q)
                       PROVE  Spares(Stamped(q))
  BY StampedFields DEF Spares, NextGates

LEMMA SparesStep ==
    ASSUME TypeInv, NEW r \in Request, Spares(request[r]), NEW q,
           \/ LooksUp(r, q) \/ FailsLookup(r, q) \/ Proceeds(r, q) \/ Stopped(r, q) \/ Misses(r, q)
    PROVE  Spares(q)
  <1> DEFINE p == request[r]
  <1>1. Typed(r, p) /\ p \in RequestType(r) /\ p.gates \subseteq GatesOf(r)
    BY RequestFields DEF TypeInv, Typed
  <1>2. p.pc \in {"enforce", "insert"} => p.pc \notin LookupPc
    BY DEF LookupPc
  <1>3. ASSUME p.pc \in LookupPc, Kept(q, p), q.pc # "insert", q.denied \in {p.denied, Nothing}
        PROVE  Spares(q)
    <2>1. p.passed = {} /\ p.denied = Nothing
      BY <1>3 DEF Spares, LookupPc
    <2> QED
      BY <1>3, <2>1 DEF Spares, Kept, Within
  <1>4. CASE LooksUp(r, q)
    BY <1>1, <1>3, <1>4, AfterKept, GivenAnswers DEF LooksUp
  <1>5. CASE FailsLookup(r, q)
    <2>1. /\ Raised(r) \in RequestType(r) /\ Raised(r).pc = p.pc
          /\ Raised(r).passed = p.passed /\ Raised(r).denied = p.denied
      BY <1>1 DEF RequestType, Raised
    <2>2. p.pc \in LookupPc /\ q = AfterError(r, Raised(r))
      BY <1>5 DEF FailsLookup
    <2>3. q.passed = p.passed /\ q.pc # "insert" /\ q.denied \in {p.denied, Nothing}
      BY <2>1, <2>2, AfterErrorKept DEF Kept
    <2>4. p.passed = {} /\ p.denied = Nothing
      BY <2>2 DEF Spares, LookupPc
    <2> QED
      BY <2>3, <2>4 DEF Spares, Within
  <1>6. CASE Proceeds(r, q)
    <2>1. PICK g, k : Passes(r, q, g, k)
      BY <1>6 DEF Proceeds
    <2>2. /\ g \in GatesOf(r) /\ k \in CounterKeys /\ q = Passed(p, g, k)
          /\ p.pc \in {"enforce", "insert"} /\ k[1] = g.key
      BY <2>1, OutcomesTyped DEF Passes, Window
    <2>3. g \in NextGates(p)
      BY <2>1 DEF Passes, Spares
    <2>4. \A h \in p.gates : k[1][4] <= h.window
      BY <1>1, <2>2, <2>3, GateFields DEF NextGates, Sooner
    <2>5. q.gates = p.gates \ {g} /\ q.passed = p.passed \cup {k} /\ q.denied = p.denied
          /\ q.pc \in {"done", "enforce"}
      BY <1>1, <2>2, PassedFields
    <2>6. p.denied = Nothing
      BY <2>2 DEF Spares
    <2> QED
      BY <2>4, <2>5, <2>6 DEF Spares, Within, LookupPc
  <1>7. CASE Stopped(r, q)
    <2>1. PICK g : /\ \/ p.pc = "enforce" /\ g \in NextGates(p)
                      \/ p.pc = "insert" /\ g = p.gate
                   /\ q = Throttled(p, g) \/ q = Excused(r, g)
      BY <1>7 DEF Stopped
    <2>2. g \in p.gates /\ g \in GatesOf(r)
      BY <1>1, <2>1 DEF Spares, NextGates
    <2>3. p.denied = Nothing
      BY <2>1 DEF Spares
    <2>4. /\ q.passed = p.passed /\ q.gates \subseteq p.gates /\ q.pc \in {"done", "enforce"}
          /\ (q.denied = g /\ q.pc = "done") \/ q.denied = Nothing
      <3>1. CASE q = Throttled(p, g)
        BY <1>1, <3>1, DeniedFields DEF Throttled, Kept
      <3>2. CASE q = Excused(r, g)
        BY <1>1, <2>2, <2>3, <3>2, ExcusedFields
      <3> QED
        BY <2>1, <3>1, <3>2
    <2> QED
      BY <2>2, <2>4 DEF Spares, LookupPc
  <1>8. CASE Misses(r, q)
    <2>1. PICK g \in NextGates(p) : p.pc = "enforce" /\
                q = [p EXCEPT !.pc = "insert", !.gate = g, !.index = now \div g.window]
      BY <1>8 DEF Misses
    <2>2. q.pc = "insert" /\ q.gate = g /\ q.gates = p.gates /\ q.passed = p.passed
          /\ q.denied = p.denied
      BY <1>1, <2>1 DEF RequestType
    <2>3. p.denied = Nothing
      BY <2>1 DEF Spares
    <2> QED
      BY <2>1, <2>2, <2>3 DEF Spares, NextGates, LookupPc
  <1> QED
    BY <1>4, <1>5, <1>6, <1>7, <1>8

SparesInv == \A r \in Request : Spares(request[r])

LEMMA SparesInvariance == Spec => []SparesInv
  <1>1. Init => SparesInv
    <2> SUFFICES ASSUME Init, NEW r \in Request PROVE Spares(request[r])
      BY DEF SparesInv
    <2> QED
      BY DEF Init, Arriving, Spares, Within
  <1>2. TypeInv /\ SparesInv /\ [Next]_vars => SparesInv'
    <2> SUFFICES ASSUME TypeInv, SparesInv, [Next]_vars PROVE SparesInv'
      OBVIOUS
    <2>1. ASSUME NEW r \in Request, Check(r) PROVE SparesInv'
      <3>1. PICK q : /\ Become(r, q)
                     /\ \/ LooksUp(r, q) \/ FailsLookup(r, q) \/ Proceeds(r, q)
                        \/ Stopped(r, q) \/ Misses(r, q)
        BY <2>1, CheckSteps
      <3>2. Typed(r, q) /\ Spares(q)
        BY <3>1, OutcomesTyped, SparesStep DEF Proceeds, SparesInv
      <3>3. Spares(Stamped(q))
        BY <3>2, StampedSpares DEF Typed
      <3> QED
        BY <3>1, <3>2, <3>3, Becomes DEF SparesInv
    <2>2. ASSUME request' = request PROVE SparesInv'
      BY <2>2 DEF SparesInv
    <2> QED
      BY <2>1, <2>2, AdminSteps, TickSteps DEF Next, vars
  <1> QED
    BY <1>1, <1>2, TypeInvariance, PTL DEF Spec

\* A request a short window throttles has not used up any longer window, for
\* every set of definitions: gates are enforced in the order of their windows.
THEOREM BurstFirst == Spec => []BurstSparesDay
  <1>1. SparesInv => BurstSparesDay
    BY DEF SparesInv, Spares, Within, BurstSparesDay
  <1> QED
    BY <1>1, SparesInvariance, PTL

-----------------------------------------------------------------------------
(* Quarantine *)

\* A subject in quarantine is so by its own group, and that group is on.
LEMMA ImposedSides ==
    ASSUME TypeInv, QuarantineInv, NEW s \in Subject, since[s] # Nothing
    PROVE  /\ s \in Targets => QuarantineTargets \in member[s] /\ sentinel["target"] = TRUE
           /\ s \in Callers => QuarantineCallers \in member[s] /\ sentinel["caller"] = TRUE
  <1>1. Imposed(member[s], sentinel) /\ Scoped(s, member[s])
    BY DEF QuarantineInv
  <1> QED
    BY <1>1, MembershipConstants DEF Imposed, Scoped, TypeInv

\* No step makes a quarantine older than it is.
LEMMA SinceSteps ==
    ASSUME TypeInv, [Next]_vars
    PROVE  \A s \in Subject : since'[s] \in {since[s], Nothing, now}
  BY CheckSteps, AdminSteps, TickSteps DEF Next, vars, NoteQuarantine

LEMMA OldStays ==
    ASSUME TypeInv, [Next]_vars, NEW s \in Subject, NEW time \in Nat, time <= now, Old(s, time)'
    PROVE  Old(s, time)
  <1>1. since'[s] \in {since[s], Nothing, now} /\ since[s] \in (0 .. MaxTime) \cup {Nothing}
    BY SinceSteps DEF TypeInv
  <1>2. now \in Nat /\ CacheTTL \in Nat \ {0}
    BY LimiterConstants DEF TypeInv
  <1> QED
    BY <1>1, <1>2 DEF Old

LEMMA KnownStays ==
    ASSUME TypeInv, [Next]_vars, now' >= now, now' \in Nat, NEW k, NEW entry, Known(k, entry)
    PROVE  Known(k, entry)'
  <1>1. now \in Nat /\ CacheTTL \in Nat /\ entry.until \in Nat /\ entry.until <= now + CacheTTL
    BY LimiterConstants DEF TypeInv, Known
  <1>2. entry.until <= now' + CacheTTL
    BY <1>1
  <1>3. ASSUME NEW s \in Subject, OlderThan(s, entry.until)' PROVE OlderThan(s, entry.until)
    <2>1. since'[s] \in {since[s], Nothing, now} /\ since[s] \in (0 .. MaxTime) \cup {Nothing}
      BY SinceSteps DEF TypeInv
    <2> QED
      BY <1>1, <1>3, <2>1 DEF OlderThan
  <1> QED
    BY <1>1, <1>2, <1>3 DEF Known

\* The database's own reply is known to be right until it expires.
LEMMA StoredKnown ==
    ASSUME TypeInv, QuarantineInv, NEW k
    PROVE  Known(k, [until |-> now + CacheTTL, value |-> Stored(k)])
  <1> DEFINE entry == [until |-> now + CacheTTL, value |-> Stored(k)]
  <1>1. entry.until = now + CacheTTL /\ entry.value = Stored(k) /\ entry.until \in Nat
    BY LimiterConstants DEF TypeInv
  <1> HIDE DEF entry
  <1>2. ASSUME NEW s \in Subject, OlderThan(s, entry.until)
        PROVE  /\ k = <<"member", s>> => /\ s \in Targets => QuarantineTargets \in entry.value
                                         /\ s \in Callers => QuarantineCallers \in entry.value
               /\ k = <<"sentinel", "target">> /\ s \in Targets => entry.value = TRUE
               /\ k = <<"sentinel", "caller">> /\ s \in Callers => entry.value = TRUE
    <2>1. /\ s \in Targets => QuarantineTargets \in member[s] /\ sentinel["target"] = TRUE
          /\ s \in Callers => QuarantineCallers \in member[s] /\ sentinel["caller"] = TRUE
      BY <1>2, ImposedSides DEF OlderThan
    <2>2. /\ k = <<"member", s>> => Stored(k) = member[s]
          /\ k = <<"sentinel", "target">> => Stored(k) = sentinel["target"]
          /\ k = <<"sentinel", "caller">> => Stored(k) = sentinel["caller"]
      BY DEF Stored
    <2> QED
      BY <1>1, <2>1, <2>2
  <1>3. entry.until <= now + CacheTTL
    <2>1. now + CacheTTL \in Nat
      BY LimiterConstants DEF TypeInv
    <2> QED
      BY <1>1, <2>1
  <1>4. Known(k, entry)
    BY <1>1, <1>2, <1>3, Zenon DEF Known
  <1> QED
    BY <1>4 DEF entry

\* So a lookup of a subject in quarantine for a cache lifetime shows it.
LEMMA GivenKnows ==
    ASSUME TypeInv, QuarantineInv, NEW r \in Request, NEW value, Given(r, value),
           NEW s \in Subject, NEW time \in Nat, time <= now, Old(s, time)
    PROVE  LET k == Query(r, request[r])
           IN  /\ k = <<"member", s>> => /\ s \in Targets => QuarantineTargets \in value
                                         /\ s \in Callers => QuarantineCallers \in value
               /\ k = <<"sentinel", "target">> /\ s \in Targets => value = TRUE
               /\ k = <<"sentinel", "caller">> /\ s \in Callers => value = TRUE
  <1> DEFINE k == Query(r, request[r])
             p == Call[r].replica
  <1>1. now \in Nat /\ CacheTTL \in Nat \ {0} /\ p \in Replica
        /\ since[s] \in (0 .. MaxTime) \cup {Nothing}
    BY LimiterConstants DEF TypeInv
  <1> HIDE DEF k
  <1>2. CASE Fresh(p, k) /\ value = cache[p][k].value
    <2>1. Known(k, cache[p][k]) /\ now < cache[p][k].until
      BY <1>1, <1>2 DEF Fresh, QuarantineInv
    <2>2. cache[p][k].until \in Nat
      BY <2>1 DEF Known
    <2>3. OlderThan(s, cache[p][k].until)
      BY <1>1, <2>1, <2>2 DEF Old, OlderThan
    <2> QED
      BY <1>2, <2>1, <2>3 DEF Known, k
  <1>3. CASE value = Stored(k)
    <2> DEFINE entry == [until |-> now + CacheTTL, value |-> Stored(k)]
    <2>1. Known(k, entry) /\ entry.value = value /\ entry.until = now + CacheTTL
      BY <1>3, StoredKnown
    <2> HIDE DEF entry
    <2>2. CASE OlderThan(s, entry.until)
      BY <2>1, <2>2 DEF Known, k
    <2>3. CASE ~OlderThan(s, entry.until)
      BY <1>1, <2>1, <2>3 DEF Old, OlderThan
    <2> QED
      BY <2>2, <2>3
  <1> QED
    BY <1>2, <1>3 DEF Given, k

LEMMA Ranges == ASSUME NEW docs \in Seq(Subject), docs # <<>>
                PROVE  /\ Head(docs) \in Subject
                       /\ \A s \in RangeOf(docs) : s = Head(docs) \/ s \in RangeOf(Tail(docs))
  <1>1. ASSUME NEW i \in DOMAIN docs, i # 1 PROVE docs[i] \in RangeOf(Tail(docs))
    <2>1. i \in 2 .. Len(docs)
      BY <1>1
    <2>2. i - 1 \in DOMAIN Tail(docs) /\ Tail(docs)[i - 1] = docs[i]
      BY <2>1
    <2> QED
      BY <2>2 DEF RangeOf
  <1> QED
    BY <1>1 DEF RangeOf

LEMMA Documents ==
    ASSUME NEW r \in Request
    PROVE  /\ Call[r].target \in Subject /\ Call[r].target \in Targets
           /\ Call[r].target \notin Callers
           /\ RangeOf(Call[r].docs) \subseteq Subject /\ RangeOf(Call[r].docs) \subseteq Callers
  <1>1. Call[r].target \in Subject /\ Call[r].docs \in Seq(Subject)
    BY LimiterConstants
  <1>2. Call[r].target \in Targets /\ RangeOf(Call[r].docs) \subseteq Callers
    BY DEF Targets, Callers, RangeOf
  <1>3. RangeOf(Call[r].docs) \subseteq Subject
    BY <1>1 DEF RangeOf
  <1> QED
    BY <1>1, <1>2, <1>3, MembershipConstants

LEMMA ScreenedLookup ==
    ASSUME TypeInv, QuarantineInv, NEW r \in Request, NEW q, LooksUp(r, q)
    PROVE  Screened(r, Stamped(q))
  <1> DEFINE p == request[r]
             k == Query(r, p)
             target == Call[r].target
             b == IF p.began = Nothing THEN now ELSE p.began
             docs == RangeOf(Call[r].docs)
  <1>1. PICK value : Given(r, value) /\ q = After(r, p, value)
    BY DEF LooksUp
  <1>2. /\ Typed(r, p) /\ p \in RequestType(r) /\ p.pc \in LookupPc /\ Answers(k, value)
        /\ now \in Nat /\ p.began \in (0 .. MaxTime) \cup {Nothing}
        /\ p.docs \in Seq(Subject)
    BY <1>1, GivenAnswers, RequestFields DEF TypeInv, Typed, LooksUp
  <1>3. Screened(r, p)
    BY DEF QuarantineInv
  <1>4. b \in Nat /\ b <= now /\ b # Nothing
    BY <1>2, <1>3, LimiterConstants DEF Screened
  <1>5. Kept(q, p) /\ Typed(r, q) /\ q \in RequestType(r)
    BY <1>1, <1>2, AfterKept, AfterTyped DEF Typed
  <1>6. /\ target \in Subject /\ target \in Targets /\ target \notin Callers
        /\ docs \subseteq Subject /\ docs \subseteq Callers
    BY Documents
  <1>7. ASSUME NEW s \in Subject, Old(s, b)
        PROVE  /\ k = <<"member", s>> => /\ s \in Targets => QuarantineTargets \in value
                                         /\ s \in Callers => QuarantineCallers \in value
               /\ k = <<"sentinel", "target">> /\ s \in Targets => value = TRUE
               /\ k = <<"sentinel", "caller">> /\ s \in Callers => value = TRUE
    <2> HIDE DEF b
    <2> QED
      BY <1>1, <1>4, <1>7, GivenKnows
  <1>8. Stamped(q).began = b
    BY <1>5, StampedFields DEF Kept
  <1>9. SUFFICES /\ q.pc \in {"sentinel_t", "member_t"} => q.docs = Call[r].docs
                 /\ ~q.failed /\ Cleared(q) => ~Old(target, b)
                 /\ ~q.failed /\ ~Call[r].admin => \A s \in docs : Old(s, b) =>
                       \/ q.answer = "quarantined"
                       \/ q.pc \in {"sentinel_t", "member_t", "sentinel_c"}
                       \/ q.pc = "member_c" /\ (s \in RangeOf(q.docs) \/ QuarantineCallers \in q.groups)
    BY <1>4, <1>5, <1>8, StampedFields DEF Screened, Cleared
  <1>10. ASSUME q = AfterTarget(r, p), p.pc \in {"sentinel_t", "member_t"}, ~Old(target, b)
         PROVE  /\ q.pc \notin {"sentinel_t", "member_t"}
                /\ ~Call[r].admin => \A s \in docs : q.pc = "member_c" /\ s \in RangeOf(q.docs)
    <2>1. p.docs = Call[r].docs /\ q.docs = p.docs
          /\ q.pc = IF Call[r].admin THEN "defs_t" ELSE IF p.docs = <<>> THEN "defs_t" ELSE "member_c"
      BY <1>2, <1>3, <1>10, AfterTargetFields DEF Screened
    <2>2. p.docs = <<>> => docs = {}
      BY <2>1 DEF RangeOf
    <2> QED
      BY <2>1, <2>2
  <1>11. CASE p.pc \in {"sentinel_t", "member_t"}
    <2>1. p.pc = "sentinel_t" => value \in BOOLEAN /\ k = <<"sentinel", "target">>
      BY <1>2 DEF Answers, Query
    <2>2. p.pc = "member_t" => k = <<"member", target>>
      BY DEF Query
    <2>3. CASE p.pc = "sentinel_t" /\ value = TRUE
      <3>1. q.pc = "member_t" /\ q.docs = p.docs
        BY <1>1, <1>2, <2>3, AfterTargetLookup
      <3> QED
        BY <1>3, <2>3, <3>1 DEF Cleared, Screened
    <2>4. CASE p.pc = "member_t" /\ QuarantineTargets \in value
      <3>1. q.answer = "quarantined" /\ q.pc = "done"
        <4>1. q = Denied(p, "quarantined", Nothing)
          BY <1>1, <1>2, <2>4, AfterTargetLookup
        <4> QED
          BY <1>2, <4>1, DeniedFields
      <3> QED
        BY <3>1 DEF Cleared
    <2>5. CASE \/ p.pc = "sentinel_t" /\ value = FALSE
               \/ p.pc = "member_t" /\ QuarantineTargets \notin value
      <3>1. q = AfterTarget(r, p)
        BY <1>1, <1>2, <2>5, AfterTargetLookup
      <3>2. ~Old(target, b)
        BY <1>6, <1>7, <2>1, <2>2, <2>5
      <3> QED
        BY <1>10, <1>11, <3>1, <3>2
    <2> QED
      BY <1>11, <2>1, <2>3, <2>4, <2>5
  <1>12. ASSUME p.pc \notin {"sentinel_t", "member_t"}
         PROVE  /\ b = p.began /\ q.failed = p.failed /\ p.answer = Nothing
                /\ ~p.failed => ~Old(target, b)
    <2>1. p.answer = Nothing /\ p.answer # "quarantined"
      BY <1>2, LimiterConstants DEF Typed, LookupPc
    <2>2. p.began # Nothing
      BY <1>3, <1>12 DEF Screened
    <2> QED
      BY <1>3, <1>5, <1>12, <2>1, <2>2 DEF Screened, Cleared, Kept
  <1>13. CASE p.pc = "member_c"
    <2>1. p.docs # <<>> /\ value \in SUBSET Groups /\ k = <<"member", Head(p.docs)>>
      BY <1>2, <1>13 DEF Typed, Answers, Query
    <2>2. /\ q.docs = Tail(p.docs) /\ q.groups = p.groups \cup value
          /\ q.pc = IF Tail(p.docs) # <<>> THEN "member_c"
                    ELSE IF QuarantineCallers \in q.groups THEN "sentinel_c"
                    ELSE IF q.groups \ Reserved = {} THEN "defs_t" ELSE "defs_c"
      <3>1. p \in RequestType(r) /\ p.pc = "member_c" /\ p.docs # <<>>
        BY <1>2, <1>13, <2>1
      <3> HIDE DEF p
      <3>2. LET d == After(r, p, value)
                groups == p.groups \cup value
            IN  /\ d.docs = Tail(p.docs) /\ d.groups = groups
                /\ d.pc = IF Tail(p.docs) # <<>> THEN "member_c"
                          ELSE IF QuarantineCallers \in groups THEN "sentinel_c"
                          ELSE IF groups \ Reserved = {} THEN "defs_t" ELSE "defs_c"
        BY <2>1, <3>1, AfterDocument
      <3> QED
        BY <1>1, <3>2
    <2>3. ASSUME ~p.failed, ~Call[r].admin, NEW s \in docs, Old(s, b)
          PROVE  s \in RangeOf(Tail(p.docs)) \/ QuarantineCallers \in q.groups
      <3>1. s \in RangeOf(p.docs) \/ QuarantineCallers \in p.groups
        BY <1>3, <1>12, <1>13, <2>3, LimiterConstants DEF Screened
      <3>2. s = Head(p.docs) => QuarantineCallers \in value
        BY <1>6, <1>7, <2>1, <2>3
      <3> QED
        BY <1>2, <2>1, <2>2, <3>1, <3>2, Ranges
    <2>4. Tail(p.docs) = <<>> => RangeOf(Tail(p.docs)) = {}
      BY DEF RangeOf
    <2> QED
      BY <1>12, <1>13, <2>2, <2>3, <2>4
  <1>14. CASE p.pc = "sentinel_c"
    <2>1. value \in BOOLEAN /\ k = <<"sentinel", "caller">>
      BY <1>2, <1>14 DEF Answers, Query
    <2>2. CASE value = TRUE
      <3>1. q.answer = "quarantined" /\ q.pc = "done"
        <4>1. q = Denied(p, "quarantined", Nothing)
          BY <1>1, <1>2, <1>14, <2>2, AfterSwitch
        <4> QED
          BY <1>2, <4>1, DeniedFields
      <3> QED
        BY <3>1 DEF Cleared
    <2>3. CASE value = FALSE
      <3>1. \A s \in docs : ~Old(s, b)
        BY <1>6, <1>7, <2>1, <2>3
      <3>2. q.pc \in {"defs_t", "defs_c"}
        BY <1>1, <1>2, <1>14, <2>1, <2>3, AfterSwitch, AfterCallerFields
      <3> QED
        BY <1>12, <1>14, <3>1, <3>2
    <2> QED
      BY <2>1, <2>2, <2>3
  <1>15. CASE p.pc \in {"defs_c", "defs_ct", "defs_t"}
    <2>1. value \in SUBSET Definition
      BY <1>2, <1>15 DEF Answers, Query
    <2>2. q.pc \in {"defs_ct", "defs_t", "enforce", "done"}
      BY <1>1, <1>2, <1>15, <2>1, AfterDefinitions
    <2>3. ~p.failed /\ ~Call[r].admin => \A s \in docs : ~Old(s, b)
      BY <1>3, <1>12, <1>15, LimiterConstants DEF Screened
    <2> QED
      BY <1>12, <1>15, <2>2, <2>3
  <1> QED
    BY <1>2, <1>11, <1>13, <1>14, <1>15 DEF LookupPc

LEMMA ScreenedStep ==
    ASSUME TypeInv, QuarantineInv, NEW r \in Request, NEW q,
           \/ LooksUp(r, q) \/ FailsLookup(r, q) \/ Proceeds(r, q) \/ Stopped(r, q) \/ Misses(r, q)
    PROVE  Screened(r, Stamped(q))
  <1> DEFINE p == request[r]
             b == IF p.began = Nothing THEN now ELSE p.began
  <1>1. /\ Typed(r, p) /\ p \in RequestType(r) /\ Typed(r, q) /\ q \in RequestType(r)
        /\ now \in Nat /\ Screened(r, p)
    BY OutcomesTyped DEF TypeInv, Typed, Proceeds, QuarantineInv
  <1>2. b \in Nat /\ b <= now /\ b # Nothing
    BY <1>1, RequestFields, LimiterConstants DEF Screened
  <1>3. CASE LooksUp(r, q)
    BY <1>3, ScreenedLookup
  <1>4. CASE FailsLookup(r, q)
    <2>1. /\ Raised(r) \in RequestType(r) /\ Raised(r).pc = p.pc /\ Raised(r).failed = TRUE
          /\ Raised(r).began = p.began
      BY <1>1 DEF RequestType, Raised
    <2>2. p.pc \in LookupPc /\ q = AfterError(r, Raised(r))
      BY <1>4 DEF FailsLookup
    <2>3. q.failed = TRUE /\ q.began = p.began
      BY <2>1, <2>2, AfterErrorKept DEF Kept
    <2>4. q.pc \notin {"sentinel_t", "member_t"}
      BY <2>1, <2>2, AfterTargetFields, AfterCallerFields, DeniedFields, AllowedFields DEF AfterError
    <2> QED
      BY <1>1, <1>2, <2>3, <2>4, StampedFields DEF Screened
  <1>5. ASSUME p.pc \in {"enforce", "insert"}, q.pc \in {"enforce", "insert", "done"},
               q.began = p.began, q.failed = p.failed \/ q.failed = TRUE
        PROVE  Screened(r, Stamped(q))
    <2>1. p.began # Nothing /\ p.answer = Nothing /\ p.answer # "quarantined"
      BY <1>1, <1>5, LimiterConstants DEF Screened, Typed
    <2>2. ~p.failed => /\ ~Old(Call[r].target, p.began)
                       /\ ~Call[r].admin => \A s \in RangeOf(Call[r].docs) : ~Old(s, p.began)
      BY <1>1, <1>5, <2>1 DEF Screened, Cleared
    <2>3. /\ Stamped(q).pc = q.pc /\ Stamped(q).began = p.began /\ Stamped(q).failed = q.failed
      BY <1>1, <1>5, <2>1, StampedFields
    <2>4. ~q.failed => ~p.failed
      BY <1>5
    <2> QED
      BY <1>1, <1>5, <2>1, <2>2, <2>3, <2>4 DEF Screened
  <1>6. CASE Proceeds(r, q)
    <2>1. PICK g, k : Passes(r, q, g, k)
      BY <1>6 DEF Proceeds
    <2>2. g \in GatesOf(r) /\ k \in CounterKeys /\ q = Passed(p, g, k) /\ p.pc \in {"enforce", "insert"}
      BY <2>1, OutcomesTyped DEF Passes
    <2>3. q.began = p.began /\ q.failed = p.failed /\ q.pc \in {"enforce", "done"}
      BY <1>1, <2>2, PassedFields
    <2> QED
      BY <1>5, <2>2, <2>3
  <1>7. CASE Stopped(r, q)
    <2>1. PICK g : /\ \/ p.pc = "enforce" /\ g \in NextGates(p)
                      \/ p.pc = "insert" /\ g = p.gate
                   /\ q = Throttled(p, g) \/ q = Excused(r, g)
      BY <1>7 DEF Stopped
    <2>2. g \in GatesOf(r)
      BY <1>1, <2>1, RequestFields, OutcomesTyped DEF Typed
    <2>3. q.began = p.began /\ q.pc \in {"enforce", "done"} /\ (q.failed = p.failed \/ q.failed = TRUE)
      <3>1. CASE q = Throttled(p, g)
        BY <1>1, <3>1, DeniedFields DEF Throttled, Kept
      <3>2. CASE q = Excused(r, g)
        BY <1>1, <2>2, <3>2, ExcusedFields
      <3> QED
        BY <2>1, <3>1, <3>2
    <2> QED
      BY <1>5, <2>1, <2>3
  <1>8. CASE Misses(r, q)
    <2>1. PICK g \in NextGates(p) : p.pc = "enforce" /\
                q = [p EXCEPT !.pc = "insert", !.gate = g, !.index = now \div g.window]
      BY <1>8 DEF Misses
    <2>2. q.pc = "insert" /\ q.began = p.began /\ q.failed = p.failed
      BY <1>1, <2>1 DEF RequestType
    <2> QED
      BY <1>5, <2>1, <2>2
  <1> QED
    BY <1>3, <1>4, <1>6, <1>7, <1>8

LEMMA ScreenedStays ==
    ASSUME TypeInv, [Next]_vars, now' >= now, now' \in Nat, NEW r \in Request, NEW q, Typed(r, q),
           Screened(r, q)
    PROVE  Screened(r, q)'
  <1>1. q.began \in (0 .. MaxTime) \cup {Nothing} /\ now \in Nat /\ MaxTime \in Nat
    BY RequestFields, LimiterConstants DEF Typed, TypeInv
  <1>2. CASE q.began = Nothing
    <2>1. q.pc = "sentinel_t" /\ q.docs = Call[r].docs
      BY <1>2 DEF Screened
    <2> QED
      BY <1>2, <2>1 DEF Screened, Cleared
  <1>3. CASE q.began # Nothing
    <2>1. q.began \in Nat /\ q.began <= now /\ q.began <= now'
      BY <1>1, <1>3 DEF Screened
    <2>2. \A s \in Subject : Old(s, q.began)' => Old(s, q.began)
      BY <2>1, OldStays
    <2> QED
      BY <1>3, <2>1, <2>2, Documents DEF Screened, Cleared
  <1> QED
    BY <1>2, <1>3

LEMMA QuarantineInit == Init => QuarantineInv
  <1> SUFFICES ASSUME Init PROVE QuarantineInv
    OBVIOUS
  <1>1. \A s \in Subject : Scoped(s, member[s])
    BY MembershipConstants DEF Init
  <1>2. \A s \in Subject : /\ since[s] # Nothing <=> Imposed(member[s], sentinel)
                           /\ since[s] # Nothing => since[s] <= now
    BY LimiterConstants DEF Init, Imposed, Reserved
  <1>3. \A p \in Replica : DOMAIN cache[p] = {}
    BY DEF Init
  <1>4. \A r \in Request : Screened(r, request[r])
    BY DEF Init, Arriving, Screened, Cleared
  <1> QED
    BY <1>1, <1>2, <1>3, <1>4 DEF QuarantineInv, Init

LEMMA QuarantineStep == TypeInv /\ QuarantineInv /\ [Next]_vars => QuarantineInv'
  <1> SUFFICES ASSUME TypeInv, QuarantineInv, [Next]_vars PROVE QuarantineInv'
    OBVIOUS
  <1>1. now \in Nat /\ now' \in Nat /\ now' >= now
    BY CheckSteps, AdminSteps, TickSteps, LimiterConstants DEF Next, vars, TypeInv
  <1>2. \A k, entry : Known(k, entry) => Known(k, entry)'
    BY <1>1, KnownStays
  <1>3. \A r \in Request : \A q : Typed(r, q) /\ Screened(r, q) => Screened(r, q)'
    BY <1>1, ScreenedStays
  <1>4. \A r \in Request : Typed(r, request[r]) /\ Screened(r, request[r])
    BY DEF TypeInv, QuarantineInv
  <1>5. ASSUME NEW r \in Request, Check(r) PROVE QuarantineInv'
    <2>1. PICK q : /\ Become(r, q)
                   /\ \/ LooksUp(r, q) \/ FailsLookup(r, q) \/ Proceeds(r, q)
                      \/ Stopped(r, q) \/ Misses(r, q)
      BY <1>5, CheckSteps
    <2>2. now' = now /\ sentinel' = sentinel /\ member' = member /\ since' = since /\ task' = task
      BY <1>5, CheckSteps
    <2>3. Screened(r, Stamped(q)) /\ Typed(r, q)
      BY <2>1, ScreenedStep, OutcomesTyped DEF Proceeds
    <2>4. /\ request'[r] = Stamped(q)
          /\ \A o \in Request \ {r} : request'[o] = request[o]
      BY <2>1, <2>3, Becomes
    <2>5. \A o \in Request : Screened(o, request'[o])
      BY <1>4, <2>3, <2>4
    <2>6. \A o \in Request : Screened(o, request[o])'
      BY <2>2, <2>5 DEF Screened, Old
    <2>7. \A p \in Replica : \A k \in DOMAIN cache'[p] : Known(k, cache'[p][k])
      <3>1. ASSUME NEW p \in Replica, NEW k \in DOMAIN cache'[p] PROVE Known(k, cache'[p][k])
        <4>1. CASE k \in DOMAIN cache[p] /\ cache'[p][k] = cache[p][k]
          BY <4>1 DEF QuarantineInv
        <4>2. CASE cache'[p][k] = [until |-> now + CacheTTL, value |-> Stored(k)]
          BY <4>2, StoredKnown
        <4> QED
          BY <1>5, <4>1, <4>2, CheckCaches
      <3> QED
        BY <3>1
    <2>8. \A p \in Replica : \A k \in DOMAIN cache'[p] : Known(k, cache[p][k])'
      BY <2>2, <2>7 DEF Known, OlderThan
    <2> QED
      BY <2>2, <2>6, <2>8 DEF QuarantineInv
  <1>6. ASSUME NEW a \in Task, Administer(a) PROVE QuarantineInv'
    <2>1. now' = now /\ cache' = cache /\ request' = request
      BY <1>6, AdminSteps
    <2>2. \A s \in Subject : Scoped(s, member[s])
      BY DEF QuarantineInv
    <2>3. member \in [Subject -> SUBSET Groups] /\ since \in [Subject -> (0 .. MaxTime) \cup {Nothing}]
      BY DEF TypeInv
    <2>4. \A s \in Subject : Scoped(s, member'[s])
      <3>1. CASE member' = member
        BY <2>2, <3>1
      <3>2. ASSUME NEW s \in Subject, NEW groups \in SUBSET Groups,
                   member' = [member EXCEPT ![s] = groups], Scoped(s, groups)
            PROVE  \A t \in Subject : Scoped(t, member'[t])
        BY <2>2, <2>3, <3>2
      <3>3. ASSUME NEW c \in Change[a], c.kind = "put" PROVE Scoped(c.subject, c.groups)
        BY <3>3, ChangeTypes
      <3>4. ASSUME task[a].pc = "read"
            PROVE  LET c == task[a].change
                   IN  /\ c.kind = "quarantine" => Scoped(c.subject, task[a].groups \cup c.groups)
                       /\ Scoped(c.subject, task[a].groups \ c.groups)
        <4>1. /\ task[a].change \in Change[a] /\ task[a].change.kind \in {"quarantine", "release"}
              /\ Scoped(task[a].change.subject, task[a].groups)
          BY <3>4 DEF TypeInv, QuarantineInv
        <4> QED
          BY <4>1, ChangeTypes DEF Scoped
      <3>5. CASE \E s \in Subject, groups \in SUBSET Groups :
                    /\ member' = [member EXCEPT ![s] = groups]
                    /\ \/ \E c \in Change[a] : c.kind = "put" /\ c.subject = s /\ c.groups = groups
                       \/ LET c == task[a].change
                          IN  /\ task[a].pc = "read" /\ c.subject = s
                              /\ groups = IF c.kind = "quarantine" THEN task[a].groups \cup c.groups
                                          ELSE task[a].groups \ c.groups
        <4>1. PICK s \in Subject, groups \in SUBSET Groups :
                    /\ member' = [member EXCEPT ![s] = groups]
                    /\ \/ \E c \in Change[a] : c.kind = "put" /\ c.subject = s /\ c.groups = groups
                       \/ LET c == task[a].change
                          IN  /\ task[a].pc = "read" /\ c.subject = s
                              /\ groups = IF c.kind = "quarantine" THEN task[a].groups \cup c.groups
                                          ELSE task[a].groups \ c.groups
          BY <3>5
        <4>2. Scoped(s, groups)
          BY <3>3, <3>4, <4>1
        <4> QED
          BY <3>2, <4>1, <4>2
      <3> QED
        BY <1>6, <3>1, <3>5, AdminSteps
    <2>5. \A b \in Task : task'[b].pc = "read" => Scoped(task'[b].change.subject, task'[b].groups)
      BY <1>6, <2>2, AdminSteps, ChangeTypes DEF QuarantineInv
    <2>6. \A s \in Subject : /\ since'[s] # Nothing <=> Imposed(member'[s], sentinel')
                             /\ since'[s] # Nothing => since'[s] <= now
      <3>1. now # Nothing /\ now <= now
        BY <1>1, LimiterConstants
      <3>2. CASE member' = member /\ since' = since /\ sentinel' = sentinel
        BY <3>2 DEF QuarantineInv
      <3>3. CASE NoteQuarantine
        BY <3>1, <3>3 DEF NoteQuarantine, QuarantineInv
      <3> QED
        BY <1>6, <3>2, <3>3, AdminSteps
    <2>7. \A p \in Replica : \A k \in DOMAIN cache[p] : Known(k, cache[p][k])'
      BY <1>2, <2>1 DEF QuarantineInv
    <2>8. \A r \in Request : Screened(r, request[r])'
      BY <1>3, <1>4, <2>1
    <2> QED
      BY <2>1, <2>4, <2>5, <2>6, <2>7, <2>8 DEF QuarantineInv
  <1>7. ASSUME Tick PROVE QuarantineInv'
    <2>1. /\ now' = now + 1 /\ sentinel' = sentinel /\ member' = member /\ since' = since
          /\ task' = task /\ request' = request
      BY <1>7, TickSteps
    <2>2. \A s \in Subject : since[s] # Nothing => since[s] <= now'
      <3>1. \A s \in Subject : since[s] \in (0 .. MaxTime) \cup {Nothing}
        BY DEF TypeInv
      <3> QED
        BY <1>1, <2>1, <3>1 DEF QuarantineInv
    <2>3. \A p \in Replica : \A k \in DOMAIN cache'[p] : Known(k, cache[p][k])'
      BY <1>2, <1>7, TickSteps DEF QuarantineInv
    <2>4. \A r \in Request : Screened(r, request[r])'
      BY <1>3, <1>4, <2>1
    <2> QED
      BY <2>1, <2>2, <2>3, <2>4 DEF QuarantineInv
  <1>8. ASSUME UNCHANGED vars PROVE QuarantineInv'
    <2>1. \A r \in Request : Screened(r, request[r])'
      BY <1>3, <1>4, <1>8 DEF vars
    <2>2. \A p \in Replica : \A k \in DOMAIN cache'[p] : Known(k, cache[p][k])'
      BY <1>2, <1>8 DEF vars, QuarantineInv
    <2> QED
      BY <1>8, <2>1, <2>2 DEF vars, QuarantineInv
  <1> QED
    BY <1>5, <1>6, <1>7, <1>8 DEF Next

\* Quarantine holds, on every replica, for every request that begins one cache
\* lifetime after it was imposed, unless a call fails, whatever the documents and
\* groups, and is never softened to a throttle.
THEOREM QuarantineEnforced == Spec => []QuarantineHolds
  <1>1. ASSUME TypeInv, QuarantineInv PROVE QuarantineHolds
    <2> SUFFICES ASSUME NEW r \in Request, request[r].answer \in {"allow", "throttled"},
                        ~request[r].failed, NEW s \in SubjectsOf(r), Quarantined(s, request[r].began)
                 PROVE  FALSE
      BY DEF QuarantineHolds
    <2>1. Screened(r, request[r]) /\ request[r].pc = "done"
      BY <1>1, LimiterConstants DEF TypeInv, Typed, QuarantineInv
    <2>2. Old(s, request[r].began)
      BY DEF Quarantined, Old
    <2>3. s = Call[r].target \/ (~Call[r].admin /\ s \in RangeOf(Call[r].docs))
      <3>1. CASE Call[r].admin
        BY <3>1 DEF SubjectsOf
      <3>2. CASE ~Call[r].admin
        BY <3>2 DEF SubjectsOf, RangeOf
      <3> QED
        BY <3>1, <3>2
    <2> QED
      BY <2>1, <2>2, <2>3 DEF Screened, Cleared
  <1> QED
    BY <1>1, TypeInvariance, QuarantineInit, QuarantineStep, PTL DEF Spec

-----------------------------------------------------------------------------
(* Definitions and documents no change touches *)

LEMMA FixedDefinitions == Fixed \subseteq Enabled /\ Fixed \subseteq Definition
  BY LimiterConstants DEF Fixed

\* The database's reply has every definition and group that is fixed.
LEMMA StoredFaithful == ASSUME StoreInv, NEW k PROVE Faithful(k, Stored(k))
  BY DEF StoreInv, Faithful, Stored

LEMMA GivenFaithful ==
    ASSUME TypeInv, StoreInv, NEW r \in Request, NEW value, Given(r, value)
    PROVE  Faithful(Query(r, request[r]), value)
  <1> DEFINE k == Query(r, request[r])
             p == Call[r].replica
  <1>1. p \in Replica
    BY LimiterConstants
  <1>2. CASE Fresh(p, k) /\ value = cache[p][k].value
    BY <1>1, <1>2 DEF Fresh, StoreInv
  <1>3. CASE value = Stored(k)
    BY <1>3, StoredFaithful
  <1> QED
    BY <1>2, <1>3 DEF Given

LEMMA StoreInit == Init => StoreInv
  BY FixedDefinitions DEF Init, StoreInv

LEMMA StoreStep == TypeInv /\ StoreInv /\ [Next]_vars => StoreInv'
  <1> SUFFICES ASSUME TypeInv, StoreInv, [Next]_vars PROVE StoreInv'
    OBVIOUS
  <1> USE DEF Settled, Faithful
  <1>1. ASSUME NEW r \in Request, Check(r) PROVE StoreInv'
    <2>1. defs' = defs /\ member' = member /\ task' = task
      BY <1>1, CheckSteps
    <2>2. ASSUME NEW p \in Replica, NEW k \in DOMAIN cache'[p] PROVE Faithful(k, cache'[p][k].value)
      <3>1. CASE k \in DOMAIN cache[p] /\ cache'[p][k] = cache[p][k]
        BY <3>1 DEF StoreInv
      <3>2. CASE cache'[p][k] = [until |-> now + CacheTTL, value |-> Stored(k)]
        BY <3>2, StoredFaithful
      <3> QED
        BY <1>1, <3>1, <3>2, CheckCaches
    <2> QED
      BY <2>1, <2>2 DEF StoreInv
  <1>2. ASSUME NEW a \in Task, Administer(a) PROVE StoreInv'
    <2>1. cache' = cache
      BY <1>2, AdminSteps
    <2>2. Fixed \subseteq defs'
      <3>1. \/ defs' = defs
            \/ \E c \in Change[a] : \/ c.kind = "enable" /\ defs' = defs \cup c.defs
                                    \/ c.kind = "disable" /\ defs' = defs \ c.defs
        BY <1>2, AdminSteps
      <3>2. ASSUME NEW c \in Change[a], c.kind = "disable" PROVE Fixed \cap c.defs = {}
        BY <3>2 DEF Fixed, Possible
      <3> QED
        BY <3>1, <3>2 DEF StoreInv
    <2>3. \A s \in Subject : Settled(s) => member'[s] \ Reserved = Member[s] \ Reserved
      <3>1. member \in [Subject -> SUBSET Groups]
        BY DEF TypeInv
      <3>2. CASE member' = member
        BY <3>2 DEF StoreInv
      <3>3. CASE \E s \in Subject, groups \in SUBSET Groups :
                    /\ member' = [member EXCEPT ![s] = groups]
                    /\ \/ \E c \in Change[a] : c.kind = "put" /\ c.subject = s /\ c.groups = groups
                       \/ LET c == task[a].change
                          IN  /\ task[a].pc = "read" /\ c.subject = s
                              /\ groups = IF c.kind = "quarantine" THEN task[a].groups \cup c.groups
                                          ELSE task[a].groups \ c.groups
        <4>1. PICK s \in Subject, groups \in SUBSET Groups :
                    /\ member' = [member EXCEPT ![s] = groups]
                    /\ \/ \E c \in Change[a] : c.kind = "put" /\ c.subject = s /\ c.groups = groups
                       \/ LET c == task[a].change
                          IN  /\ task[a].pc = "read" /\ c.subject = s
                              /\ groups = IF c.kind = "quarantine" THEN task[a].groups \cup c.groups
                                          ELSE task[a].groups \ c.groups
          BY <3>3
        <4>2. (\E c \in Change[a] : c.kind = "put" /\ c.subject = s) => ~Settled(s)
          BY DEF Possible
        <4>3. ASSUME task[a].pc = "read", Settled(task[a].change.subject)
              PROVE  /\ task[a].change.groups \subseteq Reserved
                     /\ task[a].groups \ Reserved = Member[task[a].change.subject] \ Reserved
          BY <4>3, ChangeTypes DEF TypeInv, StoreInv
        <4>4. Settled(s) => groups \ Reserved = Member[s] \ Reserved
          BY <4>1, <4>2, <4>3
        <4> QED
          BY <3>1, <4>1, <4>4 DEF StoreInv
      <3> QED
        BY <1>2, <3>2, <3>3, AdminSteps
    <2>4. ASSUME NEW b \in Task, task'[b].pc = "read", Settled(task'[b].change.subject)
          PROVE  task'[b].groups \ Reserved = Member[task'[b].change.subject] \ Reserved
      <3>1. CASE b # a
        BY <1>2, <2>4, <3>1, AdminSteps DEF StoreInv
      <3>2. CASE b = a
        <4>1. task'[a].change \in Change[a] /\ task'[a].change.kind \in {"quarantine", "release"}
              /\ task'[a].groups = member[task'[a].change.subject]
          BY <1>2, <2>4, <3>2, AdminSteps
        <4>2. task'[a].change.subject \in Subject
          BY <4>1, ChangeTypes
        <4> QED
          BY <2>4, <3>2, <4>1, <4>2 DEF StoreInv
      <3> QED
        BY <3>1, <3>2
    <2> QED
      BY <2>1, <2>2, <2>3, <2>4 DEF StoreInv
  <1>3. ASSUME Tick PROVE StoreInv'
    BY <1>3, TickSteps DEF StoreInv
  <1>4. ASSUME UNCHANGED vars PROVE StoreInv'
    BY <1>4 DEF vars, StoreInv
  <1> QED
    BY <1>1, <1>2, <1>3, <1>4 DEF Next

-----------------------------------------------------------------------------
(* A gate for every definition *)

\* A request that has read its documents has a group of every definition of
\* callers that covers it.
LEMMA CoveringGroups ==
    ASSUME NEW r \in Request, NEW q, NEW d \in Fixed, Covers(d, r), d.axis # "target",
           \A s \in RangeOf(Call[r].docs) : Settled(s) => Member[s] \ Reserved \subseteq q.groups
    PROVE  d.names \cap RateGroups(q) # {}
  <1>1. PICK x : x \in d.names /\ x \in GroupsOf(r)
    BY DEF Covers
  <1>2. PICK i \in DOMAIN Call[r].docs : Settled(Call[r].docs[i]) /\ x \in Member[Call[r].docs[i]]
    BY <1>1 DEF GroupsOf
  <1>3. Call[r].docs[i] \in RangeOf(Call[r].docs)
    BY DEF RangeOf
  <1>4. x \notin Reserved
    BY <1>1, FixedDefinitions, LimiterConstants
  <1> QED
    BY <1>1, <1>2, <1>3, <1>4 DEF RateGroups

\* Requests that share a counter share it under every definition that counts in it.
LEMMA SharedKeys ==
    ASSUME NEW r \in Request, NEW o \in Request, NEW d \in Definition, NEW e \in Definition,
           KeyOf(e, Call[o]) = KeyOf(d, Call[r])
    PROVE  /\ e.axis = d.axis /\ e.window = d.window
           /\ d.axis = "target" => e.entity = d.entity
           /\ KeyOf(d, Call[o]) = KeyOf(d, Call[r])
  <1>1. d.axis \in {"caller", "caller_target", "target"} /\ e.axis \in {"caller", "caller_target", "target"}
    BY LimiterConstants
  <1>2. e.axis = d.axis
    BY <1>1 DEF KeyOf
  <1> QED
    BY <1>1, <1>2 DEF KeyOf

\* The gates built from a reply have one for each definition that covers the
\* request and is in the reply, none of them laxer than such a definition.
LEMMA GatesBuilt ==
    ASSUME NEW r \in Request, NEW axis \in {"caller", "caller_target", "target"},
           NEW value \in SUBSET Definition, \A d \in value : d.axis = axis,
           NEW d \in value, LimitOf(d, Call[r]) # NoLimit
    PROVE  /\ \E g \in Gates(value, Call[r], axis) : g.key = KeyOf(d, Call[r])
           /\ axis # "target" => \A g \in Gates(value, Call[r], axis) :
                 g.key = KeyOf(d, Call[r]) => g.limit <= LimitOf(d, Call[r])
  <1>1. \A e \in Definition : GateFor(e, Call[r]).key = KeyOf(e, Call[r])
                              /\ GateFor(e, Call[r]).limit = LimitOf(e, Call[r])
    BY DEF GateFor
  <1>2. CASE axis = "target"
    <2>1. GateFor(d, Call[r]) \in Gates(value, Call[r], axis)
      BY <1>2 DEF Gates
    <2> QED
      BY <1>1, <1>2, <2>1
  <1>3. CASE axis # "target"
    <2> DEFINE low == Lowest(value, Call[r])
    <2>1. Gates(value, Call[r], axis) = {GateFor(e, Call[r]) : e \in low}
      BY <1>3 DEF Gates
    <2>2. /\ low \subseteq value
          /\ \A t \in low : d.window = t.window => LimitOf(t, Call[r]) <= LimitOf(d, Call[r])
          /\ \E t \in low : t.window = d.window
      BY LowestLimits
    <2> HIDE DEF low
    <2>3. PICK t \in low : t.window = d.window
      BY <2>2
    <2>4. KeyOf(t, Call[r]) = KeyOf(d, Call[r])
      BY <1>3, <2>2, <2>3 DEF KeyOf
    <2>5. \E g \in Gates(value, Call[r], axis) : g.key = KeyOf(d, Call[r])
      BY <1>1, <2>1, <2>2, <2>3, <2>4
    <2>6. ASSUME NEW g \in Gates(value, Call[r], axis), g.key = KeyOf(d, Call[r])
          PROVE  g.limit <= LimitOf(d, Call[r])
      <3>1. PICK e \in low : g = GateFor(e, Call[r])
        BY <2>1
      <3>2. e.window = d.window
        BY <1>1, <2>2, <2>6, <3>1, SharedKeys
      <3> QED
        BY <1>1, <2>2, <3>1, <3>2
    <2> QED
      BY <2>5, <2>6
  <1> QED
    BY <1>2, <1>3

\* What a step of a check makes of a request that has been looking up.
Outcome(r, q) ==
    LooksUp(r, q) \/ FailsLookup(r, q) \/ Proceeds(r, q) \/ Stopped(r, q) \/ Misses(r, q)

LEMMA ReadLookup ==
    ASSUME TypeInv, StoreInv, NEW r \in Request, Read(r, request[r]), NEW q, LooksUp(r, q)
    PROVE  Read(r, q)
  <1> DEFINE p == request[r]
             k == Query(r, p)
  <1>1. PICK value : Given(r, value) /\ q = After(r, p, value)
    BY DEF LooksUp
  <1>2. /\ Typed(r, p) /\ p \in RequestType(r) /\ p.pc \in LookupPc /\ Answers(k, value)
        /\ p.docs \in Seq(Subject) /\ Faithful(k, value)
    BY <1>1, GivenAnswers, GivenFaithful, RequestFields DEF TypeInv, Typed, LooksUp
  <1>3. CASE p.pc \in {"sentinel_t", "member_t"}
    <2>1. p.docs = Call[r].docs
      BY <1>3 DEF Read
    <2>2. p.pc = "sentinel_t" => value \in BOOLEAN
      BY <1>2 DEF Answers, Query
    <2>3. \/ q.pc = "member_t" /\ q.docs = p.docs
          \/ q.pc = "done"
          \/ q.pc \in {"defs_t", "member_c"} /\ q.docs = p.docs
      <3>1. CASE q = Denied(p, "quarantined", Nothing)
        BY <1>2, <3>1, DeniedFields
      <3>2. CASE q = AfterTarget(r, p)
        BY <1>2, <3>2, AfterTargetFields
      <3>3. \/ q = Denied(p, "quarantined", Nothing) \/ q = AfterTarget(r, p)
            \/ q.pc = "member_t" /\ q.docs = p.docs
        BY <1>1, <1>2, <1>3, <2>2, AfterTargetLookup
      <3> QED
        BY <3>1, <3>2, <3>3
    <2> QED
      BY <2>1, <2>3 DEF Read, LookupPc
  <1>4. CASE p.pc = "member_c"
    <2>1. p.docs # <<>> /\ value \in SUBSET Groups /\ k = <<"member", Head(p.docs)>>
      BY <1>2, <1>4 DEF Typed, Answers, Query
    <2>2. /\ q.docs = Tail(p.docs) /\ q.groups = p.groups \cup value
          /\ q.pc \notin {"sentinel_t", "member_t", "defs_ct"}
          /\ q.pc # "member_c" => q.docs = <<>>
      <3>1. p \in RequestType(r) /\ p.pc = "member_c" /\ p.docs # <<>>
        BY <1>2, <1>4, <2>1
      <3> HIDE DEF p
      <3>2. LET d == After(r, p, value)
                groups == p.groups \cup value
            IN  /\ d.docs = Tail(p.docs) /\ d.groups = groups
                /\ d.pc = IF Tail(p.docs) # <<>> THEN "member_c"
                          ELSE IF QuarantineCallers \in groups THEN "sentinel_c"
                          ELSE IF groups \ Reserved = {} THEN "defs_t" ELSE "defs_c"
        BY <2>1, <3>1, AfterDocument
      <3> QED
        BY <1>1, <3>2
    <2>3. Head(p.docs) \in Subject
          /\ \A s \in RangeOf(p.docs) : s = Head(p.docs) \/ s \in RangeOf(Tail(p.docs))
      BY <1>2, <2>1, Ranges
    <2>4. Settled(Head(p.docs)) => Member[Head(p.docs)] \ Reserved \subseteq value
      BY <1>2, <2>1, <2>3 DEF Faithful
    <2>5. \A s \in RangeOf(Call[r].docs) :
             s \in RangeOf(p.docs) \/ (Settled(s) => Member[s] \ Reserved \subseteq p.groups)
      BY <1>2 DEF Read
    <2>6. \A s \in RangeOf(Call[r].docs) :
             s \in RangeOf(q.docs) \/ (Settled(s) => Member[s] \ Reserved \subseteq q.groups)
      BY <2>2, <2>3, <2>4, <2>5
    <2> QED
      BY <2>2, <2>6 DEF Read
  <1>5. CASE p.pc = "sentinel_c"
    <2>1. value \in BOOLEAN
      BY <1>2, <1>5 DEF Answers, Query
    <2>2. \/ q.pc = "done"
          \/ q.pc \in {"defs_t", "defs_c"} /\ q.docs = p.docs /\ q.groups = p.groups
      BY <1>1, <1>2, <1>5, <2>1, AfterSwitch, AfterCallerFields, DeniedFields
    <2> QED
      BY <1>2, <1>5, <2>2 DEF Read, LookupPc
  <1>6. CASE p.pc \in {"defs_c", "defs_ct", "defs_t"}
    <2>1. value \in SUBSET Definition
      BY <1>2, <1>6 DEF Answers, Query
    <2>2. \/ q.pc \in {"done", "enforce"}
          \/ /\ q.pc \in {"defs_ct", "defs_t"} /\ p.pc \in {"defs_c", "defs_ct"}
             /\ q.docs = p.docs /\ q.groups = p.groups
      BY <1>1, <1>2, <1>6, <2>1, AfterDefinitions
    <2> QED
      BY <1>2, <1>6, <2>2 DEF Read, LookupPc
  <1> QED
    BY <1>2, <1>3, <1>4, <1>5, <1>6 DEF LookupPc

\* A request in the enforcement of its gates stays there or is done.
LEMMA Enforced ==
    ASSUME TypeInv, NEW r \in Request, NEW q, Proceeds(r, q) \/ Stopped(r, q) \/ Misses(r, q)
    PROVE  /\ request[r].pc \in {"enforce", "insert"}
           /\ q.pc \in {"enforce", "insert", "done"}
  <1>1. Typed(r, request[r]) /\ request[r] \in RequestType(r)
    BY DEF TypeInv, Typed
  <1>2. CASE Proceeds(r, q)
    <2>1. PICK g, k : Passes(r, q, g, k)
      BY <1>2 DEF Proceeds
    <2>2. g \in GatesOf(r) /\ k \in CounterKeys /\ q = Passed(request[r], g, k)
          /\ request[r].pc \in {"enforce", "insert"}
      BY <2>1, OutcomesTyped DEF Passes
    <2> QED
      BY <1>1, <2>2, PassedFields
  <1>3. CASE Stopped(r, q)
    <2>1. PICK g : /\ \/ request[r].pc = "enforce" /\ g \in NextGates(request[r])
                      \/ request[r].pc = "insert" /\ g = request[r].gate
                   /\ q = Throttled(request[r], g) \/ q = Excused(r, g)
      BY <1>3 DEF Stopped
    <2>2. g \in GatesOf(r)
      BY <1>1, <2>1, OutcomesTyped, RequestFields DEF Typed
    <2>3. Throttled(request[r], g).pc = "done"
      BY <1>1, DeniedFields DEF Throttled
    <2>4. Excused(r, g).pc \in {"enforce", "done"}
      BY <1>1, <2>2, ExcusedFields
    <2> QED
      BY <2>1, <2>3, <2>4
  <1>4. CASE Misses(r, q)
    BY <1>1, <1>4 DEF Misses, RequestType
  <1> QED
    BY <1>2, <1>3, <1>4

LEMMA ReadStep ==
    ASSUME TypeInv, StoreInv, NEW r \in Request, Read(r, request[r]), NEW q, Outcome(r, q)
    PROVE  Read(r, q)
  <1> DEFINE p == request[r]
  <1>1. CASE LooksUp(r, q)
    BY <1>1, ReadLookup
  <1>2. CASE FailsLookup(r, q)
    <2>1. p \in RequestType(r)
      BY DEF TypeInv, Typed
    <2>2. /\ Raised(r) \in RequestType(r) /\ Raised(r).pc = p.pc /\ Raised(r).docs = p.docs
          /\ Raised(r).groups = p.groups
      BY <2>1 DEF RequestType, Raised
    <2>3. p.pc \in LookupPc /\ q = AfterError(r, Raised(r))
      BY <1>2 DEF FailsLookup
    <2>4. \/ q.pc = "done"
          \/ /\ p.pc \in {"sentinel_t", "member_t"} /\ q.pc \in {"defs_t", "member_c"}
             /\ q.docs = p.docs /\ q.groups = p.groups
          \/ /\ p.pc = "sentinel_c" /\ q.pc \in {"defs_t", "defs_c"}
             /\ q.docs = p.docs /\ q.groups = p.groups
      BY <2>2, <2>3, AfterTargetFields, AfterCallerFields, DeniedFields, AllowedFields DEF AfterError
    <2> QED
      BY <2>3, <2>4 DEF Read, LookupPc
  <1>3. CASE Proceeds(r, q) \/ Stopped(r, q) \/ Misses(r, q)
    BY <1>3, Enforced DEF Read, LookupPc
  <1> QED
    BY <1>1, <1>2, <1>3 DEF Outcome

\* A lookup of definitions adds the gates of one axis, built from a reply that has
\* every definition in force throughout. Any other adds none, and definitions of
\* callers are passed over only for a request they do not cover.
Adds(r, q, axis, value) ==
    /\ value \subseteq Definition /\ \A d \in value : d.axis = axis
    /\ axis = "target" => \A d \in value : Call[r].target \in d.names
    /\ \A d \in Fixed : Covers(d, r) /\ d.axis = axis => d \in value
    /\ \/ q.gates = request[r].gates \cup Gates(value, Call[r], axis)
       \/ axis = "caller" /\ q.gates = Gates(value, Call[r], axis)
    /\ Gathered(q) \subseteq Gathered(request[r]) \cup {axis}
    /\ axis = "caller" => Gathered(q) = {"caller"}

LEMMA LookupGates ==
    ASSUME TypeInv, StoreInv, NEW r \in Request, Read(r, request[r]), NEW q, LooksUp(r, q)
    PROVE  /\ q.passed = request[r].passed /\ q.failed = request[r].failed
           /\ \/ /\ q.gates \subseteq request[r].gates
                 /\ \A d \in Fixed : Covers(d, r) => d.axis \notin Gathered(q)
              \/ \E axis \in {"caller", "caller_target", "target"} : \E value : Adds(r, q, axis, value)
  <1> DEFINE p == request[r]
             k == Query(r, p)
             Idle == /\ q.gates \subseteq p.gates
                     /\ \A d \in Fixed : Covers(d, r) => d.axis \notin Gathered(q)
  <1>1. PICK value : Given(r, value) /\ q = After(r, p, value)
    BY DEF LooksUp
  <1>2. /\ Typed(r, p) /\ p \in RequestType(r) /\ p.pc \in LookupPc /\ Answers(k, value)
        /\ p.answer = Nothing /\ p.answer # "allow" /\ Faithful(k, value)
    BY <1>1, GivenAnswers, GivenFaithful, LimiterConstants DEF TypeInv, Typed, LooksUp, LookupPc
  <1>3. q.passed = p.passed /\ q.failed = p.failed
    BY <1>1, <1>2, AfterKept DEF Kept
  <1>4. Read(r, q)
    BY ReadLookup
  <1>5. \A d \in Fixed : d.axis \in {"caller", "caller_target", "target"}
    BY FixedDefinitions, LimiterConstants
  <1>6. ASSUME q.gates \subseteq p.gates, q.answer # "allow",
               q.pc \notin {"enforce", "insert", "defs_ct"},
               q.pc = "defs_t" => \A d \in Fixed : Covers(d, r) => d.axis = "target"
        PROVE  Idle
    BY <1>6 DEF Gathered
  <1>7. ASSUME q = Denied(p, "quarantined", Nothing) PROVE Idle
    BY <1>2, <1>6, <1>7, DeniedFields
  <1>8. ASSUME RateGroups(q) = {}, q.docs = <<>>, q.pc = "defs_t"
        PROVE  \A d \in Fixed : Covers(d, r) => d.axis = "target"
    <2>1. \A s \in RangeOf(Call[r].docs) : Settled(s) => Member[s] \ Reserved \subseteq q.groups
      BY <1>4, <1>8 DEF Read, RangeOf, LookupPc
    <2> QED
      BY <1>8, <2>1, CoveringGroups
  <1> HIDE DEF Idle
  <1>9. ASSUME q = AfterCaller(p), p.docs = <<>> PROVE Idle
    <2>1. /\ q.gates = p.gates /\ q.answer = p.answer /\ q.docs = p.docs /\ q.groups = p.groups
          /\ q.pc = IF RateGroups(p) = {} THEN "defs_t" ELSE "defs_c"
      BY <1>2, <1>9, AfterCallerFields
    <2>2. RateGroups(q) = RateGroups(p)
      BY <2>1 DEF RateGroups
    <2> QED
      BY <1>2, <1>6, <1>8, <1>9, <2>1, <2>2
  <1>10. CASE p.pc \in {"sentinel_t", "member_t"}
    <2>1. p.docs = Call[r].docs
      BY <1>10 DEF Read
    <2>2. p.pc = "sentinel_t" => value \in BOOLEAN
      BY <1>2 DEF Answers, Query
    <2>3. ASSUME q.pc = "member_t", q.gates = p.gates, q.answer = p.answer PROVE Idle
      <3>1. q.gates \subseteq p.gates /\ q.answer # "allow"
        BY <1>2, <2>3
      <3> QED
        BY <1>6, <2>3, <3>1
    <2>4. ASSUME q = AfterTarget(r, p) PROVE Idle
      <3>1. /\ q.gates = p.gates /\ q.answer = p.answer
            /\ q.pc = IF Call[r].admin THEN "defs_t" ELSE IF p.docs = <<>> THEN "defs_t" ELSE "member_c"
        BY <1>2, <2>4, AfterTargetFields
      <3>2. q.pc = "defs_t" => Call[r].admin \/ GroupsOf(r) = {}
        BY <2>1, <3>1 DEF GroupsOf
      <3>3. q.pc = "defs_t" => \A d \in Fixed : Covers(d, r) => d.axis = "target"
        BY <3>2 DEF Covers
      <3>4. q.gates \subseteq p.gates /\ q.answer # "allow" /\ q.pc \in {"defs_t", "member_c"}
        BY <1>2, <3>1
      <3> QED
        BY <1>6, <3>3, <3>4
    <2>5. \/ q = Denied(p, "quarantined", Nothing) \/ q = AfterTarget(r, p)
          \/ q.pc = "member_t" /\ q.gates = p.gates /\ q.answer = p.answer
      BY <1>1, <1>2, <1>10, <2>2, AfterTargetLookup
    <2> QED
      BY <1>3, <1>7, <2>3, <2>4, <2>5 DEF Idle
  <1>11. CASE p.pc = "member_c"
    <2>1. p.docs # <<>> /\ value \in SUBSET Groups
      BY <1>2, <1>11 DEF Typed, Answers, Query
    <2>2. /\ q.gates = p.gates /\ q.answer = p.answer
          /\ q.pc \in {"member_c", "sentinel_c", "defs_t", "defs_c"}
          /\ q.pc = "defs_t" => q.docs = <<>> /\ q.groups \ Reserved = {}
      <3>1. p \in RequestType(r) /\ p.pc = "member_c"
        BY <1>2, <1>11
      <3> HIDE DEF p
      <3>2. LET d == After(r, p, value)
                groups == p.groups \cup value
            IN  /\ d.docs = Tail(p.docs) /\ d.groups = groups
                /\ d.gates = p.gates /\ d.answer = p.answer
                /\ d.pc = IF Tail(p.docs) # <<>> THEN "member_c"
                          ELSE IF QuarantineCallers \in groups THEN "sentinel_c"
                          ELSE IF groups \ Reserved = {} THEN "defs_t" ELSE "defs_c"
        BY <2>1, <3>1, AfterDocument
      <3> QED
        BY <1>1, <3>2
    <2>3. q.pc = "defs_t" => \A d \in Fixed : Covers(d, r) => d.axis = "target"
      BY <1>8, <2>2 DEF RateGroups
    <2> QED
      BY <1>2, <1>3, <1>6, <2>2, <2>3 DEF Idle
  <1>12. CASE p.pc = "sentinel_c"
    <2>1. value \in BOOLEAN /\ p.docs = <<>>
      BY <1>2, <1>12 DEF Answers, Query, Read
    <2> QED
      BY <1>1, <1>2, <1>3, <1>7, <1>9, <1>12, <2>1, AfterSwitch DEF Idle
  <1>13. CASE p.pc \in {"defs_c", "defs_ct"}
    <2> DEFINE axis == IF p.pc = "defs_c" THEN "caller" ELSE "caller_target"
    <2>1. k = <<axis, RateGroups(p)>> /\ value \in SUBSET Definition /\ \A d \in value : d.axis = axis
      BY <1>2, <1>13 DEF Answers, Query
    <2>2. /\ q.gates = IF p.pc = "defs_c" THEN Gates(value, Call[r], axis)
                       ELSE p.gates \cup Gates(value, Call[r], axis)
          /\ q.pc = IF p.pc = "defs_c" THEN "defs_ct" ELSE "defs_t"
          /\ q.answer = p.answer
      <3>1. CASE p.pc = "defs_c"
        BY <1>1, <1>2, <2>1, <3>1, AfterDefinitions
      <3>2. CASE p.pc = "defs_ct"
        BY <1>1, <1>2, <2>1, <3>2, AfterDefinitions
      <3> QED
        BY <1>13, <3>1, <3>2
    <2>3. \A s \in RangeOf(Call[r].docs) : Settled(s) => Member[s] \ Reserved \subseteq p.groups
      BY <1>13 DEF Read, RangeOf, LookupPc
    <2>4. ASSUME NEW d \in Fixed, Covers(d, r), d.axis = axis PROVE d \in value
      <3>1. d.names \cap RateGroups(p) # {}
        BY <2>3, <2>4, CoveringGroups
      <3>2. k[1] = axis /\ k[2] = RateGroups(p) /\ axis \in {"caller", "caller_target", "target"}
        BY <2>1
      <3> HIDE DEF k, axis
      <3> QED
        BY <1>2, <2>4, <3>1, <3>2 DEF Faithful
    <2>5. Gathered(q) \subseteq Gathered(p) \cup {axis} /\ (axis = "caller" => Gathered(q) = {"caller"})
      BY <1>2, <1>13, <2>2 DEF Gathered
    <2>6. axis \in {"caller", "caller_target"} /\ (p.pc = "defs_c" <=> axis = "caller")
      BY <1>13
    <2> HIDE DEF axis
    <2>7. Adds(r, q, axis, value)
      BY <2>1, <2>2, <2>4, <2>5, <2>6 DEF Adds
    <2> QED
      BY <1>3, <2>6, <2>7
  <1>14. CASE p.pc = "defs_t"
    <2>1. /\ k = <<"target", {Call[r].target}>> /\ value \in SUBSET Definition
          /\ \A d \in value : d.axis = "target" /\ d.names \cap {Call[r].target} # {}
      BY <1>2, <1>14 DEF Answers, Query
    <2>2. q.gates = p.gates \cup Gates(value, Call[r], "target")
      BY <1>1, <1>2, <1>14, <2>1, AfterDefinitions
    <2>3. ASSUME NEW d \in Fixed, Covers(d, r), d.axis = "target" PROVE d \in value
      <3>1. d.names \cap {Call[r].target} # {}
        BY <2>3 DEF Covers
      <3>2. k[1] = "target" /\ k[2] = {Call[r].target}
        BY <2>1
      <3> HIDE DEF k
      <3> QED
        BY <1>2, <2>3, <3>1, <3>2 DEF Faithful
    <2>4. Gathered(q) \subseteq Gathered(p) \cup {"target"}
      BY <1>14 DEF Gathered
    <2>5. Adds(r, q, "target", value)
      BY <2>1, <2>2, <2>3, <2>4 DEF Adds
    <2> QED
      BY <1>3, <2>5
  <1> QED
    BY <1>2, <1>10, <1>11, <1>12, <1>13, <1>14 DEF LookupPc, Idle

LEMMA AllowedEmpty ==
    ASSUME TypeInv, NEW r \in Request, NEW q, Outcome(r, q), q.answer = "allow"
    PROVE  q.gates = {}
  <1> DEFINE p == request[r]
  <1>1. Typed(r, p) /\ p \in RequestType(r)
    BY DEF TypeInv, Typed
  <1>2. p.pc \in LookupPc \cup {"enforce", "insert"} => p.answer = Nothing /\ p.answer # "allow"
    BY <1>1, LimiterConstants DEF Typed, LookupPc
  <1>3. CASE LooksUp(r, q)
    <2>1. PICK value : Given(r, value) /\ q = After(r, p, value)
      BY <1>3 DEF LooksUp
    <2>2. p.pc \in LookupPc /\ Answers(Query(r, p), value) /\ p.answer # "allow"
      BY <1>2, <1>3, <2>1, GivenAnswers DEF LooksUp
    <2>3. \A g : Denied(p, "quarantined", g).answer # "allow"
      BY <1>1, DeniedFields
    <2>4. CASE p.pc \in {"sentinel_t", "member_t"}
      <3>1. p.pc = "sentinel_t" => value \in BOOLEAN
        BY <2>2 DEF Answers, Query
      <3>2. AfterTarget(r, p).answer # "allow"
        BY <1>1, <2>2, AfterTargetFields
      <3>3. \/ q = Denied(p, "quarantined", Nothing) \/ q = AfterTarget(r, p) \/ q.answer = p.answer
        BY <1>1, <2>1, <2>4, <3>1, AfterTargetLookup
      <3> QED
        BY <2>2, <2>3, <3>2, <3>3
    <2>5. CASE p.pc = "member_c"
      <3>1. p.docs # <<>> /\ value \in SUBSET Groups
        BY <1>1, <2>2, <2>5 DEF Typed, Answers, Query
      <3>2. After(r, p, value).answer = p.answer
        BY <1>1, <2>5, <3>1, AfterDocument
      <3> QED
        BY <2>1, <2>2, <3>2
    <2>6. CASE p.pc = "sentinel_c"
      <3>1. value \in BOOLEAN
        BY <2>2, <2>6 DEF Answers, Query
      <3>2. AfterCaller(p).answer # "allow"
        BY <1>1, <2>2, AfterCallerFields
      <3> QED
        BY <1>1, <2>1, <2>3, <2>6, <3>1, <3>2, AfterSwitch
    <2>7. CASE p.pc \in {"defs_c", "defs_ct", "defs_t"}
      <3>1. value \in SUBSET Definition
        BY <2>2, <2>7 DEF Answers, Query
      <3>2. q.gates = {} \/ q.answer = p.answer
        BY <1>1, <2>1, <2>7, <3>1, AfterDefinitions
      <3> QED
        BY <2>2, <3>2
    <2> QED
      BY <2>2, <2>4, <2>5, <2>6, <2>7 DEF LookupPc
  <1>4. CASE FailsLookup(r, q)
    <2>1. Raised(r) \in RequestType(r) /\ Raised(r).pc = p.pc /\ Raised(r).answer = p.answer
      BY <1>1 DEF RequestType, Raised
    <2>2. p.pc \in LookupPc /\ q = AfterError(r, Raised(r))
      BY <1>4 DEF FailsLookup
    <2>3. q.gates = {} \/ q.answer = p.answer
      BY <2>1, <2>2, AfterTargetFields, AfterCallerFields, DeniedFields, AllowedFields DEF AfterError
    <2> QED
      BY <1>2, <2>2, <2>3
  <1>5. CASE Proceeds(r, q)
    <2>1. PICK g, k : Passes(r, q, g, k)
      BY <1>5 DEF Proceeds
    <2>2. /\ g \in GatesOf(r) /\ k \in CounterKeys /\ q = Passed(p, g, k)
          /\ p.pc \in {"enforce", "insert"}
      BY <2>1, OutcomesTyped DEF Passes
    <2>3. q.gates = {} \/ q.answer = p.answer
      BY <1>1, <2>2, PassedFields
    <2> QED
      BY <1>2, <2>2, <2>3
  <1>6. CASE Stopped(r, q)
    <2>1. PICK g : /\ \/ p.pc = "enforce" /\ g \in NextGates(p)
                      \/ p.pc = "insert" /\ g = p.gate
                   /\ q = Throttled(p, g) \/ q = Excused(r, g)
      BY <1>6 DEF Stopped
    <2>2. g \in GatesOf(r)
      BY <1>1, <2>1, OutcomesTyped, RequestFields DEF Typed
    <2>3. q = Throttled(p, g) => q.gates = {}
      BY <1>1, DeniedFields DEF Throttled
    <2>4. Excused(r, g).gates = {} \/ Excused(r, g).answer = p.answer
      BY <1>1, <2>2, ExcusedFields
    <2> QED
      BY <1>2, <2>1, <2>3, <2>4
  <1>7. CASE Misses(r, q)
    <2>1. p.pc = "enforce" /\ q.answer = p.answer
      BY <1>1, <1>7 DEF Misses, RequestType
    <2> QED
      BY <1>2, <2>1
  <1> QED
    BY <1>3, <1>4, <1>5, <1>6, <1>7 DEF Outcome

LEMMA GatedLookup ==
    ASSUME TypeInv, StoreInv, NEW r \in Request, Read(r, request[r]), Gated(r, request[r]),
           NEW q, LooksUp(r, q)
    PROVE  Gated(r, q)
  <1> SUFFICES ASSUME ~q.failed, NEW d \in Fixed, Covers(d, r), d.axis \in Gathered(q)
               PROVE  Has(r, q, d)
    BY AllowedEmpty DEF Gated, Outcome
  <1>1. q.passed = request[r].passed /\ ~request[r].failed
    BY LookupGates
  <1>2. PICK axis \in {"caller", "caller_target", "target"} : \E value : Adds(r, q, axis, value)
    BY LookupGates
  <1> PICK value : Adds(r, q, axis, value)
    BY <1>2
  <1>3. CASE d.axis = axis
    <2>1. d \in value /\ value \in SUBSET Definition /\ \A e \in value : e.axis = axis
      BY <1>2, <1>3 DEF Adds
    <2>2. LimitOf(d, Call[r]) # NoLimit
      <3>1. Call[r].type \in CallerType /\ d \in Definition
        BY FixedDefinitions, LimiterConstants
      <3> QED
        BY <3>1, LimiterConstants DEF Covers, LimitOf
    <2>3. PICK g \in Gates(value, Call[r], axis) : g.key = KeyOf(d, Call[r])
      BY <2>1, <2>2, GatesBuilt
    <2> QED
      BY <1>2, <2>3 DEF Adds, Has
  <1>4. CASE d.axis # axis
    <2>1. d.axis \in Gathered(request[r]) /\ request[r].gates \subseteq q.gates
      BY <1>2, <1>4 DEF Adds
    <2>2. Has(r, request[r], d)
      BY <1>1, <2>1 DEF Gated
    <2> QED
      BY <1>1, <2>1, <2>2 DEF Has
  <1> QED
    BY <1>3, <1>4

LEMMA GatedStep ==
    ASSUME TypeInv, StoreInv, NEW r \in Request, Read(r, request[r]), Gated(r, request[r]),
           NEW q, Outcome(r, q)
    PROVE  Gated(r, q)
  <1> DEFINE p == request[r]
  <1>1. Typed(r, p) /\ p \in RequestType(r) /\ (q.answer = "allow" => q.gates = {})
    BY AllowedEmpty DEF TypeInv, Typed
  <1>2. CASE LooksUp(r, q)
    BY <1>2, GatedLookup
  <1>3. CASE FailsLookup(r, q)
    <2>1. Raised(r) \in RequestType(r) /\ Raised(r).pc = p.pc /\ Raised(r).failed = TRUE
      BY <1>1 DEF RequestType, Raised
    <2>2. q.failed = TRUE
      BY <1>3, <2>1, AfterErrorKept DEF FailsLookup, Kept
    <2> QED
      BY <1>1, <2>2 DEF Gated
  <1>4. p.pc \in {"enforce", "insert"} => Gathered(p) = {"caller", "caller_target", "target"}
    BY DEF Gathered
  <1>5. \A d \in Fixed : d.axis \in {"caller", "caller_target", "target"}
    BY FixedDefinitions, LimiterConstants
  <1>6. CASE Proceeds(r, q)
    <2>1. PICK g, k : Passes(r, q, g, k)
      BY <1>6 DEF Proceeds
    <2>2. /\ g \in GatesOf(r) /\ k \in CounterKeys /\ q = Passed(p, g, k)
          /\ p.pc \in {"enforce", "insert"} /\ k[1] = g.key
      BY <2>1, OutcomesTyped DEF Passes, Window
    <2>3. q.gates = p.gates \ {g} /\ q.passed = p.passed \cup {k} /\ q.failed = p.failed
      BY <1>1, <2>2, PassedFields
    <2>4. ASSUME NEW d \in Fixed, Has(r, p, d) PROVE Has(r, q, d)
      BY <2>2, <2>3, <2>4 DEF Has
    <2> QED
      BY <1>1, <1>4, <1>5, <2>2, <2>3, <2>4 DEF Gated
  <1>7. CASE Stopped(r, q)
    <2>1. PICK g : /\ \/ p.pc = "enforce" /\ g \in NextGates(p)
                      \/ p.pc = "insert" /\ g = p.gate
                   /\ q = Throttled(p, g) \/ q = Excused(r, g)
      BY <1>7 DEF Stopped
    <2>2. g \in GatesOf(r)
      BY <1>1, <2>1, OutcomesTyped, RequestFields DEF Typed
    <2>3. q = Throttled(p, g) => Gathered(q) = {}
      BY <1>1, DeniedFields DEF Throttled, Gathered
    <2>4. q = Excused(r, g) => q.failed = TRUE
      BY <1>1, <2>2, ExcusedFields
    <2> QED
      BY <1>1, <2>1, <2>3, <2>4 DEF Gated
  <1>8. CASE Misses(r, q)
    <2>1. p.pc = "enforce" /\ q.gates = p.gates /\ q.passed = p.passed /\ q.failed = p.failed
      BY <1>1, <1>8 DEF Misses, RequestType
    <2> QED
      BY <1>1, <1>4, <1>5, <2>1 DEF Gated, Has
  <1> QED
    BY <1>2, <1>3, <1>6, <1>7, <1>8 DEF Outcome

LEMMA StampedGates ==
    ASSUME NEW r \in Request, NEW q \in RequestType(r)
    PROVE  /\ Read(r, q) => Read(r, Stamped(q))
           /\ Gated(r, q) => Gated(r, Stamped(q))
           /\ Strict(r, q) => Strict(r, Stamped(q))
           /\ Stamped(q).passed = q.passed
  <1>1. LET d == Stamped(q)
        IN  /\ d.pc = q.pc /\ d.docs = q.docs /\ d.groups = q.groups /\ d.gates = q.gates
            /\ d.passed = q.passed /\ d.failed = q.failed /\ d.answer = q.answer
    BY StampedFields
  <1> HIDE DEF Stamped
  <1> QED
    BY <1>1 DEF Read, Gated, Gathered, Has, Strict

\* Only checks change requests, each its own.
LEMMA RequestSteps ==
    ASSUME TypeInv, [Next]_vars
    PROVE  \/ request' = request /\ counter' = counter
           \/ \E r \in Request : \E q :
                 /\ Check(r) /\ Become(r, q) /\ Outcome(r, q)
                 /\ Typed(r, q) /\ q \in RequestType(r)
                 /\ request'[r] = Stamped(q)
                 /\ \A o \in Request \ {r} : request'[o] = request[o]
  <1>1. ASSUME NEW r \in Request, Check(r)
        PROVE  \E q : /\ Check(r) /\ Become(r, q) /\ Outcome(r, q)
                      /\ Typed(r, q) /\ q \in RequestType(r)
                      /\ request'[r] = Stamped(q)
                      /\ \A o \in Request \ {r} : request'[o] = request[o]
    <2>1. PICK q : Become(r, q) /\ Outcome(r, q)
      BY <1>1, CheckSteps DEF Outcome
    <2>2. Typed(r, q)
      BY <2>1, OutcomesTyped DEF Outcome, Proceeds
    <2> QED
      BY <1>1, <2>1, <2>2, Becomes DEF Typed
  <1> QED
    BY <1>1, AdminSteps, TickSteps DEF Next, vars

LEMMA GatedInvariance == Spec => [](StoreInv /\ ReadInv /\ GatedInv)
  <1>1. Init => ReadInv /\ GatedInv
    <2> SUFFICES ASSUME Init, NEW r \in Request
                 PROVE  Read(r, request[r]) /\ Gated(r, request[r])
      BY DEF ReadInv, GatedInv
    <2>1. request[r] = Arriving(r)
      BY DEF Init
    <2>2. Arriving(r).pc = "sentinel_t" /\ Arriving(r).docs = Call[r].docs
          /\ Arriving(r).answer # "allow"
      BY LimiterConstants DEF Arriving
    <2> QED
      BY <2>1, <2>2 DEF Read, Gated, Gathered
  <1>2. TypeInv /\ StoreInv /\ ReadInv /\ GatedInv /\ [Next]_vars => ReadInv' /\ GatedInv'
    <2> SUFFICES ASSUME TypeInv, StoreInv, ReadInv, GatedInv, [Next]_vars
                 PROVE  ReadInv' /\ GatedInv'
      OBVIOUS
    <2>1. CASE request' = request
      BY <2>1 DEF ReadInv, GatedInv
    <2>2. ASSUME NEW r \in Request, NEW q, Outcome(r, q), q \in RequestType(r),
                 request'[r] = Stamped(q),
                 \A o \in Request \ {r} : request'[o] = request[o]
          PROVE  ReadInv' /\ GatedInv'
      <3>1. Read(r, q) /\ Gated(r, q)
        BY <2>2, ReadStep, GatedStep DEF ReadInv, GatedInv
      <3>2. Read(r, request'[r]) /\ Gated(r, request'[r])
        BY <2>2, <3>1, StampedGates
      <3> QED
        BY <2>2, <3>2 DEF ReadInv, GatedInv
    <2> QED
      BY <2>1, <2>2, RequestSteps
  <1> QED
    BY <1>1, <1>2, TypeInvariance, StoreInit, StoreStep, PTL DEF Spec

\* A request let through with no call failing was counted under every definition
\* in force throughout that covers it, however old the replies it was given.
THEOREM AllCounted == Spec => []NothingUncounted
  <1>1. ASSUME TypeInv, GatedInv PROVE NothingUncounted
    <2> SUFFICES ASSUME NEW r \in Request, request[r].answer = "allow", ~request[r].failed,
                        NEW d \in Fixed, Covers(d, r)
                 PROVE  \E k \in request[r].passed : k[1] = KeyOf(d, Call[r])
      BY DEF NothingUncounted
    <2>1. d.axis \in Gathered(request[r])
      BY FixedDefinitions, LimiterConstants DEF Gathered
    <2>2. Has(r, request[r], d)
      BY <1>1, <2>1 DEF GatedInv, Gated
    <2> QED
      BY <1>1, <2>2 DEF Has, GatedInv, Gated
  <1> QED
    BY <1>1, TypeInvariance, GatedInvariance, PTL

-----------------------------------------------------------------------------
(* Limits *)

LEMMA StrictLookup ==
    ASSUME SeparateTargets, TypeInv, StoreInv, NEW r \in Request, Read(r, request[r]),
           Strict(r, request[r]), NEW q, LooksUp(r, q)
    PROVE  Strict(r, q)
  <1> SUFFICES ASSUME NEW g \in q.gates
               PROVE  /\ g.limit \in Nat
                      /\ \A d \in Fixed : Covers(d, r) /\ g.key = KeyOf(d, Call[r]) =>
                            g.limit <= LimitOf(d, Call[r])
    BY DEF Strict
  <1>1. CASE g \in request[r].gates
    BY <1>1 DEF Strict
  <1>2. CASE g \notin request[r].gates
    <2>1. PICK axis \in {"caller", "caller_target", "target"} : \E value : Adds(r, q, axis, value)
      BY <1>2, LookupGates
    <2> PICK value : Adds(r, q, axis, value)
      BY <2>1
    <2>2. /\ value \in SUBSET Definition /\ \A e \in value : e.axis = axis
          /\ g \in Gates(value, Call[r], axis)
      BY <1>2 DEF Adds
    <2>3. Call[r].type \in CallerType
      BY LimiterConstants
    <2>4. PICK e \in value : g = GateFor(e, Call[r]) /\ LimitOf(e, Call[r]) # NoLimit
      <3>1. CASE axis = "target"
        <4>1. \A e \in value : LimitOf(e, Call[r]) # NoLimit
          BY <2>2, <2>3, <3>1, LimiterConstants DEF LimitOf
        <4> QED
          BY <2>2, <3>1, <4>1 DEF Gates
      <3>2. CASE axis # "target"
        BY <2>2, <3>2, LowestLimits DEF Gates
      <3> QED
        BY <3>1, <3>2
    <2>5. g.key = KeyOf(e, Call[r]) /\ g.limit = LimitOf(e, Call[r]) /\ e \in Definition
      BY <2>2, <2>4 DEF GateFor
    <2>6. g.limit \in Nat
      BY <2>3, <2>4, <2>5, LimiterConstants DEF LimitOf
    <2>7. ASSUME NEW d \in Fixed, Covers(d, r), g.key = KeyOf(d, Call[r])
          PROVE  g.limit <= LimitOf(d, Call[r])
      <3>1. d \in Definition /\ e.axis = axis /\ KeyOf(e, Call[r]) = KeyOf(d, Call[r])
        BY <2>2, <2>5, <2>7, FixedDefinitions
      <3>2. /\ d.axis = axis /\ e.window = d.window
            /\ axis = "target" => e.entity = d.entity
        <4>1. /\ e.axis = d.axis /\ e.window = d.window
              /\ d.axis = "target" => e.entity = d.entity
          BY <2>5, <3>1, SharedKeys
        <4> QED
          BY <3>1, <4>1
      <3>3. d \in value
        BY <2>7, <3>2 DEF Adds
      <3>4. CASE axis = "target"
        <4>1. Call[r].target \in d.names /\ Call[r].target \in e.names
          BY <3>3, <3>4 DEF Adds
        <4>2. e.limit = d.limit
          BY <2>5, <3>1, <3>2, <3>4, <4>1 DEF SeparateTargets
        <4> QED
          BY <2>5, <2>6, <4>2 DEF LimitOf
      <3>5. CASE axis # "target"
        <4>1. LimitOf(d, Call[r]) # NoLimit
          BY <2>7, <3>2, <3>5 DEF Covers
        <4> QED
          BY <2>2, <2>7, <3>3, <3>5, <4>1, GatesBuilt
      <3> QED
        BY <3>4, <3>5
    <2> QED
      BY <2>6, <2>7
  <1> QED
    BY <1>1, <1>2

LEMMA StrictStep ==
    ASSUME SeparateTargets, TypeInv, StoreInv, NEW r \in Request, Read(r, request[r]),
           Strict(r, request[r]), NEW q, Outcome(r, q)
    PROVE  Strict(r, q)
  <1> DEFINE p == request[r]
  <1>1. Typed(r, p) /\ p \in RequestType(r)
    BY DEF TypeInv, Typed
  <1>2. CASE LooksUp(r, q)
    BY <1>2, StrictLookup
  <1>3. ASSUME q.gates \subseteq p.gates PROVE Strict(r, q)
    BY <1>3 DEF Strict
  <1>4. CASE FailsLookup(r, q)
    <2>1. Raised(r) \in RequestType(r) /\ Raised(r).pc = p.pc /\ Raised(r).gates = p.gates
      BY <1>1 DEF RequestType, Raised
    <2>2. p.pc \in LookupPc /\ q = AfterError(r, Raised(r))
      BY <1>4 DEF FailsLookup
    <2>3. q.gates = {} \/ q.gates = p.gates
      BY <2>1, <2>2, AfterTargetFields, AfterCallerFields, DeniedFields, AllowedFields DEF AfterError
    <2> QED
      BY <1>3, <2>3
  <1>5. CASE Proceeds(r, q)
    <2>1. PICK g, k : Passes(r, q, g, k)
      BY <1>5 DEF Proceeds
    <2>2. g \in GatesOf(r) /\ k \in CounterKeys /\ q = Passed(p, g, k)
      BY <2>1, OutcomesTyped DEF Passes
    <2> QED
      BY <1>1, <1>3, <2>2, PassedFields
  <1>6. CASE Stopped(r, q)
    <2>1. PICK g : /\ \/ p.pc = "enforce" /\ g \in NextGates(p)
                      \/ p.pc = "insert" /\ g = p.gate
                   /\ q = Throttled(p, g) \/ q = Excused(r, g)
      BY <1>6 DEF Stopped
    <2>2. g \in GatesOf(r)
      BY <1>1, <2>1, OutcomesTyped, RequestFields DEF Typed
    <2>3. Throttled(p, g).gates \subseteq p.gates
      BY <1>1, DeniedFields DEF Throttled
    <2>4. Excused(r, g).gates \subseteq p.gates
      BY <1>1, <2>2, ExcusedFields
    <2> QED
      BY <1>3, <2>1, <2>3, <2>4
  <1>7. CASE Misses(r, q)
    BY <1>1, <1>3, <1>7 DEF Misses, RequestType
  <1> QED
    BY <1>2, <1>4, <1>5, <1>6, <1>7 DEF Outcome

LEMMA StrictInvariance == ASSUME SeparateTargets PROVE Spec => []StrictInv
  <1>1. Init => StrictInv
    <2> SUFFICES ASSUME Init, NEW r \in Request PROVE Strict(r, request[r])
      BY DEF StrictInv
    <2> QED
      BY DEF Init, Arriving, Strict
  <1>2. TypeInv /\ StoreInv /\ ReadInv /\ StrictInv /\ [Next]_vars => StrictInv'
    <2> SUFFICES ASSUME TypeInv, StoreInv, ReadInv, StrictInv, [Next]_vars
                 PROVE  StrictInv'
      OBVIOUS
    <2>1. CASE request' = request
      BY <2>1 DEF StrictInv
    <2>2. ASSUME NEW r \in Request, NEW q, Outcome(r, q), q \in RequestType(r),
                 request'[r] = Stamped(q),
                 \A o \in Request \ {r} : request'[o] = request[o]
          PROVE  StrictInv'
      <3>1. Strict(r, q)
        BY <2>2, StrictStep DEF ReadInv, StrictInv
      <3>2. Strict(r, request'[r])
        BY <2>2, <3>1, StampedGates
      <3> QED
        BY <2>2, <3>2 DEF StrictInv
    <2> QED
      BY <2>1, <2>2, RequestSteps
  <1> QED
    BY <1>1, <1>2, TypeInvariance, GatedInvariance, PTL DEF Spec

\* A step passes one counter below its limit, or none, and counts no less.
Passage(r, g, k) ==
    /\ k \in CounterKeys /\ k[1] = g.key /\ g \in request[r].gates
    /\ Count(k) < g.limit \/ Count(k) = 0
    /\ counter' = Incremented(k)
    /\ request'[r].passed = request[r].passed \cup {k}
    /\ \A o \in Request \ {r} : request'[o] = request[o]

LEMMA NextPassers ==
    ASSUME TypeInv, SparesInv, [Next]_vars
    PROVE  \/ \E r \in Request : \E g, k : Passage(r, g, k)
           \/ /\ \A o \in Request : request'[o].passed = request[o].passed
              /\ counter' = counter \/ \E k \in CounterKeys : counter' = Incremented(k)
  <1>1. CASE request' = request /\ counter' = counter
    BY <1>1
  <1>2. ASSUME NEW r \in Request, NEW q, Check(r), Outcome(r, q), q \in RequestType(r),
               request'[r] = Stamped(q), \A o \in Request \ {r} : request'[o] = request[o],
               q.passed = request[r].passed
        PROVE  \A o \in Request : request'[o].passed = request[o].passed
    BY <1>2, StampedGates
  <1>3. ASSUME NEW r \in Request, Check(r)
        PROVE  \/ \E g, k : Passage(r, g, k)
               \/ /\ \A o \in Request : request'[o].passed = request[o].passed
                  /\ counter' = counter \/ \E k \in CounterKeys : counter' = Incremented(k)
    <2> DEFINE p == request[r]
    <2>1. PICK q : /\ Become(r, q)
                   /\ \/ LooksUp(r, q) /\ counter' = counter
                      \/ FailsLookup(r, q) /\ counter' = counter
                      \/ Proceeds(r, q)
                      \/ /\ Stopped(r, q)
                         /\ \/ counter' = counter
                            \/ \E g \in NextGates(request[r]) :
                                  request[r].pc = "enforce" /\ counter' = Incremented(Window(g))
                      \/ Misses(r, q) /\ counter' = counter
      BY <1>3, CheckSteps
    <2>2. Outcome(r, q) /\ Typed(r, q) /\ q \in RequestType(r) /\ Typed(r, p) /\ p \in RequestType(r)
      BY <2>1, OutcomesTyped DEF Outcome, Proceeds, TypeInv, Typed
    <2>3. request'[r] = Stamped(q) /\ \A o \in Request \ {r} : request'[o] = request[o]
      BY <2>1, <2>2, Becomes
    <2>4. Stamped(q).passed = q.passed
      BY <2>2, StampedGates
    <2>5. CASE Proceeds(r, q)
      <3>1. PICK g, k : /\ Passes(r, q, g, k) /\ counter' = Incremented(k)
                        /\ Count(k) < g.limit \/ Count(k) = 0
        BY <2>5 DEF Proceeds
      <3>2. /\ g \in GatesOf(r) /\ k \in CounterKeys /\ q = Passed(p, g, k) /\ k[1] = g.key
        BY <3>1, OutcomesTyped DEF Passes, Window
      <3>3. g \in p.gates
        BY <3>1 DEF Passes, SparesInv, Spares, NextGates
      <3>4. q.passed = p.passed \cup {k}
        BY <2>2, <3>2, PassedFields
      <3>5. Passage(r, g, k)
        BY <2>3, <2>4, <3>1, <3>2, <3>3, <3>4 DEF Passage
      <3> QED
        BY <3>5
    <2>6. CASE ~Proceeds(r, q)
      <3>1. counter' = counter \/ \E k \in CounterKeys : counter' = Incremented(k)
        BY <2>1, <2>6, OutcomesTyped
      <3>2. CASE LooksUp(r, q)
        <4>1. q.passed = p.passed
          BY <2>2, <3>2, AfterKept, GivenAnswers DEF LooksUp, Kept
        <4> QED
          BY <2>3, <2>4, <3>1, <4>1
      <3>3. CASE FailsLookup(r, q)
        <4>1. Raised(r) \in RequestType(r) /\ Raised(r).pc = p.pc /\ Raised(r).passed = p.passed
          BY <2>2 DEF RequestType, Raised
        <4>2. q.passed = p.passed
          BY <3>3, <4>1, AfterErrorKept DEF FailsLookup, Kept
        <4> QED
          BY <2>3, <2>4, <3>1, <4>2
      <3>4. CASE Stopped(r, q)
        <4>1. PICK g : /\ \/ p.pc = "enforce" /\ g \in NextGates(p)
                          \/ p.pc = "insert" /\ g = p.gate
                       /\ q = Throttled(p, g) \/ q = Excused(r, g)
          BY <3>4 DEF Stopped
        <4>2. g \in GatesOf(r)
          BY <2>2, <4>1, OutcomesTyped, RequestFields DEF Typed
        <4>3. Throttled(p, g).passed = p.passed
          BY <2>2, DeniedFields DEF Throttled, Kept
        <4>4. Excused(r, g).passed = p.passed
          BY <2>2, <4>2, ExcusedFields
        <4> QED
          BY <2>3, <2>4, <3>1, <4>1, <4>3, <4>4
      <3>5. CASE Misses(r, q)
        <4>1. q.passed = p.passed
          BY <2>2, <3>5 DEF Misses, RequestType
        <4> QED
          BY <2>3, <2>4, <3>1, <4>1
      <3> QED
        BY <2>1, <2>6, <3>2, <3>3, <3>4, <3>5
    <2> QED
      BY <2>5, <2>6
  <1> QED
    BY <1>1, <1>3, RequestSteps

LEMMA Finite == ASSUME NEW S \in SUBSET Request
                PROVE  IsFiniteSet(S) /\ Cardinality(S) \in Nat
  BY LimiterConstants, FS_Subset, FS_CardinalityType

LEMMA OneMore == ASSUME NEW S \in SUBSET Request, NEW T \in SUBSET Request, NEW r \in Request,
                        T \subseteq S \cup {r}
                 PROVE  Cardinality(T) <= Cardinality(S) + 1
  <1>1. IsFiniteSet(S) /\ Cardinality(S) \in Nat /\ Cardinality(T) \in Nat
    BY Finite
  <1>2. IsFiniteSet(S \cup {r}) /\ Cardinality(S \cup {r}) \in {Cardinality(S), Cardinality(S) + 1}
    BY <1>1, FS_AddElement
  <1>3. Cardinality(T) <= Cardinality(S \cup {r})
    BY <1>2, FS_Subset
  <1> QED
    BY <1>1, <1>2, <1>3

LEMMA Counts == ASSUME TypeInv, NEW k PROVE Count(k) \in Nat
  BY DEF TypeInv, Count

LEMMA CountStep == TypeInv /\ SparesInv /\ CountInv /\ [Next]_vars => CountInv'
  <1> SUFFICES ASSUME TypeInv, SparesInv, CountInv, [Next]_vars, NEW j \in CounterKeys
               PROVE  Cardinality(Passers(j)') <= Count(j)'
    BY DEF CountInv, CounterKeys, Keys
  <1>1. /\ Cardinality(Passers(j)) <= Count(j) /\ Count(j) \in Nat
        /\ Passers(j) \in SUBSET Request /\ Cardinality(Passers(j)) \in Nat
    BY Finite, Counts DEF CountInv, Passers
  <1>2. CASE \E r \in Request : \E g, k : Passage(r, g, k)
    <2>1. PICK r \in Request : \E g, k : Passage(r, g, k)
      BY <1>2
    <2>2. PICK g, k : Passage(r, g, k)
      BY <2>1
    <2>3. k \in CounterKeys /\ counter' = Incremented(k)
      BY <2>2 DEF Passage
    <2>4. CASE j # k
      <3>1. Passers(j)' = Passers(j)
        BY <2>2, <2>4 DEF Passage, Passers
      <3>2. Count(j)' = Count(j)
        BY <2>3, <2>4, Counted
      <3> QED
        BY <1>1, <3>1, <3>2
    <2>5. CASE j = k
      <3>1. Passers(j)' \in SUBSET Request /\ Passers(j)' \subseteq Passers(j) \cup {r}
        BY <2>2, <2>5 DEF Passage, Passers
      <3>2. Count(j)' = Count(j) + 1
        BY <2>3, <2>5, Counted
      <3>3. Cardinality(Passers(j)') <= Cardinality(Passers(j)) + 1 /\ Cardinality(Passers(j)') \in Nat
        BY <1>1, <3>1, OneMore, Finite
      <3> QED
        BY <1>1, <3>2, <3>3
    <2> QED
      BY <2>4, <2>5
  <1>3. CASE /\ \A o \in Request : request'[o].passed = request[o].passed
             /\ counter' = counter \/ \E k \in CounterKeys : counter' = Incremented(k)
    <2>1. Passers(j)' = Passers(j)
      BY <1>3 DEF Passers
    <2>2. Count(j)' \in {Count(j), Count(j) + 1}
      <3>1. CASE counter' = counter
        BY <3>1 DEF Count
      <3>2. ASSUME NEW k \in CounterKeys, counter' = Incremented(k)
            PROVE  Count(j)' \in {Count(j), Count(j) + 1}
        <4>1. CASE j = k
          BY <3>2, <4>1, Counted
        <4>2. CASE j # k
          BY <3>2, <4>2, Counted
        <4> QED
          BY <4>1, <4>2
      <3> QED
        BY <1>3, <3>1, <3>2
    <2> QED
      BY <1>1, <2>1, <2>2
  <1> QED
    BY <1>2, <1>3, NextPassers

LEMMA CoveringLimits ==
    ASSUME NEW r \in Request, NEW d \in Fixed, Covers(d, r)
    PROVE  LimitOf(d, Call[r]) \in Nat \ {0}
  <1>1. Call[r].type \in CallerType /\ d \in Definition
    BY FixedDefinitions, LimiterConstants
  <1>2. LimitOf(d, Call[r]) # NoLimit
    BY <1>1, LimiterConstants DEF Covers, LimitOf
  <1> QED
    BY <1>1, <1>2, LimiterConstants DEF LimitOf

\* The requests d covers, with its limit for r, that passed its counter.
Let(r, d, i) == {o \in Request : /\ LimitOf(d, Call[o]) = LimitOf(d, Call[r])
                                 /\ Covers(d, o)
                                 /\ <<KeyOf(d, Call[r]), i>> \in request[o].passed}

LEMMA LimitStep ==
    TypeInv /\ SparesInv /\ StrictInv /\ CountInv /\ WithinLimit /\ [Next]_vars => WithinLimit'
  <1> SUFFICES ASSUME TypeInv, SparesInv, StrictInv, CountInv, WithinLimit, [Next]_vars,
                      NEW r \in Request, NEW d \in Fixed, Covers(d, r), NEW i \in 0 .. MaxTime
               PROVE  Cardinality(Let(r, d, i)') <= LimitOf(d, Call[r])
    BY DEF WithinLimit, Let
  <1> DEFINE key == <<KeyOf(d, Call[r]), i>>
             limit == LimitOf(d, Call[r])
  <1>1. /\ Let(r, d, i) \in SUBSET Request /\ Cardinality(Let(r, d, i)) \in Nat
        /\ Let(r, d, i)' \in SUBSET Request /\ Cardinality(Let(r, d, i)') \in Nat
    <2>1. Let(r, d, i) \in SUBSET Request /\ Let(r, d, i)' \in SUBSET Request
      BY DEF Let
    <2> QED
      BY <2>1, Finite
  <1>2. Cardinality(Let(r, d, i)) <= limit
    BY DEF WithinLimit, Let
  <1>3. d \in Definition /\ key \in CounterKeys
    <2>1. d \in Definition
      BY FixedDefinitions
    <2> QED
      BY <2>1 DEF CounterKeys, Keys
  <1>4. limit \in Nat \ {0}
    BY CoveringLimits
  <1>5. CASE \A o \in Request : request'[o].passed = request[o].passed
    <2>1. Let(r, d, i)' = Let(r, d, i)
      BY <1>5 DEF Let, Covers, GroupsOf, Settled, Possible, LimitOf, KeyOf
    <2> QED
      BY <1>2, <2>1
  <1>6. ASSUME NEW x \in Request, NEW g, NEW k, Passage(x, g, k)
        PROVE  Cardinality(Let(r, d, i)') <= limit
    <2>1. \A o \in Request : request'[o].passed = request[o].passed
                             \/ (o = x /\ request'[o].passed = request[o].passed \cup {k})
      BY <1>6 DEF Passage
    <2>2. CASE x \notin Let(r, d, i)' \/ x \in Let(r, d, i)
      <3>1. Let(r, d, i)' \subseteq Let(r, d, i)
        BY <2>1, <2>2 DEF Let, Covers, GroupsOf, Settled, Possible, LimitOf, KeyOf
      <3> QED
        BY <1>1, <1>2, <1>4, <3>1, Finite, FS_Subset
    <2>3. CASE x \in Let(r, d, i)' /\ x \notin Let(r, d, i)
      <3>1. /\ LimitOf(d, Call[x]) = limit /\ Covers(d, x) /\ k = key
            /\ Let(r, d, i)' \subseteq Let(r, d, i) \cup {x}
        <4>1. /\ LimitOf(d, Call[x]) = limit /\ Covers(d, x)
              /\ key \in request'[x].passed /\ key \notin request[x].passed
          BY <2>3 DEF Let, Covers, GroupsOf, Settled, Possible, LimitOf, KeyOf
        <4>2. k = key
          BY <2>1, <4>1
        <4>3. Let(r, d, i)' \subseteq Let(r, d, i) \cup {x}
          BY <2>1 DEF Let, Covers, GroupsOf, Settled, Possible, LimitOf, KeyOf
        <4> QED
          BY <4>1, <4>2, <4>3
      <3>2. /\ g \in request[x].gates /\ g.key = KeyOf(d, Call[r]) /\ Count(k) \in Nat
            /\ Count(k) < g.limit \/ Count(k) = 0
        BY <1>6, <3>1, Counts DEF Passage
      <3>3. KeyOf(d, Call[x]) = KeyOf(d, Call[r])
        <4>1. request[x].gates \subseteq GatesOf(x)
          BY RequestFields DEF TypeInv, Typed
        <4>2. PICK e \in Definition : g = GateFor(e, Call[x])
          BY <3>2, <4>1 DEF GatesOf
        <4>3. KeyOf(e, Call[x]) = KeyOf(d, Call[r])
          BY <3>2, <4>2 DEF GateFor
        <4> QED
          BY <1>3, <4>3, SharedKeys
      <3>4. g.limit <= limit
        BY <3>1, <3>2, <3>3 DEF StrictInv, Strict
      <3>5. g.limit \in Nat
        BY <3>2 DEF StrictInv, Strict
      <3>6. Cardinality(Let(r, d, i)) <= Count(k)
        <4>1. Let(r, d, i) \subseteq Passers(k) /\ Passers(k) \in SUBSET Request
          BY <3>1 DEF Let, Passers
        <4>2. Cardinality(Let(r, d, i)) <= Cardinality(Passers(k)) /\ Cardinality(Passers(k)) \in Nat
          BY <4>1, Finite, FS_Subset
        <4>3. Cardinality(Passers(k)) <= Count(k)
          BY <1>3, <3>1 DEF CountInv
        <4> QED
          BY <1>1, <3>2, <4>2, <4>3
      <3>7. Cardinality(Let(r, d, i)') <= Cardinality(Let(r, d, i)) + 1
        BY <1>1, <3>1, OneMore
      <3> HIDE DEF limit
      <3> QED
        BY <1>1, <1>4, <3>2, <3>4, <3>5, <3>6, <3>7
    <2> QED
      BY <2>2, <2>3
  <1> QED
    BY <1>5, <1>6, NextPassers

\* No counter lets more requests through than the lowest limit that is in force on
\* it throughout, for any number of requests and replicas, as long as no two
\* definitions of a target's side count in one counter with different limits.
THEOREM LimitsHold == ASSUME SeparateTargets PROVE Spec => []WithinLimit
  <1>1. Init => CountInv /\ WithinLimit
    <2> SUFFICES ASSUME Init PROVE CountInv /\ WithinLimit
      OBVIOUS
    <2>1. \A o \in Request : request[o].passed = {}
      BY DEF Init, Arriving
    <2>2. TypeInv
      BY TypeInit
    <2>3. \A k : Passers(k) = {}
      BY <2>1 DEF Passers
    <2>4. Cardinality({}) = 0
      BY FS_EmptySet
    <2>5. CountInv
      BY <2>2, <2>3, <2>4, Counts DEF CountInv
    <2>6. ASSUME NEW r \in Request, NEW d \in Fixed, Covers(d, r), NEW i \in 0 .. MaxTime
          PROVE  Cardinality(Let(r, d, i)) <= LimitOf(d, Call[r])
      <3>1. Let(r, d, i) = {}
        BY <2>1 DEF Let
      <3>2. LimitOf(d, Call[r]) \in Nat
        BY <2>6, CoveringLimits
      <3> QED
        BY <2>4, <3>1, <3>2
    <2> QED
      BY <2>5, <2>6 DEF WithinLimit, Let
  <1>2. Spec => [](TypeInv /\ SparesInv /\ StrictInv)
    BY TypeInvariance, SparesInvariance, StrictInvariance, PTL
  <1> QED
    BY <1>1, <1>2, CountStep, LimitStep, PTL DEF Spec
====
