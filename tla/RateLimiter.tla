----------------------------- MODULE RateLimiter ----------------------------
(***************************************************************************)
(* The limits an authentication server puts on calls of MCP servers and    *)
(* agents: quarantine of a caller or a target, then one gate per applying  *)
(* definition and window, counted in MongoDB, the tightest window first.   *)
(* Definitions and memberships are changed through the registry and reach  *)
(* the replicas of the authentication server as their caches expire.       *)
(*                                                                         *)
(*   registry/rate_limiting/{limiter,documentdb_backend}.py                *)
(*   registry/rate_limiting/{definitions,memberships}_repository.py        *)
(*   registry/api/rate_limit_routes.py, auth_server/server.py              *)
(*                                                                         *)
(* Time is counted in ticks longer than a call of the database. A counter  *)
(* of a past window is never used again; its expiry is left out.           *)
(***************************************************************************)
EXTENDS Naturals, Sequences, FiniteSets

CONSTANTS
    Definition,  \* every definition that is ever stored, as records
    Enabled,     \* those in force at first
    Group,       \* rate-limit groups
    Subject,     \* the membership documents: callers and targets
    Member,      \* [Subject -> SUBSET Groups] at first
    Request,     \* the calls of check
    Call,        \* [Request -> who calls what, through which replica]
    Replica,     \* the replicas of the authentication server
    Task,        \* the changes administrators make
    Change,      \* [Task -> what it may be]
    QuarantineCallers, QuarantineTargets,  \* the reserved groups
    FailOpen,               \* RATE_LIMIT_FAIL_OPEN
    QuarantineFailClosed,   \* RATE_LIMIT_QUARANTINE_FAIL_CLOSED
    CacheTTL,    \* RATE_LIMIT_DEFINITIONS_CACHE_TTL_SECONDS, in ticks
    NoLimit,     \* a group does not limit callers of a type
    Nothing,     \* no value
    MaxTime,     \* bound: ticks
    MaxFaults    \* bound: failed calls

Reserved == {QuarantineCallers, QuarantineTargets}
Groups   == Group \cup Reserved
CallerType == {"user", "agent"}

ASSUME LimiterConstants ==
    /\ \A d \in Definition :
          /\ d.axis \in {"caller", "caller_target", "target"}
          /\ d.window \in Nat \ {0}
          /\ \A type \in CallerType : d.limit[type] \in (Nat \ {0}) \cup {NoLimit}
          /\ d.axis = "target" => \A type \in CallerType : d.limit[type] # NoLimit
          /\ d.axis # "target" => d.names \cap Reserved = {}
          /\ d.closed \in BOOLEAN
    /\ Enabled \subseteq Definition
    /\ Member \in [Subject -> SUBSET Groups]
    /\ \A r \in Request : /\ Call[r].replica \in Replica
                          /\ Call[r].docs \in Seq(Subject)
                          /\ Call[r].target \in Subject
                          /\ Call[r].type \in CallerType
                          /\ Call[r].admin \in BOOLEAN
    /\ FailOpen \in BOOLEAN /\ QuarantineFailClosed \in BOOLEAN
    /\ CacheTTL \in Nat \ {0} /\ MaxTime \in Nat /\ MaxFaults \in Nat
    /\ NoLimit \notin Nat
    /\ IsFiniteSet(Request)
    /\ Nothing \notin Nat \cup {"allow", "throttled", "quarantined"}

\* The documents of users and clients, and those of servers and agents.
Callers == UNION {{Call[r].docs[i] : i \in DOMAIN Call[r].docs} : r \in Request}
Targets == {Call[r].target : r \in Request}

\* A target may be in quarantine and in no other group, a caller in any other.
Scoped(s, groups) == /\ s \in Targets => groups \subseteq {QuarantineTargets}
                     /\ s \in Callers => QuarantineTargets \notin groups

ASSUME MembershipConstants ==
    /\ QuarantineCallers # QuarantineTargets
    /\ Group \cap Reserved = {}
    /\ Callers \cap Targets = {}
    /\ \A s \in Subject : Scoped(s, Member[s])
    /\ \A a \in Task : \A c \in Change[a] :
          \/ /\ c.kind \in {"put", "quarantine", "release"}
             /\ c.subject \in Subject /\ c.groups \subseteq Groups
             /\ c.kind # "release" => Scoped(c.subject, c.groups)
             /\ c.kind # "put" => c.groups \subseteq Reserved
          \/ c.kind \in {"enable", "disable"} /\ c.defs \subseteq Definition
          \/ c.kind = "switch" /\ c.scope \in {"caller", "target"}

VARIABLES
    now,        \* the time
    defs,       \* the enabled definitions
    sentinel,   \* [{"caller", "target"} -> whether the quarantine group is on]
    member,     \* [Subject -> its groups], {} without a document
    cache,      \* [Replica -> what its repositories remember, by query]
    counter,    \* the counters, by key and window index
    request,    \* [Request -> where it stands]
    task,       \* [Task -> where it stands]
    since,      \* history: [Subject -> the time it was quarantined, or Nothing]
    faults      \* failed calls

vars == <<now, defs, sentinel, member, cache, counter, request, task, since, faults>>
store == <<defs, sentinel, member, since, task>>

-----------------------------------------------------------------------------
(* Lookups: queries served from a cache with a time to live *)

LookupPc == {"sentinel_t", "member_t", "member_c", "sentinel_c", "defs_c", "defs_ct", "defs_t"}
RequestPc == LookupPc \cup {"enforce", "insert", "done"}

RateGroups(q) == q.groups \ Reserved

\* Mutant: definitions are cached by group, whatever their axis.
Query_NoAxis(r, q) ==
    CASE q.pc = "sentinel_t" -> <<"sentinel", "target">>
      [] q.pc = "sentinel_c" -> <<"sentinel", "caller">>
      [] q.pc = "member_t"   -> <<"member", Call[r].target>>
      [] q.pc = "member_c"   -> <<"member", Head(q.docs)>>
      [] q.pc = "defs_t"     -> <<"target", {Call[r].target}>>
      [] OTHER               -> <<"caller", RateGroups(q)>>

\* The query request r, standing at q, makes next.
Query(r, q) ==
    CASE q.pc = "sentinel_t" -> <<"sentinel", "target">>
      [] q.pc = "sentinel_c" -> <<"sentinel", "caller">>
      [] q.pc = "member_t"   -> <<"member", Call[r].target>>
      [] q.pc = "member_c"   -> <<"member", Head(q.docs)>>
      [] q.pc = "defs_c"     -> <<"caller", RateGroups(q)>>
      [] q.pc = "defs_ct"    -> <<"caller_target", RateGroups(q)>>
      [] q.pc = "defs_t"     -> <<"target", {Call[r].target}>>

Stored(query) ==
    CASE query[1] = "sentinel" -> sentinel[query[2]]
      [] query[1] = "member"   -> member[query[2]]
      [] OTHER -> {d \in defs : d.axis = query[1] /\ d.names \cap query[2] # {}}

Fresh(p, query) == query \in DOMAIN cache[p] /\ now < cache[p][query].until
\* Mutant: an entry is kept for two lifetimes, as a counter is.
Remembered_Longer(p, query, value) ==
    [k \in DOMAIN cache[p] \cup {query} |->
        IF k = query THEN [until |-> now + 2 * CacheTTL, value |-> value] ELSE cache[p][k]]
Remembered(p, query, value) ==
    [k \in DOMAIN cache[p] \cup {query} |->
        IF k = query THEN [until |-> now + CacheTTL, value |-> value] ELSE cache[p][k]]

-----------------------------------------------------------------------------
(* Gates *)

\* counter_key: requests with the same one share a counter.
KeyOf(d, call) ==
    CASE d.axis = "caller"        -> <<"clr", "group", call.caller, d.window>>
      [] d.axis = "caller_target" -> <<"ctg", "group", <<call.caller, call.target>>, d.window>>
      [] d.axis = "target"        -> <<"tgt", d.entity, call.target, d.window>>
LimitOf(d, call) == d.limit[call.type]

GateFor(d, call) == [key |-> KeyOf(d, call), window |-> d.window, limit |-> LimitOf(d, call),
                     closed |-> d.closed, by |-> d.id, axis |-> d.axis]

ASSUME NothingIsNoGate == \A d \in Definition, r \in Request : Nothing # GateFor(d, Call[r])

\* Among the groups of a caller the lowest limit of each window.
Lowest(found, call) ==
    LET applying == {d \in found : LimitOf(d, call) # NoLimit}
        tightest(w) == CHOOSE d \in {e \in applying : e.window = w} :
                           \A e \in applying : e.window = w => LimitOf(d, call) <= LimitOf(e, call)
    IN  {tightest(d.window) : d \in applying}

Gates(found, call, axis) ==
    {GateFor(d, call) : d \in IF axis = "target" THEN found ELSE Lowest(found, call)}

Rank == [axis \in {"caller", "caller_target", "target"} |->
            CASE axis = "caller" -> 1 [] axis = "caller_target" -> 2 [] OTHER -> 3]
\* Mutant: the gates of the target are enforced first, in no order of windows.
Sooner_ByAxis(g, h) == Rank[g.axis] >= Rank[h.axis]
Sooner(g, h) == g.window < h.window \/ (g.window = h.window /\ Rank[g.axis] <= Rank[h.axis])
NextGates(q) == {g \in q.gates : \A h \in q.gates : Sooner(g, h)}

-----------------------------------------------------------------------------
(* Requests *)

Arriving(r) == [pc |-> "sentinel_t", docs |-> Call[r].docs, groups |-> {}, gates |-> {},
                began |-> Nothing, gate |-> Nothing, index |-> Nothing,
                passed |-> {}, opened |-> {}, failed |-> FALSE, denied |-> Nothing, answer |-> Nothing]

Answered(q, answer) == [q EXCEPT !.pc = "done", !.answer = answer, !.docs = <<>>, !.groups = {},
                                 !.gates = {}, !.gate = Nothing, !.index = Nothing]
\* Mutant: a denial does not end the request.
Denied_GoesOn(q, why, gate) == [q EXCEPT !.answer = why, !.denied = gate]
Denied(q, why, gate) == [Answered(q, why) EXCEPT !.denied = gate]
Allowed(q)           == Answered(q, "allow")
\* The gates are enforced until none is left.
Enforcing(q) == IF q.gates = {} THEN Allowed(q) ELSE [q EXCEPT !.pc = "enforce", !.gate = Nothing,
                                                               !.index = Nothing]

\* Once the target is known not to be in quarantine, and once the caller is.
AfterTarget(r, q) == [q EXCEPT !.pc = IF Call[r].admin THEN "defs_t"
                                      ELSE IF q.docs = <<>> THEN "defs_t" ELSE "member_c"]
AfterCaller(q)    == [q EXCEPT !.pc = IF RateGroups(q) = {} THEN "defs_t" ELSE "defs_c"]

\* check goes on with the value a lookup gave.
After(r, q, value) ==
    CASE q.pc = "sentinel_t" -> IF value THEN [q EXCEPT !.pc = "member_t"] ELSE AfterTarget(r, q)
      [] q.pc = "member_t"   -> IF QuarantineTargets \in value THEN Denied(q, "quarantined", Nothing)
                                ELSE AfterTarget(r, q)
      [] q.pc = "member_c"   -> LET known == [q EXCEPT !.docs = Tail(@), !.groups = @ \cup value]
                                IN  IF known.docs # <<>> THEN known
                                    ELSE IF QuarantineCallers \in known.groups
                                    THEN [known EXCEPT !.pc = "sentinel_c"]
                                    ELSE AfterCaller(known)
      [] q.pc = "sentinel_c" -> IF value THEN Denied(q, "quarantined", Nothing) ELSE AfterCaller(q)
      [] q.pc = "defs_c"     -> [q EXCEPT !.pc = "defs_ct", !.gates = Gates(value, Call[r], "caller")]
      [] q.pc = "defs_ct"    -> [q EXCEPT !.pc = "defs_t",
                                          !.gates = @ \cup Gates(value, Call[r], "caller_target")]
      [] q.pc = "defs_t"     -> Enforcing([q EXCEPT !.gates = @ \cup Gates(value, Call[r], "target")])

\* check goes on, or raises and is skipped by the server, when a lookup raises.
AfterError(r, q) ==
    CASE q.pc \in {"sentinel_t", "member_t"} ->
             IF QuarantineFailClosed THEN Denied(q, "quarantined", Nothing) ELSE AfterTarget(r, q)
      [] q.pc = "sentinel_c" ->
             IF ~FailOpen \/ QuarantineFailClosed THEN Denied(q, "quarantined", Nothing)
             ELSE AfterCaller(q)
      [] OTHER -> Allowed(q)

Init ==
    /\ now = 0
    /\ defs = Enabled
    /\ sentinel = [scope \in {"caller", "target"} |-> TRUE]
    /\ member = Member
    /\ cache = [p \in Replica |-> <<>>]
    /\ counter = <<>>
    /\ request = [r \in Request |-> Arriving(r)]
    /\ task = [a \in Task |-> [pc |-> "new", change |-> Nothing, groups |-> {}]]
    /\ since = [s \in Subject |-> IF Member[s] \cap Reserved = {} THEN Nothing ELSE 0]
    /\ faults = 0

Fault == faults < MaxFaults /\ faults' = faults + 1

Become(r, q) == request' = [request EXCEPT
                    ![r] = [q EXCEPT !.began = IF @ = Nothing THEN now ELSE @]]

\* A fresh entry answers at once.
Hit(r) ==
    LET q == request[r]
        query == Query(r, q)
    IN  /\ q.pc \in LookupPc
        /\ Fresh(Call[r].replica, query)
        /\ Become(r, After(r, q, cache[Call[r].replica][query].value))
        /\ UNCHANGED <<now, cache, counter, faults, store>>

\* Otherwise the database is asked, and its reply cached from now on.
Fetch(r) ==
    LET q == request[r]
        p == Call[r].replica
        value == Stored(Query(r, q))
    IN  /\ q.pc \in LookupPc
        /\ ~Fresh(p, Query(r, q))
        /\ cache' = [cache EXCEPT ![p] = Remembered(p, Query(r, q), value)]
        /\ Become(r, After(r, q, value))
        /\ UNCHANGED <<now, counter, faults, store>>

LookupRaises(r) ==
    LET q == [request[r] EXCEPT !.failed = TRUE]
    IN  /\ q.pc \in LookupPc
        /\ ~Fresh(Call[r].replica, Query(r, q))
        /\ Become(r, AfterError(r, q))
        /\ Fault
        /\ UNCHANGED <<now, cache, counter, store>>

-----------------------------------------------------------------------------
(* incr_if_allowed and _enforce *)

Count(k) == IF k \in DOMAIN counter THEN counter[k] ELSE 0
Incremented(k) == [j \in DOMAIN counter \cup {k} |-> IF j = k THEN Count(k) + 1 ELSE counter[j]]

Passed(q, g, k) == Enforcing([q EXCEPT !.gates = @ \ {g}, !.passed = @ \cup {k}])
Throttled(q, g) == Denied(q, "throttled", g)

\* Mutant: the counter is compared with $lte.
BelowLimit_OrAt(k, g) == Count(k) <= g.limit
BelowLimit(k, g) == Count(k) < g.limit

\* The conditional increment finds a counter below the limit, one at the limit,
\* or none, which it goes on to insert.
Match(r) ==
    \E g \in NextGates(request[r]) :
        LET q == request[r]
            k == <<g.key, now \div g.window>>
        IN  /\ q.pc = "enforce"
            /\ \/ /\ Count(k) # 0 /\ BelowLimit(k, g)
                  /\ counter' = Incremented(k)
                  /\ Become(r, Passed(q, g, k))
               \/ /\ Count(k) # 0 /\ ~BelowLimit(k, g)
                  /\ Become(r, Throttled(q, g))
                  /\ UNCHANGED counter
               \/ /\ Count(k) = 0
                  /\ Become(r, [q EXCEPT !.pc = "insert", !.gate = g, !.index = k[2]])
                  /\ UNCHANGED counter
            /\ UNCHANGED <<now, cache, faults, store>>

\* A counter inserted meanwhile is a duplicate key, taken for one at the limit.
Insert(r) ==
    LET q == request[r]
        k == <<q.gate.key, q.index>>
    IN  /\ q.pc = "insert"
        /\ \/ /\ Count(k) = 0
              /\ counter' = Incremented(k)
              /\ Become(r, Passed(q, q.gate, k))
           \/ /\ Count(k) # 0
              /\ Become(r, Throttled(q, q.gate))
              /\ UNCHANGED counter
        /\ UNCHANGED <<now, cache, faults, store>>

\* The call fails or takes too long, before or after its effect.
CounterRaises(r) ==
    LET q == [request[r] EXCEPT !.failed = TRUE]
        policy(g) == IF g.closed \/ ~FailOpen THEN Throttled(q, g)
                     ELSE Enforcing([q EXCEPT !.gates = @ \ {g}, !.opened = @ \cup {g}])
    IN  /\ \/ /\ q.pc = "enforce"
              /\ \E g \in NextGates(q) :
                    LET k == <<g.key, now \div g.window>>
                    IN  /\ Become(r, policy(g))
                        /\ \/ UNCHANGED counter
                           \/ BelowLimit(k, g) /\ counter' = Incremented(k)
           \/ /\ q.pc = "insert"
              /\ Become(r, policy(q.gate))
              /\ UNCHANGED counter
        /\ Fault
        /\ UNCHANGED <<now, cache, store>>

-----------------------------------------------------------------------------
(* The administrators' changes *)

\* The database imposes quarantine on s.
Imposed(groups, on) == \/ on["caller"] /\ QuarantineCallers \in groups
                       \/ on["target"] /\ QuarantineTargets \in groups
NoteQuarantine == since' = [s \in Subject |-> IF ~Imposed(member'[s], sentinel') THEN Nothing
                                              ELSE IF since[s] = Nothing THEN now ELSE since[s]]

\* upsert and delete of a membership document.
Membership(s, groups) ==
    /\ member' = [member EXCEPT ![s] = groups]
    /\ UNCHANGED sentinel
    /\ NoteQuarantine

Finish(a) == task' = [task EXCEPT ![a] = [pc |-> "done", change |-> Nothing, groups |-> {}]]
Begin(a, kinds) == {c \in Change[a] : task[a].pc = "new" /\ c.kind \in kinds}

\* put_rate_limit_membership and delete_rate_limit_membership; add_quarantine of
\* a target, whose only group it becomes.
PutMember(a) ==
    /\ \E c \in Begin(a, {"put"}) : Membership(c.subject, c.groups)
    /\ Finish(a)
    /\ UNCHANGED <<now, defs, cache, counter, request, faults>>

\* add_quarantine of a caller and remove_quarantine read the document first.
ReadMember(a) ==
    /\ \E c \in Begin(a, {"quarantine", "release"}) :
          IF c.kind = "release" /\ c.groups \cap member[c.subject] = {}
          THEN Finish(a)
          ELSE task' = [task EXCEPT ![a] = [pc |-> "read", change |-> c,
                                            groups |-> member[c.subject]]]
    /\ UNCHANGED <<now, defs, sentinel, member, since, cache, counter, request, faults>>

WriteMember(a) ==
    LET c == task[a].change
    IN  /\ task[a].pc = "read"
        /\ Membership(c.subject, IF c.kind = "quarantine" THEN task[a].groups \cup c.groups
                                                          ELSE task[a].groups \ c.groups)
        /\ Finish(a)
        /\ UNCHANGED <<now, defs, cache, counter, request, faults>>

\* put_rate_limit, delete_rate_limit and set_rate_limit_enabled.
ChangeLimits(a) ==
    /\ UNCHANGED member
    /\ \E c \in Begin(a, {"enable", "disable", "switch"}) :
          \/ c.kind = "enable"  /\ defs' = defs \cup c.defs  /\ UNCHANGED sentinel
          \/ c.kind = "disable" /\ defs' = defs \ c.defs     /\ UNCHANGED sentinel
          \/ /\ c.kind = "switch"
             /\ sentinel' = [sentinel EXCEPT ![c.scope] = ~@]
             /\ UNCHANGED defs
    /\ NoteQuarantine
    /\ Finish(a)
    /\ UNCHANGED <<now, cache, counter, request, faults>>

\* A tick is longer than a call of the database; what expires is forgotten.
Tick ==
    /\ now < MaxTime
    /\ \A r \in Request : request[r].pc # "insert"
    /\ now' = now + 1
    /\ cache' = [p \in Replica |->
                    LET kept == {k \in DOMAIN cache[p] : now' < cache[p][k].until}
                    IN  [k \in kept |-> cache[p][k]]]
    /\ UNCHANGED <<counter, request, faults, store>>

Check(r) == Hit(r) \/ Fetch(r) \/ LookupRaises(r) \/ Match(r) \/ Insert(r) \/ CounterRaises(r)
Administer(a) == PutMember(a) \/ ReadMember(a) \/ WriteMember(a) \/ ChangeLimits(a)

Next ==
    \/ \E r \in Request : Check(r)
    \/ \E a \in Task : Administer(a)
    \/ Tick

Spec == Init /\ [][Next]_vars

-----------------------------------------------------------------------------
(* Properties *)

Keys == {KeyOf(d, Call[r]) : d \in Definition, r \in Request}
IsGate(g) == \E d \in Definition, r \in Request : g = GateFor(d, Call[r])
IsCounter(k) == k[1] \in Keys /\ k[2] \in 0 .. MaxTime

TypeOK ==
    /\ now \in 0 .. MaxTime
    /\ defs \subseteq Definition
    /\ sentinel \in [{"caller", "target"} -> BOOLEAN]
    /\ member \in [Subject -> SUBSET Groups]
    /\ \A k \in DOMAIN counter : IsCounter(k) /\ counter[k] \in Nat \ {0}
    /\ since \in [Subject -> (0 .. MaxTime) \cup {Nothing}]
    /\ faults \in 0 .. MaxFaults
    /\ \A r \in Request :
          LET q == request[r]
          IN  /\ q.pc \in RequestPc
              /\ q.groups \subseteq Groups
              /\ \A g \in (q.gates \cup q.opened \cup {q.gate, q.denied}) \ {Nothing} : IsGate(g)
              /\ \A k \in q.passed : IsCounter(k)
              /\ q.answer \in {Nothing, "allow", "throttled", "quarantined"}
              /\ q.pc = "done" <=> q.answer # Nothing

\* Definitions and memberships no task may change.
Possible == UNION {Change[a] : a \in Task}
Fixed == {d \in Enabled : \A c \in Possible : c.kind = "disable" => d \notin c.defs}
Settled(s) == \A c \in Possible : c.kind = "put" => c.subject # s
GroupsOf(r) == UNION {Member[Call[r].docs[i]] : i \in {j \in DOMAIN Call[r].docs : Settled(Call[r].docs[j])}}
Covers(d, r) ==
    \/ d.axis = "target" /\ Call[r].target \in d.names
    \/ /\ d.axis # "target" /\ ~Call[r].admin
       /\ d.names \cap GroupsOf(r) # {}
       /\ LimitOf(d, Call[r]) # NoLimit

\* No two definitions count in the counter of a target with different limits: the
\* groups of servers that share a server and a window have the same.
SeparateTargets ==
    \A d \in Fixed, e \in Definition :
        d.axis = "target" /\ e.axis = "target" /\ d.entity = e.entity /\ d.window = e.window
        /\ d.names \cap e.names # {} => e.limit = d.limit

\* No counter lets more requests through than the lowest limit that is in force
\* on it throughout, whichever replicas they come to and however they race.
WithinLimit ==
    \A r \in Request : \A d \in Fixed : Covers(d, r) =>
        \A i \in 0 .. MaxTime :
            Cardinality({o \in Request : /\ LimitOf(d, Call[o]) = LimitOf(d, Call[r])
                                         /\ Covers(d, o)
                                         /\ <<KeyOf(d, Call[r]), i>> \in request[o].passed})
                <= LimitOf(d, Call[r])

\* A request that was let through with no call failing was counted under every
\* definition in force throughout that covers it.
NothingUncounted ==
    \A r \in Request : request[r].answer = "allow" /\ ~request[r].failed =>
        \A d \in Fixed : Covers(d, r) => KeyOf(d, Call[r]) \in {k[1] : k \in request[r].passed}

\* A request a short window throttles has not used up any longer window.
BurstSparesDay ==
    \A r \in Request : LET g == request[r].denied IN
        g # Nothing => \A k \in request[r].passed : k[1][4] <= g.window

\* Quarantine holds for every request that begins one cache lifetime after it was
\* imposed, unless a call fails. Throttling is no substitute.
Quarantined(s, time) == since[s] # Nothing /\ since[s] + CacheTTL <= time
SubjectsOf(r) == {Call[r].target} \cup
    IF Call[r].admin THEN {} ELSE {Call[r].docs[i] : i \in DOMAIN Call[r].docs}
QuarantineHolds ==
    \A r \in Request : request[r].answer \in {"allow", "throttled"} /\ ~request[r].failed =>
        \A s \in SubjectsOf(r) : ~Quarantined(s, request[r].began)
=============================================================================
