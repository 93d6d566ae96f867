---------------------------- MODULE MCRateLimiter ---------------------------
(* Small instances of RateLimiter for TLC. *)
EXTENDS RateLimiter, TLC

CONSTANTS burst, day, each, pool, grp, u, srv, r1, r2, p1, p2, a1

Limits(n) == [type \in CallerType |-> n]

\* A caller may make one call a tick, a server takes two in two ticks.
Burst == [id |-> burst, axis |-> "caller", entity |-> "group", names |-> {grp},
          limit |-> Limits(1), window |-> 1, closed |-> FALSE]
Day   == [id |-> day, axis |-> "target", entity |-> "mcp_server", names |-> {srv},
          limit |-> Limits(2), window |-> 2, closed |-> TRUE]
\* Any one server, for each caller.
Each  == [id |-> each, axis |-> "caller_target", entity |-> "group", names |-> {grp},
          limit |-> [user |-> 1, agent |-> NoLimit], window |-> 1, closed |-> FALSE]
\* The servers of a group.
Pool(id) == [id |-> id, axis |-> "target", entity |-> "server_group", names |-> {srv},
             limit |-> Limits(2), window |-> 1, closed |-> FALSE]
AllLimits  == {Burst, Day, Each, Pool(pool)}
LongLimits == {Burst, Day, Each}

From(p, who) == [replica |-> p, docs |-> <<who>>, caller |-> who, type |-> "user",
                 admin |-> FALSE, target |-> srv]
OneUser == r1 :> From(p1, u) @@ r2 :> From(p1, u)
InGroup == u :> {grp} @@ srv :> {}

\* An administrator does one of these.
AnyChange == a1 :> {
    [kind |-> "put", subject |-> srv, groups |-> {QuarantineTargets}],
    [kind |-> "quarantine", subject |-> u, groups |-> {QuarantineCallers}],
    [kind |-> "release", subject |-> srv, groups |-> {QuarantineTargets}],
    [kind |-> "enable", defs |-> {Pool(pool)}],
    [kind |-> "disable", defs |-> {Pool(pool)}],
    [kind |-> "switch", scope |-> "target"]}

ASSUME OneLimitPerTarget == SeparateTargets
=============================================================================
