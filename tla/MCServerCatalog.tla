-------------------------- MODULE MCServerCatalog --------------------------
(* A server with two versions, one tool, two requests at a time, three in all. *)
EXTENDS ServerCatalog, TLC

CONSTANTS v1, v2, t1, s1, s2

NoOverrides == [t \in Tool |-> "none"]
Single  == [ver |-> v1, enabled |-> TRUE, overrides |-> NoOverrides, others |-> {}, text |-> 0,
            has |-> {"is_enabled", "credential"}, rev |-> 1]
Grouped1 == [Single EXCEPT !.others = {v2}, !.has = @ \cup {"version_group"}]
Other   == [Single EXCEPT !.ver = v2, !.enabled = FALSE, !.has = {"is_enabled", "version_group"}, !.rev = 2]
None    == [v \in Version |-> NoDoc]

FirstStates == {[active |-> NoDoc, inactive |-> None, clock |-> 2],
                [active |-> Single, inactive |-> None, clock |-> 2],
                [active |-> Grouped1, inactive |-> [None EXCEPT ![v2] = Other], clock |-> 2]}

\* The second and third, the fourth and fifth write fall into one millisecond, ...
Milliseconds(rev) == rev \div 2

J(op, arg) == [op |-> op, arg |-> arg, scan |-> NoDoc]
Finding(unsafe, flagged) ==
    [failed |-> FALSE, unsafe |-> unsafe, tag |-> unsafe, flagged |-> flagged]
NotRun == [failed |-> TRUE, unsafe |-> TRUE, tag |-> TRUE, flagged |-> {}]
Scans == {Finding(FALSE, {}), Finding(TRUE, {t1}), NotRun}

\* Edits and a registration that start a scan.
ScannedJobs == {[J("put", TRUE) EXCEPT !.scan = Finding(TRUE, {})],
                [J("patch", TRUE) EXCEPT !.scan = [Finding(TRUE, {t1}) EXCEPT !.tag = FALSE]],
                [J("register", v2) EXCEPT !.scan = NotRun]}

AllJobs == {J("default", v) : v \in {v1, v2}}
    \cup {J("register", v2), J("remove", v2), J("delete", NoDoc), J("clear", NoDoc), J("fetch", NoDoc)}
    \cup {J(op, cond) : op \in {"put", "patch"}, cond \in BOOLEAN}
    \cup {J("toggle", on) : on \in BOOLEAN}
    \cup {J("tool", <<t1, d>>) : d \in Admin}
    \cup {[J("scan", NoDoc) EXCEPT !.scan = v] : v \in Scans}
    \cup ScannedJobs

Symmetry == Permutations({s1, s2})
=============================================================================
