\* The loop and one immediate check at a time, on one credential and two upstreams, one
\* of which an endpoint may name; three events, a stored credential among them.
SPECIFICATION FairSpec
CONSTANTS
    now = now
    k1 = k1
    a = a
    b = b
    Caller = {"loop", now}
    Client = {k1}
    Host = {a, b}
    Nothing = Nothing
    Polls = TRUE
    Endpoint = {b}
    MaxDrops = 1
    MaxEvents = 3
INVARIANTS TypeOK BearerForItsCard NoStampede
PROPERTIES RouteSettles
