\* Two handlers, a bad route, every call but the rendering may fail, no restart.
CONSTANTS
    h1 = h1  h2 = h2
    srv = srv  vs = vs
    Loop = Loop  Boot = Boot  Nobody = Nobody  NoText = NoText
    Route = {srv, vs}
    Server = {srv}
    BadRoute = {vs}
    Handler = {h1, h2}
    PollExternal = FALSE
    FaultKind = {"fetch", "mappings", "write", "test", "restore", "reload"}
    MaxFaults = 2
    MaxChanges = 3
    MaxCrashes = 0
SPECIFICATION Spec
SYMMETRY HandlerSymmetry
INVARIANTS TypeOK ColdStartable NoChangeForgotten HashIsApplied
