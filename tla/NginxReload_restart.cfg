\* One handler and another replica, one restart of the container at any point, startup included.
CONSTANTS
    h1 = h1  h2 = h2
    srv = srv  vs = vs
    Loop = Loop  Boot = Boot  Nobody = Nobody  NoText = NoText
    Route = {srv, vs}
    Server = {srv}
    BadRoute = {}
    Handler = {h1}
    PollExternal = TRUE
    FaultKind = {"fetch", "render", "section", "mappings", "write", "test", "restore", "reload", "lateNginx"}
    MaxFaults = 1
    MaxChanges = 3
    MaxCrashes = 1
SPECIFICATION FairSpec
PROPERTIES Converges
