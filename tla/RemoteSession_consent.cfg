SPECIFICATION Spec
CONSTANTS
    Viewers = {v1, v2}
    HostConns = {h1, h2}
    None = None
    DoubleClicks = FALSE
    MaxEvents = 4
CHECK_DEADLOCK FALSE
INVARIANTS HostIsListed MainAgrees KeysAreReleased
PROPERTIES NobodyWaits HostGetsFree
