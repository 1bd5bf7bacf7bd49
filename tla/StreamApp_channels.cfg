SPECIFICATION Spec
CONSTANTS
    Aja = {a}
    DeckLink = {k}
    Cams = {c}
    Procs = {p1, p2, p3, p4}
    None = None
    MaxOps = 3
    MaxEnds = 1
CHECK_DEADLOCK FALSE
INVARIANTS OneProcessPerCard WindowAgrees LiveIsAnnounced
PROPERTY ClicksAreAnswered
