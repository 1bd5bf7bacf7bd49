SPECIFICATION Spec
CONSTANTS
    Adapters = {wired, mobile}
    Natural = wired
    Automatic = Automatic
    BadTicks = 2
    OfflineTicks = 2
    Half = 1
    Minute = 1
    Short = 2
    Hold = 2
    MaxHold = 3
    MaxEvents = 4
CHECK_DEADLOCK FALSE
INVARIANTS LineAgrees LeftAsFound
PROPERTY FindsTheGoodLine
