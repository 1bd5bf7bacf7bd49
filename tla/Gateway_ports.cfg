SPECIFICATION GraphSpec
CONSTANTS
    red = red
    Chans = {red}
    NPorts = 2
    Interfaces = {i}
    PortSettings <- MCPorts
    None = None
    MaxGraphEvents = 3
CHECK_DEADLOCK FALSE
INVARIANTS KeysHaveAPort NothingLeftOpen
PROPERTIES FollowsConfig MusicComesBack
