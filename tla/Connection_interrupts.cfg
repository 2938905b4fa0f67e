SPECIFICATION FairSpec
CONSTANTS
    None = None
    Channels <- MCChannels
    Ports <- MCPorts
    MaxScan = 3
    Interrupts = TRUE
INVARIANT FlagNeedsSocket
PROPERTY CallsEnd
