SPECIFICATION Spec
CONSTANTS
    None = None
    Channels <- MCChannels
    Ports <- MCPorts
    MaxScan = 3
    Interrupts = FALSE
PROPERTY NotFoundIsTrue
