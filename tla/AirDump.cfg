SPECIFICATION Spec
CONSTANTS
    NaN = NaN
    None = None
    Humidities <- MCHumidities
    Temperatures <- MCWarm
    Channels <- MCChannels
    MaxScan = 0
    TxCapacity = 2
    MaxFrames = 3
INVARIANTS
    TypeOK
    Conserved
    HalfFrameOnlyAfterLoss
    ListedReadings
PROPERTY ImplementsStream
