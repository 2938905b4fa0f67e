SPECIFICATION Spec
CONSTANTS
    NaN = NaN
    None = None
    Humidities <- MCHumidities
    Temperatures <- MCFrost
    Channels <- MCChannels
    MaxScan = 0
    TxCapacity = 1
    MaxFrames = 1
INVARIANT ListedReadings
