SPECIFICATION FairSpec
CONSTANTS
    NaN = NaN
    None = None
    Humidities <- MCHumidities
    Temperatures <- MCWarm
    Channels <- MCChannels
    MaxScan = 0
    TxCapacity = 1
    MaxFrames = 2
PROPERTIES
    Delivered
    LossEndsMain
    SensorRecovers
    ImplementsFairStream
