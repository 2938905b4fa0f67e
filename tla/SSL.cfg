SPECIFICATION FairSpec
CONSTANTS
    ILen = 11
    OLen = 14
    MaxFrag = 2
    Nonce = 1
    Tag = 1
    Sizes <- MCSizes
    Kinds <- MCKinds
    Data <- MCData
    MaxOut = 3
    MaxRecords = 2
    MaxFlight = 1
INVARIANTS
    TypeOK
    PendingHasRoom
    SentInOrder
    ReadInOrder
    CloseIsLast
PROPERTIES
    ImplementsClientStream
    WrittenIsSent
    CloseAnswered
