SPECIFICATION FairSpec
CONSTANTS
    App = App
    NoTask = NoTask
    set = set
    set2 = set2
    get = get
    t1 = t1
    fbdo = fbdo
    Ops <- MCOps
    Gets <- MCGets
    Oversize <- MCNone
    Ids <- MCIds
    Tasks <- MCTask
    Objects <- MCObject
    Fbdo = fbdo
    MaxRetry = 1
    Limits <- MCLimit
    Legacy = TRUE
    Calls <- MCAuto
    MaxFile = 3
INVARIANTS
    RightItem
    DoneWhenGone
PROPERTIES
    ImplementsKeptRequests
    OfflineIsQueued
    Drains
