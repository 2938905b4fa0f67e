SPECIFICATION Spec
CONSTANTS
    App = App
    NoTask = NoTask
    set = set
    set2 = set2
    get = get
    t1 = t1
    fbdo = fbdo
    Ops <- MCOneOp
    Gets <- MCNone
    Oversize <- MCNone
    Ids <- MCIds
    Tasks <- MCTask
    Objects <- MCObject
    Fbdo = fbdo
    MaxRetry = 2
    Limits <- MCLimits
    Legacy = FALSE
    Calls <- MCAll
    MaxFile = 2
INVARIANTS
    TypeOK
    CallsReturn
PROPERTIES
    ImplementsKeptRequests
