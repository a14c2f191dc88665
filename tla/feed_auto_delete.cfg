SPECIFICATION Spec
CONSTANTS
    URLs <- Plain2
    Norm <- PlainNorm
    RedirectURLs <- None
    DiscoverURLs <- OnlyB
    EditURLs <- None
    Workers = {w1}
    BgOps = {b1}
    Requests = {r1}
    MaxFeeds = 2
    MaxOps = 2
    MaxRestarts = 0
    ErrCap = 1
    StoreFails = FALSE
PROPERTY OnlyEmptyRowsAutoDeleted
CHECK_DEADLOCK FALSE
