SPECIFICATION FairSpec
CONSTANTS
    URLs <- Plain2
    Norm <- PlainNorm
    RedirectURLs <- None
    DiscoverURLs <- OnlyB
    EditURLs <- OnlyB
    Workers = {w1}
    BgOps = {b1}
    Requests = {r1}
    MaxFeeds = 1
    MaxOps = 2
    MaxRestarts = 1
    ErrCap = 1
    StoreFails = FALSE
PROPERTY EveryAddressGetsPolled
CHECK_DEADLOCK FALSE
