SPECIFICATION Spec
CONSTANTS
    URLs <- Plain2
    Norm <- PlainNorm
    RedirectURLs <- OnlyB
    DiscoverURLs <- OnlyB
    EditURLs <- Plain2
    Workers = {w1}
    BgOps = {b1}
    Requests = {r1}
    MaxFeeds = 1
    MaxOps = 3
    MaxRestarts = 0
    ErrCap = 1
    StoreFails = TRUE
INVARIANT TypeOK
INVARIANT ValidatorsBelongUnlessHealed
INVARIANT PostponedByOwnPoll
INVARIANT MetricsPaired
CHECK_DEADLOCK FALSE
