SPECIFICATION Spec
CONSTANTS
    URLs <- TwoSpellings
    Norm <- TwoNorm
    RedirectURLs <- OtherSpelling
    DiscoverURLs <- None
    EditURLs <- OtherSpelling
    Workers = {w1}
    BgOps = {b1}
    Requests = {r1}
    MaxFeeds = 2
    MaxOps = 3
    MaxRestarts = 0
    ErrCap = 1
    StoreFails = FALSE
INVARIANT DuplicatesOnlyByRedirect
PROPERTY NoCrossSubscriptionWrite
CHECK_DEADLOCK FALSE
