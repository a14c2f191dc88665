SPECIFICATION Spec
CONSTANTS
    URLs <- Three
    Norm <- ThreeNorm
    RedirectURLs <- OnlyB
    DiscoverURLs <- None
    EditURLs <- OnlyC
    Workers = {w1}
    BgOps = {b1}
    Requests = {r1}
    MaxFeeds = 1
    MaxOps = 2
    MaxRestarts = 0
    ErrCap = 1
    StoreFails = FALSE
PROPERTY EditSurvivesPoll
CHECK_DEADLOCK FALSE
