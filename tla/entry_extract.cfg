SPECIFICATION FairSpec
CONSTANTS
    Feeds = {f1}
    Guids = {g1}
    Hashes = {h1, h2}
    Scrapers = {w1, w2}
    Pollers = {p1}
    Tabs = {}
    MaxId = 1
    MaxAttempts = 3
    MaxTransient = 1
    MaxRestarts = 1
    StoreFails = FALSE
INVARIANTS ScheduledWhilePending DoneShowsArticle
 
CHECK_DEADLOCK FALSE
