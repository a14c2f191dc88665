SPECIFICATION Spec
CONSTANTS
    Feeds = {f1}
    Guids = {g1, g2}
    Hashes = {h1, h2}
    Scrapers = {w1}
    Pollers = {p1, p2}
    Tabs = {t1}
    MaxId = 2
    MaxAttempts = 2
    MaxTransient = 0
    MaxRestarts = 0
    StoreFails = TRUE
SYMMETRY Symmetry
INVARIANTS TypeOK TombstonesHold OneRowPerGuid FullMeansQueued
CHECK_DEADLOCK FALSE
