SPECIFICATION Spec
CONSTANTS
    Feeds = {f1}
    Cats = {c1}
    Walkers = {t1}
    Requests = {r1}
    PageSize = 1
    MaxPub = 1
    MaxId = 3
    MaxSerial = 4
    MaxClock = 2
    MaxOps = 3
INVARIANTS TypeOK PagesComplete PagesDisjoint CategoryExists
CHECK_DEADLOCK FALSE
