SPECIFICATION FairSpec
CONSTANTS
    Pools <- BothPools
    Workers = {w1, w2}
    Requests = {r1}
    BgOps = {b1}
    Batch = 2
INVARIANTS TypeOK ClosedAfterWork
PROPERTIES StopsEventually PoolsDrain BatchesHandedOut
