SPECIFICATION FairSpec
CONSTANTS
    Callers = {c1, c2, c3}
    Names <- SpelledNames
    HostKey <- SpelledKey
    Cap = 2
    Objects = {s1, s2, s3}
INVARIANTS TypeOK CapHeld SemShared NoIdleSems
PROPERTIES WaitersServed ImplementsSemaphores
