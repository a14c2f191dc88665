SPECIFICATION Spec
CONSTANTS
    Half = 32768
    MaxShift = 4
    Second = 1
    Minute = 6
    Week = 56
    MaxTTL = 50
    MaxRetryAfter = 30
    BaseBackoff = 2
    MaxScrapeBackoff = 9
    MaxAttempts = 4
    Environments <- MCEnvironments
    Counts <- MCCounts
    RetryHeaders <- MCRetryHeaders
    TTLHints <- MCTTLHints
    MaxErrors = 6
INVARIANTS TypeOK NeverParked NeverBusy   ScrapesPaced
