SPECIFICATION MCSpec
CONSTANTS
    MaxRows = 4
    MaxClicks = 2
    MaxTurns = 2
    MaxFaults = 2
    MaxBehind = 2
INVARIANTS QuietScreenIsTrue EveryClickCountsOnce OffersAreKept StaleOffersAreKnown
CHECK_DEADLOCK FALSE
