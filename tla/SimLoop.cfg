CONSTANTS
    MaxAddress = 14
    PGSIZE = 2
    DEBUG_START = 0
    DEBUG_SIZE = 1
    DEFAULT_RSTVEC = 1
    ROM_SIZE = 1
    CLINT_BASE = 4
    CLINT_SIZE = 8
    nprocs = 2
    Word = 2
    MTIMECMP_BASE = 2
    MTIME_BASE = 6
    INTERLEAVE = 3
    INSNS_PER_RTC_TICK = 2
    Layouts <- MCLayouts
    Stores <- MCStores
    Accessed = {1, 2, 4, 6, 7, 10, 11, 12}
SPECIFICATION FairSpec
INVARIANT ReservationIsExclusive
INVARIANT RoundIsFair
INVARIANT TimerFollowsClock
INVARIANT DevicesReachable
PROPERTY HartsTakeTurns
CHECK_DEADLOCK FALSE
