CONSTANTS
    Xlen = 4
    num_triggers = 1
    PageSize = 2
    TLB_ENTRIES = 1
    ICACHE_ENTRIES = 2
    Levels = 2
    IdxBits = 1
    Memory = {0, 1, 2, 3}
    Tables = {2, 3}
    Devices = {5}
    Code <- MCCode
    Traced = {}
    EnableDirty = FALSE
    Pcs = {1, 2}
    Addrs = {2, 8, 10}
    Ptes <- MCPtes
    InitTables <- MCTables
    Data = {0}
    TriggerValues = {2, 8}
    TriggerControls <- MCControls
    MaxTableStores = 1
    Workloads <- MCWorkloads
SPECIFICATION Spec
INVARIANT HitIsWalk
INVARIANT CachedCodeIsWalk
INVARIANT TriggersSeeHits
CHECK_DEADLOCK FALSE
