SPECIFICATION FairSpec
CONSTANTS
    p1 = p1
    p1b = p1b
    q = q
    c1 = c1
    c2 = c2
    None = None
    Tasks <- MainTasks
    Cpus <- TwoCpus
    PidOf <- MainPidOf
    CpuOf <- MainCpuOf
    Initial <- OneProcess
    Base = 4
    Limit = 14
    AllocLimit = 4
    PageSize = 2
    Width = 3
    Requests = {1, 3}
    Modes = {"own", "create", "minimize"}
    MaxItems = 2
INVARIANTS
    BlocksDisjoint
    BlocksInArena
    ScanSkipsNothing
    HeldIsBacked
PROPERTIES
    
    StoreSpec
CHECK_DEADLOCK FALSE
