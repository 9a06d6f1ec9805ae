SPECIFICATION FairSpec
CONSTANTS
    idle = idle
    a = a
    ab = ab
    Idle = idle
    None = None
    Tids <- TwoTids
    PidOf <- PidOfTwo
    Ops = {"irq", "ipi", "delay", "sleep", "create", "exit", "exitthread", "endthread", "kill", "pause", "resume"}
    Computing = {ab}
    Targets = {idle, a, ab}
    MaxSleep = 2
INVARIANTS
    ContextIntact
    HolderIsCurrent
    CurrentListed
    NeverLost
    MemoryAfterThreads
PROPERTIES
    OverStaysOver
    DeadReaped
    SleepEnds
    LockReleased
CHECK_DEADLOCK FALSE
