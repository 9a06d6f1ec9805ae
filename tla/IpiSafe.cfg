SPECIFICATION Spec
CONSTANTS
    c1 = c1
    c2 = c2
    c3 = c3
    s = s
    t = t
    u = u
    v = v
    m1 = m1
    m2 = m2
    m3 = m3
    n1 = n1
    n2 = n2
    k = k
    None = None
    Cpus <- SafeCpus
    Tasks <- SafeTasks
    CpuOf <- CpuOfAny
    First <- SafeFirst
    Msgs <- SafeMsgs
    TargetOf <- SafeTargetOf
    Slots = 2
INVARIANTS
    HandledOnceWhole
    NoneStranded
CHECK_DEADLOCK FALSE
