SPECIFICATION FairSpec
CONSTANTS
    c1 = c1
    c2 = c2
    c3 = c3
    s = s
    t = t
    u = u
    v = v
    m1 = m1
    m2 = m2
    m3 = m3
    n1 = n1
    n2 = n2
    k = k
    None = None
    Cpus <- LiveCpus
    Tasks <- LiveTasks
    CpuOf <- LiveCpuOf
    First <- LiveFirst
    Msgs <- LiveMsgs
    TargetOf <- LiveTargetOf
    Slots = 2
PROPERTIES
    SentIsHandled
CHECK_DEADLOCK FALSE
