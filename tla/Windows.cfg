SPECIFICATION Spec
CONSTANTS
    c1 = c1
    c2 = c2
    e = e
    a = a
    b = b
    z = z
    None = None
    Cpus <- MCCpus
    Tasks <- MCTasks
    CpuOf <- MCCpuOf
    First <- MCFirst
    Namings <- MCNamings
    Desk = e
    Console = a
    Victims = {a}
    Left <- MCLeft
    Slots = 3
INVARIANTS
    TableIsList
    KeysReachOwner
    WaitsEnd
    OneOfAName
PROPERTIES
    EndClears
    OnlyStraysClose
CHECK_DEADLOCK FALSE
