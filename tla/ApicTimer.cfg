SPECIFICATION FairSpec
CONSTANTS
    a = a
    b = b
    c = c
    None = None
    First = a
    Tasks <- MCTasks
    Once <- MCOnce
    Slots = 2
    Delays = {2}
    Count = 4
INVARIANTS
    EachItsOwn
PROPERTIES
    NotBeforeTime
    CalledAgain
CHECK_DEADLOCK FALSE
