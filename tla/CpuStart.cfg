SPECIFICATION FairSpec
CONSTANTS
    c0 = c0
    c1 = c1
    c2 = c2
    Cpus <- MCCpus
    Boot = c0
    None = None
    Listings <- MCListings
    Slots = 2
    Requests = 3
INVARIANTS
    FindsAll
    CountedOnce
PROPERTIES
    StartEnds
CHECK_DEADLOCK FALSE
