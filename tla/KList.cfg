SPECIFICATION RingSpec
CONSTANTS
    a = a
    b = b
    c = c
    d = d
    e = e
    Null = Null
    Nodes <- MCNodes
INVARIANTS
    RingShape
PROPERTIES
    ListBehaves
