SPECIFICATION FairSpec
CONSTANTS
    p = p
    q = q
    irq = irq
    kbd = kbd
    mouse = mouse
    key = key
    esc = esc
    None = None
    Tasks = {p, q}
    BootTasks = {p}
    Testers = {q}
    Irq = irq
    Devices = {kbd}
    Kbd = kbd
    Codes = {key, esc}
    Escape = esc
    Size = 3
INVARIANTS
    InRing
PROPERTIES
    KeysAreQueue
    InterruptEnds
