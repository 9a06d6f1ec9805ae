SPECIFICATION Spec
CONSTANTS
    idle = idle
    rt = rt
    app = app
    Tasks <- MCTasks
    Idle = idle
    Flat = {idle, rt}
    Ring <- MCRing
    STATIC_PRIORITY = 1
    Bases = {0, 3}
PROPERTIES
    NoStarvation
CHECK_DEADLOCK FALSE
