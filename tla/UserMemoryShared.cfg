SPECIFICATION Spec
CONSTANTS
    proc1 = proc1
    proc2 = proc2
    thread1 = thread1
    thread2 = thread2
    zero = zero
    None = None
    Procs = {proc1, proc2}
    Threads = {thread1, thread2}
    ProcOf <- MCThreadOfEach
    Tables = {zero}
    Layouts <- MCLayouts
    Classes <- MCClasses
    HeapSize = 4
    Heaps = 2
    Wholes = 1
    Page = 16
    Requests = {0, 4}
INVARIANTS
    OwnHeaps
CHECK_DEADLOCK FALSE
