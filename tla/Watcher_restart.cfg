CONSTANTS
    a = a
    b = b
    Folders = {a, b}
    t1 = t1
    t2 = t2
    t3 = t3
    Threads = {t1, t2, t3}
    Main = Main
    None = None
    MaxEvents = 3
SPECIFICATION Spec
INVARIANT OneWatcher
CHECK_DEADLOCK FALSE
