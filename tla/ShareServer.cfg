CONSTANTS
    t1 = t1
    t2 = t2
    t3 = t3
    t4 = t4
    Tokens = {t1, t2, t3, t4}
    c1 = c1
    c2 = c2
    Callers = {c1, c2}
    Nobody = Nobody
SPECIFICATION FairSpec
INVARIANTS LiveIsServed
PROPERTIES IdleListenerStops
