CONSTANTS
    v1 = v1
    v2 = v2
    v3 = v3
    v4 = v4
    v5 = v5
    v6 = v6
    Visitors = {v1, v2, v3, v4, v5, v6}
    MaxFailedUnlocks = 4
    Cooldown = 2
SPECIFICATION FairSpec
INVARIANTS GuessesAreBounded CooldownIsSettled
PROPERTIES RefusalEnds
