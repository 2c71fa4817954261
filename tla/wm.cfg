SPECIFICATION Spec
CONSTANTS
    MAXWIN = 2
    SURF_SLOTS = 2
    KQ = 1
    NPids = 2
    Panels = {"files"}
    Bins = {"calc", "fox"}
    Linux = {"fox"}
    Multi = {"calc"}
    SERVE = 2
    Worlds <- MCWorlds
INVARIANT OwnersRight
PROPERTY AppSurvives
PROPERTY CloseEnds
