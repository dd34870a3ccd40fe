SPECIFICATION FairSpec
CONSTANTS
    e1 = e1
    e2 = e2
    t1 = t1
    t2 = t2
    Engine = {e1, e2}
    TUI = {t1, t2}
    Compatible = {e1}
    Required = {t2}
    None = None
    Dead = Dead
    MaxCrashes = 2
INVARIANTS
    TypeOK
    ServingIsReachable
    SecondAuthorityNeedsAnOutage
PROPERTIES
    Restartable
