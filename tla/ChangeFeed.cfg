SPECIFICATION FairSpec
CONSTANTS
    list = list
    enrichment = enrichment
    c1 = c1
    Event = {list, enrichment}
    Client = {c1}
    ChanCap = 1
    MaxChanges = 2
INVARIANTS
    TypeOK
    NoLostWakeup
    QuietAfterShutdown
PROPERTIES
    LearnsTheLastChange
    RequestsEnd
CHECK_DEADLOCK FALSE
