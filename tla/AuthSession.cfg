SPECIFICATION FairSpec
CONSTANTS
    t1 = t1
    t2 = t2
    r1 = r1
    r2 = r2
    Check = check
    Tabs <- OneTab
    Requests <- TwoRequests
    MaxTokens = 2
    MaxLosses = 1
INVARIANTS
    TypeOK
    QueueHasRefresh
    LoaderHasCheck
    Lineage
    CookieIsFresh
PROPERTIES
    RequestsEnd
CHECK_DEADLOCK FALSE
