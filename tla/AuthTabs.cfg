SPECIFICATION Spec
CONSTANTS
    t1 = t1
    t2 = t2
    r1 = r1
    r2 = r2
    Check = check
    Tabs <- TwoTabs
    Requests <- OneRequest
    MaxTokens = 3
    MaxLosses = 0
INVARIANTS
    SingleUse
CHECK_DEADLOCK FALSE
