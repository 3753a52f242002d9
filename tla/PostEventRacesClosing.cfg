SPECIFICATION RaceSpec
CONSTANTS
    x1 = x1
    x2 = x2
    i1 = i1
    s1 = s1
    s2 = s2
    Expenses <- OneExpense
    Incomes <- OneIncome
    Sessions <- OneSession
    MaxAmount = 1
    Grant = 1
    MaxReopenings = 0
    FingerprintFound = TRUE
INVARIANTS
    ClosedIsResolved
CHECK_DEADLOCK FALSE
