SPECIFICATION RaceSpec
CONSTANTS
    x1 = x1
    x2 = x2
    i1 = i1
    s1 = s1
    s2 = s2
    Expenses <- OneExpense
    Incomes <- OneIncome
    Sessions <- OneSession
    MaxAmount = 2
    Grant = 2
    MaxReopenings = 2
    FingerprintFound = TRUE
INVARIANTS
    SettledMeansCleared
    RevisionHistory
    NeverOverpaid
    ClosedIsCleared
    CertificateMatchesSettlement
    ReopeningRecordedTwice

    
CHECK_DEADLOCK FALSE
