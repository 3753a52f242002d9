SPECIFICATION PaymentSpec
CONSTANTS
    x1 = x1
    x2 = x2
    i1 = i1
    Expenses <- OneExpense
    Incomes <- OneIncome
    MaxAmount = 2
    Grant = 2
    MaxReopenings = 2
    FingerprintFound = TRUE
INVARIANTS
    TypeOK
    FirstSettlementIsPayable
    ClosedIsResolved
PROPERTIES
    
    ClosedIsFrozen
    PaymentsClear
CHECK_DEADLOCK FALSE
