SPECIFICATION Spec
CONSTANTS
    x1 = x1
    x2 = x2
    i1 = i1
    Expenses <- OneExpense
    Incomes <- OneIncome
    MaxAmount = 1
    Grant = 1
    MaxReopenings = 0
    FingerprintFound = TRUE
INVARIANTS
    CashOutWithinGrant
CHECK_DEADLOCK FALSE
