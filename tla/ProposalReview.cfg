SPECIFICATION ReviewSpec
CONSTANTS
    p1 = p1
    p2 = p2
    c1 = c1
    c2 = c2
    x1 = x1
    x2 = x2
    hall = hall
    other = other
    today = today
    tomorrow = tomorrow
    NoSlot = NoSlot
    Halls <- TwoHalls
    Dates <- TwoDates
    Proposals <- OneProposal
    Contents <- OneContent
    Slots <- OneSlot
    Items <- OneItem
    MaxAmount = 1
    Cap = 1
    LastStep = 4
    MaxVersions = 2
INVARIANTS
    TypeOK
    OneLiveInstance
    ApprovedIsReviewed
    ReviewedIsSnapshot
    BudgetAddsUp
PROPERTIES
    DecisionsAreFinal
    ReviewsEnd
    ReviewsAreABoard
CHECK_DEADLOCK FALSE
