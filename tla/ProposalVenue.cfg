SPECIFICATION HallSpec
CONSTANTS
    p1 = p1
    p2 = p2
    c1 = c1
    c2 = c2
    x1 = x1
    x2 = x2
    hall = hall
    other = other
    today = today
    tomorrow = tomorrow
    NoSlot = NoSlot
    Halls <- TwoHalls
    Dates <- TwoDates
    Proposals <- OneProposal
    Contents <- OneContent
    Slots <- TwoSlots
    Items <- OneItem
    MaxAmount = 1
    Cap = 1
    LastStep = 3
    MaxVersions = 2
INVARIANTS
    ApprovedVenueIsBooked
CHECK_DEADLOCK FALSE
