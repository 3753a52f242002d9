SPECIFICATION RaceSpec
CONSTANTS
    p1 = p1
    p2 = p2
    c1 = c1
    c2 = c2
    x1 = x1
    x2 = x2
    hall = hall
    other = other
    today = today
    tomorrow = tomorrow
    NoSlot = NoSlot
    Halls <- TwoHalls
    Dates <- TwoDates
    Proposals <- OneProposal
    Contents <- TwoContents
    Slots <- OneSlot
    Items <- NoItem
    MaxAmount = 1
    Cap = 1
    LastStep = 3
    MaxVersions = 2
    Sessions <- TwoSessions
    s1 = s1
    s2 = s2
INVARIANTS
    SubmissionsAreNumbered
    AtMostOneLive
    EventIsReviewed
    ReviewsInOrder
CHECK_DEADLOCK FALSE
