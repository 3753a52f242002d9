SPECIFICATION HallSpec
CONSTANTS
    p1 = p1
    p2 = p2
    c1 = c1
    c2 = c2
    x1 = x1
    x2 = x2
    hall = hall
    other = other
    today = today
    tomorrow = tomorrow
    NoSlot = NoSlot
    Halls <- TwoHalls
    Dates <- TwoDates
    Proposals <- TwoProposals
    Contents <- OneContent
    Slots <- OverlappingSlots
    Items <- OneItem
    MaxAmount = 1
    Cap = 1
    LastStep = 3
    MaxVersions = 2
SYMMETRY Alike
INVARIANTS
    NoDoubleBooking
    HallReleased
    EventHasItsHall
PROPERTIES
    BookingsAreACalendar
CHECK_DEADLOCK FALSE
