SPECIFICATION FairSpec
CONSTANTS
    None = None
    lane1 = lane1
    lane2 = lane2
    order1 = order1
    phone1 = phone1
    Jobs = {j1, j2}
    Lanes <- MCLanes
    LastHour = 3
    Orders <- MCOrders
    OrderContact <- MCOrderContact
    Contacts <- MCContacts
    Forms <- MCForms
    Threads = {t1}
    LastTick = 2
    MATCH_WINDOW = 0
    MaxJournal = 2
    SlotsOverlap = FALSE
PROPERTIES
    LinksWithinWindow
    MatchesFound
CHECK_DEADLOCK FALSE
