SPECIFICATION FrontendSpec
CONSTANTS
    None = None
    MaxAsks = 2
    Orders = {"o1", "o2", "o3"}
    Edited = {"o2"}
    FirstOrders <- MCFirstOrders
    PageSize = 1
    MaxNote = 2
    Traits <- MCTraits
    Days = {1, 2}
    Hours <- MCHours
    FirstJob <- MCFirstJob
    MaxEdits = 1
    Fields = {"car", "phone"}
    Records = {"j1"}
    Desks = {"d1", "d2"}
    Today = 2
    Locked = {1}
    CanCorrect = TRUE
    Day = 2
    Lifetime = 3
    DefaultHour = 1
    TabLists <- MCTabLists
    MaxTime = 3
    Ids = {1}
    Years = {1, 2}
    Current = 2
    Files = {"f1"}
    Debts <- MCDebts
    Shops = {"all", "s1"}
    Whole = "all"
    Months = {1}
    MaxOlder = 1
    Periods = {1, 2}
    FirstOne = 1
    LinesOf <- MCLinesOf
    Leads = {"l1"}
    Calendar = {1, 2, 3}
    Deltas <- MCDeltas
    MaxStages = 3
INVARIANTS
    OwnEditSeen BackOnRow  WithinHours  StagesAccepted BookSettled
    WrittenWhereOpened  EditsGoWhereShown FiltersRemembered
    DialsMatchControls  ShownAsAsked
PROPERTIES
     ListSettles CacheKeepsPromise NothingPastLogout RedirectsSettle
