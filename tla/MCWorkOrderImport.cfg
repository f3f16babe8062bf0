SPECIFICATION Spec
CONSTANTS
    car1 = car1
    car2 = car2
    x = x
    y = y
    None = None
    NOrders = 4
    Cars = {car1, car2}
    Contents = {x, y}
    Payloads <- MCPayloads
    Slots <- MCSlots
    s1 = s1
    s2 = s2
    LookedUp = {2}
    CHUNK_SIZE = 1
    MaxBatches = 3
    ImportsOverlap = FALSE
    CarsReassigned = FALSE
SYMMETRY SlotSymmetry
INVARIANTS
    TypeOK
    LinesMatchRow
    LatestSnapshotMatches
    FlagsRight
    CountsHonest
PROPERTIES
    ImportedStays
CHECK_DEADLOCK FALSE
