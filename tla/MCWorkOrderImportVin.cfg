SPECIFICATION Spec
CONSTANTS
    car1 = car1
    car2 = car2
    x = x
    y = y
    None = None
    NOrders = 2
    Cars = {car1, car2}
    Contents = {x, y}
    Payloads <- MCPayloadsMoved
    Slots <- MCSlots
    s1 = s1
    s2 = s2
    LookedUp = {2}
    CHUNK_SIZE = 1
    MaxBatches = 2
    ImportsOverlap = FALSE
    CarsReassigned = TRUE
INVARIANTS
    FlagsRight
CHECK_DEADLOCK FALSE
