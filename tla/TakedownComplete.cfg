SPECIFICATION TakedownSpec
CONSTANTS
    Uploads = {p1, p2}
    Shelves = 2
    ShelfDay = 2
    GlobalDay = 2
    MaxTakedowns = 1
INVARIANTS
    TakedownIsComplete
CHECK_DEADLOCK FALSE
