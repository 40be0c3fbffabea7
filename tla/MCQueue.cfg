SPECIFICATION FairSpec
CONSTANTS
    depth = 3
    item_size = 2
    Items = {a, b}
    Nothing = Nothing
    ISR = TRUE
    MaxBurst = 3
    MaxSpurious = 1
    MaxRefused = 1
INVARIANTS
    NoStrandedItem
    FlagTellsFullFromEmpty
PROPERTIES
    ImplementsFifo
    Delivered
