CONSTANTS
    o1 = o1
    o2 = o2
    o3 = o3
    o4 = o4
    o5 = o5
    Objects = {o1, o2, o3, o4, o5}
    Sources = {o1, o2, o3, o4}
    BufferSize = 4
    Hash <- CollidingHash
    HASH_EMPTY = HASH_EMPTY
    MaxPending = 3
SPECIFICATION Spec
INVARIANT SizeIsLoad
PROPERTY RecordsUntilCut
