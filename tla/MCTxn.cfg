CONSTANTS
    Contexts = {c1, c2, c3}
    Fields = {f1, f2}
    Values = {v1, v2}
    TxnMod = 3
    NoContext = NoContext
    Unread = Unread
SPECIFICATION Spec
SYMMETRY Symmetry
INVARIANTS TypeOK CommitExclusive
PROPERTIES GrantedSnapshotIsCurrent RefusedOnlyOnConflict
