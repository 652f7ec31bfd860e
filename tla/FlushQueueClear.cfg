CONSTANTS
    HalfRange = 2
    Names = {n1}
    Values = {v1, v2}
    Nil = Nil
    Unassigned = 2
    MaxPending = 4
SPECIFICATION FlushSpec
INVARIANT ClearKeepsPersistent
