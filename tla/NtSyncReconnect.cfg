CONSTANTS
    HalfRange = 4
    Names = {n1}
    Values = {v1, v2}
    TypeOf <- AllDoubles
    Nil = Nil
    Unassigned = 3
    Nodes = {s, k1}
    Servers = {s}
    Conns = {k1}
    Clients = {k1}
    Users = {u1, u2}
    Objs = {1, 2, 3}
    Calls = {"SetEntryTypeValue", "SetEntryFlags", "DeleteEntry"}
    MaxCalls = 3
    MaxDrops = 1
    MaxRestarts = 1
SPECIFICATION SyncSpec
INVARIANTS HandshakeUndisturbed Convergence
VIEW SyncView
CHECK_DEADLOCK FALSE
SYMMETRY ValueAndUserSymmetry
