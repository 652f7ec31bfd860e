CONSTANTS
    HalfRange = 4
    Names = {n1}
    Values = {v1, v2}
    TypeOf <- AllDoubles
    Nil = Nil
    Unassigned = 3
    Nodes = {s, k1, k2}
    Servers = {s}
    Conns = {k1, k2}
    Clients = {k1, k2}
    Users = {u1}
    Objs = {1, 2}
    Calls = {"SetEntryValue", "SetEntryFlags", "DeleteEntry"}
    MaxCalls = 3
    MaxDrops = 0
    MaxRestarts = 0
SPECIFICATION SyncSpec
INVARIANT Convergence
VIEW ConvergenceView
SYMMETRY ClientSymmetry
CHECK_DEADLOCK FALSE
