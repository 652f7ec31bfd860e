CONSTANTS
    HalfRange = 4
    Names = {n1, n2}
    Values = {v1, v2}
    TypeOf <- AllDoubles
    Nil = Nil
    Unassigned = 3
    Nodes = {s, k1}
    Servers = {s}
    Conns = {k1}
    Clients = {k1}
    Users = {u1}
    Objs = {1, 2}
    Calls = {"SetEntryValue", "SetEntryFlags", "DeleteEntry", "DeleteAllEntries"}
    MaxCalls = 3
    MaxDrops = 1
    MaxRestarts = 1
SPECIFICATION SyncSpec
INVARIANTS IdAgreement NoCrossTalk
VIEW IdView
CHECK_DEADLOCK FALSE
SYMMETRY ValueSymmetry
