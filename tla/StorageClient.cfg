CONSTANTS
    HalfRange = 2
    Names = {n1}
    Doubles = {v1}
    Strings = {}
    Values <- AllValues
    TypeOf <- TypesOf
    Nil = Nil
    Unassigned = 2
    Nodes = {k}
    Servers = {k}
    Clients = {k}
    Conns = {c1}
    Users = {u1}
    Objs = {1, 2}
SPECIFICATION Spec
INVARIANTS EntryIdsResolve ServerIdMap
VIEW TablesView
