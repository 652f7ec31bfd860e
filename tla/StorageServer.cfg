CONSTANTS
    HalfRange = 2
    Names = {n1, n2}
    Doubles = {v1}
    Strings = {w1}
    Values <- AllValues
    TypeOf <- TypesOf
    Nil = Nil
    Unassigned = 2
    Nodes = {s}
    Servers = {s}
    Clients = {}
    Conns = {c1}
    Users = {u1}
    Objs = {1, 2}
SPECIFICATION Spec
INVARIANTS ViewMatches DirtyCoversChanges
PROPERTIES IdsNotReused ServerSeqForward
SYMMETRY TableSymmetry
VIEW ServerView
