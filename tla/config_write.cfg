SPECIFICATION Spec
CONSTANTS
    Nodes = {"s", "t", "idrac", "knode"}
    Existing = {"s", "t", "idrac"}
    ParentsOf <- ServerParts
    Owned = {"idrac"}
    Governed = {"idrac"}
    Vals = {"a", "b"}
    Asked <- Writes
    c1 = c1
    c2 = c2
    c3 = c3
    Clients = {c1, c2, c3}
    Privileged = {c1, c2}
    BlindFetch = TRUE
    None = None
SYMMETRY Alike
INVARIANTS TypeOK EdgesAreRepaired
PROPERTIES GuardedHitsWhatItRead  
CHECK_DEADLOCK FALSE
