SPECIFICATION Spec
CONSTANTS
    server = server
    idrac = idrac
    on = on
    text = text
    First <- Begin
    Batches <- Halves
    Items = {server, idrac}
    Elsewhere = Elsewhere
    Space = Space
    Vals = {on, text}
    Flags = {on}
    Clients = {c1}
    Jobs = {j1}
    MaxWrites = 1
    MaxRestores = 1
    MaxArtifacts = 2
    Faults = {"stage", "registry"}
    None = None
INVARIANTS TypeOK ShippedIsReviewed ShippedIsWhole DiffsAreExact
CHECK_DEADLOCK FALSE
