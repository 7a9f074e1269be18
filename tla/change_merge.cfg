SPECIFICATION Spec
CONSTANTS
    s = s
    t = t
    a = a
    b = b
    author = author
    r1 = r1
    q1 = q1
    q2 = q2
    q3 = q3
    q4 = q4
    None = None
    Nodes = {s, t}
    Vals = {a, b}
    Present = {s}
    Pages <- Owns
    Users = {author, r1}
    Author = author
    Bypassers = {}
    Required = 1
    Proposals <- Changesets
    Requests = {q1, q2, q3}
    Ops <- AllOps
    Alone = {"amend"}
    Faults = {"refused", "lost"}
    MaxWrites = 1
SYMMETRY Alike
CHECK_DEADLOCK FALSE
INVARIANTS
    TypeOK
PROPERTIES
    ReviewedBeforeApplied
    MergedIsApplied
    RetryKeepsApproval
