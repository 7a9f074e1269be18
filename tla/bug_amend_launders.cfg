SPECIFICATION Spec
CONSTANTS
    s = s
    t = t
    a = a
    b = b
    author = author
    r1 = r1
    q1 = q1
    q2 = q2
    q3 = q3
    q4 = q4
    None = None
    Nodes = {s, t}
    Vals = {a, b}
    Present = {s}
    Pages <- Owns
    Users = {author, r1}
    Author = author
    Bypassers = {}
    Required = 1
    Proposals <- Rivals
    Requests = {q1, q2, q3, q4}
    Ops = {"approve", "amend", "merge"}
    Alone = {}
    Faults = {}
    MaxWrites = 0
SYMMETRY Alike
CHECK_DEADLOCK FALSE
PROPERTIES
    ReviewedBeforeApplied
