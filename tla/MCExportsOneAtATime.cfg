SPECIFICATION Spec
CONSTANTS
    x1 = x1
    x2 = x2
    a1 = a1
    w1 = w1
    w2 = w2
    Exports = {x1, x2}
    Admins = {a1}
    Workers = {w1}
    NoExport = NoExport
    Nobody = Nobody
    MaxAttempts = 2
    MaxReady = 1
    MaxReplays = 0
    Kinds = {FALSE}
SYMMETRY Symmetry
INVARIANTS
    OneAtATime
