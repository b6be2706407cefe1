SPECIFICATION Spec
CONSTANTS
    Owner = {r1, r2}
    Item = {a1, a2}
    Slot = {w1, w2}
    NoOwner = NoOwner
    MaxHandlers = 2
SYMMETRY MCSymmetry
INVARIANT TypeOK
INVARIANT TreeIsOfRole
INVARIANT SentOncePerOpening
PROPERTY CommitReplaces
PROPERTY SeenWhole
