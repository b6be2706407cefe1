SPECIFICATION Spec
CONSTANTS
    o1 = o1
    o2 = o2
    k1 = k1
    k2 = k2
    Owner = {o1, o2}
    NoOwner = NoOwner
    Item = {r1, r2}
    Slot = {w1}
    Acct = {x1, x2}
    Password = {k1, k2}
    Chosen <- MCChosen
    NoPassword = NoPassword
SYMMETRY MCSymmetry
INVARIANT TypeOK
INVARIANT LoggedInByPassword
INVARIANT FormKeepsUnmoved
INVARIANT AuthsOfRoles
