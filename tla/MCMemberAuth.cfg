SPECIFICATION Spec
CONSTANTS
    Session = {s1}
    Thread = {t1, t2}
    Phone = {n1, n2}
    Account = {a1, a2, a3}
    MaxForm = 3
    MaxCode = 2
    Faults = {"crash", "redisDelete"}
    None = None
SYMMETRY MCSymmetry
CHECK_DEADLOCK FALSE
INVARIANT TypeOK
INVARIANT MemberHadCode
INVARIANT CodeUsesBounded
INVARIANT RegisteredOnce
INVARIANT LoginIsOfAccount
