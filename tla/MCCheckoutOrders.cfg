SPECIFICATION Spec
CONSTANTS
    Session = {s1}
    Thread = {t1, t2}
    p1 = p1
    p2 = p2
    r1 = r1
    r2 = r2
    Project = {p1, p2}
    Return = {r1}
    ProjectOf <- MCProjectOf
    SupportPrice <- MCSupportPrice
    Freight <- MCFreight
    Limit <- MCLimited
    Count = {6}
    IntHalf = 8
    OrderAmountLimit = 5
    MaxOrders = 2
    MaxCredits = 1
    MaxAddress = 0
    Subscribed = {"completed"}
    Faults = {"expire", "crash", "replyLost"}
    None = None
INVARIANT OrderInv
INVARIANT OrderRecordedOncePerPayment
INVARIANT DetailMatchesOrder
PROPERTY RefinesFunding
