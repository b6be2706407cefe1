SPECIFICATION FairSpec
CONSTANTS
    Session = {s1}
    Thread = {t1}
    p1 = p1
    p2 = p2
    r1 = r1
    r2 = r2
    Project = {p1, p2}
    Return = {r2}
    ProjectOf <- MCProjectOf
    SupportPrice <- MCSupportPrice
    Freight <- MCFreight
    Limit <- MCLimit
    Count = {}
    IntHalf = 8
    OrderAmountLimit = 100
    MaxOrders = 2
    MaxCredits = 2
    MaxAddress = 0
    Subscribed = {"pending", "completed"}
    Faults = {"crash", "ackLost", "database"}
    None = None
INVARIANT CreditOnlyCompleted
PROPERTY CompletedIsCredited
PROPERTY RefinesFundingFairly
