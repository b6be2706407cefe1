SPECIFICATION FairSpec
CONSTANTS
    Session = {s1}
    Thread = {t1}
    p1 = p1
    p2 = p2
    r1 = r1
    r2 = r2
    Project = {p1, p2}
    Return = {r1, r2}
    ProjectOf <- MCProjectOf
    SupportPrice <- MCSupportPrice
    Freight <- MCFreight
    Limit <- MCLimit
    Count = {3}
    IntHalf = 8
    OrderAmountLimit = 100
    MaxOrders = 2
    MaxCredits = 2
    MaxAddress = 1
    Subscribed = {"completed"}
    Faults = {"ackLost"}
    None = None
INVARIANT MoneyMatchesCredits
INVARIANT PaidToProjectOfReturn
PROPERTY CapturedIsBooked
