SPECIFICATION FairSpec
CONSTANTS
    Session = {s1, s2}
    Member = {m1, m2}
    Thread = {t1, t2}
    Description = {d1, d2}
    MaxDraft = 2
    MaxReturn = 2
    MaxPicture = 1
    MaxKey = 2
    Overlapping = FALSE
    Faults = {}
    None = None
INVARIANT ReturnKept
INVARIANT PublishedOnce
PROPERTY OrderableUntilIntroducedAnew
PROPERTY ConfirmedIsSaved
