SPECIFICATION Spec
CONSTANTS
    Session = {s1}
    Member = {m1}
    Thread = {t1, t2}
    Description = {d1}
    MaxDraft = 2
    MaxReturn = 2
    MaxPicture = 1
    MaxKey = 3
    Overlapping = TRUE
    Faults = {"upload", "database", "crash", "expire"}
    None = None
INVARIANT TypeOK
INVARIANT ReturnsOfDraftRead
INVARIANT PicturesUploaded
PROPERTY PublishesWhole
