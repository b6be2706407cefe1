SPECIFICATION Spec
CONSTANTS
    Name = {n1}
    Blank = Blank
    PageSize = 1
    NumDisplay = 2
    NumEdge = 1
    MaxRole = 2
    MaxAjax = 2
INVARIANT TypeOK
INVARIANT TableFresh
INVARIANT LinksOfTheList
INVARIANT SavedOncePerOpening
PROPERTY OnlyMeantRowsChange
