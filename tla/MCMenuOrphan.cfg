SPECIFICATION Spec
CONSTANTS
    Text = {x1, x2}
    FirstMenus <- MCFirstMenus
    MaxMenu = 3
    MaxAjax = 2
CHECK_DEADLOCK FALSE
INVARIANT TreeWhole
