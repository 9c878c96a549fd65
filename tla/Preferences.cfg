\* Two clicks at a time, three in all, two restarts, one edit.
SPECIFICATION Spec
CONSTANTS
    Clicks = {c1, c2}
    MaxClicks = 3
    MaxLaunches = 3
    MaxEdits = 1
INVARIANT TypeOK
PROPERTIES RestartAsLeft PortFollowsEdit
CHECK_DEADLOCK FALSE
