\* Two accounts, two clicks at a time, four actions, two logins, a failure or a crash.
SPECIFICATION Spec
CONSTANTS
    Accounts = {a, b}
    Keys = {k1, k2}
    Clicks = {c1, c2}
    MaxActions = 4
    MaxLogins = 2
    MaxMishaps = 1
SYMMETRY Symmetry
CONSTRAINT Unanswered
INVARIANTS SwitchIsComplete DeleteProtects ListedIsUsable RequestIsSeamless
CHECK_DEADLOCK FALSE
