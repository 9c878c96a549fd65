\* One child, ended by a signal, where processes report only a normal exit.
SPECIFICATION Spec
CONSTANTS
    Callers = {c1}
    Ports = {p1}
    Configured = p1
    Unix = TRUE
    MaxChildren = 1
    MaxCalls = 2
    MaxPolls = 2
    MaxTenancies = 0
PROPERTIES EnsureIsNotInVain
CHECK_DEADLOCK FALSE
