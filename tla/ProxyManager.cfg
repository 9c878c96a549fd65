\* Two callers, a fallback port, two children, another program on either port:
\* where processes report any end.
SPECIFICATION Spec
CONSTANTS
    Callers = {c1, c2}
    Ports = {p1, p2}
    Configured = p1
    Unix = FALSE
    MaxChildren = 2
    MaxCalls = 3
    MaxPolls = 2
    MaxTenancies = 1
INVARIANTS TypeOK OneLiveChild BaseFollowsChild
PROPERTIES EnsureIsNotInVain CallsReturn
CHECK_DEADLOCK FALSE
