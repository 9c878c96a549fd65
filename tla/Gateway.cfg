\* Two callers, a fallback port, two children: a request besides a click.
SPECIFICATION GatewaySpec
CONSTANTS
    Callers = {c1, c2}
    Ports = {p1, p2}
    Configured = p1
    Unix = FALSE
    MaxChildren = 2
    MaxCalls = 3
    MaxPolls = 1
    MaxTenancies = 1
INVARIANT TargetIsCurrent
PROPERTY LastStopKillsAll
CHECK_DEADLOCK FALSE
