\* A start under way, or a request, outlasts the last Stop of the app.
SPECIFICATION GatewaySpec
CONSTANTS
    Callers = {c1, c2}
    Ports = {p1}
    Configured = p1
    Unix = FALSE
    MaxChildren = 2
    MaxCalls = 2
    MaxPolls = 1
    MaxTenancies = 0
INVARIANT NoChildOutlivesTheApp
CHECK_DEADLOCK FALSE
