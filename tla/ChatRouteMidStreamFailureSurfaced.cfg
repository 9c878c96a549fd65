\* One retry, two lines per response.
SPECIFICATION RouteSpec
CONSTANTS
    Content = {"text", "reasoning"}
    Usable = {"text"}
    MaxRetries = 1
    MaxLines = 2
INVARIANT MidStreamFailureSurfaced
CHECK_DEADLOCK FALSE
