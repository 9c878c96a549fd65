\* Both APIs, streamed and buffered, every refusal.  Two retries and two complete lines
\* per response: a retry after a dropped event, a second failure, and content split
\* from the failure by one line.
SPECIFICATION RouteSpec
CONSTANTS
    Content = {"text", "reasoning"}
    Usable = {"text"}
    MaxRetries = 2
    MaxLines = 2
INVARIANTS TypeOK OneResponse FailsBeforeContent BodyReleased NothingLost HonestStatus
PROPERTIES NoLatePost ImplementsContract HangUpEnds EveryRequestAnswered
\* The request ends once its handler has returned.
CHECK_DEADLOCK FALSE
