\* Four events: two thinking blocks apart, a tool call between texts, an event
\* after finish, an error after content and after finish.
SPECIFICATION Spec
CONSTANT MaxEvents = 4
INVARIANTS ContentInOrder AgreesWithBuffered SignedThinking OneOutcome
PROPERTY FollowsProtocol
\* The turn stops once its last frame is written.
CHECK_DEADLOCK FALSE
