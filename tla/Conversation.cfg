\* Two tools, five turns: two calls, their results or an interruption, and what follows.
SPECIFICATION Spec
CONSTANTS
    Ids = {"i1", "i2"}
    UserParts <- SomeParts
    ResultKinds = {"text", "both"}
    MaxTurns = 5
INVARIANTS NothingDangling NothingSaidIsLost ApisAgree
PROPERTIES PrefixIsStable
CHECK_DEADLOCK FALSE
