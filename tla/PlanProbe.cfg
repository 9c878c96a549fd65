\* More models than slots: one goroutine has to wait.
SPECIFICATION PlanSpec
CONSTANTS
    Models = {m1, m2, m3, m4}
    Slots = 3
INVARIANTS EveryModelHasAVerdict FewAskLate
PROPERTY PlanReturns
CHECK_DEADLOCK FALSE
