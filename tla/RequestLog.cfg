\* Three logged requests and a poll for a ring of two: it wraps.
SPECIFICATION Spec
CONSTANTS
    Requests = {r1, r2, r3, p}
    Polling = {p}
    maxLogEntries = 2
INVARIANTS TypeOK RingIsTail RecentIsConsecutive LogsWhatWasSent
CHECK_DEADLOCK FALSE
