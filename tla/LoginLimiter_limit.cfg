\* Three failures in three ticks, two requests at once. The clock is bounded, so
\* a run may stop.
CONSTANTS
    MaxFailures = 3
    Window = 3
    Throttle = 3
    MaxPending = 2
    MaxTime = 8
SPECIFICATION Spec
INVARIANTS TypeOK FailuresBounded ThrottledForCause
CHECK_DEADLOCK FALSE
