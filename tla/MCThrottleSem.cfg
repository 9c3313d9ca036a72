SPECIFICATION Spec
CONSTANTS
    Request = {p1, p2, p3, p4}
    Limit = 2
    Backlog = 2
    MaxArrivals = 5
INVARIANTS
    CountsExact
    NoLostWakeup
PROPERTY
    ImplementsGate
CHECK_DEADLOCK FALSE
