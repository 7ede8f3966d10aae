\* Two events, each delivered up to twice, one restart, the retention sweep;
\* every store call, handler and mark may throw.
CONSTANTS
    e1 = e1
    e2 = e2
    Events <- MCEvents
    MaxDeliveries = 2
    MaxCrashes = 1
    StoreFaults = TRUE
    HandlerFaults = TRUE
    Retention = TRUE
SPECIFICATION Spec
SYMMETRY Symmetry

INVARIANT AckedIsDurable
