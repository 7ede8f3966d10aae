\* One event delivered twice by Lidarr; nothing fails.
CONSTANTS
    e1 = e1
    e2 = e2
    Events = {e1}
    MaxDeliveries = 2
    MaxCrashes = 0
    StoreFaults = FALSE
    HandlerFaults = FALSE
    Retention = FALSE
SPECIFICATION Spec
INVARIANT ProcessedAtMostOnce
