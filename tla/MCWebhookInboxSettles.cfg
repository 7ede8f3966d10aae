\* No restart and a reliable event store; handlers may throw.  Deliveries
\* are not fair: Lidarr may stop sending at any point.
CONSTANTS
    e1 = e1
    e2 = e2
    Events <- MCEvents
    MaxDeliveries = 2
    MaxCrashes = 0
    StoreFaults = FALSE
    HandlerFaults = TRUE
    Retention = TRUE
SPECIFICATION Spec
PROPERTY StoredEventuallySettled
