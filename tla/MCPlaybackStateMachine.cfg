\* Two listeners that subscribe, unsubscribe and resubscribe between calls,
\* and do not call the machine from their callbacks.
\* The player may stop calling the machine at any point: a state with no
\* call left is not an error.
CONSTANTS
    l1 = l1
    l2 = l2
    deleted = deleted
    Listeners <- MCListeners
    NoListener <- deleted
    MaxCalls = 5
    Reentrant = {}
SPECIFICATION Spec
INVARIANT ListenersSeeCurrentState
CHECK_DEADLOCK FALSE
