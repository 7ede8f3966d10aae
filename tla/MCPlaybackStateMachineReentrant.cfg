\* One listener that moves the machine (transition, forceTransition, reset)
\* from its own callback.
\* The player may stop calling the machine at any point: a state with no
\* call left is not an error.
CONSTANTS
    l1 = l1
    l2 = l2
    deleted = deleted
    Listeners <- MCOneListener
    NoListener <- deleted
    MaxCalls = 5
    Reentrant = {"state"}
SPECIFICATION Spec
INVARIANT ListenersSeeCurrentState
PROPERTY CallsCarryCurrentState
CHECK_DEADLOCK FALSE
