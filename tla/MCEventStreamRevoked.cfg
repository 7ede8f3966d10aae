\* Three requests, two of one user, one logout per user.
CONSTANTS
    c1 = c1
    c2 = c2
    c3 = c3
    u1 = u1
    u2 = u2
    Conns <- MCConns
    Users <- MCUsers
    UserOf <- MCUserOf
    MaxRevokes = 1
SPECIFICATION Spec
INVARIANT NoEventAfterRevocation
