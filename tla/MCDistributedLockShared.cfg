\* withLock through the process-wide singleton: two tasks share one token.
CONSTANTS
    t1 = t1  t2 = t2  t3 = t3
    i1 = i1  i2 = i2  i3 = i3
    Tasks = {t1, t2, t3}
    Instances = {i1, i2}
    InstanceOf <- MCInstancesShared
    Keys = {k1}
    NoToken = NoToken
    NoTask = NoTask
    StoreFaults = FALSE
SPECIFICATION Spec
INVARIANT MutualExclusion
