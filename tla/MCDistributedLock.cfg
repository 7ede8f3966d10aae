\* withLock with one DistributedLock object per task, two keys and Redis
\* faults on, checked for exclusion and against the ownership lock.
CONSTANTS
    t1 = t1  t2 = t2  t3 = t3
    i1 = i1  i2 = i2  i3 = i3
    Tasks = {t1, t2, t3}
    Instances = {i1, i2, i3}
    InstanceOf <- MCInstancesSeparate
    Keys = {k1, k2}
    NoToken = NoToken
    NoTask = NoTask
    StoreFaults = TRUE
SPECIFICATION Spec

INVARIANT MutualExclusion
PROPERTY ImplementsLockOwnership
