\* Three tasks with locks of their own on one key, no Redis faults: the TTL
\* of the first runs out while its callback is still running.
CONSTANTS
    t1 = t1  t2 = t2  t3 = t3
    i1 = i1  i2 = i2  i3 = i3
    Tasks = {t1, t2, t3}
    Instances = {i1, i2, i3}
    InstanceOf <- MCInstancesSeparate
    Keys = {k1}
    NoToken = NoToken
    NoTask = NoTask
    StoreFaults = FALSE
SPECIFICATION Spec
INVARIANT CallbacksSerialized
