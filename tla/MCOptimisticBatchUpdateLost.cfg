\* Two callers each counting one finished album.
CONSTANTS
    w1 = w1  w2 = w2  w3 = w3
    Writers = {w1, w2}
    MaxRetries = 2
    StoreFaults = FALSE
SPECIFICATION Spec
INVARIANT NoLostIncrement
