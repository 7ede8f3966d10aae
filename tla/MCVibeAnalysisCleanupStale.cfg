\* No CLAP stalls and no database errors: only the race between a slow
\* worker and the stale sweep.
CONSTANTS
    t1 = t1
    t2 = t2
    w1 = w1
    w2 = w2
    none = none
    Tracks <- MCTracks
    NoTrack <- none
    Unlimited = unlimited
    VIBE_MAX_RETRIES = 3
    Workers <- MCWorkers
    Stalls = 0
    StampModes = {TRUE}
    MaxFaults = 0
SPECIFICATION Spec
PROPERTY FinishedStaysFinished
CHECK_DEADLOCK FALSE
