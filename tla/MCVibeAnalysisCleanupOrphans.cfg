\* CLAP stalls on every attempt, workers that stamp the timestamp, no
\* database errors.
CONSTANTS
    t1 = t1
    t2 = t2
    w1 = w1
    w2 = w2
    none = none
    Tracks <- MCTracks
    NoTrack <- none
    Unlimited = unlimited
    VIBE_MAX_RETRIES = 3
    Workers <- MCWorkers
    Stalls = unlimited
    StampModes = {TRUE}
    MaxFaults = 0
SPECIFICATION Spec
PROPERTY AnalysisSettles
CHECK_DEADLOCK FALSE
