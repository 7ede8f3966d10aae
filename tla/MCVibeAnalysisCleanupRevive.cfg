\* CLAP stalls, workers that stamp the timestamp, no database errors: the
\* two sweeps racing on one track.
CONSTANTS
    t1 = t1
    t2 = t2
    w1 = w1
    w2 = w2
    none = none
    Tracks <- MCTracks
    NoTrack <- none
    Unlimited = unlimited
    VIBE_MAX_RETRIES = 3
    Workers <- MCWorkers
    Stalls = unlimited
    StampModes = {TRUE}
    MaxFaults = 0
SPECIFICATION Spec
PROPERTY OrphanResetOnlyOrphans
CHECK_DEADLOCK FALSE
