\* Two tracks, two workers that may die at any point, one database error,
\* one CLAP stall, workers that stamp vibeAnalysisStatusUpdatedAt.  When
\* every track is settled and no worker is busy the sweeps find nothing and
\* the system rests: deadlock is not an error.
CONSTANTS
    t1 = t1
    t2 = t2
    w1 = w1
    w2 = w2
    none = none
    Tracks <- MCTracks
    NoTrack <- none
    Unlimited = unlimited
    VIBE_MAX_RETRIES = 3
    Workers <- MCWorkers
    Stalls = 1
    StampModes = {TRUE}
    MaxFaults = 1
SPECIFICATION Spec
PROPERTY AnalysisSettles
CHECK_DEADLOCK FALSE
