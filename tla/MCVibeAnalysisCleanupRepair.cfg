\* One CLAP stall, one worker that may or may not write the timestamp, no
\* database errors.  Deadlock is not an error: with every track settled the
\* sweeps find nothing.
CONSTANTS
    t1 = t1
    t2 = t2
    w1 = w1
    w2 = w2
    none = none
    Tracks <- MCTracks
    NoTrack <- none
    Unlimited = unlimited
    VIBE_MAX_RETRIES = 3
    Workers <- MCOneWorker
    Stalls = 1
    StampModes = {TRUE, FALSE}
    MaxFaults = 0
SPECIFICATION Spec
PROPERTY StalledEventuallyRepaired
CHECK_DEADLOCK FALSE
