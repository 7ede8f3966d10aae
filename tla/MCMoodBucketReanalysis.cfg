\* A track analysed a second time while its first assignment is running.
\* When every call has returned and the backfill has ended nothing is left
\* to do: a final state is not an error.
CONSTANTS
    t1 = t1
    t2 = t2
    a1 = a1
    a2 = a2
    notAnalysed = notAnalysed
    noRow = noRow
    null = null
    Tracks <- MCTracks
    Moods <- MCMoods
    Analyses <- MCAnalyses
    Score <- MCScore
    NotAnalysed <- notAnalysed
    NoRow <- noRow
    BatchSize = 2
    MaxAnalyses = 3
    Reanalysis = TRUE
    MixLimit = 1
    MaxWriteFaults = 0
SPECIFICATION Spec
INVARIANT BucketsMatchAnalysis
CHECK_DEADLOCK FALSE
