\* Three concurrent calls, maxRetries = 1 so that a call can give up.
CONSTANTS
    w1 = w1  w2 = w2  w3 = w3
    Writers <- MCWriters
    MaxRetries = 1
    StoreFaults = TRUE
SYMMETRY Symmetry
SPECIFICATION Spec
INVARIANT TypeOK
INVARIANT VersionCountsCommits
INVARIANT RetriesWitnessChanges
