----------------------- MODULE MCVibeAnalysisCleanup -----------------------
(* Small instances of VibeAnalysisCleanup for TLC.                         *)
EXTENDS VibeAnalysisCleanup, TLC

CONSTANTS t1, t2, w1, w2, none

MCTracks == {t1, t2}

MCWorkers == {w1, w2}

MCOneWorker == {w1}

=============================================================================
