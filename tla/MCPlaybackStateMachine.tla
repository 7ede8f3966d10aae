----------------------- MODULE MCPlaybackStateMachine -----------------------
(* Small instances of PlaybackStateMachine for TLC.                        *)
EXTENDS PlaybackStateMachine, TLC

CONSTANTS l1, l2, deleted

MCListeners == {l1, l2}

MCOneListener == {l1}

=============================================================================
