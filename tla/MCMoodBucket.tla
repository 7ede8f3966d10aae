---------------------------- MODULE MCMoodBucket ----------------------------
(* Small instances of MoodBucket for TLC.                                  *)
EXTENDS MoodBucket, TLC

CONSTANTS t1, t2, a1, a2, notAnalysed, noRow, null

Scoring == INSTANCE MoodScoring WITH Null <- null

MCTracks == {t1, t2}

MCMoods == {"happy", "sad"}

MCAnalyses == {a1, a2}

\* The columns of a track analysed as a1 or a2: a1 in enhanced mode with
\* moodHappy 0.7 and moodSad 0.2, a2 in standard mode with no mood columns
\* and no tags, valence 0.3 in a major key.
MCColumns(a) ==
    [f \in Scoring!Fields |->
        CASE a = a1 /\ f = "moodHappy" -> 70
          [] a = a1 /\ f = "moodSad" -> 20
          [] a = a2 /\ f = "valence" -> 30
          [] a = a2 /\ f = "keyScale" -> "major"
          [] OTHER -> null]

\* calculateMoodScores on those columns: a1 scores 1.0 for happy and 0 for
\* sad, a2 0 for happy and 0.5 for sad.
MCScore ==
    [a \in MCAnalyses |->
        LET track == [analysisMode |-> IF a = a1 THEN "enhanced" ELSE "standard",
                      moodTags |-> {}, value |-> MCColumns(a)]
        IN  [m \in MCMoods |-> Scoring!CalculateMoodScores(track)[m]]]

=============================================================================
