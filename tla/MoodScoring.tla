----------------------------- MODULE MoodScoring -----------------------------
(***************************************************************************)
(* How the mood-bucket service scores a track for each mood               *)
(* (src/backend/src/services/moodBucketService.ts): MOOD_CONFIG,           *)
(* calculateMoodScores, calculateMoodScoresFromTags and evaluateMoodRules. *)
(*                                                                         *)
(* The scores and the features are kept in hundredths, so 0.35 is 35 and  *)
(* a bpm of 120 is 12000; every comparison of the code is then exact.  A  *)
(* rule set has one or two rules, so matchingRules / totalRules is 0, 50   *)
(* or 100 hundredths with no rounding.  A mood tag is a word with its      *)
(* capitalisation; toLowerCase keeps the word.  Display fields (name,      *)
(* color, icon) are left out.                                              *)
(*                                                                         *)
(* The module holds no state: MCMoodBucket takes its score table from     *)
(* CalculateMoodScores.                                                    *)
(***************************************************************************)
EXTENDS Integers, FiniteSetsExt

CONSTANT Null   \* a column that is null

\* The feature columns the rules read.
Fields == {"moodHappy", "moodSad", "moodRelaxed", "moodAggressive", "moodParty",
           "moodAcoustic", "moodElectronic", "valence", "energy", "arousal",
           "danceability", "acousticness", "instrumentalness", "bpm", "keyScale"}

VALID_MOODS == {"happy", "sad", "chill", "energetic", "party", "focus",
                "melancholy", "aggressive", "acoustic"}

\* A rule's condition: { min }, { max }, { min, max }, or a string to equal;
\* each is a set holding the bound, empty when the key is undefined.
AtLeast(lo) == [min |-> {lo}, max |-> {}, eq |-> {}]
AtMost(hi) == [min |-> {}, max |-> {hi}, eq |-> {}]
Between(lo, hi) == [min |-> {lo}, max |-> {hi}, eq |-> {}]
Equals(s) == [min |-> {}, max |-> {}, eq |-> {s}]

Config(keywords, primary, fallback) ==
    [moodTagKeywords |-> keywords, primary |-> primary, fallback |-> fallback]

MOOD_CONFIG == [
    happy |-> Config({"happy", "upbeat", "cheerful", "joyful", "positive"},
                     [moodHappy |-> AtLeast(50), moodSad |-> AtMost(40)],
                     [valence |-> AtLeast(60), energy |-> AtLeast(50)]),
    sad |-> Config({"sad", "melancholic", "melancholy", "dark", "somber"},
                   [moodSad |-> AtLeast(50), moodHappy |-> AtMost(40)],
                   [valence |-> AtMost(35), keyScale |-> Equals("minor")]),
    chill |-> Config({"relaxed", "chill", "calm", "mellow"},
                     [moodRelaxed |-> AtLeast(50), moodAggressive |-> AtMost(30)],
                     [energy |-> AtMost(50), arousal |-> AtMost(50)]),
    energetic |-> Config({"energetic", "powerful", "exciting"},
                         [arousal |-> AtLeast(60), energy |-> AtLeast(70)],
                         [bpm |-> AtLeast(12000), energy |-> AtLeast(70)]),
    party |-> Config({"party", "danceable", "groovy"},
                     [moodParty |-> AtLeast(50), danceability |-> AtLeast(60)],
                     [danceability |-> AtLeast(70), energy |-> AtLeast(60)]),
    focus |-> Config({"instrumental"},
                     [instrumentalness |-> AtLeast(50), moodRelaxed |-> AtLeast(30)],
                     [instrumentalness |-> AtLeast(50), energy |-> Between(20, 60)]),
    melancholy |-> Config({"sad", "melancholic", "emotional", "dark"},
                          [moodSad |-> AtLeast(40), valence |-> AtMost(40)],
                          [valence |-> AtMost(35), keyScale |-> Equals("minor")]),
    aggressive |-> Config({"aggressive", "angry"},
                          [moodAggressive |-> AtLeast(50)],
                          [energy |-> AtLeast(80), arousal |-> AtLeast(70)]),
    acoustic |-> Config({"acoustic"},
                        [moodAcoustic |-> AtLeast(50), moodElectronic |-> AtMost(40)],
                        [acousticness |-> AtLeast(60), energy |-> Between(30, 60)])]

\* A track as the queries select it: analysisMode, moodTags (a set of
\* [word, capitalised] tags) and the feature columns.
Lower(tag) == tag.word

-----------------------------------------------------------------------------
\* One rule: a string condition is compared with ===, a range with its
\* bounds, each bound absent or met.
Matches(value, cond) ==
    IF cond.eq # {}
       THEN value \in cond.eq
       ELSE /\ \A lo \in cond.min : value >= lo
            /\ \A hi \in cond.max : value <= hi

\* evaluateMoodRules: the share of the rules whose column is set and
\* matches; a null column counts as a rule that does not match.
EvaluateMoodRules(track, rules) ==
    LET matching == Quantify(DOMAIN rules,
                             LAMBDA f : track.value[f] # Null /\ Matches(track.value[f], rules[f]))
    IN  IF DOMAIN rules = {} THEN 0 ELSE (100 * matching) \div Cardinality(DOMAIN rules)

\* calculateMoodScoresFromTags: 0.3 for the first keyword found among the
\* lowercased tags and 0.2 for each further one, at most 1.0.
CalculateMoodScoresFromTags(tags) ==
    [m \in VALID_MOODS |->
        LET matchCount == Cardinality(MOOD_CONFIG[m].moodTagKeywords \cap {Lower(t) : t \in tags})
        IN  IF matchCount > 0 THEN Min({100, 30 + (matchCount - 1) * 20}) ELSE 0]

\* calculateMoodScores: the fallback rules when the track has neither
\* moodHappy/moodSad nor tags; the tags when it has tags only; otherwise the
\* primary rules in enhanced mode and the fallback rules in standard mode.
CalculateMoodScores(track) ==
    LET hasIndividualMoods == track.value["moodHappy"] # Null \/ track.value["moodSad"] # Null
        hasMoodTags == track.moodTags # {}
        isEnhanced == track.analysisMode = "enhanced"
    IN  CASE ~hasIndividualMoods /\ ~hasMoodTags ->
               [m \in VALID_MOODS |-> EvaluateMoodRules(track, MOOD_CONFIG[m].fallback)]
          [] ~hasIndividualMoods /\ hasMoodTags ->
               CalculateMoodScoresFromTags(track.moodTags)
          [] OTHER ->
               [m \in VALID_MOODS |->
                   EvaluateMoodRules(track, IF isEnhanced THEN MOOD_CONFIG[m].primary
                                                          ELSE MOOD_CONFIG[m].fallback)]

=============================================================================
