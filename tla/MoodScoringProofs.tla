------------------------- MODULE MoodScoringProofs -------------------------
(***************************************************************************)
(* Facts about the scoring operators of MoodScoring, for every track: the  *)
(* scores calculateMoodScores gives lie in 0 .. 100 hundredths, the range  *)
(* of the moodScore column and the Score table MoodBucket assumes.        *)
(***************************************************************************)
EXTENDS MoodScoring, FiniteSetTheorems, TLAPS

(* A set written out with one to five elements is finite.              *)
LEMMA FiniteLiteral ==
    /\ \A a : IsFiniteSet({a})
    /\ \A a, b : IsFiniteSet({a, b})
    /\ \A a, b, c : IsFiniteSet({a, b, c})
    /\ \A a, b, c, d : IsFiniteSet({a, b, c, d})
    /\ \A a, b, c, d, e : IsFiniteSet({a, b, c, d, e})
<1>1. \A a : IsFiniteSet({a})
  BY FS_Singleton
<1>2. \A a, b : IsFiniteSet({a, b})
  <2> TAKE a, b
  <2>1. IsFiniteSet({a} \cup {b})
    BY <1>1, FS_AddElement
  <2> QED
    BY <2>1
<1>3. \A a, b, c : IsFiniteSet({a, b, c})
  <2> TAKE a, b, c
  <2>1. IsFiniteSet({a, b} \cup {c})
    BY <1>2, FS_AddElement
  <2> QED
    BY <2>1
<1>4. \A a, b, c, d : IsFiniteSet({a, b, c, d})
  <2> TAKE a, b, c, d
  <2>1. IsFiniteSet({a, b, c} \cup {d})
    BY <1>3, FS_AddElement
  <2> QED
    BY <2>1
<1>5. \A a, b, c, d, e : IsFiniteSet({a, b, c, d, e})
  <2> TAKE a, b, c, d, e
  <2>1. IsFiniteSet({a, b, c, d} \cup {e})
    BY <1>4, FS_AddElement
  <2> QED
    BY <2>1
<1>6. QED
  BY <1>1, <1>2, <1>3, <1>4, <1>5

(* The keyword lists and the rule sets of MOOD_CONFIG are finite.          *)
LEMMA ConfigFinite ==
    ASSUME NEW m \in VALID_MOODS
    PROVE  /\ IsFiniteSet(MOOD_CONFIG[m].moodTagKeywords)
           /\ IsFiniteSet(DOMAIN MOOD_CONFIG[m].primary)
           /\ IsFiniteSet(DOMAIN MOOD_CONFIG[m].fallback)
<1>1. CASE m = "happy"
  <2>1. /\ MOOD_CONFIG[m].moodTagKeywords = {"happy", "upbeat", "cheerful", "joyful", "positive"}
        /\ DOMAIN MOOD_CONFIG[m].primary = {"moodHappy", "moodSad"}
        /\ DOMAIN MOOD_CONFIG[m].fallback = {"valence", "energy"}
    BY <1>1 DEF MOOD_CONFIG, Config
  <2>2. IsFiniteSet({"happy", "upbeat", "cheerful", "joyful", "positive"})
    BY FiniteLiteral
  <2>3. IsFiniteSet({"moodHappy", "moodSad"}) /\ IsFiniteSet({"valence", "energy"})
    BY FiniteLiteral
  <2>4. QED
    BY <2>1, <2>2, <2>3
<1>2. CASE m = "sad"
  <2>1. /\ MOOD_CONFIG[m].moodTagKeywords = {"sad", "melancholic", "melancholy", "dark", "somber"}
        /\ DOMAIN MOOD_CONFIG[m].primary = {"moodSad", "moodHappy"}
        /\ DOMAIN MOOD_CONFIG[m].fallback = {"valence", "keyScale"}
    BY <1>2 DEF MOOD_CONFIG, Config
  <2>2. IsFiniteSet({"sad", "melancholic", "melancholy", "dark", "somber"})
    BY FiniteLiteral
  <2>3. IsFiniteSet({"moodSad", "moodHappy"}) /\ IsFiniteSet({"valence", "keyScale"})
    BY FiniteLiteral
  <2>4. QED
    BY <2>1, <2>2, <2>3
<1>3. CASE m = "chill"
  <2>1. /\ MOOD_CONFIG[m].moodTagKeywords = {"relaxed", "chill", "calm", "mellow"}
        /\ DOMAIN MOOD_CONFIG[m].primary = {"moodRelaxed", "moodAggressive"}
        /\ DOMAIN MOOD_CONFIG[m].fallback = {"energy", "arousal"}
    BY <1>3 DEF MOOD_CONFIG, Config
  <2>2. IsFiniteSet({"relaxed", "chill", "calm", "mellow"})
    BY FiniteLiteral
  <2>3. IsFiniteSet({"moodRelaxed", "moodAggressive"}) /\ IsFiniteSet({"energy", "arousal"})
    BY FiniteLiteral
  <2>4. QED
    BY <2>1, <2>2, <2>3
<1>4. CASE m = "energetic"
  <2>1. /\ MOOD_CONFIG[m].moodTagKeywords = {"energetic", "powerful", "exciting"}
        /\ DOMAIN MOOD_CONFIG[m].primary = {"arousal", "energy"}
        /\ DOMAIN MOOD_CONFIG[m].fallback = {"bpm", "energy"}
    BY <1>4 DEF MOOD_CONFIG, Config
  <2>2. IsFiniteSet({"energetic", "powerful", "exciting"})
    BY FiniteLiteral
  <2>3. IsFiniteSet({"arousal", "energy"}) /\ IsFiniteSet({"bpm", "energy"})
    BY FiniteLiteral
  <2>4. QED
    BY <2>1, <2>2, <2>3
<1>5. CASE m = "party"
  <2>1. /\ MOOD_CONFIG[m].moodTagKeywords = {"party", "danceable", "groovy"}
        /\ DOMAIN MOOD_CONFIG[m].primary = {"moodParty", "danceability"}
        /\ DOMAIN MOOD_CONFIG[m].fallback = {"danceability", "energy"}
    BY <1>5 DEF MOOD_CONFIG, Config
  <2>2. IsFiniteSet({"party", "danceable", "groovy"})
    BY FiniteLiteral
  <2>3. IsFiniteSet({"moodParty", "danceability"}) /\ IsFiniteSet({"danceability", "energy"})
    BY FiniteLiteral
  <2>4. QED
    BY <2>1, <2>2, <2>3
<1>6. CASE m = "focus"
  <2>1. /\ MOOD_CONFIG[m].moodTagKeywords = {"instrumental"}
        /\ DOMAIN MOOD_CONFIG[m].primary = {"instrumentalness", "moodRelaxed"}
        /\ DOMAIN MOOD_CONFIG[m].fallback = {"instrumentalness", "energy"}
    BY <1>6 DEF MOOD_CONFIG, Config
  <2>2. IsFiniteSet({"instrumental"})
    BY FiniteLiteral
  <2>3. IsFiniteSet({"instrumentalness", "moodRelaxed"}) /\ IsFiniteSet({"instrumentalness", "energy"})
    BY FiniteLiteral
  <2>4. QED
    BY <2>1, <2>2, <2>3
<1>7. CASE m = "melancholy"
  <2>1. /\ MOOD_CONFIG[m].moodTagKeywords = {"sad", "melancholic", "emotional", "dark"}
        /\ DOMAIN MOOD_CONFIG[m].primary = {"moodSad", "valence"}
        /\ DOMAIN MOOD_CONFIG[m].fallback = {"valence", "keyScale"}
    BY <1>7 DEF MOOD_CONFIG, Config
  <2>2. IsFiniteSet({"sad", "melancholic", "emotional", "dark"})
    BY FiniteLiteral
  <2>3. IsFiniteSet({"moodSad", "valence"}) /\ IsFiniteSet({"valence", "keyScale"})
    BY FiniteLiteral
  <2>4. QED
    BY <2>1, <2>2, <2>3
<1>8. CASE m = "aggressive"
  <2>1. /\ MOOD_CONFIG[m].moodTagKeywords = {"aggressive", "angry"}
        /\ DOMAIN MOOD_CONFIG[m].primary = {"moodAggressive"}
        /\ DOMAIN MOOD_CONFIG[m].fallback = {"energy", "arousal"}
    BY <1>8 DEF MOOD_CONFIG, Config
  <2>2. IsFiniteSet({"aggressive", "angry"})
    BY FiniteLiteral
  <2>3. IsFiniteSet({"moodAggressive"}) /\ IsFiniteSet({"energy", "arousal"})
    BY FiniteLiteral
  <2>4. QED
    BY <2>1, <2>2, <2>3
<1>9. CASE m = "acoustic"
  <2>1. /\ MOOD_CONFIG[m].moodTagKeywords = {"acoustic"}
        /\ DOMAIN MOOD_CONFIG[m].primary = {"moodAcoustic", "moodElectronic"}
        /\ DOMAIN MOOD_CONFIG[m].fallback = {"acousticness", "energy"}
    BY <1>9 DEF MOOD_CONFIG, Config
  <2>2. IsFiniteSet({"acoustic"})
    BY FiniteLiteral
  <2>3. IsFiniteSet({"moodAcoustic", "moodElectronic"}) /\ IsFiniteSet({"acousticness", "energy"})
    BY FiniteLiteral
  <2>4. QED
    BY <2>1, <2>2, <2>3
<1>10. QED
  BY <1>1, <1>2, <1>3, <1>4, <1>5, <1>6, <1>7, <1>8, <1>9 DEF VALID_MOODS

(* A share of n rules in hundredths, of k <= n matching, is 0 .. 100.     *)
LEMMA ShareBound ==
    ASSUME NEW k \in Nat, NEW n \in Nat, n > 0, k <= n
    PROVE  (100 * k) \div n \in 0 .. 100
<1> DEFINE q == (100 * k) \div n
<1>1. q \in Nat /\ q * n <= 100 * k
  BY SMT
<1>2. 100 * k <= 100 * n
  BY SMT
<1>3. q <= 100
  <2> SUFFICES ASSUME q > 100 PROVE FALSE
    BY <1>1
  <2>1. q * n >= 101 * n
    BY <1>1, SMT
  <2> QED
    BY <1>1, <1>2, <2>1, SMT
<1> QED
  BY <1>1, <1>3

(* evaluateMoodRules gives a share of the rules in hundredths: at most    *)
(* all of them match, so the score is between 0 and 100.                   *)
LEMMA RulesScoreRange ==
    ASSUME NEW track, NEW rules, IsFiniteSet(DOMAIN rules)
    PROVE  EvaluateMoodRules(track, rules) \in 0 .. 100
<1> DEFINE D == DOMAIN rules
           S == {f \in D : track.value[f] # Null /\ Matches(track.value[f], rules[f])}
<1>1. CASE D = {}
  BY <1>1 DEF EvaluateMoodRules
<1>2. CASE D # {}
  <2>1. Cardinality(D) \in Nat /\ Cardinality(D) # 0
    BY <1>2, FS_CardinalityType, FS_EmptySet
  <2>2. Cardinality(S) \in Nat /\ Cardinality(S) <= Cardinality(D)
    BY FS_Subset, FS_CardinalityType
  <2>3. (100 * Cardinality(S)) \div Cardinality(D) \in 0 .. 100
    BY <2>1, <2>2, ShareBound
  <2>4. QED
    BY <1>2, <2>3 DEF EvaluateMoodRules, Quantify
<1>3. QED
  BY <1>1, <1>2

(* calculateMoodScoresFromTags gives 0, or 0.3 plus 0.2 per further       *)
(* keyword capped at 1.0: between 0 and 100 hundredths.                    *)
LEMMA TagScoreRange ==
    ASSUME NEW tags
    PROVE  CalculateMoodScoresFromTags(tags) \in [VALID_MOODS -> 0 .. 100]
<1> SUFFICES ASSUME NEW m \in VALID_MOODS
             PROVE  CalculateMoodScoresFromTags(tags)[m] \in 0 .. 100
  BY DEF CalculateMoodScoresFromTags
<1> DEFINE K == MOOD_CONFIG[m].moodTagKeywords \cap {Lower(t) : t \in tags}
           n == Cardinality(K)
<1>1. n \in Nat
  BY ConfigFinite, FS_Intersection, FS_CardinalityType
<1>2. CASE n > 0
  <2>1. 30 + (n - 1) * 20 \in Nat
    BY <1>1, <1>2
  <2>2. Min({100, 30 + (n - 1) * 20}) \in 0 .. 100
    BY <2>1 DEF Min
  <2>3. QED
    BY <1>2, <2>2 DEF CalculateMoodScoresFromTags
<1>3. CASE ~(n > 0)
  BY <1>3 DEF CalculateMoodScoresFromTags
<1>4. QED
  BY <1>2, <1>3

(* Every score calculateMoodScores gives a track lies between 0 and 1.0,  *)
(* whichever of its three paths (fallback rules, tags, primary or          *)
(* fallback by analysis mode) the track's columns select: the Score table  *)
(* of MoodBucket, which the mood buckets and their proofs rest on, is a    *)
(* table of such scores.                                                   *)
THEOREM ScoresAreHundredths ==
    ASSUME NEW track
    PROVE  CalculateMoodScores(track) \in [VALID_MOODS -> 0 .. 100]
<1>1. \A m \in VALID_MOODS :
         /\ EvaluateMoodRules(track, MOOD_CONFIG[m].primary) \in 0 .. 100
         /\ EvaluateMoodRules(track, MOOD_CONFIG[m].fallback) \in 0 .. 100
  BY ConfigFinite, RulesScoreRange
<1>2. CalculateMoodScoresFromTags(track.moodTags) \in [VALID_MOODS -> 0 .. 100]
  BY TagScoreRange
<1>3. QED
  BY <1>1, <1>2 DEF CalculateMoodScores

=============================================================================
