------------------------------ MODULE MoodBucket ------------------------------
(***************************************************************************)
(* The mood-bucket service (src/backend/src/services/moodBucketService.ts): *)
(* the MoodBucket rows (track, mood, score) written by assignTrackToMoods  *)
(* after each audio analysis and by backfillAllTracks, and read by         *)
(* saveUserMoodMix into the user's saved mix.                              *)
(*                                                                         *)
(* An analysis result is a model value; Score[a][m] is the score that     *)
(* calculateMoodScores gives mood m for a track analysed as a (0 is no     *)
(* match).  Every await is a step: assignTrackToMoods reads the track,     *)
(* then its upserts and deletes run concurrently under Promise.all, one    *)
(* row each; backfillAllTracks reads a page with skip/take and no orderBy, *)
(* so each page comes from an ordering of the completed tracks that the    *)
(* database may choose afresh, then awaits each track's upserts in turn.   *)
(* Neither runs in a transaction or retries: a write of Promise.all may    *)
(* reject, which rejects the call while the writes already started still   *)
(* land.                                                                   *)
(***************************************************************************)
EXTENDS Naturals, FiniteSets

CONSTANTS
    Tracks,        \* track ids
    Moods,         \* mood names (a subset of VALID_MOODS)
    Analyses,      \* analysis results
    Score,         \* Score[a][m]: calculateMoodScores(track analysed as a)[m]
    NotAnalysed,   \* analysisStatus is not "completed"
    NoRow,         \* no MoodBucket row for (track, mood)
    BatchSize,     \* backfillAllTracks(batchSize)
    MaxAnalyses,   \* analysis completions, each followed by assignTrackToMoods
    Reanalysis,    \* whether a completed track may be analysed again
    MixLimit,      \* saveUserMoodMix(userId, mood, limit)
    MaxWriteFaults \* MoodBucket writes that reject

(* Tracks is finite, Score \in [Analyses -> [Moods -> Nat]], NotAnalysed  *)
(* is not an analysis and NoRow not a number, BatchSize and MixLimit are   *)
(* positive, Reanalysis is a Boolean and the bounds are naturals.          *)

Calls == 1 .. MaxAnalyses

\* The bucket row an analysis calls for: a score, or none when it is 0.
Expected(a, m) == IF a # NotAnalysed /\ Score[a][m] > 0 THEN Score[a][m] ELSE NoRow

\* The positive moods of an analysis, as backfill's filter keeps them.
Positive(a) == {m \in Moods : Score[a][m] > 0}

VARIABLES
    features,   \* features[t]: the analysis a completed track holds
    bucket,     \* bucket[t][m]: the MoodBucket row's score, or NoRow
    assign,     \* assign[k]: the k-th assignTrackToMoods call
    bf,         \* the backfill loop
    mix,        \* the user's saved UserMoodMix
    mixRead,    \* saveUserMoodMix between getMoodMix and the upsert
    analyses,   \* analysis completions so far
    faults      \* rejected MoodBucket writes so far

vars == << features, bucket, assign, bf, mix, mixRead, analyses, faults >>

AssignStages == {"unstarted", "reading", "writing", "done"}

\* Backfill: the stage, the skip offset, the tracks of the current page with
\* the analysis read for each, the upserts of the current track still
\* pending, the completed tracks when it started and those it processed.
BackfillRecords ==
    [stage : {"idle", "query", "tracks", "done", "failed"}, skip : Nat,
     page : [Tracks -> Analyses \cup {NotAnalysed}],
     writes : SUBSET (Tracks \X Moods \X Nat),
     start : SUBSET Tracks, processed : SUBSET Tracks]

TypeOK ==
    /\ features \in [Tracks -> Analyses \cup {NotAnalysed}]
    /\ bucket \in [Tracks -> [Moods -> Nat \cup {NoRow}]]
    /\ assign \in [Calls -> [t : Tracks \cup {NotAnalysed}, stage : AssignStages,
                             a : Analyses \cup {NotAnalysed}, pending : SUBSET Moods]]
    /\ bf \in BackfillRecords
    /\ mix \in [mood : Moods \cup {NoRow}, tracks : SUBSET Tracks]
    /\ mixRead \in [mood : Moods \cup {NoRow}, tracks : SUBSET Tracks]
    /\ analyses \in 0 .. MaxAnalyses
    /\ faults \in 0 .. MaxWriteFaults

Init ==
    /\ features = [t \in Tracks |-> NotAnalysed]
    /\ bucket = [t \in Tracks |-> [m \in Moods |-> NoRow]]
    /\ assign = [k \in Calls |-> [t |-> NotAnalysed, stage |-> "unstarted",
                                  a |-> NotAnalysed, pending |-> {}]]
    /\ bf = [stage |-> "idle", skip |-> 0,
             page |-> [t \in Tracks |-> NotAnalysed], writes |-> {},
             start |-> {}, processed |-> {}]
    /\ mix = [mood |-> NoRow, tracks |-> {}]
    /\ mixRead = [mood |-> NoRow, tracks |-> {}]
    /\ analyses = 0
    /\ faults = 0

Completed == {t \in Tracks : features[t] # NotAnalysed}

-----------------------------------------------------------------------------
\* The audio analyser (not in this repository) stores a result for t and
\* then calls assignTrackToMoods(t).
Analyse(t, a) ==
    /\ analyses < MaxAnalyses
    /\ features[t] = NotAnalysed \/ Reanalysis
    /\ features' = [features EXCEPT ![t] = a]
    /\ analyses' = analyses + 1
    /\ assign' = [assign EXCEPT ![analyses + 1] =
                     [t |-> t, stage |-> "reading", a |-> NotAnalysed, pending |-> {}]]
    /\ UNCHANGED << bucket, bf, mix, mixRead, faults >>

\* findUnique and calculateMoodScores; a track not completed returns []
\* (lines 148-184).  Otherwise one upsert or deleteMany per mood is started.
AssignRead(k) ==
    LET t == assign[k].t IN
    /\ assign[k].stage = "reading"
    /\ assign' = [assign EXCEPT ![k] =
                    IF features[t] = NotAnalysed
                       THEN [@ EXCEPT !.stage = "done"]
                       ELSE [@ EXCEPT !.stage = "writing", !.a = features[t],
                                      !.pending = Moods]]
    /\ UNCHANGED << features, bucket, bf, mix, mixRead, analyses, faults >>

\* One of Promise.all's writes lands: the upsert of a positive score, or
\* the deleteMany of a zero one (lines 186-209).  The call returns when the
\* last one has.
AssignWrite(k, m) ==
    LET c == assign[k] IN
    /\ c.stage = "writing"
    /\ m \in c.pending
    /\ bucket' = [bucket EXCEPT ![c.t][m] = Expected(c.a, m)]
    /\ assign' = [assign EXCEPT ![k].pending = @ \ {m},
                                ![k].stage = IF c.pending = {m} THEN "done" ELSE "writing"]
    /\ UNCHANGED << features, bf, mix, mixRead, analyses, faults >>

\* One of them rejects: its row is left as it was.  Promise.all rejects the
\* call (line 211), which the caller sees as an error; the other writes go
\* on and land.
AssignWriteFails(k, m) ==
    LET c == assign[k] IN
    /\ c.stage = "writing"
    /\ m \in c.pending
    /\ faults < MaxWriteFaults
    /\ faults' = faults + 1
    /\ assign' = [assign EXCEPT ![k].pending = @ \ {m},
                                ![k].stage = IF c.pending = {m} THEN "done" ELSE "writing"]
    /\ UNCHANGED << features, bucket, bf, mix, mixRead, analyses >>

-----------------------------------------------------------------------------
(* backfillAllTracks (lines 546-633).                                      *)

BackfillStart ==
    /\ bf.stage = "idle"
    /\ bf' = [bf EXCEPT !.stage = "query", !.start = Completed]
    /\ UNCHANGED << features, bucket, assign, mix, mixRead, analyses, faults >>

\* findMany({ where completed, skip, take: batchSize }) with no orderBy:
\* positions skip + 1 .. skip + batchSize of some ordering of the completed
\* tracks.  An empty page ends the loop.
BackfillQuery ==
    LET n == Cardinality(Completed) IN
    /\ bf.stage = "query"
    /\ \E order \in [1 .. n -> Completed] :
          /\ \A t \in Completed : \E i \in 1 .. n : order[i] = t
          /\ LET window == {order[i] : i \in {j \in 1 .. n : bf.skip < j /\ j <= bf.skip + BatchSize}}
             IN  bf' = [bf EXCEPT
                          !.stage = IF window = {} THEN "done" ELSE "tracks",
                          !.page = [t \in Tracks |-> IF t \in window THEN features[t]
                                                                   ELSE NotAnalysed]]
    /\ UNCHANGED << features, bucket, assign, mix, mixRead, analyses, faults >>

\* The next track of the page: its positive moods' upserts are started
\* together (Promise.all) and the track counts as processed.
BackfillTrack(t) ==
    LET a == bf.page[t] IN
    /\ bf.stage = "tracks"
    /\ bf.writes = {}
    /\ a # NotAnalysed
    /\ bf' = [bf EXCEPT !.page[t] = NotAnalysed,
                        !.writes = {<< t, m, Score[a][m] >> : m \in Positive(a)},
                        !.processed = @ \cup {t}]
    /\ UNCHANGED << features, bucket, assign, mix, mixRead, analyses, faults >>

\* One upsert of the current track lands.
BackfillWrite(w) ==
    /\ w \in bf.writes
    /\ bucket' = [bucket EXCEPT ![w[1]][w[2]] = w[3]]
    /\ bf' = [bf EXCEPT !.writes = @ \ {w}]
    /\ UNCHANGED << features, assign, mix, mixRead, analyses, faults >>

\* One upsert rejects (line 595): the rejection leaves the loop and
\* backfillAllTracks throws; the track's other upserts still land.
BackfillWriteFails(w) ==
    /\ w \in bf.writes
    /\ faults < MaxWriteFaults
    /\ faults' = faults + 1
    /\ bf' = [bf EXCEPT !.writes = @ \ {w}, !.stage = "failed",
                        !.page = [t \in Tracks |-> NotAnalysed]]
    /\ UNCHANGED << features, bucket, assign, mix, mixRead, analyses >>

\* The page is done: skip += batchSize and the next page is read.
BackfillNextPage ==
    /\ bf.stage = "tracks"
    /\ bf.writes = {}
    /\ \A t \in Tracks : bf.page[t] = NotAnalysed
    /\ bf' = [bf EXCEPT !.stage = "query", !.skip = @ + BatchSize]
    /\ UNCHANGED << features, bucket, assign, mix, mixRead, analyses, faults >>

-----------------------------------------------------------------------------
(* saveUserMoodMix (lines 449-505) over getMoodMix (lines 378-446).        *)

\* getMoodMix: up to limit of the mood's rows (the top limit * 2 by score,
\* shuffled: the ranking is abstracted, no property here reads scores in a
\* mix).  No row returns null and nothing is saved.
SaveMixRead(m) ==
    LET candidates == {t \in Tracks : bucket[t][m] # NoRow} IN
    /\ mixRead.mood = NoRow
    /\ candidates # {}
    /\ \E chosen \in SUBSET candidates :
          /\ chosen # {}
          /\ Cardinality(chosen) <= MixLimit
          /\ mixRead' = [mood |-> m, tracks |-> chosen]
    /\ UNCHANGED << features, bucket, assign, bf, mix, analyses, faults >>

\* The userMoodMix upsert.
SaveMixWrite ==
    /\ mixRead.mood # NoRow
    /\ mix' = mixRead
    /\ mixRead' = [mood |-> NoRow, tracks |-> {}]
    /\ UNCHANGED << features, bucket, assign, bf, analyses, faults >>

-----------------------------------------------------------------------------
Next ==
    \/ \E t \in Tracks, a \in Analyses : Analyse(t, a)
    \/ \E k \in Calls : AssignRead(k)
    \/ \E k \in Calls, m \in Moods : AssignWrite(k, m) \/ AssignWriteFails(k, m)
    \/ BackfillStart
    \/ BackfillQuery
    \/ \E t \in Tracks : BackfillTrack(t)
    \/ \E w \in bf.writes : BackfillWrite(w) \/ BackfillWriteFails(w)
    \/ BackfillNextPage
    \/ \E m \in Moods : SaveMixRead(m)
    \/ SaveMixWrite

Spec == Init /\ [][Next]_vars

-----------------------------------------------------------------------------
Quiet ==
    /\ \A k \in Calls : assign[k].stage \in {"unstarted", "done"}
    /\ bf.stage \in {"idle", "done", "failed"} /\ bf.writes = {}

(* Buckets follow the analysis, as assignTrackToMoods' comment promises    *)
(* ("assign to appropriate buckets", lines 143-146): whenever no call and  *)
(* no backfill has a write in flight, every track has exactly the rows its *)
(* current analysis calls for, a row with its score for each mood scoring  *)
(* above 0 and none for the others (lines 186-211 upsert and delete; the   *)
(* backfill upserts, lines 586-614).                                       *)
BucketsMatchAnalysis ==
    Quiet => \A t \in Tracks, m \in Moods : bucket[t][m] = Expected(features[t], m)

(* The backfill reaches every analysed track: when it ends, each track    *)
(* completed when it started has been processed (the loop pages with skip *)
(* += batchSize until a page is empty, lines 553-624).                     *)
BackfillCoversAll == bf.stage = "done" => bf.start \subseteq bf.processed


=============================================================================
