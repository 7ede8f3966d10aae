------------------------- MODULE VibeAnalysisCleanup -------------------------
(***************************************************************************)
(* The vibe-embedding cleanup service (src/backend/src/services/           *)
(* vibeAnalysisCleanup.ts) and the analysis workers it repairs after.      *)
(*                                                                         *)
(* A worker claims a track whose vibeAnalysisStatus is null, marks it     *)
(* processing, and later writes completed with its CLAP embedding; it may *)
(* die and leave the track processing, or stall and write completed with  *)
(* no embedding.  The workers are not in this repository: they are        *)
(* modelled from the spec as the environment.  Nothing here says whether   *)
(* a worker also writes vibeAnalysisStatusUpdatedAt (the stale query's     *)
(* null branch, lines 21-24, allows for one that does not): each worker    *)
(* write sets it or leaves it as it is, as StampModes allows.              *)
(*                                                                         *)
(* cleanupStaleProcessing reads the tracks stuck in processing (findMany) *)
(* and then, one awaited update by id per track, sets each to failed when *)
(* its retry count read by findMany plus one exceeds VIBE_MAX_RETRIES and *)
(* to null otherwise.  cleanupOrphanedCompleted reads the completed tracks*)
(* with no embedding (queryRaw) and then resets them all to null with     *)
(* vibeAnalysisRetryCount incremented, in one updateMany by id.            *)
(*                                                                         *)
(* The ages (30 minutes stale, 5 minutes recent) are abstracted: a sweep  *)
(* may find any non-empty subset of the rows its query matches.  The      *)
(* retry count is kept exactly up to RetryCap and saturates there: every  *)
(* guard of the code reads it only as "newRetryCount > VIBE_MAX_RETRIES", *)
(* which no count at or above RetryCap can tell apart.  The timestamp is   *)
(* kept only as null or set: the 30-minute query matches a null one       *)
(* through its updatedAt branch, but the orphan query's "<" (line 101) is  *)
(* never true of null, as SQL compares it.                                 *)
(***************************************************************************)
EXTENDS Naturals, FiniteSets

CONSTANTS
    Tracks,            \* track ids
    Workers,           \* analysis workers
    NoTrack,           \* a worker's job when it has none
    VIBE_MAX_RETRIES,  \* the code's constant (3)
    Stalls,            \* CLAP stalls a worker may produce: a number, or Unlimited
    Unlimited,         \* no bound on the stalls
    StampModes,        \* TRUE: a worker write sets vibeAnalysisStatusUpdatedAt
    MaxFaults          \* database errors that abort a sweep

ASSUME ConstantsAssumption ==
    /\ IsFiniteSet(Tracks)
    /\ NoTrack \notin Tracks
    /\ VIBE_MAX_RETRIES \in Nat
    /\ Unlimited \notin Nat
    /\ Stalls \in Nat \cup {Unlimited}
    /\ StampModes \in SUBSET BOOLEAN \ {{}}
    /\ MaxFaults \in Nat

RetryCap == VIBE_MAX_RETRIES + 1

\* vibeAnalysisRetryCount + 1, saturated at RetryCap.
Inc(n) == IF n < RetryCap THEN n + 1 ELSE RetryCap

\* Status "none" is the column's null.
Statuses == {"none", "processing", "completed", "failed"}

NotRead == RetryCap + 1

StallCap == IF Stalls = Unlimited THEN 0 ELSE Stalls

VARIABLES
    status,     \* status[t]: vibeAnalysisStatus
    embedding,  \* embedding[t]: a track_embeddings row exists
    stamped,    \* stamped[t]: vibeAnalysisStatusUpdatedAt is not null
    retry,      \* retry[t]: vibeAnalysisRetryCount
    job,        \* job[w]: the track worker w is analysing
    staleRead,  \* staleRead[t]: the count findMany read for t, not yet written back
    orphans,    \* the ids queryRaw returned, awaiting the updateMany
    faults,     \* database errors so far
    stalls      \* CLAP stalls so far (counted when Stalls is a number)

vars == << status, embedding, stamped, retry, job, staleRead, orphans, faults, stalls >>

TypeOK ==
    /\ status \in [Tracks -> Statuses]
    /\ embedding \in [Tracks -> BOOLEAN]
    /\ stamped \in [Tracks -> BOOLEAN]
    /\ retry \in [Tracks -> 0 .. RetryCap]
    /\ job \in [Workers -> Tracks \cup {NoTrack}]
    /\ staleRead \in [Tracks -> (0 .. RetryCap) \cup {NotRead}]
    /\ orphans \in SUBSET Tracks
    /\ faults \in 0 .. MaxFaults
    /\ stalls \in 0 .. StallCap

Init ==
    /\ status = [t \in Tracks |-> "none"]
    /\ embedding = [t \in Tracks |-> FALSE]
    /\ stamped = [t \in Tracks |-> FALSE]
    /\ retry = [t \in Tracks |-> 0]
    /\ job = [w \in Workers |-> NoTrack]
    /\ staleRead = [t \in Tracks |-> NotRead]
    /\ orphans = {}
    /\ faults = 0
    /\ stalls = 0

StaleSweepRunning == \E t \in Tracks : staleRead[t] # NotRead

-----------------------------------------------------------------------------
(* The analysis workers (environment, not in this repository).            *)

\* A worker write of the status: it sets vibeAnalysisStatusUpdatedAt or
\* leaves it as it was.
Stamp(t) == \E s \in StampModes : stamped' = [stamped EXCEPT ![t] = s \/ @]

\* A stall is possible while the bound on them is not reached.
MayStall == Stalls # Unlimited => stalls < Stalls

CountStall == IF Stalls = Unlimited THEN stalls ELSE stalls + 1

\* A free worker takes a track whose status is null and marks it processing.
Claim(w, t) ==
    /\ job[w] = NoTrack
    /\ status[t] = "none"
    /\ status' = [status EXCEPT ![t] = "processing"]
    /\ Stamp(t)
    /\ job' = [job EXCEPT ![w] = t]
    /\ UNCHANGED << embedding, retry, staleRead, orphans, faults, stalls >>

\* The worker writes completed by id, with the embedding or, on a CLAP
\* stall, without one.
Complete(w) ==
    LET t == job[w] IN
    /\ t # NoTrack
    /\ status' = [status EXCEPT ![t] = "completed"]
    /\ Stamp(t)
    /\ \/ embedding' = [embedding EXCEPT ![t] = TRUE] /\ UNCHANGED stalls
       \/ MayStall /\ UNCHANGED embedding /\ stalls' = CountStall
    /\ job' = [job EXCEPT ![w] = NoTrack]
    /\ UNCHANGED << retry, staleRead, orphans, faults >>

\* The worker dies; its track stays processing.
Die(w) ==
    /\ job[w] # NoTrack
    /\ job' = [job EXCEPT ![w] = NoTrack]
    /\ UNCHANGED << status, embedding, stamped, retry, staleRead, orphans, faults, stalls >>

-----------------------------------------------------------------------------
(* cleanupStaleProcessing.                                                 *)

\* findMany: the processing tracks older than the cutoff, by their
\* timestamp or, when it is null, by updatedAt; with their retry counts.
\* None found returns { reset: 0 } (a stutter).
FindStale(S) ==
    /\ ~StaleSweepRunning
    /\ S # {}
    /\ \A t \in S : status[t] = "processing"
    /\ staleRead' = [t \in Tracks |-> IF t \in S THEN retry[t] ELSE NotRead]
    /\ UNCHANGED << status, embedding, stamped, retry, job, orphans, faults, stalls >>

\* A track that exceeds its retry budget is marked failed in place, the
\* update of line 51, which stamps the time.
StaleResetFailed(t, n) ==
    /\ status' = [status EXCEPT ![t] = "failed"]
    /\ retry' = [retry EXCEPT ![t] = n]
    /\ stamped' = [stamped EXCEPT ![t] = TRUE]

\* Otherwise it is reset to null for another attempt, the update of line
\* 62, which sets the timestamp to null.
StaleResetRetry(t, n) ==
    /\ status' = [status EXCEPT ![t] = "none"]
    /\ retry' = [retry EXCEPT ![t] = n]
    /\ stamped' = [stamped EXCEPT ![t] = FALSE]

\* A reset that never gives up: every stale track goes back to null.
ResetStaleUnbounded(t) ==
    /\ staleRead[t] # NotRead
    /\ StaleResetRetry(t, Inc(staleRead[t]))
    /\ staleRead' = [staleRead EXCEPT ![t] = NotRead]
    /\ UNCHANGED << embedding, job, orphans, faults, stalls >>

\* One iteration of the loop: the update by id, from the count findMany read.
ResetStale(t) ==
    LET newRetryCount == Inc(staleRead[t]) IN
    /\ staleRead[t] # NotRead
    /\ IF newRetryCount > VIBE_MAX_RETRIES
          THEN StaleResetFailed(t, newRetryCount)
          ELSE StaleResetRetry(t, newRetryCount)
    /\ staleRead' = [staleRead EXCEPT ![t] = NotRead]
    /\ UNCHANGED << embedding, job, orphans, faults, stalls >>

\* An update throws: the rejection leaves the loop and the tracks not yet
\* reached keep their status.
StaleUpdateFails ==
    /\ StaleSweepRunning
    /\ faults < MaxFaults
    /\ faults' = faults + 1
    /\ staleRead' = [t \in Tracks |-> NotRead]
    /\ UNCHANGED << status, embedding, stamped, retry, job, orphans, stalls >>

-----------------------------------------------------------------------------
(* cleanupOrphanedCompleted.                                               *)

\* queryRaw: completed tracks with no embedding row whose timestamp is
\* before the recent cutoff, which a null one never is (LIMIT/OFFSET and
\* the cutoff's age select a subset).  None found, and dryRun, return with
\* nothing written (stutters).
FindOrphans(S) ==
    /\ orphans = {}
    /\ S # {}
    /\ \A t \in S : status[t] = "completed" /\ ~embedding[t] /\ stamped[t]
    /\ orphans' = S
    /\ UNCHANGED << status, embedding, stamped, retry, job, staleRead, faults, stalls >>

\* The transaction's updateMany by id: null status and timestamp, retry
\* count + 1.
ResetOrphans ==
    /\ orphans # {}
    /\ status' = [t \in Tracks |-> IF t \in orphans THEN "none" ELSE status[t]]
    /\ stamped' = [t \in Tracks |-> t \notin orphans /\ stamped[t]]
    /\ retry' = [t \in Tracks |-> IF t \in orphans THEN Inc(retry[t]) ELSE retry[t]]
    /\ orphans' = {}
    /\ UNCHANGED << embedding, job, staleRead, faults, stalls >>

\* The transaction throws; the catch returns zeros and nothing is written.
OrphanUpdateFails ==
    /\ orphans # {}
    /\ faults < MaxFaults
    /\ faults' = faults + 1
    /\ orphans' = {}
    /\ UNCHANGED << status, embedding, stamped, retry, job, staleRead, stalls >>

-----------------------------------------------------------------------------
Worker(w) ==
    \/ \E t \in Tracks : Claim(w, t)
    \/ Complete(w)
    \/ Die(w)

Next ==
    \/ \E w \in Workers : Worker(w)
    \/ \E S \in SUBSET Tracks : FindStale(S) \/ FindOrphans(S)
    \/ \E t \in Tracks : ResetStale(t)
    \/ StaleUpdateFails
    \/ ResetOrphans
    \/ OrphanUpdateFails

(* Both sweeps are cron jobs: each run that starts goes on to its writes,  *)
(* and a track that the query matches again and again is found by some   *)
(* later run (strong fairness: the sweep is idle again and again, not     *)
(* continuously).  The orphan query's match includes a set timestamp, so  *)
(* this promises nothing for a track whose timestamp stays null.  The     *)
(* worker queue drains the null tracks, and a worker does not hang: it    *)
(* finishes or dies.                                                       *)
Fairness ==
    /\ \A w \in Workers : WF_vars(Complete(w) \/ Die(w))
    /\ \A t \in Tracks :
          /\ SF_vars(\E w \in Workers : Claim(w, t))
          /\ SF_vars(\E S \in SUBSET Tracks : t \in S /\ FindStale(S))
          /\ SF_vars(\E S \in SUBSET Tracks : t \in S /\ FindOrphans(S))
          /\ WF_vars(ResetStale(t))
    /\ WF_vars(ResetOrphans)

Spec == Init /\ [][Next]_vars /\ Fairness

-----------------------------------------------------------------------------
Settled(t) == status[t] = "failed" \/ (status[t] = "completed" /\ embedding[t])

(* Every track's vibe analysis settles for good: it ends completed with   *)
(* an embedding or failed, because each reset of cleanupStaleProcessing   *)
(* and cleanupOrphanedCompleted spends one of its VIBE_MAX_RETRIES         *)
(* attempts (lines 48-71 and 128).                                         *)
AnalysisSettles == \A t \in Tracks : <>[]Settled(t)

(* A finished analysis is never undone: no step takes a track that is    *)
(* completed with its embedding back to null or to failed.  The stale      *)
(* sweep's updates (lines 51 and 62) are meant for tracks still stuck in   *)
(* processing.                                                             *)
FinishedStaysFinished ==
    [][\A t \in Tracks :
          status[t] = "completed" /\ embedding[t] => status'[t] = "completed"]_vars

(* A CLAP stall is repaired, as the comment of cleanupOrphanedCompleted   *)
(* says (lines 78-81): a track left completed with no embedding is        *)
(* eventually reset for another attempt, or gets its embedding.            *)
StalledEventuallyRepaired ==
    \A t \in Tracks :
        status[t] = "completed" /\ ~embedding[t] ~> status[t] # "completed" \/ embedding[t]

(* The orphan reset resets orphans: every track the updateMany of lines   *)
(* 122-132 resets is still completed with no embedding when it runs, as    *)
(* the query of lines 95-103 found it.                                     *)
OrphanResetOnlyOrphans ==
    [][ResetOrphans => \A t \in orphans : status[t] = "completed" /\ ~embedding[t]]_vars

=============================================================================
