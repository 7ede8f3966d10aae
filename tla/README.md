# Formal models of lidify's concurrency and data layer

This directory holds TLA+ models of the parts of lidify (the Kima backend and
its player) that hold state changed by concurrent work. Each model is written
from the TypeScript source. TLC configurations check each one on small
instances. TLAPS proves the main invariants, and one refinement, for every
value of the constants.
`PROJECT.json` lists the components, the runs, the mutants and the map from
every definition to the lines of code it models. It also lists the findings,
the hazards and the theorems.

## The system

`spec.md` names five core components: EventSourcedInbox, AcquisitionCoordinator,
PeerNetworkClient, WireCodec and OptimisticRecordUpdater. The distributed lock
and the data-cleanup cron support them.

An external trigger (a Lidarr webhook or a user request) is stored durably and
acknowledged. It is then processed asynchronously. Processing advances a
download job through the download manager, which deduplicates job creation
under a Redis lock. Jobs of one discovery batch update the batch's progress row
concurrently, through an optimistic, version-checked update. A daily cron
deletes old jobs, processed webhook events and completed batches. Analysis
workers score each track; the vibe cleanup repairs the analyses that stall, and
the mood-bucket service files every analysed track under the moods it scores
for. The browser holds an SSE stream of the user's events and a playback state
machine from which the player's React state is derived.

| Component | Source | Module | Status |
|---|---|---|---|
| DistributedLock | `backend/src/utils/distributedLock.ts` | `DistributedLock`, abstract `LockOwnership` | modelled |
| OptimisticRecordUpdater | `backend/src/services/discovery/optimisticBatchUpdate.ts` | `OptimisticBatchUpdate` | modelled |
| EventSourcedInbox | `src/unnamed/part_003` (webhooks router) | `WebhookInbox` | modelled |
| DataCleanup | `src/unnamed/part_002` | `WebhookInbox`, `OptimisticBatchUpdate` | partly: the webhook and batch sweeps |
| WireCodec | `MessageParser` in `workers/__tests__/dataCleanup.test.ts` | `WireCodec` | modelled |
| VibeAnalysisCleanup | `backend/src/services/vibeAnalysisCleanup.ts` | `VibeAnalysisCleanup` | modelled |
| EventBus and SSE route | `backend/src/services/eventBus.ts`, `backend/src/routes/events.ts` | `EventStream` | modelled |
| PlaybackStateMachine | `frontend/lib/audio/playback-state-machine.ts` | `PlaybackStateMachine` | modelled |
| MoodBucket service | `backend/src/services/moodBucketService.ts` | `MoodBucket`, `MoodScoring` | partly |
| AcquisitionCoordinator | not in `src/` | none | not modelled |
| PeerNetworkClient | not in `src/` | none | not modelled |

### Behaviours that make this code hard

- **Every `await` is an interleaving point.** Webhook requests, their detached
  processings, batch writers, lock holders, analysis workers and sweeps, SSE
  requests and mood assignments run between any two awaited calls.
- **Read, await, write.** The stale sweep, the mood assignment and the SSE
  route all act on what they read one await earlier.
- **TTL expiry.** A lock whose callback outlives `ttlMs` stops protecting it.
- **Lost replies.** A Redis call can be applied and still reject; the lock
  model's failed SET may have been applied. The Prisma writes of the batch
  update and the mood buckets are modelled as landing or failing, not as
  applied and then rejected.
- **Partial failure.** One write of a `Promise.all` may reject while the
  others land, and nothing retries it.
- **Redelivery.** Lidarr may deliver one event more than once.
- **Crashes.** A restart loses every request and processing in flight, but
  keeps the database rows.
- **Re-entrancy.** A playback listener may call the machine from inside
  `notify`.

## Modules

A stateful model has `CONSTANTS` with a named `ASSUME`, `VARIABLES`, `TypeOK`,
`Init`, one action per awaited step of the code, `Next`, `Spec` and the
properties. An `MC*` module fixes model values for TLC. A `*Proofs` module
holds TLAPS proofs.

### DistributedLock (distributedLock.ts) and LockOwnership

- `store[k]` is the token at `lock:k`; `pc[t]` is `idle` or `cs` (inside the
  callback of `withLock`); `key[t]` and `outcome[t]` record the call.
- History variables: `holder[k]`, the task whose acquire wrote the key, and
  `lapsed[t]`, set when `t`'s key expired while `t` was in the callback.
- `AcquireOK`, `AcquireContended`, `AcquireFailed` model SET NX PX and the
  throw of `withLock`; a failed SET may have been applied. `Release` is the
  Lua compare-and-delete in `finally`. `Expire` is the TTL running out (any
  set key may expire). A task's token is its DistributedLock object's
  (`InstanceOf`), drawn once in the constructor as in the code.
- `LockOwnership` is what the lock promises (spec 3, 4.2), with no tokens: a
  free key may be taken, only the owner's release frees it, any lock may
  expire. `DistributedLock` maps to it by `owner <- holder` and `held <- Held`
  (the key of a task in its callback).

### OptimisticBatchUpdate (optimisticBatchUpdate.ts)

- `batch` is the row's `[exists, version, completed]`; per writer `pc`, `data`
  (the values it will write), `seen` (the version read), `retries`, `result`.
- `ReadVersion` is `findUnique`; `Write` is `update where {id, version}`;
  P2025 goes to `Conflict` (retry, or give up after `maxRetries`);
  `DeleteBatch` is the retention sweep; `Call` models the callers (not in
  `src/`; from the spec, a caller reads `completedAlbums` and asks for `+1`).

### WebhookInbox (webhooks router, part_003; cleanup, part_002)

- `row[e]` is the `WebhookEvent` row (`absent`, `received`, `processed`,
  `failed`); `acked[e]`; `effects[e]` counts downstream actions; `stage[d]` is
  where delivery `d` is; `crashes`; history `swept[e]`.
- `Deliver` (the sender, at least once, from the spec), `ReadSettings` (202,
  401, 500 or go on), `Store` (`storeEvent`, 200, detached processing),
  `Handle`, `MarkProcessed`, `MarkFailed`, `Crash` and `SweepEvents`.

### VibeAnalysisCleanup (vibeAnalysisCleanup.ts)

- Per track: `status` (null, processing, completed, failed), `embedding`,
  `retry` (exact up to `VIBE_MAX_RETRIES + 1`, saturating there, since the
  code only compares `count + 1 > VIBE_MAX_RETRIES`); `job[w]` per worker;
  `staleRead[t]`, the retry count `findMany` read for the stale sweep;
  `orphans`, the set the orphan query returned; `faults`; `stamped[t]`,
  whether `vibeAnalysisStatusUpdatedAt` is not null; `stalls`, the CLAP
  stalls so far.
- The workers are the environment (not in `src/`): `Claim`, `Complete` (with
  the embedding, or without it while fewer than `Stalls` stalls have
  happened; `Stalls = Unlimited` lets every completion stall), `Die`. Which
  workers write `vibeAnalysisStatusUpdatedAt` is not in `src/`; the code's
  own stale query (lines 19-24) allows for rows where it is null, so `Claim` and
  `Complete` may stamp or not, as `StampModes` allows.
- The sweeps' own writes set the timestamp: the failed branch stamps it
  (line 57), the retry branch and the orphan reset write null (lines 67,
  129). The orphan query compares it with `<` (line 101), which a null never
  satisfies, so `FindOrphans` finds only stamped tracks.
- `cleanupStaleProcessing` is `FindStale` (the `findMany`) then one
  `ResetStale(t)` per track: failed when the count read plus one exceeds the
  limit, null otherwise, by id. `StaleUpdateFails` is a database error that
  aborts the loop.
- `cleanupOrphanedCompleted` is `FindOrphans` (the `queryRaw`) then
  `ResetOrphans` (one `updateMany`: null, count + 1), or
  `OrphanUpdateFails`.
- Ages are abstracted: a sweep may find any non-empty subset of the rows its
  query matches.

### EventStream (events.ts and eventBus.ts)

- Per request `pc` (idle, verifying, open, rejected), the token's `tokVer`,
  `gone` (client closed the socket), `closeQueued` (Node has yet to emit
  `close`), `subscribed` and `heartbeat`; per user `tokenVersion` and
  `connections[u]`; history `revokedSent[c]`.
- `Request` verifies the JWT and awaits `findUnique`; `Resume` compares
  `tokenVersion`, then in one synchronous run adds to the map, subscribes,
  starts the heartbeat and registers `close`. `Disconnect`, `EmitClose`,
  `CloseHandler`, `HeartbeatFails` (a failed write unsubscribes), `Emit` (the
  bus writes to every subscribed stream of the user) and `Revoke` (a logout).
- `StreamRegistration` is the safety half of the cleanup argument. Every bus
  listener has a running heartbeat, so a stream whose `close` came before its
  handler was registered is still reaped by the failed heartbeat write. A
  live open stream is on the bus and in the map under its own user, and the
  map holds only open streams.

### PlaybackStateMachine (playback-state-machine.ts)

- `state`, `previous`, `hasError`; the listener Set as its ECMAScript entry
  list `entries` (a deleted entry is a hole; an entry added during `forEach`
  is visited); `seen[l]`, the state listener `l` was last called with; `stack`,
  the `notify` calls in progress with their snapshot and loop position.
- `Transition` (checks `VALID_TRANSITIONS`), `ForceTransition`, `Reset`,
  `Subscribe` (with its immediate call), `Unsubscribe`; `notify`'s loop is
  `Deliver`, `Return` and `Finish`. A listener may call the methods of
  `Reentrant` from its callback.

### MoodBucket and MoodScoring (moodBucketService.ts)

- `MoodScoring` translates `MOOD_CONFIG`, `evaluateMoodRules`,
  `calculateMoodScoresFromTags` (with its `Math.min` cap) and
  `calculateMoodScores`, with scores in hundredths so every comparison is
  exact. A rule set is a record, as the code's object literal is. It holds no state. `MCMoodBucket` computes its score table with it
  from two analyses: an enhanced one (happy 100, sad 0) and a standard one
  (happy 0, sad 50).
- `MoodBucket`: `features[t]` (the analysis, or not analysed), `bucket[t][m]`
  (the row's score, or no row), `assign[k]` (each `assignTrackToMoods` call:
  its read and the moods whose write is pending), `bf` (the backfill: stage,
  skip, page, processed), `mix` and `mixRead` (`saveUserMoodMix`).
- `Analyse` completes an analysis and starts an assignment; `AssignRead`,
  then one `AssignWrite(k, m)` or `AssignWriteFails(k, m)` per mood in any
  order (`Promise.all`: a rejected upsert leaves its row as it was, the
  others still land, and nothing retries); `BackfillStart`, `BackfillQuery`
  (skip/take over an order the database picks per page), `BackfillTrack`,
  `BackfillWrite`, `BackfillWriteFails` (the rejection ends the backfill
  with the remaining upserts of the page unsent), `BackfillNextPage`;
  `SaveMixRead` (any non-empty choice of at most `limit` tracks from the
  bucket: the ranking and the shuffle are abstracted) and `SaveMixWrite`.
  `MaxWriteFaults` bounds the rejected upserts.

### WireCodec (MessageParser)

- The buffer `data` is a prefix of the encoding of `msg` (the encoder is not
  in the repository and is modelled from spec 4.1); `pointer`, `out` (values
  returned), `failed`.
- `ReadInt` (int8, int32, int64 little-endian), `ReadStr` (length prefix,
  cursor past it, then the payload as UTF-8), `ReadRaw` (`rawHexStr`). Each
  throws on `pointer + n > length`. The conversions are modelled by what they
  do: little-endian accumulation, UTF-8 over the byte alphabet of the
  instances, hex as nibbles.

## Runs

| Run | Config | Expect | Checks | What it shows |
|---|---|---|---|---|
| lock_separate_tokens | `MCDistributedLock.cfg` | pass | `MutualExclusion`, `ImplementsLockOwnership` | 3 tasks with their own lock objects, 2 keys, faults and expiry: no two tasks whose TTL holds share a key, and the lock refines `LockOwnership` |
| lock_singleton_token | `MCDistributedLockShared.cfg` | violation | `MutualExclusion` | tasks sharing the exported singleton: an expired task's release deletes its successor's lock |
| batch_update | `MCOptimisticBatchUpdate.cfg` | pass | `TypeOK`, `VersionCountsCommits`, `RetriesWitnessChanges` | 3 writers, `maxRetries = 1`, faults and deletion |
| inbox | `MCWebhookInbox.cfg` | pass | `AckedIsDurable` | 2 events, 2 deliveries each, a restart, every failure, the sweep |
| inbox_settles | `MCWebhookInboxSettles.cfg` | pass | `StoredEventuallySettled` | without restarts or event-store failures every stored event ends processed or failed |
| vibe_settles | `MCVibeAnalysisCleanup.cfg` | pass | `AnalysisSettles` | 2 tracks, 2 dying workers, a database error, one CLAP stall, workers that stamp: every analysis settles, the stall through the orphan sweep |
| vibe_stall_unrepaired | `MCVibeAnalysisCleanupRepair.cfg` | violation | `StalledEventuallyRepaired` | a stall whose completion left the timestamp null is never found by the orphan query |
| vibe_orphan_cycle | `MCVibeAnalysisCleanupOrphans.cfg` | violation | `AnalysisSettles` | a track that stalls every time cycles for ever |
| sse_unsubscribes | `MCEventStream.cfg` | pass | `ClosedEventuallyUnsubscribed`, `StreamRegistration` | 3 requests of 2 users: every listener has a heartbeat, live streams are registered under their user, and a closed stream's listener and heartbeat always go |
| playback_reentrant_single | `MCPlaybackStateMachineReentrant.cfg` | pass | `ListenersSeeCurrentState`, `CallsCarryCurrentState` | one listener that moves the machine from its callback stays in step: every call, nested ones included, carries the current state |
| mood_write_rejected | `MCMoodBucket.cfg` | violation | `BucketsMatchAnalysis` | one rejected upsert of `assignTrackToMoods` leaves a track out of a bucket for good |
| wire_roundtrip | `MCWireCodec.cfg` | pass | `DecodesWhatWasEncoded`, `UnderflowOnlyOnTruncation` | every prefix of 42 encodings: reads return what was written and underflow means truncation |

The type invariants of `DistributedLock` and `WebhookInbox` are proved for all
constants and are not re-checked by their runs.

Every property of a passing run has a mutant in `PROJECT.json`, a plausible
bug that TLC finds violating it: a release that ignores the token (breaks both
lock properties); a retry loop without its `maxRetries` check; an
unconditional update; a retry that does not re-read the version; a
`storeEvent` that is not awaited; a catch block that only logs; a stale reset
without the retry bound; a heartbeat that does not unsubscribe; a
`forceTransition` without `notify`; a `str`
read that takes its payload from the length prefix; an underflow check with
`>=`.

### Bounds

- **Lock.** Three tasks and two keys: one task in the callback while a second
  acquires after expiry, a third contending, and a second key that must not
  interfere.
- **Batch update.** Three writers with `maxRetries = 1` reach a call that
  gives up, a retry caused by a delete, and two conflicts in a row.
- **Inbox.** Two deliveries of two events with one restart reach a duplicate
  during and after the original's processing, a redelivery after the sweep
  and a crash at every stage.
- **Vibe.** Two tracks, `VIBE_MAX_RETRIES = 3` (the code's value), one
  database error and one CLAP stall let a track spend its whole budget, a
  sweep race a worker, a sweep abort half-way and a stall go through the
  orphan sweep. The passing run's workers stamp the timestamp; the
  unrepaired run lets them leave it null, with one worker so that its
  liveness check stays within minutes.
- **SSE.** Three requests, two of them one user's, and one logout per user:
  a disconnect at every stage, two streams in one map entry, a revocation
  under an open stream.
- **Playback.** Five calls reach nested `notify` two deep with a listener
  that transitions, resets and re-subscribes.
- **Mood buckets.** Two tracks and two analyses whose scores differ in both
  moods, pages of one (so the backfill takes several pages), a mix of one,
  and one rejected upsert (none in the reanalysis and paging
  configurations, which break the property without it).
- **Wire.** Every prefix of 42 messages of up to two fields, over int8 255,
  int32 258 (two non-zero bytes), int64 1, strings of 0 and 2 characters and
  a raw field with bytes 255 and 0: every cut point of every field kind.

Symmetry is used where model values are interchangeable (batch writers,
event ids).

### Fairness

- **Inbox.** Weak fairness of each delivery's server-side steps: Node's event
  loop runs every continuation whose promise has settled, so a detached
  `processWebhookEvent` runs while the process lives. The sender and crashes
  get none. The liveness run excludes restarts (nothing resumes a lost
  processing) and event-store failures (a throwing `markFailed` leaves the row
  `received`); both are hazards in `PROJECT.json`.
- **Vibe.** Workers finish or die (weak fairness). Claiming a null track and
  each sweep's query finding a given track are strongly fair: the cron runs
  the sweeps every few minutes for ever, but a track is findable only
  intermittently (while it is stuck), so weak fairness would not do. The
  orphan query's fairness is only for tracks it can match: `FindOrphans`
  requires the timestamp to be set, as the `<` of line 101 does, so a
  stalled track with a null timestamp is not findable and fairness does
  not force its repair.
- **SSE.** The database answers, Node emits `close` after a teardown, and the
  heartbeat interval fires (weak fairness). Clients, logouts and emitters
  need not act.

## Findings

1. **The owner token is per object, not per acquire** (`distributedLock.ts:8`,
   run `lock_singleton_token`). The spec says `acquire` writes a fresh token.
   The code draws one token in the constructor and exports one singleton
   (line 66), so every `withLock` of a process writes the same token. A call
   whose TTL ran out deletes, in its `finally`, the lock a later call of the
   same process took, and a third call enters beside that later call.
2. **Orphaned vibe analyses retry for ever** (`vibeAnalysisCleanup.ts:128`,
   run `vibe_orphan_cycle`). `cleanupOrphanedCompleted` increments the retry
   count and resets to null without comparing with `VIBE_MAX_RETRIES`, unlike
   the stale sweep (line 50). A track whose embedding stalls every time goes
   completed, null, processing, completed for ever and is never failed.
3. **A stall with a null timestamp is never repaired**
   (`vibeAnalysisCleanup.ts:101`, run `vibe_stall_unrepaired`). The orphan
   query compares `vibeAnalysisStatusUpdatedAt < cutoff`, which is never
   true of NULL. The orphan reset and the stale retry write NULL there
   themselves (lines 67 and 129), and the stale query's second branch shows
   that rows with NULL exist. A track completed without its embedding by a
   worker that leaves the column NULL stays completed with no embedding.
   This rests on the worker, which is not in `src/`, not writing the column.
4. **A rejected mood upsert is never written again**
   (`moodBucketService.ts:211`, run `mood_write_rejected`). The upserts of
   `assignTrackToMoods` run under `Promise.all` with no transaction and no
   retry; when one rejects, the others land and the track is missing from
   that mood's bucket. Only a new analysis or a manual backfill repairs it.

### Counterexamples kept beside the runs

These properties are stated in the modules and TLC finds them violated with
the configurations named; they are recorded here and as hazards in
`PROJECT.json`.

- `NoLostIncrement`, `MCOptimisticBatchUpdateLost.cfg`
  (`optimisticBatchUpdate.ts:85`): the values are fixed before the call and
  re-sent on a retry, so two callers passing `completedAlbums + 1` both
  succeed and the row ends one short (spec 8: no update is lost).
- `ProcessedAtMostOnce`, `MCWebhookInboxRedelivery.cfg` (part_003:91): the
  route starts `processWebhookEvent` for every delivery, also when
  `storeEvent` returned a row already processed or in progress; the spec says
  an event is processed at most once.
- `CallbacksSerialized`, `MCDistributedLockExpiry.cfg`
  (`distributedLock.ts:58`): the PX TTL is never extended, so a callback that
  outlives it shares the key with the next caller; its release then returns
  false and is ignored.
- `OrphanResetOnlyOrphans`, `MCVibeAnalysisCleanupRevive.cfg`
  (`vibeAnalysisCleanup.ts:128`): the orphan reset updates by the ids the
  query returned, without re-checking them. The stale sweep resets a
  stalled track between the query and the update, and the `updateMany`
  then resets a track that is no longer an orphan.
- `FinishedStaysFinished`, `MCVibeAnalysisCleanupStale.cfg`
  (`vibeAnalysisCleanup.ts:62`): the stale sweep updates by id without
  re-checking the status, so a worker's completed result read as processing
  is reset or failed.
- `ClosedEventuallyForgotten`, `MCEventStreamLeak.cfg` (`events.ts:98`): a
  client that disconnects during the `findUnique` await has its `close`
  emitted before the handler exists; the heartbeat unsubscribes, but the map
  entry stays for the life of the process.
- `NoEventAfterRevocation`, `MCEventStreamRevoked.cfg` (`events.ts:43`):
  `tokenVersion` is checked once at connect, so a stream opened before a
  logout keeps receiving events.
- `ListenersSeeCurrentState`, `MCPlaybackStateMachineStale.cfg`
  (`playback-state-machine.ts:130`): with two listeners, one that moves the
  machine from its callback makes the outer `notify` hand later listeners the
  old snapshot. The same configuration violates `CallsCarryCurrentState` at
  that call.
- `BucketsMatchAnalysis`, `MCMoodBucketReanalysis.cfg`
  (`moodBucketService.ts:211`): two assignments of one re-analysed track
  interleave their unordered writes and keep moods of the replaced analysis,
  with no write rejected.
- `BackfillCoversAll`, `MCMoodBucketPaging.cfg` (`moodBucketService.ts:580`):
  skip/take with no `orderBy` lets a track fall on no page.

## Proofs

`DistributedLockProofs` proves, for all constants:
- `TypeCorrect`: `Spec => []TypeOK`;
- `MutualExclusionHolds`: `DistinctTokens => (Spec => []MutualExclusion)`;
- `RefinesLockOwnership`: `DistinctTokens => (Spec => ImplementsLockOwnership)`.

`MutualExclusion` is not inductive: two tasks in `cs` on one key with the key
empty satisfy it, and the next acquire breaks it. The strengthening `IInv`
adds `SetIffHeld` (a key is set exactly when some acquire wrote it),
`StoreHoldsHolderToken` (a set key holds its writer's token) and
`ProtectedIsHolder` (a task in the callback whose TTL holds is the holder).
Under `DistinctTokens` the compare step sees the caller's token only when the
caller is the holder (`TokenIdentifiesHolder`), so a release deletes only its
own lock. The refinement rests on the same `IInv`: lemma `InitRefines` maps
the initial state, and `NextRefines` shows each action is an `Acquire`,
`Release` or `Expire` of `LockOwnership` or a stutter under
`owner <- holder`, `held <- Held`. `DistinctTokens` is what the singleton
breaks (finding 1). TLC checked `IInv` on the passing run's state space first.

`WebhookInboxProofs` proves `TypeCorrect` and `AckedIsDurableHolds`.
`TypeOK /\ AckedIsDurable` is inductive: `Store` writes the row in the step
that acknowledges it, the marks never make a row absent, and the sweep
records in `swept` every row it deletes.

`OptimisticBatchUpdateProofs` proves, for every finite set of writers and
every `maxRetries`, `TypeCorrect`, `VersionCountsCommitsHolds` and
`RetriesWitnessChangesHolds` from the inductive invariant `IInv`
(`NotDoneHasNoResult`, `IdleIsFresh`, `LoopWithinBudget`, `SeenNotAhead`,
`PendingRetryPaid`). The heart is `PendingRetryPaid`: a call about to write
has already been paid, in changes since its start, for the retry a conflict
would cost, unless the row is exactly as it read it. A commit adds its writer
to `Committed` (lemma `ReturnCount`, with `FS_AddElement`).

`PlaybackStateMachineProofs` proves `TypeCorrect` and
`ListenersSeeCurrentStateHolds`: `SafeListeners => (Spec => []ListenersSeeCurrentState)`
for any set of listeners and any call bound. `SafeListeners` says the
listeners never subscribe or unsubscribe from a callback, and move the
machine from one only when there is a single listener. That is the passing
run's instance; with two re-entrant listeners the property fails
(`MCPlaybackStateMachineStale.cfg`, under Counterexamples). The property
speaks only of states with no `notify` under way, so it is not inductive.
The strengthening `IInv` describes the stack of nested `notify` calls:
- `EntriesDistinct`: `Set.add` never adds a member twice;
- `CallbackLive`: a callback under way belongs to a live entry;
- `OuterDone`: every frame below the innermost sits in the call of its last
  listener (lemma `CallingIsLast`: a callback that may move the machine is
  the only live entry);
- `PendingCurrent`: a frame with listeners still to call holds the current
  state;
- `CalledCurrent`: the listeners up to the innermost frame's position saw the
  current state.
One lemma per action (`PushIInv` for `transition`, `forceTransition` and
`reset`; `SubscribeIInv`, `UnsubscribeIInv`, `DeliverIInv`, `ReturnIInv`,
`FinishIInv`) shows that the action keeps `IInv`. `DeliverIInv` rests on
`DeliverPicksFirst`: `forEach` calls the least live position after the last
call (a minimum of a set of naturals, from `WFMin` of
`WellFoundedInduction`). TLC checked `IInv` on the passing run first.
`CallsCarryCurrentStateHolds`: `SafeListeners => (Spec => CallsCarryCurrentState)`
follows from the same `IInv` (lemma `StepCarriesCurrentState`). Only
`Deliver` and `Subscribe` call a listener. `Deliver` passes the innermost
snapshot, which `PendingCurrent` makes current whenever a listener is still
to be called.

`EventStreamProofs` proves `TypeCorrect` and `StreamRegistrationHolds`:
`Spec => []StreamRegistration` for any requests, users, assignment of
requests to users and number of logouts. `StreamRegistration` alone is not
inductive. A `Request` step must know that an idle request has no listener
and is not in the map, and a `close` event must know that its client is gone.
The strengthening `IInv` therefore adds two conjuncts:
- `ListenerOnlyWhenOpen`: only an open request has a listener;
- `CloseAfterTeardown`: `close` is queued only after a teardown.
TLC checked `IInv` on `MCEventStream.cfg` first (31,996 states). The proof
then has one step per handler.

`MoodScoringProofs` proves `ScoresAreHundredths`, a fact about the scoring
operators with no hypothesis on the track. `calculateMoodScores` gives every
mood a score in `0 .. 100` hundredths, on each of its three paths:
- `evaluateMoodRules` divides the matching rules, at most all of them, by
  the number of rules (lemmas `RulesScoreRange` and `ShareBound`);
- `calculateMoodScoresFromTags` caps `0.3 + 0.2 (n - 1)` at 1.0 (lemma
  `TagScoreRange`).
The rule sets and keyword lists of `MOOD_CONFIG` are finite (lemmas
`ConfigFinite`, `FiniteLiteral`). `MoodBucket` takes its score table as the
constant `Score \in [Analyses -> [Moods -> Nat]]`. The theorem shows that
a table computed by `calculateMoodScores`, as `MCMoodBucket`'s is, has
that type.
`MoodBucket` itself has no theorem: its bucket invariant fails once an
upsert may reject or a track may be re-analysed (finding 4,
Counterexamples), and without either it would hold by the shape of the
model.

What stays with TLC:
- liveness (`StoredEventuallySettled`, `AnalysisSettles`,
  `ClosedEventuallyUnsubscribed`), which needs
  fairness and `ENABLED`;
- the pure conversions (`WireCodec`'s little-endian, UTF-8 and hex, and
  which moods `MoodScoring` scores above zero for given columns), which are
  checked over bounded inputs: what a recursive
  function computes for every input is induction over data;
- `WireCodec`'s `DecodesWhatWasEncoded` and `UnderflowOnlyOnTruncation`.
  Both rest on `LEValue(LE(v, n)) = v` and on how `Encode` of a longer
  message extends `Encode` of its prefix. `Encode` is `FlattenSeq`, a fold
  over the community modules' `MapThenFoldSet`. Those are statements about
  recursive definitions for every input, which is induction over data.

## Not modelled

- **AcquisitionCoordinator** and **PeerNetworkClient**: the download manager
  and the Soulseek client are not in `src/`; only a manual test script and a
  unit test name them, too little to translate.
- **CacheWrapper**: a fail-open pass-through to Redis with metrics, with no
  control of its own worth checking.
- **Frontend hooks and components**: React rendering; the state they derive
  from is `PlaybackStateMachine`.
- **Catalog services, metrics and logging**: queries and formatting with no
  state of their own.
- **The rest of the mood-bucket service**: the read-only queries
  (`getMoodBuckets`, presets) and the mix's display fields.
- **The job sweep of DataCleanup** (`cleanupDownloadJobs`): it deletes rows of
  the coordinator's table, which is not modelled.
