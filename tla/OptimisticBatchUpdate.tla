------------------------ MODULE OptimisticBatchUpdate ------------------------
(***************************************************************************)
(* updateBatchStatus of backend/src/services/discovery/                   *)
(* optimisticBatchUpdate.ts: concurrent writers of one DiscoveryBatch row  *)
(* that guard each write with the row's version.                           *)
(*                                                                         *)
(* A writer is one call of updateBatchStatus.  Its loop is two awaited     *)
(* Prisma calls, findUnique (read the version) and update where            *)
(* {id, version} (write it plus one); each is one atomic step of the       *)
(* database, and other writers run between them.  A write that matches no *)
(* row throws P2025, which the loop takes for a version conflict.  The     *)
(* jittered sleep before a retry is an await and adds no state.            *)
(*                                                                         *)
(* The fields a call writes are fixed by its caller before the call.  The  *)
(* callers, which are not part of this repository, are modelled from the  *)
(* spec as counting one finished album: they read completedAlbums and ask  *)
(* for completedAlbums + 1.  The retention sweep (cleanupDiscoveryBatches) *)
(* may delete the row at any time.                                         *)
(***************************************************************************)
EXTENDS Naturals, FiniteSets

CONSTANTS
    Writers,      \* concurrent calls of updateBatchStatus on one batch
    MaxRetries,   \* options.maxRetries
    StoreFaults   \* whether a Prisma call may throw something other than P2025

ASSUME ConstantsAssumption ==
    /\ Writers # {}
    /\ IsFiniteSet(Writers)
    /\ MaxRetries \in Nat
    /\ StoreFaults \in BOOLEAN

VARIABLES
    batch,        \* the row: [exists, version, completed]
    pc,           \* pc[w] \in {"idle", "read", "write", "done"}
    data,         \* data[w]: the completedAlbums value the call writes
    seen,         \* seen[w]: currentVersion, the version read last
    retries,      \* retries[w]: the loop's retry counter
    result,       \* result[w]: what the call returned
    changes,      \* history: number of writes and deletes of the row
    changesAtCall \* history: value of changes when w's call began

vars == << batch, pc, data, seen, retries, result, changes, changesAtCall >>

Results == {"none", "success", "notFound", "maxRetries", "unexpected"}

TypeOK ==
    /\ batch \in [exists : BOOLEAN, version : Nat, completed : Nat]
    /\ pc \in [Writers -> {"idle", "read", "write", "done"}]
    /\ data \in [Writers -> Nat]
    /\ seen \in [Writers -> Nat]
    /\ retries \in [Writers -> 0 .. MaxRetries + 1]
    /\ result \in [Writers -> Results]
    /\ changes \in Nat
    /\ changesAtCall \in [Writers -> Nat]

Init ==
    /\ batch = [exists |-> TRUE, version |-> 0, completed |-> 0]
    /\ pc = [w \in Writers |-> "idle"]
    /\ data = [w \in Writers |-> 0]
    /\ seen = [w \in Writers |-> 0]
    /\ retries = [w \in Writers |-> 0]
    /\ result = [w \in Writers |-> "none"]
    /\ changes = 0
    /\ changesAtCall = [w \in Writers |-> 0]

Return(w, r) ==
    /\ pc' = [pc EXCEPT ![w] = "done"]
    /\ result' = [result EXCEPT ![w] = r]

-----------------------------------------------------------------------------
\* The caller reads the batch's count and calls updateBatchStatus with
\* { completedAlbums: completedAlbums + 1 }.
Call(w) ==
    /\ pc[w] = "idle"
    /\ pc' = [pc EXCEPT ![w] = "read"]
    /\ data' = [data EXCEPT ![w] = batch.completed + 1]
    /\ changesAtCall' = [changesAtCall EXCEPT ![w] = changes]
    /\ UNCHANGED << batch, seen, retries, result, changes >>

\* findUnique({ where: { id }, select: { version } }).
ReadVersion(w) ==
    /\ pc[w] = "read"
    /\ \/ /\ ~batch.exists
          /\ Return(w, "notFound")
          /\ UNCHANGED seen
       \/ /\ batch.exists
          /\ seen' = [seen EXCEPT ![w] = batch.version]
          /\ pc' = [pc EXCEPT ![w] = "write"]
          /\ UNCHANGED result
       \/ /\ StoreFaults
          /\ Return(w, "unexpected")
          /\ UNCHANGED seen
    /\ UNCHANGED << batch, data, retries, changes, changesAtCall >>

\* The P2025 branch without its maxRetries check: every conflict goes round
\* the loop again.
ConflictUnbounded(w) ==
    /\ retries' = [retries EXCEPT ![w] = @ + 1]
    /\ pc' = [pc EXCEPT ![w] = "read"]
    /\ UNCHANGED result

\* P2025: count the retry; give up once retries exceeds maxRetries,
\* otherwise sleep and go round the loop to read the version again.
Conflict(w) ==
    /\ retries' = [retries EXCEPT ![w] = @ + 1]
    /\ IF retries[w] + 1 > MaxRetries
          THEN Return(w, "maxRetries")
          ELSE /\ pc' = [pc EXCEPT ![w] = "read"]
               /\ UNCHANGED result

\* The same loop with the version read hoisted out of it: a conflict
\* retries the write with the version it already holds.
WriteStaleRetry(w) ==
    /\ pc[w] = "write"
    /\ \/ /\ batch.exists /\ batch.version = seen[w]
          /\ batch' = [batch EXCEPT !.version = seen[w] + 1, !.completed = data[w]]
          /\ changes' = changes + 1
          /\ Return(w, "success")
          /\ UNCHANGED retries
       \/ /\ ~(batch.exists /\ batch.version = seen[w])
          /\ retries' = [retries EXCEPT ![w] = @ + 1]
          /\ IF retries[w] + 1 > MaxRetries
                THEN Return(w, "maxRetries")
                ELSE UNCHANGED << pc, result >>
          /\ UNCHANGED << batch, changes >>
    /\ UNCHANGED << data, seen, changesAtCall >>

\* An update matching the id only, writing the version it computed.
WriteUnconditional(w) ==
    /\ pc[w] = "write"
    /\ \/ /\ batch.exists
          /\ batch' = [batch EXCEPT !.version = seen[w] + 1, !.completed = data[w]]
          /\ changes' = changes + 1
          /\ Return(w, "success")
          /\ UNCHANGED retries
       \/ /\ ~batch.exists
          /\ Conflict(w)
          /\ UNCHANGED << batch, changes >>
    /\ UNCHANGED << data, seen, changesAtCall >>

\* update({ where: { id, version: currentVersion },
\*          data: { ...data, version: currentVersion + 1 } }).
Write(w) ==
    /\ pc[w] = "write"
    /\ \/ /\ batch.exists /\ batch.version = seen[w]
          /\ batch' = [batch EXCEPT !.version = seen[w] + 1, !.completed = data[w]]
          /\ changes' = changes + 1
          /\ Return(w, "success")
          /\ UNCHANGED retries
       \/ /\ ~(batch.exists /\ batch.version = seen[w])
          /\ Conflict(w)
          /\ UNCHANGED << batch, changes >>
       \/ /\ StoreFaults
          /\ Return(w, "unexpected")
          /\ UNCHANGED << batch, changes, retries >>
    /\ UNCHANGED << data, seen, changesAtCall >>

\* cleanupDiscoveryBatches deletes the row.
DeleteBatch ==
    /\ batch.exists
    /\ batch' = [batch EXCEPT !.exists = FALSE]
    /\ changes' = changes + 1
    /\ UNCHANGED << pc, data, seen, retries, result, changesAtCall >>

\* Every call has returned.
Terminated ==
    /\ \A w \in Writers : pc[w] = "done"
    /\ UNCHANGED vars

Next ==
    \/ \E w \in Writers : Call(w) \/ ReadVersion(w) \/ Write(w)
    \/ DeleteBatch
    \/ Terminated

Spec == Init /\ [][Next]_vars

-----------------------------------------------------------------------------
Committed == {w \in Writers : result[w] = "success"}

(* The version column counts the updates applied: while the row exists its *)
(* version equals the number of calls that returned success, so no two    *)
(* concurrent calls both commit on top of the same version (spec 3, Batch; *)
(* the where { version: currentVersion } of update, lines 79-88).          *)
VersionCountsCommits ==
    batch.exists => batch.version = Cardinality(Committed)

(* Every retry of a call is paid for by progress of someone else: the      *)
(* retries a call has made never exceed the number of times other writers  *)
(* or the retention sweep changed the row since the call began.  So a call *)
(* among N writers makes at most N - 1 retries, and no call gives up when  *)
(* maxRetries >= N - 1 (the re-read of the version on each pass of the    *)
(* loop, lines 61-66, is what makes this true).                            *)
RetriesWitnessChanges ==
    \A w \in Writers :
        pc[w] # "idle" =>
            retries[w] <= changes - changesAtCall[w]
                            - (IF result[w] = "success" THEN 1 ELSE 0)

(* Each call's increment is reflected in the row: completedAlbums equals   *)
(* the number of calls that returned success (spec 8, "no update is lost  *)
(* and no update is double-applied").                                      *)
NoLostIncrement ==
    batch.exists => batch.completed = Cardinality(Committed)

-----------------------------------------------------------------------------
(* The inductive strengthening of VersionCountsCommits and                 *)
(* RetriesWitnessChanges.  A call returns at most once; it enters the loop *)
(* with no retries and stays within its budget while in it; the version it *)
(* read is never ahead of the row; and a call about to write has already   *)
(* been paid, in changes since it began, for the retry a conflict would    *)
(* cost it unless the row is exactly as it read it.                        *)
NotDoneHasNoResult == \A w \in Writers : pc[w] # "done" => result[w] = "none"

IdleIsFresh == \A w \in Writers : pc[w] = "idle" => retries[w] = 0

LoopWithinBudget ==
    \A w \in Writers : pc[w] \in {"read", "write"} => retries[w] <= MaxRetries

SeenNotAhead == \A w \in Writers : pc[w] = "write" => seen[w] <= batch.version

RowAsRead(w) == batch.exists /\ batch.version = seen[w]

PendingRetryPaid ==
    \A w \in Writers :
        pc[w] = "write" =>
            retries[w] + (IF RowAsRead(w) THEN 0 ELSE 1) <= changes - changesAtCall[w]

IInv ==
    /\ TypeOK
    /\ VersionCountsCommits
    /\ RetriesWitnessChanges
    /\ NotDoneHasNoResult
    /\ IdleIsFresh
    /\ LoopWithinBudget
    /\ SeenNotAhead
    /\ PendingRetryPaid

=============================================================================
