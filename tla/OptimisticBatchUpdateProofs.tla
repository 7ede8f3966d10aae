--------------------- MODULE OptimisticBatchUpdateProofs ---------------------
(***************************************************************************)
(* Proofs about OptimisticBatchUpdate for every finite set of writers and  *)
(* every maxRetries, with store errors and retention deletes: the version  *)
(* column counts the calls that returned success, and every retry of a     *)
(* call is matched by a change of the row since the call began.            *)
(***************************************************************************)
EXTENDS OptimisticBatchUpdate, FiniteSetTheorems, TLAPS

(* The calls that returned success form a finite set.                      *)
LEMMA CommittedFinite ==
    ASSUME TypeOK PROVE IsFiniteSet(Committed)
BY ConstantsAssumption, FS_Subset DEF Committed

(* A call that returns success adds one to the number of committed calls;  *)
(* a call that returns anything else leaves the committed calls alone.     *)
LEMMA ReturnCount ==
    ASSUME TypeOK, NEW w \in Writers, result[w] = "none",
           NEW r, result' = [result EXCEPT ![w] = r]
    PROVE  /\ r = "success" => Cardinality(Committed') = Cardinality(Committed) + 1
           /\ r # "success" => Committed' = Committed
<1>1. r = "success" => Committed' = Committed \cup {w}
  BY DEF Committed, TypeOK
<1>2. w \notin Committed
  BY DEF Committed
<1>3. r # "success" => Committed' = Committed
  BY DEF Committed, TypeOK
<1>4. QED
  BY <1>1, <1>2, <1>3, CommittedFinite, FS_AddElement

LEMMA InitIInv == Init => IInv
<1> SUFFICES ASSUME Init PROVE IInv
  OBVIOUS
<1>1. Committed = {}
  BY DEF Init, Committed
<1>2. QED
  BY <1>1, FS_EmptySet, ConstantsAssumption
     DEF Init, IInv, TypeOK, Results, VersionCountsCommits, RetriesWitnessChanges,
         NotDoneHasNoResult, IdleIsFresh, LoopWithinBudget, SeenNotAhead, PendingRetryPaid

\* The conjuncts of IInv other than the type and the version count.
Rest ==
    /\ RetriesWitnessChanges
    /\ NotDoneHasNoResult
    /\ IdleIsFresh
    /\ LoopWithinBudget
    /\ SeenNotAhead
    /\ PendingRetryPaid

LEMMA NextIInv == IInv /\ [Next]_vars => IInv'
<1> SUFFICES ASSUME IInv, [Next]_vars PROVE IInv'
  OBVIOUS
<1> USE ConstantsAssumption
<1>0. TypeOK /\ VersionCountsCommits /\ Rest
  BY DEF IInv, Rest
<1> HIDE DEF IInv
<1>q. TypeOK' /\ VersionCountsCommits' /\ Rest' => IInv'
  BY DEF IInv, Rest
<1>1. ASSUME NEW w \in Writers, Call(w) PROVE IInv'
  <2>1. TypeOK' /\ Rest'
    BY <1>0, <1>1
    DEF Call, TypeOK, Rest, RetriesWitnessChanges, NotDoneHasNoResult, IdleIsFresh,
        LoopWithinBudget, SeenNotAhead, PendingRetryPaid, RowAsRead
  <2>2. VersionCountsCommits'
    BY <1>0, <1>1 DEF Call, VersionCountsCommits, Committed
  <2>3. QED
    BY <1>q, <2>1, <2>2
<1>2. ASSUME NEW w \in Writers, ReadVersion(w) PROVE IInv'
  <2>1. result[w] = "none" /\ retries[w] <= MaxRetries
    BY <1>0, <1>2 DEF ReadVersion, Rest, NotDoneHasNoResult, LoopWithinBudget
  <2>2. TypeOK' /\ Rest'
    BY <1>0, <1>2, <2>1
    DEF ReadVersion, Return, TypeOK, Results, Rest, RetriesWitnessChanges,
        NotDoneHasNoResult, IdleIsFresh, LoopWithinBudget, SeenNotAhead,
        PendingRetryPaid, RowAsRead
  <2>3. Committed' = Committed
    BY <1>0, <1>2, <2>1 DEF ReadVersion, Return, TypeOK, Committed
  <2>4. VersionCountsCommits'
    BY <1>0, <1>2, <2>3 DEF ReadVersion, VersionCountsCommits
  <2>5. QED
    BY <1>q, <2>2, <2>4
<1>3. ASSUME NEW w \in Writers, Write(w) PROVE IInv'
  <2>0. pc[w] = "write" /\ result[w] = "none" /\ retries[w] <= MaxRetries
        /\ seen[w] <= batch.version
    BY <1>0, <1>3 DEF Write, Rest, NotDoneHasNoResult, LoopWithinBudget, SeenNotAhead
  <2>1. CASE /\ batch.exists /\ batch.version = seen[w]
             /\ batch' = [batch EXCEPT !.version = seen[w] + 1, !.completed = data[w]]
             /\ changes' = changes + 1
             /\ Return(w, "success")
             /\ UNCHANGED << retries, data, seen, changesAtCall >>
    <3>0. batch' = [exists |-> TRUE, version |-> seen[w] + 1, completed |-> data[w]]
      BY <1>0, <2>1 DEF TypeOK
    <3>a. TypeOK'
      <4>1. batch' \in [exists : BOOLEAN, version : Nat, completed : Nat]
        BY <1>0, <3>0 DEF TypeOK
      <4>2. pc' \in [Writers -> {"idle", "read", "write", "done"}]
            /\ result' \in [Writers -> Results]
        BY <1>0, <2>1 DEF Return, TypeOK, Results
      <4>3. QED
        BY <1>0, <2>1, <4>1, <4>2 DEF TypeOK
    <3>b. RetriesWitnessChanges'
      BY <1>0, <2>0, <2>1
      DEF Return, TypeOK, Rest, RetriesWitnessChanges, PendingRetryPaid, RowAsRead
    <3>c. NotDoneHasNoResult' /\ IdleIsFresh' /\ LoopWithinBudget'
      BY <1>0, <2>1
      DEF Return, TypeOK, Rest, NotDoneHasNoResult, IdleIsFresh, LoopWithinBudget
    <3>d. SeenNotAhead'
      BY <1>0, <2>1 DEF Return, TypeOK, Rest, SeenNotAhead
    <3>e. PendingRetryPaid'
      <4> SUFFICES ASSUME NEW v \in Writers, pc'[v] = "write"
                   PROVE  retries'[v] + (IF RowAsRead(v)' THEN 0 ELSE 1)
                            <= changes' - changesAtCall'[v]
        BY DEF PendingRetryPaid
      <4>1. v # w /\ pc[v] = "write"
        BY <1>0, <2>1 DEF Return, TypeOK
      <4>2. ~RowAsRead(v)'
        BY <1>0, <2>1, <4>1 DEF Rest, SeenNotAhead, RowAsRead, TypeOK
      <4>3. QED
        BY <1>0, <2>1, <4>1, <4>2 DEF Rest, PendingRetryPaid, RowAsRead, TypeOK
    <3>1. TypeOK' /\ Rest'
      BY <3>a, <3>b, <3>c, <3>d, <3>e DEF Rest
    <3>2. Cardinality(Committed') = Cardinality(Committed) + 1
      BY <1>0, <2>0, <2>1, ReturnCount DEF Return
    <3>3. VersionCountsCommits'
      BY <1>0, <2>1, <3>2 DEF VersionCountsCommits, TypeOK
    <3>4. QED
      BY <1>q, <3>1, <3>3
  <2>2. CASE /\ ~(batch.exists /\ batch.version = seen[w])
             /\ Conflict(w)
             /\ UNCHANGED << batch, changes, data, seen, changesAtCall >>
    <3>1. TypeOK' /\ Rest'
      BY <1>0, <2>0, <2>2
      DEF Conflict, Return, TypeOK, Results, Rest, RetriesWitnessChanges,
          NotDoneHasNoResult, IdleIsFresh, LoopWithinBudget, SeenNotAhead,
          PendingRetryPaid, RowAsRead
    <3>2. Committed' = Committed
      BY <1>0, <2>0, <2>2 DEF Conflict, Return, TypeOK, Committed
    <3>3. VersionCountsCommits'
      BY <1>0, <2>2, <3>2 DEF VersionCountsCommits
    <3>4. QED
      BY <1>q, <3>1, <3>3
  <2>3. CASE /\ StoreFaults
             /\ Return(w, "unexpected")
             /\ UNCHANGED << batch, changes, retries, data, seen, changesAtCall >>
    <3>a. TypeOK'
      BY <1>0, <2>3 DEF Return, TypeOK, Results
    <3>b. RetriesWitnessChanges'
      BY <1>0, <2>0, <2>3
      DEF Return, TypeOK, Rest, RetriesWitnessChanges, PendingRetryPaid, RowAsRead
    <3>c. NotDoneHasNoResult' /\ IdleIsFresh' /\ LoopWithinBudget'
      BY <1>0, <2>3
      DEF Return, TypeOK, Rest, NotDoneHasNoResult, IdleIsFresh, LoopWithinBudget
    <3>d. SeenNotAhead' /\ PendingRetryPaid'
      BY <1>0, <2>3 DEF Return, TypeOK, Rest, SeenNotAhead, PendingRetryPaid, RowAsRead
    <3>1. TypeOK' /\ Rest'
      BY <3>a, <3>b, <3>c, <3>d DEF Rest
    <3>2. VersionCountsCommits'
      <4>1. Committed' = Committed
        BY <1>0, <2>0, <2>3 DEF Return, TypeOK, Committed
      <4>2. QED
        BY <1>0, <2>3, <4>1 DEF VersionCountsCommits
    <3>3. QED
      BY <1>q, <3>1, <3>2
  <2>4. QED
    BY <1>3, <2>1, <2>2, <2>3 DEF Write
<1>4. CASE DeleteBatch
  <2>0. batch' = [exists |-> FALSE, version |-> batch.version, completed |-> batch.completed]
    BY <1>0, <1>4 DEF DeleteBatch, TypeOK
  <2>a. TypeOK'
    <3>1. batch' \in [exists : BOOLEAN, version : Nat, completed : Nat]
      BY <1>0, <2>0 DEF TypeOK
    <3>2. QED
      BY <1>0, <1>4, <3>1 DEF DeleteBatch, TypeOK
  <2>b. RetriesWitnessChanges' /\ NotDoneHasNoResult' /\ IdleIsFresh' /\ LoopWithinBudget'
    BY <1>0, <1>4
    DEF DeleteBatch, TypeOK, Rest, RetriesWitnessChanges, NotDoneHasNoResult,
        IdleIsFresh, LoopWithinBudget
  <2>c. SeenNotAhead'
    BY <1>0, <1>4, <2>0 DEF DeleteBatch, Rest, SeenNotAhead
  \* The delete is the change that pays for the retry it causes.
  <2>d. PendingRetryPaid'
    BY <1>0, <1>4, <2>0 DEF DeleteBatch, TypeOK, Rest, PendingRetryPaid, RowAsRead
  <2>1. TypeOK' /\ Rest'
    BY <2>a, <2>b, <2>c, <2>d DEF Rest
  <2>2. VersionCountsCommits'
    BY <1>4 DEF DeleteBatch, VersionCountsCommits
  <2>3. QED
    BY <1>q, <2>1, <2>2
<1>5. CASE Terminated \/ UNCHANGED vars
  <2>1. UNCHANGED vars
    BY <1>5 DEF Terminated
  <2>2. QED
    BY <1>0, <1>q, <2>1
    DEF vars, TypeOK, VersionCountsCommits, Committed, Rest, RetriesWitnessChanges,
        NotDoneHasNoResult, IdleIsFresh, LoopWithinBudget, SeenNotAhead,
        PendingRetryPaid, RowAsRead
<1>6. QED
  BY <1>1, <1>2, <1>3, <1>4, <1>5 DEF Next

(* The retry loop keeps its variables well typed, and in particular never  *)
(* counts more than maxRetries + 1 retries, for every maxRetries.           *)
THEOREM TypeCorrect == Spec => []TypeOK
BY InitIInv, NextIInv, PTL DEF Spec, IInv

(* The version guard of update serialises the writers: while the batch row *)
(* exists its version equals the number of updateBatchStatus calls that    *)
(* returned success, for any number of writers, store errors and deletes.  *)
THEOREM VersionCountsCommitsHolds == Spec => []VersionCountsCommits
BY InitIInv, NextIInv, PTL DEF Spec, IInv

(* Every retry is paid for by another change: the retries of a call never  *)
(* exceed the writes and deletes of the row by others since it began, so   *)
(* among N writers no call retries more than N - 1 times.                   *)
THEOREM RetriesWitnessChangesHolds == Spec => []RetriesWitnessChanges
BY InitIInv, NextIInv, PTL DEF Spec, IInv

=============================================================================
