------------------------ MODULE DistributedLockProofs ------------------------
(***************************************************************************)
(* Proofs about DistributedLock for every set of tasks, instances and     *)
(* keys: withLock keeps its variables well typed, and when every caller   *)
(* has a token of its own no two callers whose TTL has not run out are in  *)
(* the callback on one key.                                                *)
(***************************************************************************)
EXTENDS DistributedLock, TLAPS

(* Every step of acquire, release or expiry keeps the types.              *)
LEMMA TypeInvariance == TypeOK /\ [Next]_vars => TypeOK'
<1> USE ConstantsAssumption DEF TypeOK, Token, Outcomes
<1> SUFFICES ASSUME TypeOK, [Next]_vars PROVE TypeOK'
  OBVIOUS
<1>1. ASSUME NEW t \in Tasks, NEW k \in Keys, AcquireOK(t, k) PROVE TypeOK'
  BY <1>1 DEF AcquireOK
<1>2. ASSUME NEW t \in Tasks, NEW k \in Keys, AcquireContended(t, k) PROVE TypeOK'
  BY <1>2 DEF AcquireContended
<1>3. ASSUME NEW t \in Tasks, NEW k \in Keys, AcquireFailed(t, k) PROVE TypeOK'
  BY <1>3 DEF AcquireFailed
<1>4. ASSUME NEW t \in Tasks, Release(t) PROVE TypeOK'
  BY <1>4 DEF Release, Deleted
<1>5. ASSUME NEW k \in Keys, Expire(k) PROVE TypeOK'
  BY <1>5 DEF Expire, Deleted
<1>6. CASE UNCHANGED vars
  BY <1>6 DEF vars
<1>7. QED
  BY <1>1, <1>2, <1>3, <1>4, <1>5, <1>6 DEF Next, Acquire

(* The variables of the lock keep their types: the Redis value of every   *)
(* lock key is a token or absent, and each withLock call is outside the   *)
(* lock or inside its callback.                                            *)
THEOREM TypeCorrect == Spec => []TypeOK
<1>1. Init => TypeOK
  BY ConstantsAssumption DEF Init, TypeOK, Outcomes
<1>2. QED
  BY <1>1, TypeInvariance, PTL DEF Spec

-----------------------------------------------------------------------------
(* Under DistinctTokens, a key whose value is the token of task t was     *)
(* written by t: the compare step of the release script identifies the    *)
(* acquirer.                                                               *)
LEMMA TokenIdentifiesHolder ==
    ASSUME DistinctTokens, TypeOK, SetIffHeld, StoreHoldsHolderToken,
           NEW t \in Tasks, NEW k \in Keys, store[k] = Token(t)
    PROVE  holder[k] = t
<1>1. holder[k] # NoTask
  BY ConstantsAssumption DEF TypeOK, SetIffHeld, Token
<1>2. Token(holder[k]) = Token(t)
  BY <1>1 DEF StoreHoldsHolderToken
<1>3. holder[k] \in Tasks
  BY <1>1 DEF TypeOK
<1>4. QED
  BY <1>2, <1>3 DEF DistinctTokens

LEMMA InitIInv == Init => IInv
BY ConstantsAssumption
   DEF Init, IInv, TypeOK, Outcomes, SetIffHeld, StoreHoldsHolderToken, ProtectedIsHolder

LEMMA NextIInv == DistinctTokens /\ IInv /\ [Next]_vars => IInv'
<1> SUFFICES ASSUME DistinctTokens, IInv, [Next]_vars PROVE IInv'
  OBVIOUS
<1> USE ConstantsAssumption DEF Token
<1>0. TypeOK /\ SetIffHeld /\ StoreHoldsHolderToken /\ ProtectedIsHolder
  BY DEF IInv
<1>T. TypeOK'
  BY <1>0, TypeInvariance
<1>1. ASSUME NEW t \in Tasks, NEW k \in Keys, AcquireOK(t, k) PROVE IInv'
  <2>1. holder[k] = NoTask
    BY <1>0, <1>1 DEF AcquireOK, SetIffHeld
  <2>2. SetIffHeld' /\ StoreHoldsHolderToken'
    BY <1>0, <1>1, <1>T DEF AcquireOK, SetIffHeld, StoreHoldsHolderToken, TypeOK
  <2>3. ProtectedIsHolder'
    BY <1>0, <1>1, <2>1 DEF AcquireOK, ProtectedIsHolder, TypeOK
  <2>4. QED
    BY <1>T, <2>2, <2>3 DEF IInv
<1>2. ASSUME NEW t \in Tasks, NEW k \in Keys, AcquireContended(t, k) PROVE IInv'
  <2>1. SetIffHeld' /\ StoreHoldsHolderToken'
    BY <1>0, <1>2 DEF AcquireContended, SetIffHeld, StoreHoldsHolderToken
  <2>2. ProtectedIsHolder'
    BY <1>0, <1>2 DEF AcquireContended, ProtectedIsHolder, TypeOK
  <2>3. QED
    BY <1>T, <2>1, <2>2 DEF IInv
<1>3. ASSUME NEW t \in Tasks, NEW k \in Keys, AcquireFailed(t, k) PROVE IInv'
  <2>1. CASE UNCHANGED << store, holder >>
    <3>1. SetIffHeld' /\ StoreHoldsHolderToken'
      BY <1>0, <2>1 DEF SetIffHeld, StoreHoldsHolderToken
    <3>2. ProtectedIsHolder'
      BY <1>0, <1>3, <2>1 DEF AcquireFailed, ProtectedIsHolder, TypeOK
    <3>3. QED
      BY <1>T, <3>1, <3>2 DEF IInv
  <2>2. CASE /\ store[k] = NoToken
             /\ store' = [store EXCEPT ![k] = Token(t)]
             /\ holder' = [holder EXCEPT ![k] = t]
    <3>1. holder[k] = NoTask
      BY <1>0, <2>2 DEF SetIffHeld
    <3>2. SetIffHeld' /\ StoreHoldsHolderToken'
      BY <1>0, <1>T, <2>2 DEF SetIffHeld, StoreHoldsHolderToken, TypeOK
    <3>3. ProtectedIsHolder'
      BY <1>0, <1>3, <2>2, <3>1 DEF AcquireFailed, ProtectedIsHolder, TypeOK
    <3>4. QED
      BY <1>T, <3>2, <3>3 DEF IInv
  <2>3. QED
    BY <1>3, <2>1, <2>2 DEF AcquireFailed
<1>4. ASSUME NEW t \in Tasks, Release(t) PROVE IInv'
  <2> DEFINE k == key[t]
  <2>0. k \in Keys /\ pc[t] = "cs"
    BY <1>0, <1>4 DEF Release, TypeOK
  \* A step that deletes the key only when it holds t's token.
  <2>1. CASE store[k] = Token(t) /\ Deleted(k)
    <3>1. holder[k] = t
      BY <1>0, <2>0, <2>1, TokenIdentifiesHolder
    <3>2. SetIffHeld' /\ StoreHoldsHolderToken'
      BY <1>0, <1>T, <2>0, <2>1 DEF Deleted, SetIffHeld, StoreHoldsHolderToken, TypeOK
    <3>3. ProtectedIsHolder'
      BY <1>0, <1>4, <2>0, <2>1, <3>1 DEF Release, Deleted, ProtectedIsHolder, TypeOK
    <3>4. QED
      BY <1>T, <3>2, <3>3 DEF IInv
  <2>2. CASE UNCHANGED << store, holder >>
    <3>1. SetIffHeld' /\ StoreHoldsHolderToken'
      BY <1>0, <2>2 DEF SetIffHeld, StoreHoldsHolderToken
    <3>2. ProtectedIsHolder'
      BY <1>0, <1>4, <2>0, <2>2 DEF Release, ProtectedIsHolder, TypeOK
    <3>3. QED
      BY <1>T, <3>1, <3>2 DEF IInv
  <2>3. QED
    BY <1>4, <2>1, <2>2 DEF Release
<1>5. ASSUME NEW k \in Keys, Expire(k) PROVE IInv'
  <2>1. SetIffHeld' /\ StoreHoldsHolderToken'
    BY <1>0, <1>5, <1>T DEF Expire, Deleted, SetIffHeld, StoreHoldsHolderToken, TypeOK
  <2>2. ProtectedIsHolder'
    BY <1>0, <1>5 DEF Expire, Deleted, ProtectedIsHolder, TypeOK
  <2>3. QED
    BY <1>T, <2>1, <2>2 DEF IInv
<1>6. CASE UNCHANGED vars
  BY <1>0, <1>6 DEF vars, IInv, TypeOK, SetIffHeld, StoreHoldsHolderToken, ProtectedIsHolder
<1>7. QED
  BY <1>1, <1>2, <1>3, <1>4, <1>5, <1>6 DEF Next, Acquire

LEMMA IInvImpliesMutualExclusion == IInv => MutualExclusion
BY DEF IInv, ProtectedIsHolder, MutualExclusion, Protected

(* Mutual exclusion of withLock for every number of callers and keys,     *)
(* with Redis faults and TTL expiry, provided each caller writes a token  *)
(* of its own (separate DistributedLock objects, as in the unit tests):   *)
(* two callers whose TTL has not run out are never both in the callback   *)
(* on one key.                                                             *)
THEOREM MutualExclusionHolds == DistinctTokens => (Spec => []MutualExclusion)
<1> SUFFICES ASSUME DistinctTokens PROVE Spec => []MutualExclusion
  OBVIOUS
<1>1. Init => IInv
  BY InitIInv
<1>2. IInv /\ [Next]_vars => IInv'
  BY NextIInv
<1>3. IInv => MutualExclusion
  BY IInvImpliesMutualExclusion
<1>4. QED
  BY <1>1, <1>2, <1>3, PTL DEF Spec

-----------------------------------------------------------------------------
(* The refinement of LockOwnership: each step of the lock is a step of the *)
(* ownership lock or leaves its owner and held unchanged.                  *)

Abs == << holder, Held >>

LEMMA InitRefines == Init => Ownership!Init
BY DEF Init, Ownership!Init, Held

LEMMA NextRefines ==
    DistinctTokens /\ IInv /\ [Next]_vars => [Ownership!Next]_Abs
<1> SUFFICES ASSUME DistinctTokens, IInv, [Next]_vars PROVE [Ownership!Next]_Abs
  OBVIOUS
<1> USE ConstantsAssumption DEF Token
<1>0. TypeOK /\ SetIffHeld /\ StoreHoldsHolderToken
  BY DEF IInv
<1>1. ASSUME NEW t \in Tasks, NEW k \in Keys, AcquireOK(t, k) PROVE Ownership!Acquire(t, k)
  <2>1. holder[k] = NoTask /\ Held[t] = {}
    BY <1>0, <1>1 DEF AcquireOK, SetIffHeld, Held
  <2>2. Held' = [Held EXCEPT ![t] = {k}]
    BY <1>0, <1>1 DEF AcquireOK, Held, TypeOK
  <2>3. QED
    BY <1>1, <2>1, <2>2 DEF AcquireOK, Ownership!Acquire
<1>2. ASSUME NEW t \in Tasks, NEW k \in Keys, AcquireContended(t, k) PROVE UNCHANGED Abs
  BY <1>0, <1>2 DEF AcquireContended, Abs, Held, TypeOK
<1>3. ASSUME NEW t \in Tasks, NEW k \in Keys, AcquireFailed(t, k)
      PROVE  Ownership!Acquire(t, k) \/ UNCHANGED Abs
  <2>1. Held' = Held /\ Held[t] = {}
    BY <1>0, <1>3 DEF AcquireFailed, Held, TypeOK
  <2>2. CASE UNCHANGED << store, holder >>
    BY <2>1, <2>2 DEF Abs
  <2>3. CASE /\ store[k] = NoToken
             /\ store' = [store EXCEPT ![k] = Token(t)]
             /\ holder' = [holder EXCEPT ![k] = t]
    <3>1. holder[k] = NoTask
      BY <1>0, <2>3 DEF SetIffHeld
    <3>2. QED
      BY <2>1, <2>3, <3>1 DEF Ownership!Acquire
  <2>4. QED
    BY <1>3, <2>2, <2>3 DEF AcquireFailed
<1>4. ASSUME NEW t \in Tasks, Release(t) PROVE Ownership!Release(t)
  <2> DEFINE k == key[t]
  <2>0. k \in Keys /\ Held[t] = {k}
    BY <1>0, <1>4 DEF Release, Held, TypeOK
  <2>1. Held' = [Held EXCEPT ![t] = {}]
    BY <1>0, <1>4 DEF Release, Held, TypeOK
  <2>2. CASE store[k] = Token(t) /\ Deleted(k)
    <3>1. holder[k] = t
      BY <1>0, <2>0, <2>2, TokenIdentifiesHolder
    <3>2. QED
      BY <2>0, <2>1, <2>2, <3>1 DEF Deleted, Ownership!Release
  <2>3. CASE UNCHANGED << store, holder >>
    BY <2>0, <2>1, <2>3 DEF Ownership!Release
  <2>4. QED
    BY <1>4, <2>2, <2>3 DEF Release
<1>5. ASSUME NEW k \in Keys, Expire(k) PROVE Ownership!Expire(k)
  <2>1. holder[k] # NoTask
    BY <1>0, <1>5 DEF Expire, SetIffHeld
  <2>2. Held' = Held
    BY <1>5 DEF Expire, Held
  <2>3. QED
    BY <1>5, <2>1, <2>2 DEF Expire, Deleted, Ownership!Expire
<1>6. CASE UNCHANGED vars
  BY <1>6 DEF vars, Abs, Held
<1>7. QED
  BY <1>1, <1>2, <1>3, <1>4, <1>5, <1>6 DEF Next, Acquire, Ownership!Next, Abs

(* withLock implements the ownership lock for every number of callers and *)
(* keys, with Redis faults and TTL expiry, when each caller writes a token *)
(* of its own: a key is taken only when free, and freed only by its        *)
(* owner's release or by expiry.                                            *)
THEOREM RefinesLockOwnership == DistinctTokens => (Spec => ImplementsLockOwnership)
<1> SUFFICES ASSUME DistinctTokens PROVE Spec => Ownership!Spec
  BY DEF ImplementsLockOwnership
<1>1. Init => IInv /\ Ownership!Init
  BY InitIInv, InitRefines
<1>2. IInv /\ [Next]_vars => IInv' /\ [Ownership!Next]_Abs
  BY NextIInv, NextRefines
<1>3. QED
  BY <1>1, <1>2, PTL DEF Spec, Ownership!Spec, Abs


=============================================================================
