--------------------------- MODULE DistributedLock ---------------------------
(***************************************************************************)
(* The Redis-backed lock of backend/src/utils/distributedLock.ts.          *)
(*                                                                         *)
(* A DistributedLock instance draws one random token when it is           *)
(* constructed (line 8) and writes that token as the value of lock:<key>  *)
(* with SET NX PX (acquire), deletes the key with a compare-then-delete    *)
(* Lua script (release), and wraps a callback between the two (withLock). *)
(* Each Redis command is atomic in the store; every await between them is *)
(* a point where other tasks, in this process or another, may run.         *)
(*                                                                         *)
(* A task is one pending call of withLock.  Tasks run withLock over and   *)
(* over; the callback itself is abstract (pc = "cs").  The TTL of a key is *)
(* not timed: a key may expire whenever it is set, which is what happens  *)
(* to a lock whose callback outlives ttlMs.                                *)
(***************************************************************************)
EXTENDS Naturals, FiniteSets

CONSTANTS
    Tasks,        \* concurrent callers of withLock
    Instances,    \* DistributedLock objects; one token each
    InstanceOf,   \* the instance through which each task calls withLock
    Keys,         \* lock names
    NoToken,      \* value of an absent key
    NoTask,       \* "no task set this key" (history variable only)
    StoreFaults   \* whether Redis calls may fail (reply lost or refused)

ASSUME ConstantsAssumption ==
    /\ InstanceOf \in [Tasks -> Instances]
    /\ NoToken \notin Instances
    /\ NoTask \notin Tasks
    /\ Keys # {}
    /\ StoreFaults \in BOOLEAN

VARIABLES
    store,    \* store[k]: the token held at lock:k, or NoToken
    pc,       \* pc[t] \in {"idle", "cs"}: outside withLock, or in its callback
    key,      \* key[t]: the key of t's current (or last) withLock call
    outcome,  \* outcome[t]: what t's last acquire or release returned
    holder,   \* history: the task whose acquire wrote store[k]
    lapsed    \* history: t's key expired while t was in the callback

vars == << store, pc, key, outcome, holder, lapsed >>

Outcomes == {"none", "acquired", "unavailable", "released", "notReleased"}

TypeOK ==
    /\ store \in [Keys -> Instances \cup {NoToken}]
    /\ pc \in [Tasks -> {"idle", "cs"}]
    /\ key \in [Tasks -> Keys]
    /\ outcome \in [Tasks -> Outcomes]
    /\ holder \in [Keys -> Tasks \cup {NoTask}]
    /\ lapsed \in [Tasks -> BOOLEAN]

Init ==
    /\ store = [k \in Keys |-> NoToken]
    /\ pc = [t \in Tasks |-> "idle"]
    /\ key \in [Tasks -> Keys]
    /\ outcome = [t \in Tasks |-> "none"]
    /\ holder = [k \in Keys |-> NoTask]
    /\ lapsed = [t \in Tasks |-> FALSE]

Token(t) == InstanceOf[t]

\* Every task calls through a DistributedLock object of its own.
DistinctTokens == \A t1, t2 \in Tasks : Token(t1) = Token(t2) => t1 = t2

-----------------------------------------------------------------------------
(* acquire(key, ttlMs) followed, in withLock, by entering the callback or  *)
(* throwing "Failed to acquire lock".                                      *)

\* SET lock:k token NX PX ttl returned "OK": the callback starts.
AcquireOK(t, k) ==
    /\ pc[t] = "idle"
    /\ store[k] = NoToken
    /\ store' = [store EXCEPT ![k] = Token(t)]
    /\ holder' = [holder EXCEPT ![k] = t]
    /\ pc' = [pc EXCEPT ![t] = "cs"]
    /\ key' = [key EXCEPT ![t] = k]
    /\ outcome' = [outcome EXCEPT ![t] = "acquired"]
    /\ lapsed' = [lapsed EXCEPT ![t] = FALSE]

\* SET NX returned null because the key exists: acquire returns false and
\* withLock throws before its try block, so nothing is released.
AcquireContended(t, k) ==
    /\ pc[t] = "idle"
    /\ store[k] # NoToken
    /\ key' = [key EXCEPT ![t] = k]
    /\ outcome' = [outcome EXCEPT ![t] = "unavailable"]
    /\ UNCHANGED << store, pc, holder, lapsed >>

\* The SET promise rejected (catch at line 19): acquire returns false.  The
\* command may still have been applied by Redis when only the reply was
\* lost; the key then stays set until its TTL, with nobody in the callback.
AcquireFailed(t, k) ==
    /\ StoreFaults
    /\ pc[t] = "idle"
    /\ key' = [key EXCEPT ![t] = k]
    /\ outcome' = [outcome EXCEPT ![t] = "unavailable"]
    /\ \/ UNCHANGED << store, holder >>
       \/ /\ store[k] = NoToken
          /\ store' = [store EXCEPT ![k] = Token(t)]
          /\ holder' = [holder EXCEPT ![k] = t]
    /\ UNCHANGED << pc, lapsed >>

Acquire(t) ==
    \E k \in Keys : AcquireOK(t, k) \/ AcquireContended(t, k) \/ AcquireFailed(t, k)

-----------------------------------------------------------------------------
(* release(key) in the finally block of withLock, after the callback       *)
(* returned or threw.  The result of release is ignored by withLock.       *)

Deleted(k) ==
    /\ store' = [store EXCEPT ![k] = NoToken]
    /\ holder' = [holder EXCEPT ![k] = NoTask]

\* A release that deletes the key whatever its value (a plain DEL instead of
\* the Lua compare-and-delete): the bug the owner token exists to prevent.
ReleaseIgnoringToken(t) ==
    /\ pc[t] = "cs"
    /\ Deleted(key[t])
    /\ pc' = [pc EXCEPT ![t] = "idle"]
    /\ outcome' = [outcome EXCEPT ![t] = "released"]
    /\ UNCHANGED << key, lapsed >>

\* The script: if GET lock:k = token then DEL, atomically in Redis.  A
\* rejected eval (StoreFaults) returns false whether or not it was applied.
Release(t) ==
    LET k == key[t] IN
    /\ pc[t] = "cs"
    /\ pc' = [pc EXCEPT ![t] = "idle"]
    /\ \/ /\ store[k] = Token(t)
          /\ Deleted(k)
          /\ outcome' = [outcome EXCEPT ![t] = "released"]
       \/ /\ store[k] # Token(t)
          /\ outcome' = [outcome EXCEPT ![t] = "notReleased"]
          /\ UNCHANGED << store, holder >>
       \/ /\ StoreFaults
          /\ outcome' = [outcome EXCEPT ![t] = "notReleased"]
          /\ \/ UNCHANGED << store, holder >>
             \/ /\ store[k] = Token(t)
                /\ Deleted(k)
    /\ UNCHANGED << key, lapsed >>

-----------------------------------------------------------------------------
(* The PX TTL runs out: Redis drops the key.  A task still in its callback *)
(* on that key has lost the lock without knowing it.                       *)
Expire(k) ==
    /\ store[k] # NoToken
    /\ Deleted(k)
    /\ lapsed' = [t \in Tasks |->
                    lapsed[t] \/ (pc[t] = "cs" /\ key[t] = k /\ holder[k] = t)]
    /\ UNCHANGED << pc, key, outcome >>

Next ==
    \/ \E t \in Tasks : Acquire(t) \/ Release(t)
    \/ \E k \in Keys : Expire(k)

Spec == Init /\ [][Next]_vars

-----------------------------------------------------------------------------
(* A task in the callback on key k whose lock has not expired under it.    *)
Protected(t, k) == pc[t] = "cs" /\ key[t] = k /\ ~lapsed[t]

(* Mutual exclusion of withLock, as far as a TTL lock can give it: two     *)
(* different tasks are never both inside withLock's callback on the same  *)
(* key unless the TTL of one of them ran out first.  It fails if a release *)
(* can delete a lock that a later acquire wrote, which the owner token of  *)
(* release (distributedLock.ts lines 29-39) is there to prevent.           *)
MutualExclusion ==
    \A k \in Keys : \A t1, t2 \in Tasks :
        Protected(t1, k) /\ Protected(t2, k) => t1 = t2


(* What the spec asks of the lock (spec 2: it is "used to serialize        *)
(* critical sections across multiple process instances", and spec 4.4     *)
(* relies on it to keep job creation single): two different tasks are     *)
(* never inside withLock's callback on the same key at once.  withLock     *)
(* never extends the PX TTL while its callback runs (lines 52-61).         *)
CallbacksSerialized ==
    \A k \in Keys : \A t1, t2 \in Tasks :
        pc[t1] = "cs" /\ pc[t2] = "cs" /\ key[t1] = k /\ key[t2] = k => t1 = t2

-----------------------------------------------------------------------------
(* The lock seen as LockOwnership: the owner of a key is the task whose   *)
(* acquire wrote it, and a task holds the key of its callback.             *)
Held == [t \in Tasks |-> IF pc[t] = "cs" THEN {key[t]} ELSE {}]

Ownership == INSTANCE LockOwnership WITH NoOwner <- NoTask, owner <- holder, held <- Held

(* withLock implements the ownership lock of spec 3 ("only the holder that *)
(* set a given owner token may release it") and of the spec's tests of     *)
(* acquire and release: SET NX takes only a free key, and the compare-and- *)
(* delete script of release (lines 29-39) frees a key only for the task   *)
(* that wrote it, never a lock re-acquired by someone else after expiry.   *)
ImplementsLockOwnership == Ownership!Spec

-----------------------------------------------------------------------------
(* The inductive strengthening of MutualExclusion, for DistinctTokens:     *)
(* a key is set exactly when some acquire wrote it, it holds that          *)
(* acquirer's token, and a task in its callback whose TTL has not run out  *)
(* is still the one that wrote its key.                                    *)
SetIffHeld == \A k \in Keys : store[k] = NoToken <=> holder[k] = NoTask

StoreHoldsHolderToken ==
    \A k \in Keys : holder[k] # NoTask => store[k] = Token(holder[k])

ProtectedIsHolder ==
    \A t \in Tasks : pc[t] = "cs" /\ ~lapsed[t] => holder[key[t]] = t

IInv == TypeOK /\ SetIffHeld /\ StoreHoldsHolderToken /\ ProtectedIsHolder

=============================================================================
