---------------------------- MODULE LockOwnership ----------------------------
(***************************************************************************)
(* What the lock of spec 3 and 4.2 promises, with no tokens and no Redis:  *)
(* each key has at most one owner; a free key may be taken by a caller    *)
(* (who may not learn of it when the reply is lost); only the owner's own *)
(* release frees it, and a release by anyone else leaves it alone; and    *)
(* any lock may expire.  held[t] is the key t believes it holds: the key  *)
(* of its callback, or none.                                               *)
(***************************************************************************)
CONSTANTS Tasks, Keys, NoOwner

VARIABLES owner, held

Init ==
    /\ owner = [k \in Keys |-> NoOwner]
    /\ held = [t \in Tasks |-> {}]

\* A caller with no lock takes a free key; it enters its callback, or its
\* reply is lost and it goes on without the lock it holds.
Acquire(t, k) ==
    /\ held[t] = {}
    /\ owner[k] = NoOwner
    /\ owner' = [owner EXCEPT ![k] = t]
    /\ \/ held' = [held EXCEPT ![t] = {k}]
       \/ UNCHANGED held

\* A caller leaves its callback and releases: its own lock is freed, or
\* stays until it expires when the release is not applied; anyone else's
\* lock is untouched.
Release(t) ==
    \E k \in held[t] :
        /\ held' = [held EXCEPT ![t] = {}]
        /\ \/ owner[k] = t /\ owner' = [owner EXCEPT ![k] = NoOwner]
           \/ UNCHANGED owner

\* The TTL runs out; whoever believes it holds the key goes on believing it.
Expire(k) ==
    /\ owner[k] # NoOwner
    /\ owner' = [owner EXCEPT ![k] = NoOwner]
    /\ UNCHANGED held

Next ==
    \/ \E t \in Tasks, k \in Keys : Acquire(t, k)
    \/ \E t \in Tasks : Release(t)
    \/ \E k \in Keys : Expire(k)

Spec == Init /\ [][Next]_<< owner, held >>

=============================================================================
