-------------------------- MODULE MCDistributedLock --------------------------
(* Small instances of DistributedLock for TLC.                             *)
EXTENDS DistributedLock, TLC

CONSTANTS t1, t2, t3, i1, i2, i3

\* Three tasks, each calling through a DistributedLock object of its own, as
\* the unit tests do (lock1, lock2 in distributedLock.test.ts).
MCInstancesSeparate == (t1 :> i1) @@ (t2 :> i2) @@ (t3 :> i3)

\* Two tasks of one process calling through the exported singleton
\* distributedLock (distributedLock.ts line 66), plus one task elsewhere.
MCInstancesShared == (t1 :> i1) @@ (t2 :> i1) @@ (t3 :> i2)

=============================================================================
