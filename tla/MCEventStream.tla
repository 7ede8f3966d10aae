--------------------------- MODULE MCEventStream ---------------------------
(* Small instances of EventStream for TLC.                                 *)
EXTENDS EventStream, TLC

CONSTANTS c1, c2, c3, u1, u2

MCConns == {c1, c2, c3}

MCUsers == {u1, u2}

\* Two streams of one user (two tabs) and one of another.
MCUserOf == (c1 :> u1) @@ (c2 :> u1) @@ (c3 :> u2)

=============================================================================
