----------------------------- MODULE EventStream -----------------------------
(***************************************************************************)
(* The server-sent events route (src/backend/src/routes/events.ts, GET    *)
(* /api/events) and the in-process event bus it subscribes to              *)
(* (src/backend/src/services/eventBus.ts).                                 *)
(*                                                                         *)
(* A request carries a JWT.  The route verifies it, awaits the user row   *)
(* (prisma.user.findUnique) and compares the token's tokenVersion with the *)
(* row's; then, in one synchronous run, it writes the stream header, adds *)
(* the response to the connections map under the user id, subscribes a    *)
(* listener to the bus, starts a 30-second heartbeat and registers the     *)
(* request's "close" handler.  The heartbeat unsubscribes when a write     *)
(* fails; the close handler clears the heartbeat, unsubscribes and removes *)
(* the response from the map.  Node emits "close" once, in a later tick    *)
(* than the socket's teardown; a handler registered after that is never   *)
(* called.  Elsewhere, a logout bumps the user's tokenVersion.             *)
(***************************************************************************)
EXTENDS Naturals

CONSTANTS
    Conns,       \* SSE requests (one EventSource connection each)
    Users,       \* user ids
    UserOf,      \* UserOf[c]: the user whose token request c carries
    MaxRevokes   \* tokenVersion bumps (logouts) per user

ASSUME ConstantsAssumption ==
    /\ UserOf \in [Conns -> Users]
    /\ MaxRevokes \in Nat

\* Where a request is: not made; awaiting findUnique; streaming; answered 401.
Stages == {"idle", "verifying", "open", "rejected"}

VARIABLES
    pc,            \* pc[c]: where request c is
    tokVer,        \* tokVer[c]: the tokenVersion in c's JWT
    tokenVersion,  \* tokenVersion[u]: the user row's tokenVersion
    gone,          \* gone[c]: the client closed c's socket (res.destroyed)
    closeQueued,   \* closeQueued[c]: Node has yet to emit "close" for c
    connections,   \* connections[u]: the responses in the map under u
    subscribed,    \* subscribed[c]: c's listener is on the bus
    heartbeat,     \* heartbeat[c]: c's interval is running
    revokedSent    \* history: revokedSent[c], an event went to c after its token was revoked

vars == << pc, tokVer, tokenVersion, gone, closeQueued, connections, subscribed,
           heartbeat, revokedSent >>

TypeOK ==
    /\ pc \in [Conns -> Stages]
    /\ tokVer \in [Conns -> 0 .. MaxRevokes]
    /\ tokenVersion \in [Users -> 0 .. MaxRevokes]
    /\ gone \in [Conns -> BOOLEAN]
    /\ closeQueued \in [Conns -> BOOLEAN]
    /\ connections \in [Users -> SUBSET Conns]
    /\ subscribed \in [Conns -> BOOLEAN]
    /\ heartbeat \in [Conns -> BOOLEAN]
    /\ revokedSent \in [Conns -> BOOLEAN]

Init ==
    /\ pc = [c \in Conns |-> "idle"]
    /\ tokVer = [c \in Conns |-> 0]
    /\ tokenVersion = [u \in Users |-> 0]
    /\ gone = [c \in Conns |-> FALSE]
    /\ closeQueued = [c \in Conns |-> FALSE]
    /\ connections = [u \in Users |-> {}]
    /\ subscribed = [c \in Conns |-> FALSE]
    /\ heartbeat = [c \in Conns |-> FALSE]
    /\ revokedSent = [c \in Conns |-> FALSE]

-----------------------------------------------------------------------------
\* The request arrives with a token issued at some tokenVersion up to the
\* current one.  A missing or unverifiable token is answered 401 at once
\* (lines 20-23, 49-51); a valid one reaches the await of findUnique.
Request(c) ==
    /\ pc[c] = "idle"
    /\ \E v \in 0 .. tokenVersion[UserOf[c]] :
          /\ tokVer' = [tokVer EXCEPT ![c] = v]
          /\ \/ pc' = [pc EXCEPT ![c] = "verifying"]
             \/ pc' = [pc EXCEPT ![c] = "rejected"]
    /\ UNCHANGED << tokenVersion, gone, closeQueued, connections, subscribed,
                    heartbeat, revokedSent >>

\* findUnique resolves.  A revoked token gets 401 (line 43).  Otherwise the
\* rest of the handler runs without another await: the response joins the
\* map, the listener is subscribed, the heartbeat starts and the close
\* handler is registered, whether or not the client is still there.
Resume(c) ==
    LET u == UserOf[c] IN
    /\ pc[c] = "verifying"
    /\ IF tokVer[c] # tokenVersion[u]
          THEN /\ pc' = [pc EXCEPT ![c] = "rejected"]
               /\ UNCHANGED << connections, subscribed, heartbeat >>
          ELSE /\ pc' = [pc EXCEPT ![c] = "open"]
               /\ connections' = [connections EXCEPT ![u] = @ \cup {c}]
               /\ subscribed' = [subscribed EXCEPT ![c] = TRUE]
               /\ heartbeat' = [heartbeat EXCEPT ![c] = TRUE]
    /\ UNCHANGED << tokVer, tokenVersion, gone, closeQueued, revokedSent >>

\* The client goes away (tab closed, network lost): the response is
\* destroyed now and "close" is emitted in a later tick.
Disconnect(c) ==
    /\ pc[c] \in {"verifying", "open"}
    /\ ~gone[c]
    /\ gone' = [gone EXCEPT ![c] = TRUE]
    /\ closeQueued' = [closeQueued EXCEPT ![c] = TRUE]
    /\ UNCHANGED << pc, tokVer, tokenVersion, connections, subscribed, heartbeat,
                    revokedSent >>

\* The close handler of lines 98-109: clearInterval, unsubscribe, and the
\* response out of the map (an emptied user entry is deleted with it).
CloseHandler(c) ==
    /\ heartbeat' = [heartbeat EXCEPT ![c] = FALSE]
    /\ subscribed' = [subscribed EXCEPT ![c] = FALSE]
    /\ connections' = [connections EXCEPT ![UserOf[c]] = @ \ {c}]

\* Node emits "close".  Only a handler already registered runs; while the
\* request was still awaiting findUnique nothing was listening.
EmitClose(c) ==
    /\ closeQueued[c]
    /\ closeQueued' = [closeQueued EXCEPT ![c] = FALSE]
    /\ IF pc[c] = "open"
          THEN CloseHandler(c)
          ELSE UNCHANGED << connections, subscribed, heartbeat >>
    /\ UNCHANGED << pc, tokVer, tokenVersion, gone, revokedSent >>

\* A heartbeat that stops on a failed write but leaves the listener on.
HeartbeatNoUnsubscribe(c) ==
    /\ heartbeat[c]
    /\ gone[c]
    /\ heartbeat' = [heartbeat EXCEPT ![c] = FALSE]
    /\ UNCHANGED << pc, tokVer, tokenVersion, gone, closeQueued, connections,
                    subscribed, revokedSent >>

\* A heartbeat tick whose safeSend fails because the response is destroyed:
\* clearInterval and unsubscribe (lines 91-96).  The map entry stays.  A
\* tick on a live response only writes a comment line.
HeartbeatFails(c) ==
    /\ heartbeat[c]
    /\ gone[c]
    /\ heartbeat' = [heartbeat EXCEPT ![c] = FALSE]
    /\ subscribed' = [subscribed EXCEPT ![c] = FALSE]
    /\ UNCHANGED << pc, tokVer, tokenVersion, gone, closeQueued, connections,
                    revokedSent >>

\* eventBus.emit for user u: the emitter calls every subscribed listener in
\* turn, synchronously; a listener whose user matches calls safeSend, which
\* writes unless the response is destroyed or ended.
Emit(u) ==
    /\ revokedSent' =
          [c \in Conns |-> revokedSent[c]
                           \/ /\ subscribed[c]
                              /\ UserOf[c] = u
                              /\ ~gone[c]
                              /\ tokVer[c] # tokenVersion[u]]
    /\ UNCHANGED << pc, tokVer, tokenVersion, gone, closeQueued, connections,
                    subscribed, heartbeat >>

\* A logout elsewhere bumps the user's tokenVersion; open streams are not
\* told.
Revoke(u) ==
    /\ tokenVersion[u] < MaxRevokes
    /\ tokenVersion' = [tokenVersion EXCEPT ![u] = @ + 1]
    /\ UNCHANGED << pc, tokVer, gone, closeQueued, connections, subscribed,
                    heartbeat, revokedSent >>

Next ==
    \/ \E c \in Conns :
          \/ Request(c) \/ Resume(c) \/ Disconnect(c)
          \/ EmitClose(c) \/ HeartbeatFails(c)
    \/ \E u \in Users : Emit(u) \/ Revoke(u)

(* The database answers, Node emits "close" after a teardown, and the     *)
(* interval fires every 30 seconds.  Clients, logouts and emitters are     *)
(* the environment and need not act.                                       *)
Fairness ==
    \A c \in Conns :
        /\ WF_vars(Resume(c))
        /\ WF_vars(EmitClose(c))
        /\ WF_vars(HeartbeatFails(c))

Spec == Init /\ [][Next]_vars /\ Fairness

-----------------------------------------------------------------------------
(* A closed stream stops listening: once the client has gone, its bus     *)
(* listener is eventually unsubscribed and its heartbeat cleared, by the   *)
(* close handler or, when "close" came before the handler was registered,  *)
(* by the heartbeat's failed write (lines 91-109).  Otherwise every        *)
(* abandoned request would keep a listener toward setMaxListeners(100).    *)
ClosedEventuallyUnsubscribed ==
    \A c \in Conns : gone[c] ~> ~subscribed[c] /\ ~heartbeat[c]

(* A stream's registrations agree: a bus listener always has a heartbeat  *)
(* to reap it, so a client that leaves before "close" can reach its        *)
(* handler is still unsubscribed (lines 91-96); a live open stream is on   *)
(* the bus and in the connections map under its own user; and the map     *)
(* holds only open streams, under their own user (lines 55-109).          *)
StreamRegistration ==
    \A c \in Conns :
        /\ subscribed[c] = heartbeat[c]
        /\ pc[c] = "open" /\ ~gone[c] => subscribed[c] /\ c \in connections[UserOf[c]]
        /\ \A u \in Users : c \in connections[u] => u = UserOf[c] /\ pc[c] = "open"

(* A closed stream is eventually forgotten: its response leaves the       *)
(* connections map (lines 63-66 add it, lines 101-107 remove it).          *)
ClosedEventuallyForgotten ==
    \A c \in Conns : gone[c] ~> c \notin connections[UserOf[c]]

(* A revoked session gets no events: once a user's tokenVersion has moved *)
(* past the version in a stream's token, no event is written to that       *)
(* stream (the check of line 43 is made once, at connect).                 *)
NoEventAfterRevocation == \A c \in Conns : ~revokedSent[c]

-----------------------------------------------------------------------------
(* The inductive strengthening of StreamRegistration: "close" is queued  *)
(* only after a teardown, and only an open request has a listener.        *)
CloseAfterTeardown == \A c \in Conns : closeQueued[c] => gone[c]

ListenerOnlyWhenOpen == \A c \in Conns : subscribed[c] => pc[c] = "open"

IInv == TypeOK /\ StreamRegistration /\ CloseAfterTeardown /\ ListenerOnlyWhenOpen

=============================================================================
