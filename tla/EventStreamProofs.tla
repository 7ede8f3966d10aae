------------------------- MODULE EventStreamProofs -------------------------
(***************************************************************************)
(* Proofs about EventStream for every set of requests and users, every    *)
(* assignment of requests to users and every number of logouts.           *)
(***************************************************************************)
EXTENDS EventStream, TLAPS

USE ConstantsAssumption

(* The initial state is well typed.                                       *)
LEMMA InitTypeOK == Init => TypeOK
BY DEF Init, TypeOK, Stages

(* Every request, resume, teardown, "close", heartbeat tick, emit and     *)
(* logout keeps the types.                                                 *)
LEMMA TypeInvariance == TypeOK /\ [Next]_vars => TypeOK'
<1> SUFFICES ASSUME TypeOK, [Next]_vars PROVE TypeOK'
  OBVIOUS
<1> USE DEF TypeOK, Stages
<1>1. ASSUME NEW c \in Conns, Request(c) PROVE TypeOK'
  BY <1>1 DEF Request
<1>2. ASSUME NEW c \in Conns, Resume(c) PROVE TypeOK'
  <2>1. CASE tokVer[c] # tokenVersion[UserOf[c]]
    BY <1>2, <2>1 DEF Resume
  <2>2. CASE tokVer[c] = tokenVersion[UserOf[c]]
    <3>1. connections' \in [Users -> SUBSET Conns]
      BY <1>2, <2>2 DEF Resume
    <3>2. QED
      BY <1>2, <2>2, <3>1 DEF Resume
  <2>3. QED
    BY <2>1, <2>2
<1>3. ASSUME NEW c \in Conns, Disconnect(c) PROVE TypeOK'
  BY <1>3 DEF Disconnect
<1>4. ASSUME NEW c \in Conns, EmitClose(c) PROVE TypeOK'
  <2>1. CASE pc[c] = "open"
    <3>1. connections' \in [Users -> SUBSET Conns]
      BY <1>4, <2>1 DEF EmitClose, CloseHandler
    <3>2. QED
      BY <1>4, <2>1, <3>1 DEF EmitClose, CloseHandler
  <2>2. CASE pc[c] # "open"
    BY <1>4, <2>2 DEF EmitClose
  <2>3. QED
    BY <2>1, <2>2
<1>5. ASSUME NEW c \in Conns, HeartbeatFails(c) PROVE TypeOK'
  BY <1>5 DEF HeartbeatFails
<1>6. ASSUME NEW u \in Users, Emit(u) PROVE TypeOK'
  BY <1>6 DEF Emit
<1>7. ASSUME NEW u \in Users, Revoke(u) PROVE TypeOK'
  BY <1>7 DEF Revoke
<1>8. CASE UNCHANGED vars
  BY <1>8 DEF vars
<1>9. QED
  BY <1>1, <1>2, <1>3, <1>4, <1>5, <1>6, <1>7, <1>8 DEF Next

(* The responses, listeners and heartbeats are always well typed.         *)
THEOREM TypeCorrect == Spec => []TypeOK
BY InitTypeOK, TypeInvariance, PTL DEF Spec

-----------------------------------------------------------------------------
(* The strengthening holds initially.                                     *)
LEMMA InitIInv == Init => IInv
BY InitTypeOK DEF Init, IInv, StreamRegistration, CloseAfterTeardown,
                  ListenerOnlyWhenOpen

(* Every step keeps the strengthening.                                    *)
LEMMA NextIInv == IInv /\ [Next]_vars => IInv'
<1> SUFFICES ASSUME IInv, [Next]_vars PROVE IInv'
  OBVIOUS
<1> USE DEF IInv, StreamRegistration, CloseAfterTeardown, ListenerOnlyWhenOpen
<1>0. TypeOK'
  BY TypeInvariance
<1>1. ASSUME NEW c \in Conns, Request(c) PROVE IInv'
  BY <1>0, <1>1 DEF Request, TypeOK
<1>2. ASSUME NEW c \in Conns, Resume(c) PROVE IInv'
  BY <1>0, <1>2 DEF Resume, TypeOK
<1>3. ASSUME NEW c \in Conns, Disconnect(c) PROVE IInv'
  BY <1>0, <1>3 DEF Disconnect, TypeOK
<1>4. ASSUME NEW c \in Conns, EmitClose(c) PROVE IInv'
  <2>1. StreamRegistration'
    <3> SUFFICES ASSUME NEW d \in Conns
                 PROVE  /\ subscribed'[d] = heartbeat'[d]
                        /\ pc'[d] = "open" /\ ~gone'[d]
                              => subscribed'[d] /\ d \in connections'[UserOf[d]]
                        /\ \A u \in Users :
                              d \in connections'[u] => u = UserOf[d] /\ pc'[d] = "open"
      OBVIOUS
    <3>1. CASE pc[c] = "open"
      <4>1. gone[c]
        BY <1>4 DEF EmitClose
      <4>2. CASE d = c
        <5>1. ~subscribed'[c] /\ ~heartbeat'[c] /\ gone'[c]
          BY <1>4, <3>1, <4>1 DEF EmitClose, CloseHandler, TypeOK
        <5>2. ASSUME NEW u \in Users PROVE c \notin connections'[u]
          <6>1. CASE u = UserOf[c]
            BY <1>4, <3>1, <6>1 DEF EmitClose, CloseHandler, TypeOK
          <6>2. CASE u # UserOf[c]
            <7>1. connections'[u] = connections[u]
              BY <1>4, <3>1, <6>2 DEF EmitClose, CloseHandler, TypeOK
            <7>2. c \in connections[u] => u = UserOf[c]
              BY DEF IInv, StreamRegistration
            <7>3. QED
              BY <6>2, <7>1, <7>2
          <6>3. QED
            BY <6>1, <6>2
        <5>3. /\ ~subscribed'[d] /\ ~heartbeat'[d] /\ gone'[d]
              /\ \A u \in Users : d \notin connections'[u]
          BY <4>2, <5>1, <5>2
        <5>4. QED
          BY <1>0, <5>3 DEF TypeOK
      <4>3. CASE d # c
        BY <1>4, <3>1, <4>3 DEF EmitClose, CloseHandler, TypeOK
      <4>4. QED
        BY <4>2, <4>3
    <3>2. CASE pc[c] # "open"
      BY <1>4, <3>2 DEF EmitClose, TypeOK
    <3>3. QED
      BY <3>1, <3>2
  <2>2. CloseAfterTeardown'
    BY <1>4 DEF EmitClose, CloseHandler, TypeOK
  <2>3. ListenerOnlyWhenOpen'
    BY <1>4 DEF EmitClose, CloseHandler, TypeOK
  <2>4. QED
    BY <1>0, <2>1, <2>2, <2>3
<1>5. ASSUME NEW c \in Conns, HeartbeatFails(c) PROVE IInv'
  <2>1. StreamRegistration'
    <3> SUFFICES ASSUME NEW d \in Conns
                 PROVE  /\ subscribed'[d] = heartbeat'[d]
                        /\ pc'[d] = "open" /\ ~gone'[d]
                              => subscribed'[d] /\ d \in connections'[UserOf[d]]
                        /\ \A u \in Users :
                              d \in connections'[u] => u = UserOf[d] /\ pc'[d] = "open"
      OBVIOUS
    <3>1. CASE d = c
      BY <1>5, <3>1 DEF HeartbeatFails, TypeOK
    <3>2. CASE d # c
      BY <1>5, <3>2 DEF HeartbeatFails, TypeOK
    <3>3. QED
      BY <3>1, <3>2
  <2>2. CloseAfterTeardown'
    BY <1>5 DEF HeartbeatFails, TypeOK
  <2>3. ListenerOnlyWhenOpen'
    BY <1>5 DEF HeartbeatFails, TypeOK
  <2>4. QED
    BY <1>0, <2>1, <2>2, <2>3
<1>6. ASSUME NEW u \in Users, Emit(u) PROVE IInv'
  BY <1>0, <1>6 DEF Emit
<1>7. ASSUME NEW u \in Users, Revoke(u) PROVE IInv'
  BY <1>0, <1>7 DEF Revoke
<1>8. CASE UNCHANGED vars
  BY <1>0, <1>8 DEF vars
<1>9. QED
  BY <1>1, <1>2, <1>3, <1>4, <1>5, <1>6, <1>7, <1>8 DEF Next

(* The registrations of every stream agree in every reachable state: a    *)
(* bus listener always has the heartbeat that reaps it when the client    *)
(* has gone, a live stream is on the bus and in the connections map, and  *)
(* the map holds only open streams under their own user (events.ts, lines *)
(* 55-109), however requests, teardowns, "close", ticks and logouts        *)
(* interleave.                                                             *)
THEOREM StreamRegistrationHolds == Spec => []StreamRegistration
<1>1. IInv => StreamRegistration
  BY DEF IInv
<1>2. QED
  BY <1>1, InitIInv, NextIInv, PTL DEF Spec

=============================================================================
