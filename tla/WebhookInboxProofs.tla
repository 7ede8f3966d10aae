------------------------- MODULE WebhookInboxProofs -------------------------
(***************************************************************************)
(* Proofs about WebhookInbox for every set of events, every number of     *)
(* deliveries and restarts, with or without store, handler and mark       *)
(* failures and the retention sweep.                                       *)
(***************************************************************************)
EXTENDS WebhookInbox, TLAPS

(* Every step of a delivery, a processing, a restart or the sweep keeps   *)
(* the types.                                                              *)
LEMMA TypeInvariance == TypeOK /\ [Next]_vars => TypeOK'
<1> USE ConstantsAssumption DEF TypeOK, Move, Deliveries, Stages, Statuses
<1> SUFFICES ASSUME TypeOK, [Next]_vars PROVE TypeOK'
  OBVIOUS
<1>1. ASSUME NEW d \in Deliveries, Deliver(d) PROVE TypeOK'
  BY <1>1 DEF Deliver
<1>2. ASSUME NEW d \in Deliveries, ReadSettings(d) PROVE TypeOK'
  BY <1>2 DEF ReadSettings
<1>3. ASSUME NEW d \in Deliveries, Store(d) PROVE TypeOK'
  <2>1. stage' \in [Deliveries -> Stages]
    BY <1>3 DEF Store
  <2>2. row' \in [Events -> Statuses]
    BY <1>3 DEF Store
  <2>3. acked' \in [Events -> BOOLEAN]
    BY <1>3 DEF Store
  <2>4. QED
    BY <1>3, <2>1, <2>2, <2>3 DEF Store
<1>4. ASSUME NEW d \in Deliveries, Handle(d) PROVE TypeOK'
  BY <1>4 DEF Handle
<1>5. ASSUME NEW d \in Deliveries, MarkProcessed(d) PROVE TypeOK'
  BY <1>5 DEF MarkProcessed
<1>6. ASSUME NEW d \in Deliveries, MarkFailed(d) PROVE TypeOK'
  <2>1. stage' \in [Deliveries -> Stages]
    BY <1>6 DEF MarkFailed
  <2>2. row' \in [Events -> Statuses]
    BY <1>6 DEF MarkFailed
  <2>3. QED
    BY <1>6, <2>1, <2>2 DEF MarkFailed
<1>7. CASE Crash
  BY <1>7 DEF Crash, InFlight
<1>8. CASE SweepEvents
  BY <1>8 DEF SweepEvents
<1>9. CASE Quiescent \/ UNCHANGED vars
  BY <1>9 DEF Quiescent, vars
<1>10. QED
  BY <1>1, <1>2, <1>3, <1>4, <1>5, <1>6, <1>7, <1>8, <1>9 DEF Next, Server

(* The inbox's variables keep their types: every row has one of the four  *)
(* statuses and every delivery is at one stage of the route or of         *)
(* processWebhookEvent.                                                    *)
THEOREM TypeCorrect == Spec => []TypeOK
<1>1. Init => TypeOK
  BY ConstantsAssumption DEF Init, TypeOK, Deliveries, Stages, Statuses
<1>2. QED
  BY <1>1, TypeInvariance, PTL DEF Spec

-----------------------------------------------------------------------------
IInv == TypeOK /\ AckedIsDurable

LEMMA NextIInv == IInv /\ [Next]_vars => IInv'
<1> SUFFICES ASSUME IInv, [Next]_vars PROVE IInv'
  OBVIOUS
<1> USE DEF IInv, AckedIsDurable, TypeOK, Move, Deliveries
<1>0. TypeOK'
  BY TypeInvariance
<1>1. ASSUME NEW d \in Deliveries, Deliver(d) \/ ReadSettings(d) \/ Handle(d)
      PROVE  IInv'
  BY <1>0, <1>1 DEF Deliver, ReadSettings, Handle
\* storeEvent writes the row in the step that acknowledges it.
<1>2. ASSUME NEW d \in Deliveries, Store(d) PROVE IInv'
  BY <1>0, <1>2 DEF Store
<1>3. ASSUME NEW d \in Deliveries, MarkProcessed(d) \/ MarkFailed(d) PROVE IInv'
  BY <1>0, <1>3 DEF MarkProcessed, MarkFailed
<1>4. CASE Crash
  BY <1>0, <1>4 DEF Crash
\* The sweep records every row it deletes.
<1>5. CASE SweepEvents
  BY <1>0, <1>5 DEF SweepEvents
<1>6. CASE Quiescent \/ UNCHANGED vars
  BY <1>0, <1>6 DEF Quiescent, vars
<1>7. QED
  BY <1>1, <1>2, <1>3, <1>4, <1>5, <1>6 DEF Next, Server

(* Receipt is durable before it is acknowledged, for every number of      *)
(* events, deliveries and restarts: once the route has answered 200 for   *)
(* an event, its WebhookEvent row exists unless the retention sweep       *)
(* deleted it after it was processed.                                      *)
THEOREM AckedIsDurableHolds == Spec => []AckedIsDurable
<1>1. Init => IInv
  BY ConstantsAssumption DEF Init, IInv, TypeOK, AckedIsDurable, Deliveries, Stages, Statuses
<1>2. QED
  BY <1>1, NextIInv, PTL DEF Spec, IInv

=============================================================================
