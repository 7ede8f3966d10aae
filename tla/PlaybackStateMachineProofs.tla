--------------------- MODULE PlaybackStateMachineProofs ---------------------
(***************************************************************************)
(* Proofs about the playback state machine: its type, and that listeners  *)
(* end every notify with the machine's state when they are SafeListeners. *)
(***************************************************************************)
EXTENDS PlaybackStateMachine, WellFoundedInduction, SequenceTheorems, TLAPS

USE ConstantsAssumption

\* A non-empty set of naturals has a least element: forEach's next entry.
LEMMA NatMin ==
    ASSUME NEW T \in SUBSET Nat, T # {}
    PROVE  \E x \in T : \A y \in T : x <= y
<1>1. PICK x \in T : \A y \in T : ~(<< y, x >> \in OpToRel(<, Nat))
  BY NatLessThanWellFounded, WFMin
<1>2. ASSUME NEW y \in T PROVE x <= y
  <2>1. ~(<< y, x >> \in OpToRel(<, Nat))
    BY <1>1
  <2>2. ~(y < x)
    BY <2>1, Zenon DEF OpToRel
  <2>3. QED
    BY <2>2
<1>3. QED
  BY <1>2

\* The entry Deliver calls is the first live entry after the loop's position.
LEMMA DeliverPicksFirst ==
    ASSUME TypeOK, stack # << >>, NextEntries(Top) # {}
    PROVE  LET i == CHOOSE j \in NextEntries(Top) : \A k \in NextEntries(Top) : j <= k
           IN  /\ i \in NextEntries(Top)
               /\ \A k \in NextEntries(Top) : i <= k
<1>1. NextEntries(Top) \subseteq Nat
  BY DEF TypeOK, NextEntries
<1>2. QED
  BY <1>1, NatMin

-----------------------------------------------------------------------------
\* The innermost notify is a frame at a position of the stack.
LEMMA TopType ==
    ASSUME TypeOK, stack # << >>
    PROVE  /\ Len(stack) \in 1 .. Len(stack)
           /\ Top \in Frames
<1>1. Len(stack) \in Nat /\ Len(stack) # 0
  BY EmptySeq, LenProperties DEF TypeOK
<1>2. QED
  BY <1>1 DEF TypeOK, Top

\* A call of the machine pushes a well-typed frame and counts one call.
LEMMA PushType ==
    ASSUME TypeOK, NEW to \in States, calls < MaxCalls,
           stack' = Append(stack, [ctx |-> to, pos |-> 0, inCallback |-> FALSE]),
           calls' = calls + 1
    PROVE  stack' \in Seq(Frames) /\ calls' \in 0 .. MaxCalls
<1>1. [ctx |-> to, pos |-> 0, inCallback |-> FALSE] \in Frames
  BY DEF Frames
<1>2. stack' \in Seq(Frames)
  BY <1>1 DEF TypeOK
<1>3. QED
  BY <1>2 DEF TypeOK

LEMMA TypeInvariance == TypeOK /\ [Next]_vars => TypeOK'
<1> SUFFICES ASSUME TypeOK, [Next]_vars PROVE TypeOK'
  OBVIOUS
<1>1. ASSUME NEW to \in States, Transition(to) \/ ForceTransition(to) PROVE TypeOK'
  <2>1. calls < MaxCalls /\ SetState(to) /\ UNCHANGED << entries, seen >>
    BY <1>1 DEF Transition, ForceTransition, CanCall
  <2>2. stack' \in Seq(Frames) /\ calls' \in 0 .. MaxCalls
    BY <2>1, PushType DEF SetState
  <2>3. QED
    BY <2>1, <2>2 DEF SetState, TypeOK, States
<1>2. CASE Reset
  <2>1. calls < MaxCalls
    BY <1>2 DEF Reset, CanCall
  <2>2. stack' \in Seq(Frames) /\ calls' \in 0 .. MaxCalls
    BY <1>2, <2>1, PushType DEF Reset, States
  <2>3. QED
    BY <1>2, <2>2 DEF Reset, TypeOK, States
<1>3. ASSUME NEW l \in Listeners, Subscribe(l) PROVE TypeOK'
  BY <1>3 DEF Subscribe, CanCall, TypeOK
<1>4. ASSUME NEW l \in Listeners, Unsubscribe(l) PROVE TypeOK'
  BY <1>4 DEF Unsubscribe, CanCall, TypeOK
<1>5. CASE Deliver
  <2> DEFINE i == CHOOSE j \in NextEntries(Top) : \A k \in NextEntries(Top) : j <= k
  <2>1. i \in NextEntries(Top)
    BY <1>5, DeliverPicksFirst DEF Deliver
  <2>2. entries[i] \in Listeners
    BY <2>1 DEF NextEntries, TypeOK
  <2>3. Top \in Frames /\ Len(stack) \in 1 .. Len(stack) /\ i \in Nat
    <3>1. stack # << >>
      BY <1>5 DEF Deliver
    <3>2. i \in Nat
      BY <2>1 DEF NextEntries, TypeOK
    <3>3. QED
      BY <3>1, <3>2, TopType
  <2>4. [Top EXCEPT !.pos = i, !.inCallback = TRUE] \in Frames
    BY <2>3 DEF Frames
  <2>5. stack' \in Seq(Frames)
    BY <1>5, <2>3, <2>4 DEF Deliver, Top, TypeOK
  <2>6. seen' \in [Listeners -> States \cup {"never"}]
    BY <1>5, <2>2, <2>3 DEF Deliver, TypeOK, Frames
  <2>7. QED
    BY <1>5, <2>5, <2>6 DEF Deliver, TypeOK
<1>6. CASE Return
  <2>1. Top \in Frames /\ Len(stack) \in 1 .. Len(stack)
    BY <1>6, TopType DEF Return
  <2>2. [Top EXCEPT !.inCallback = FALSE] \in Frames
    BY <2>1 DEF Frames
  <2>3. stack' \in Seq(Frames)
    BY <1>6, <2>1, <2>2 DEF Return, TypeOK, Top
  <2>4. QED
    BY <1>6, <2>3 DEF Return, TypeOK
<1>7. CASE Finish
  <2>1. stack' \in Seq(Frames)
    BY <1>7 DEF Finish, TypeOK
  <2>2. QED
    BY <1>7, <2>1 DEF Finish, TypeOK
<1>8. CASE UNCHANGED vars
  BY <1>8 DEF vars, TypeOK
<1>9. QED
  BY <1>1, <1>2, <1>3, <1>4, <1>5, <1>6, <1>7, <1>8 DEF Next

\* The constructor's context is well typed.
LEMMA InitTypeOK == Init => TypeOK
<1> SUFFICES ASSUME Init PROVE TypeOK
  OBVIOUS
<1>1. state \in States /\ previous \in States \cup {"null"} /\ hasError \in BOOLEAN
  BY DEF Init, States
<1>2. entries \in Seq(Listeners \cup {NoListener}) /\ stack \in Seq(Frames)
  BY DEF Init
<1>3. seen \in [Listeners -> States \cup {"never"}] /\ calls \in 0 .. MaxCalls
  BY DEF Init
<1>4. QED
  BY <1>1, <1>2, <1>3 DEF TypeOK

(* The machine's state, its listener Set, the listeners' last contexts and *)
(* the notify calls in progress keep their types in every behaviour.       *)
THEOREM TypeCorrect == Spec => []TypeOK
<1>1. Init => TypeOK
  BY InitTypeOK
<1>2. QED
  BY <1>1, TypeInvariance, PTL DEF Spec


-----------------------------------------------------------------------------
(* The strengthening IInv.                                                 *)

\* With one listener, a callback under way is the last call of its notify.
LEMMA CallingIsLast ==
    ASSUME SafeListeners, "state" \in Reentrant, TypeOK, EntriesDistinct, CallbackLive,
           stack # << >>, Top.inCallback
    PROVE  NextEntries(Top) = {}
<1>1. Top.pos \in DOMAIN entries /\ Live(Top.pos)
  BY TopType DEF CallbackLive, Top
<1>2. SUFFICES ASSUME NEW i \in NextEntries(Top) PROVE FALSE
  OBVIOUS
<1>3. i \in DOMAIN entries /\ Live(i) /\ i > Top.pos
  BY DEF NextEntries, Live
<1>4. entries[i] = entries[Top.pos]
  BY <1>1, <1>3 DEF SafeListeners, Live, TypeOK
<1>5. QED
  BY <1>1, <1>3, <1>4 DEF EntriesDistinct

\* transition, forceTransition and reset set the state and push a notify
\* whose snapshot is that state.
LEMMA PushIInv ==
    ASSUME SafeListeners, IInv, TypeOK', NEW to \in States, CanCall("state"),
           state' = to,
           stack' = Append(stack, [ctx |-> to, pos |-> 0, inCallback |-> FALSE]),
           UNCHANGED << entries, seen >>
    PROVE  IInv'
<1> DEFINE F == [ctx |-> to, pos |-> 0, inCallback |-> FALSE]
<1> USE DEF IInv
<1>1. EntriesDistinct'
  BY DEF EntriesDistinct, Live
<1>2. \A k \in 1 .. Len(stack) : stack'[k] = stack[k]
  BY DEF TypeOK
<1>3. Len(stack') = Len(stack) + 1 /\ stack'[Len(stack) + 1] = F /\ Top' = F
  BY DEF TypeOK, Top
<1>4. CallbackLive'
  BY <1>2, <1>3 DEF CallbackLive, Live, TypeOK
<1>5. OuterDone'
  <2> SUFFICES ASSUME NEW k \in 1 .. Len(stack') - 1
               PROVE  (stack[k].inCallback /\ NextEntries(stack[k]) = {})'
    BY DEF OuterDone
  <2>1. CASE k < Len(stack)
    <3>0. k \in 1 .. Len(stack) - 1
      BY <1>3, <2>1 DEF TypeOK
    <3>1. stack[k].inCallback /\ NextEntries(stack[k]) = {}
      BY <3>0 DEF OuterDone
    <3>2. QED
      BY <1>2, <1>3, <2>1, <3>1 DEF NextEntries, TypeOK
  <2>2. CASE k = Len(stack)
    <3>1. stack # << >> /\ "state" \in Reentrant /\ Top.inCallback
      BY <2>2, <1>3 DEF CanCall, TypeOK
    <3>2. NextEntries(Top) = {}
      BY <3>1, CallingIsLast
    <3>3. stack'[k] = Top
      BY <1>2, <2>2, <3>1, TopType DEF Top
    <3>4. QED
      BY <3>1, <3>2, <3>3 DEF NextEntries
  <2>3. QED
    BY <1>3, <2>1, <2>2 DEF TypeOK
<1>6. PendingCurrent'
  BY <1>3 DEF PendingCurrent
<1>7. CalledCurrent'
  BY <1>3 DEF CalledCurrent, TypeOK
<1>8. QED
  BY <1>1, <1>4, <1>5, <1>6, <1>7


\* subscribe and unsubscribe are called outside notify only.
LEMMA SubscriptionOutsideNotify ==
    ASSUME SafeListeners, CanCall("subscription")
    PROVE  stack = << >>
BY DEF SafeListeners, CanCall

\* subscribe(l) appends a new member and calls it with the current state.
LEMMA SubscribeIInv ==
    ASSUME SafeListeners, IInv, TypeOK', NEW l \in Listeners, Subscribe(l)
    PROVE  IInv'
<1> USE DEF IInv
<1>1. stack = << >> /\ stack' = << >>
  BY SubscriptionOutsideNotify DEF Subscribe
<1>2. /\ Len(entries') = Len(entries) + 1
      /\ entries'[Len(entries) + 1] = l
      /\ \A i \in 1 .. Len(entries) : entries'[i] = entries[i]
      /\ DOMAIN entries' = 1 .. Len(entries) + 1
  BY DEF Subscribe, TypeOK
<1>3. \A i \in DOMAIN entries : Live(i) => entries[i] # l
  BY DEF Subscribe, Subscribers, Live
<1>4. EntriesDistinct'
  BY <1>2, <1>3 DEF EntriesDistinct, Live, TypeOK
<1>5. CalledCurrent'
  <2> SUFFICES ASSUME NEW i \in DOMAIN entries', Live(i)'
               PROVE  seen'[entries'[i]] = state'
    BY <1>1 DEF CalledCurrent
  <2>1. CASE i = Len(entries) + 1
    BY <1>2, <2>1 DEF Subscribe, TypeOK
  <2>2. CASE i \in 1 .. Len(entries)
    <3>1. Live(i) /\ entries'[i] = entries[i]
      BY <1>2, <2>2 DEF Live
    <3>2. seen[entries[i]] = state
      BY <1>1, <2>2, <3>1 DEF CalledCurrent, TypeOK
    <3>3. QED
      BY <3>1, <3>2 DEF Subscribe, TypeOK
  <2>3. QED
    BY <1>2, <2>1, <2>2
<1>6. QED
  BY <1>1, <1>4, <1>5 DEF Subscribe, CallbackLive, OuterDone, PendingCurrent

\* The function subscribe returned: the member's entry becomes a hole.
LEMMA UnsubscribeIInv ==
    ASSUME SafeListeners, IInv, TypeOK', NEW l \in Listeners, Unsubscribe(l)
    PROVE  IInv'
<1> USE DEF IInv
<1>1. stack = << >> /\ stack' = << >>
  BY SubscriptionOutsideNotify DEF Unsubscribe
<1>2. /\ DOMAIN entries' = DOMAIN entries
      /\ \A i \in DOMAIN entries : Live(i)' => Live(i) /\ entries'[i] = entries[i]
  BY DEF Unsubscribe, Live
<1>3. EntriesDistinct'
  BY <1>2 DEF EntriesDistinct, Live
<1>4. CalledCurrent'
  BY <1>1, <1>2 DEF Unsubscribe, CalledCurrent
<1>5. QED
  BY <1>1, <1>3, <1>4 DEF Unsubscribe, CallbackLive, OuterDone, PendingCurrent


\* The loop calls the first live entry after the last one called, with the
\* snapshot; that entry is the only one whose last context changes.
LEMMA DeliverIInv ==
    ASSUME IInv, Deliver
    PROVE  IInv'
<1> USE DEF IInv
<1> DEFINE N == Len(stack)
           T == Top
           i == CHOOSE j \in NextEntries(Top) : \A k \in NextEntries(Top) : j <= k
           T2 == [T EXCEPT !.pos = i, !.inCallback = TRUE]
<1> USE DEF N, T, i, T2
<1>1. /\ stack # << >>
      /\ i \in NextEntries(T)
      /\ \A k \in NextEntries(T) : i <= k
  BY DeliverPicksFirst DEF Deliver
<1>2. N \in 1 .. N /\ T \in Frames /\ i \in Nat
  BY <1>1, TopType DEF NextEntries, TypeOK
<1>3. /\ Len(stack') = N
      /\ stack'[N] = T2
      /\ \A k \in 1 .. N - 1 : stack'[k] = stack[k]
      /\ DOMAIN stack' = DOMAIN stack
  <2>1. stack' = [stack EXCEPT ![N] = T2]
    BY DEF Deliver, Top
  <2>2. stack \in Seq(Frames)
    BY DEF TypeOK
  <2>3. DOMAIN stack' = 1 .. N
    BY <1>2, <2>1, <2>2
  <2>4. \A k \in 1 .. N - 1 : stack'[k] = stack[k]
    BY <1>2, <2>1, <2>2
  <2>5. stack'[N] = T2
    BY <1>2, <2>1, <2>2
  <2>6. T2 \in Frames
    BY <1>2 DEF Frames
  <2>7. stack' \in Seq(Frames)
    BY <1>2, <2>1, <2>2, <2>6
  <2>8. Len(stack') = N
    BY <2>3, <2>7
  <2>9. QED
    BY <1>2, <2>2, <2>3, <2>4, <2>5, <2>8
<1>4. T.ctx = state
  BY <1>1 DEF PendingCurrent
<1>5. seen' = [seen EXCEPT ![entries[i]] = T.ctx] /\ UNCHANGED << state, entries >>
  BY DEF Deliver
<1>6. i \in DOMAIN entries /\ Live(i) /\ entries[i] \in Listeners
  BY <1>1 DEF NextEntries, Live, TypeOK
<1>7. CallbackLive'
  <2> SUFFICES ASSUME NEW k \in DOMAIN stack', stack'[k].inCallback
               PROVE  stack'[k].pos \in DOMAIN entries /\ Live(stack'[k].pos)
    BY <1>5 DEF CallbackLive, Live
  <2>1. CASE k = N
    BY <1>2, <1>3, <1>6, <2>1 DEF Frames
  <2>2. CASE k # N
    <3>1. k \in 1 .. N - 1
      BY <1>2, <1>3, <2>2 DEF TypeOK
    <3>2. QED
      BY <1>3, <3>1 DEF CallbackLive, TypeOK
  <2>3. QED
    BY <2>1, <2>2
<1>8. OuterDone'
  <2> SUFFICES ASSUME NEW k \in 1 .. Len(stack') - 1
               PROVE  (stack[k].inCallback /\ NextEntries(stack[k]) = {})'
    BY DEF OuterDone
  <2>1. stack'[k] = stack[k] /\ k \in 1 .. Len(stack) - 1
    BY <1>2, <1>3
  <2>2. (NextEntries(stack[k]))' = NextEntries(stack[k])
    BY <1>5, <2>1 DEF NextEntries
  <2>3. QED
    BY <2>1, <2>2 DEF OuterDone
<1>9. PendingCurrent'
  <2>1. Top' = T2
    BY <1>3 DEF Top
  <2>2. T2.ctx = T.ctx
    BY <1>2 DEF Frames
  <2>3. QED
    BY <1>4, <1>5, <2>1, <2>2, <1>2 DEF PendingCurrent, Deliver
<1>10. CalledCurrent'
  <2> SUFFICES ASSUME NEW j \in DOMAIN entries, Live(j), j <= i
               PROVE  seen'[entries[j]] = state
    <3>1. stack' # << >> /\ Top'.pos = i
      BY <1>2, <1>3 DEF Top, Frames
    <3>2. QED
      BY <1>5, <3>1 DEF CalledCurrent, Live
  <2>1. CASE entries[j] = entries[i]
    BY <1>4, <1>5, <1>6, <2>1 DEF TypeOK
  <2>2. CASE entries[j] # entries[i]
    <3>1. j \in Nat /\ T.pos \in Nat
      BY <1>2 DEF TypeOK, Frames
    <3>2. j <= T.pos
      <4>1. SUFFICES ASSUME j > T.pos PROVE FALSE
        BY <3>1
      <4>2. j \in NextEntries(T)
        BY <4>1 DEF NextEntries, Live
      <4>3. j = i
        BY <1>1, <1>2, <3>1, <4>2
      <4>4. QED
        BY <2>2, <4>3
    <3>3. seen[entries[j]] = state
      BY <1>1, <3>2 DEF CalledCurrent
    <3>4. QED
      BY <1>5, <2>2, <3>3 DEF TypeOK
  <2>3. QED
    BY <2>1, <2>2
<1>11. TypeOK'
  BY TypeInvariance DEF Next
<1>12. EntriesDistinct'
  BY <1>5 DEF EntriesDistinct, Live
<1>13. QED
  BY <1>7, <1>8, <1>9, <1>10, <1>11, <1>12


\* The listener returns: the frame keeps its position and its snapshot.
LEMMA ReturnIInv ==
    ASSUME IInv, Return
    PROVE  IInv'
<1> USE DEF IInv
<1> DEFINE N == Len(stack)
           T == Top
           T2 == [T EXCEPT !.inCallback = FALSE]
<1> USE DEF N, T, T2
<1>1. N \in 1 .. N /\ T \in Frames
  BY TopType DEF Return
<1>2. /\ DOMAIN stack' = 1 .. N
      /\ Len(stack') = N
      /\ stack'[N] = T2
      /\ \A k \in 1 .. N - 1 : stack'[k] = stack[k]
  <2>1. stack' = [stack EXCEPT ![N] = T2] /\ stack \in Seq(Frames)
    BY DEF Return, Top, TypeOK
  <2>2. T2 \in Frames
    BY <1>1 DEF Frames
  <2>3. stack' \in Seq(Frames) /\ DOMAIN stack' = 1 .. N
    BY <1>1, <2>1, <2>2
  <2>4. QED
    BY <1>1, <2>1, <2>3
<1>3. Top' = T2 /\ T2.pos = T.pos /\ T2.ctx = T.ctx /\ ~T2.inCallback
  BY <1>1, <1>2 DEF Top, Frames
<1>4. UNCHANGED << state, entries, seen >>
  BY DEF Return
<1>5. CallbackLive'
  <2> SUFFICES ASSUME NEW k \in DOMAIN stack', stack'[k].inCallback
               PROVE  stack'[k].pos \in DOMAIN entries /\ Live(stack'[k].pos)
    BY <1>4 DEF CallbackLive, Live
  <2>1. k # N
    BY <1>2, <1>3
  <2>2. k \in 1 .. N - 1
    BY <1>1, <1>2, <2>1
  <2>3. QED
    BY <1>2, <2>2 DEF CallbackLive, TypeOK
<1>6. OuterDone'
  <2> SUFFICES ASSUME NEW k \in 1 .. Len(stack') - 1
               PROVE  (stack[k].inCallback /\ NextEntries(stack[k]) = {})'
    BY DEF OuterDone
  <2>1. stack'[k] = stack[k] /\ k \in 1 .. Len(stack) - 1
    BY <1>1, <1>2
  <2>2. (NextEntries(stack[k]))' = NextEntries(stack[k])
    BY <1>4, <2>1 DEF NextEntries
  <2>3. QED
    BY <2>1, <2>2 DEF OuterDone
<1>7. (NextEntries(Top))' = NextEntries(T)
  BY <1>3, <1>4 DEF NextEntries
<1>8. PendingCurrent'
  <2> SUFFICES ASSUME NextEntries(T) # {} PROVE Top'.ctx = state
    BY <1>4, <1>7 DEF PendingCurrent
  <2>1. stack # << >> /\ T.ctx = state
    BY DEF Return, PendingCurrent
  <2>2. QED
    BY <1>3, <2>1
<1>9. CalledCurrent'
  BY <1>2, <1>3, <1>4 DEF CalledCurrent, Live
<1>10. TypeOK'
  BY TypeInvariance DEF Next
<1>11. EntriesDistinct'
  BY <1>4 DEF EntriesDistinct, Live
<1>12. QED
  BY <1>5, <1>6, <1>8, <1>9, <1>10, <1>11


\* notify returns: its frame is popped, and the frame below it is the call
\* of a listener that has no listener left after it.
LEMMA FinishIInv ==
    ASSUME IInv, Finish
    PROVE  IInv'
<1> USE DEF IInv
<1> DEFINE N == Len(stack)
           T == Top
<1> USE DEF N, T
<1>1. N \in 1 .. N /\ T \in Frames /\ NextEntries(T) = {} /\ stack \in Seq(Frames)
  BY TopType DEF Finish, TypeOK
<1>2. /\ Len(stack') = N - 1
      /\ DOMAIN stack' = 1 .. N - 1
      /\ \A k \in 1 .. N - 1 : stack'[k] = stack[k]
  <2>1. stack' = SubSeq(stack, 1, N - 1)
    BY DEF Finish
  <2>2. \A k \in 1 .. N - 1 : stack[k] \in Frames
    BY <1>1
  <2>3. /\ stack' \in Seq(Frames)
        /\ Len(stack') = N - 1
        /\ \A k \in 1 .. N - 1 : stack'[k] = stack[k]
    <3>1. stack' = [k \in 1 .. N - 1 |-> stack[k]]
      BY <1>1, <2>1
    <3>2. N - 1 \in Nat
      BY <1>1
    <3>3. QED
      BY <2>2, <3>1, <3>2
  <2>4. QED
    BY <1>1, <2>3
<1>3. UNCHANGED << state, entries, seen >>
  BY DEF Finish
\* Every live listener is at or before the last one called: all saw the state.
<1>4. \A j \in DOMAIN entries : Live(j) => seen[entries[j]] = state
  <2> SUFFICES ASSUME NEW j \in DOMAIN entries, Live(j) PROVE seen[entries[j]] = state
    OBVIOUS
  <2>1. j \in Nat /\ T.pos \in Nat
    BY <1>1 DEF TypeOK, Frames
  <2>2. j <= T.pos
    BY <1>1, <2>1 DEF NextEntries, Live
  <2>3. QED
    BY <1>1, <2>2 DEF CalledCurrent
<1>5. CalledCurrent'
  BY <1>3, <1>4 DEF CalledCurrent, Live
<1>6. CallbackLive'
  BY <1>2, <1>3 DEF CallbackLive, Live
<1>7. OuterDone'
  <2> SUFFICES ASSUME NEW k \in 1 .. Len(stack') - 1
               PROVE  (stack[k].inCallback /\ NextEntries(stack[k]) = {})'
    BY DEF OuterDone
  <2>1. stack'[k] = stack[k] /\ k \in 1 .. Len(stack) - 1
    BY <1>1, <1>2
  <2>2. (NextEntries(stack[k]))' = NextEntries(stack[k])
    BY <1>3, <2>1 DEF NextEntries
  <2>3. QED
    BY <2>1, <2>2 DEF OuterDone
<1>8. PendingCurrent'
  <2> SUFFICES ASSUME stack' # << >> PROVE (NextEntries(Top))' = {}
    BY DEF PendingCurrent
  <2>1. N - 1 \in 1 .. N - 1
    BY <1>1, <1>2
  <2>2. Top' = stack[N - 1]
    BY <1>2, <2>1 DEF Top
  <2>3. NextEntries(stack[N - 1]) = {}
    BY <2>1 DEF OuterDone
  <2>4. QED
    BY <1>3, <2>2, <2>3 DEF NextEntries
<1>9. TypeOK'
  BY TypeInvariance DEF Next
<1>10. EntriesDistinct'
  BY <1>3 DEF EntriesDistinct, Live
<1>11. QED
  BY <1>5, <1>6, <1>7, <1>8, <1>9, <1>10


\* The constructor starts with no listener and no notify under way.
LEMMA InitIInv == Init => IInv
<1> SUFFICES ASSUME Init PROVE IInv
  OBVIOUS
<1>1. TypeOK
  BY InitTypeOK
<1>2. entries = << >> /\ stack = << >>
  BY DEF Init
<1>3. QED
  BY <1>1, <1>2 DEF IInv, EntriesDistinct, CallbackLive, OuterDone, PendingCurrent, CalledCurrent

\* Under SafeListeners every step of the machine preserves IInv.
LEMMA NextIInv == SafeListeners /\ IInv /\ [Next]_vars => IInv'
<1> SUFFICES ASSUME SafeListeners, IInv, [Next]_vars PROVE IInv'
  OBVIOUS
<1>0. TypeOK'
  BY TypeInvariance DEF IInv
<1>1. ASSUME NEW to \in States, Transition(to) PROVE IInv'
  BY <1>0, <1>1, PushIInv DEF Transition, SetState
<1>2. ASSUME NEW to \in States, ForceTransition(to) PROVE IInv'
  BY <1>0, <1>2, PushIInv DEF ForceTransition, SetState
<1>3. CASE Reset
  BY <1>0, <1>3, PushIInv DEF Reset, States
<1>4. ASSUME NEW l \in Listeners, Subscribe(l) PROVE IInv'
  BY <1>0, <1>4, SubscribeIInv
<1>5. ASSUME NEW l \in Listeners, Unsubscribe(l) PROVE IInv'
  BY <1>0, <1>5, UnsubscribeIInv
<1>6. CASE Deliver
  BY <1>6, DeliverIInv
<1>7. CASE Return
  BY <1>7, ReturnIInv
<1>8. CASE Finish
  BY <1>8, FinishIInv
<1>9. CASE UNCHANGED vars
  BY <1>9 DEF vars, IInv, TypeOK, EntriesDistinct, CallbackLive, OuterDone,
            PendingCurrent, CalledCurrent, NextEntries, Live, Top
<1>10. QED
  BY <1>1, <1>2, <1>3, <1>4, <1>5, <1>6, <1>7, <1>8, <1>9 DEF Next

(* Whenever no notify() is under way, every function in the listener Set   *)
(* was last called with the machine's current state, when listeners never  *)
(* subscribe or unsubscribe from a callback and move the machine from one  *)
(* only when they are alone: notify's single snapshot and forEach over the *)
(* live Set (playback-state-machine.ts notify) then reach every listener.  *)
THEOREM ListenersSeeCurrentStateHolds == SafeListeners => (Spec => []ListenersSeeCurrentState)
<1> SUFFICES ASSUME SafeListeners PROVE Spec => []ListenersSeeCurrentState
  OBVIOUS
<1>1. IInv => ListenersSeeCurrentState
  BY DEF IInv, CalledCurrent, ListenersSeeCurrentState, Subscribers, Live
<1>2. IInv /\ [Next]_vars => IInv'
  BY NextIInv
<1>3. QED
  BY <1>1, <1>2, InitIInv, PTL DEF Spec


\* IInv holds in every state of every behaviour under SafeListeners.
LEMMA AlwaysIInv == SafeListeners => (Spec => []IInv)
<1> SUFFICES ASSUME SafeListeners PROVE Spec => []IInv
  OBVIOUS
<1>1. IInv /\ [Next]_vars => IInv'
  BY NextIInv
<1>2. QED
  BY <1>1, InitIInv, PTL DEF Spec

\* A step from a state of IInv calls listeners with the current state only.
LEMMA StepCarriesCurrentState ==
    ASSUME IInv, [Next]_vars
    PROVE  \A l \in Listeners : seen'[l] # seen[l] => seen'[l] = state'
<1> SUFFICES ASSUME NEW l \in Listeners, seen'[l] # seen[l] PROVE seen'[l] = state'
  OBVIOUS
<1>1. CASE Deliver
  <2> DEFINE i == CHOOSE j \in NextEntries(Top) : \A k \in NextEntries(Top) : j <= k
  <2>1. stack # << >> /\ NextEntries(Top) # {} /\ i \in NextEntries(Top)
    BY <1>1, DeliverPicksFirst DEF Deliver, IInv
  <2>2. Top.ctx = state
    BY <2>1 DEF IInv, PendingCurrent
  <2>3. seen' = [seen EXCEPT ![entries[i]] = Top.ctx] /\ state' = state
    BY <1>1 DEF Deliver
  <2>4. entries[i] \in Listeners
    BY <2>1 DEF NextEntries, IInv, TypeOK
  <2>5. QED
    BY <2>2, <2>3, <2>4 DEF IInv, TypeOK
<1>2. ASSUME NEW u \in Listeners, Subscribe(u) PROVE seen'[l] = state'
  BY <1>2 DEF Subscribe, IInv, TypeOK
<1>3. CASE UNCHANGED seen
  BY <1>3
<1>4. QED
  <2>1. \/ Deliver
        \/ \E u \in Listeners : Subscribe(u)
        \/ UNCHANGED seen
    BY DEF Next, vars, Transition, ForceTransition, SetState, Reset, Unsubscribe, Return, Finish
  <2>2. QED
    BY <1>1, <1>2, <1>3, <2>1

(* Under SafeListeners no listener is ever handed a stale context: each    *)
(* call, subscribe's immediate one and every call of notify's forEach,     *)
(* nested ones included, passes the machine's current state                *)
(* (playback-state-machine.ts subscribe and notify).                       *)
THEOREM CallsCarryCurrentStateHolds == SafeListeners => (Spec => CallsCarryCurrentState)
<1> SUFFICES ASSUME SafeListeners PROVE Spec => CallsCarryCurrentState
  OBVIOUS
<1>1. IInv /\ [Next]_vars => [\A l \in Listeners : seen'[l] # seen[l] => seen'[l] = state']_vars
  BY StepCarriesCurrentState
<1>2. QED
  BY <1>1, AlwaysIInv, PTL DEF Spec, CallsCarryCurrentState

=============================================================================
