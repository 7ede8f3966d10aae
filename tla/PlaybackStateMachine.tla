------------------------ MODULE PlaybackStateMachine ------------------------
(***************************************************************************)
(* The frontend's playback state machine                                   *)
(* (src/frontend/lib/audio/playback-state-machine.ts), "the single source *)
(* of truth for playback state" from which React state is derived.         *)
(*                                                                         *)
(* transition checks VALID_TRANSITIONS, forceTransition does not, reset   *)
(* goes back to IDLE; each then calls notify, which snapshots the context *)
(* once and calls every listener of the Set with it.  A listener runs     *)
(* synchronously inside notify and may itself call transition,            *)
(* forceTransition, reset, subscribe or unsubscribe: the inner notify runs *)
(* to the end before the outer loop goes on.                               *)
(*                                                                         *)
(* The listener Set is modelled by its ECMAScript semantics: forEach walks *)
(* an entry list by index, a deleted entry is skipped, and an entry added *)
(* during the walk (also one deleted and added again) is visited.  The    *)
(* context is abstracted to its state, its previousState and whether its  *)
(* error is set; timestamps and messages are left out.                     *)
(***************************************************************************)
EXTENDS Naturals, Sequences

CONSTANTS
    Listeners,   \* listener functions (React hooks subscribing)
    NoListener,  \* a deleted entry of the Set's entry list
    MaxCalls,    \* calls of the machine's methods in one behaviour
    Reentrant    \* what a listener may call from its callback: "state" for
                 \* transition, forceTransition and reset, "subscription" for
                 \* subscribe and unsubscribe

ASSUME ConstantsAssumption ==
    /\ NoListener \notin Listeners
    /\ MaxCalls \in Nat
    /\ Reentrant \subseteq {"state", "subscription"}

States == {"IDLE", "LOADING", "READY", "PLAYING", "BUFFERING", "ERROR"}

VALID_TRANSITIONS ==
    [s \in States |->
        CASE s = "IDLE"      -> {"LOADING"}
          [] s = "LOADING"   -> {"READY", "PLAYING", "ERROR", "IDLE"}
          [] s = "READY"     -> {"PLAYING", "LOADING", "IDLE"}
          [] s = "PLAYING"   -> {"READY", "BUFFERING", "LOADING", "ERROR", "IDLE"}
          [] s = "BUFFERING" -> {"PLAYING", "READY", "ERROR", "IDLE"}
          [] s = "ERROR"     -> {"LOADING", "IDLE"}]

\* A notify in progress: the context it snapshotted, the index of the last
\* entry it called, and whether that listener's callback is still running.
Frames == [ctx : States, pos : Nat, inCallback : BOOLEAN]

VARIABLES
    state,      \* context.state
    previous,   \* context.previousState ("null" before the first transition)
    hasError,   \* context.error # null
    entries,    \* the listener Set's entry list, in insertion order
    seen,       \* seen[l]: the state in the last context listener l was called with
    stack,      \* the notify calls in progress, innermost last
    calls       \* method calls so far

vars == << state, previous, hasError, entries, seen, stack, calls >>

Subscribers == {entries[i] : i \in DOMAIN entries} \ {NoListener}

TypeOK ==
    /\ state \in States
    /\ previous \in States \cup {"null"}
    /\ hasError \in BOOLEAN
    /\ entries \in Seq(Listeners \cup {NoListener})
    /\ seen \in [Listeners -> States \cup {"never"}]
    /\ stack \in Seq(Frames)
    /\ calls \in 0 .. MaxCalls

\* The constructor's context; no listener yet.
Init ==
    /\ state = "IDLE"
    /\ previous = "null"
    /\ hasError = FALSE
    /\ entries = << >>
    /\ seen = [l \in Listeners |-> "never"]
    /\ stack = << >>
    /\ calls = 0

Top == stack[Len(stack)]

\* Who may call a method of the given kind now: code outside any notify,
\* or a listener whose callback is running, when listeners make such calls.
CanCall(kind) ==
    /\ calls < MaxCalls
    /\ \/ stack = << >>
       \/ kind \in Reentrant /\ stack # << >> /\ Top.inCallback

\* The context update with notify() moved before the assignment: the
\* snapshot is the context being left.
SetStateNotifyFirst(to) ==
    /\ previous' = state
    /\ state' = to
    /\ hasError' = (to = "ERROR")
    /\ stack' = Append(stack, [ctx |-> state, pos |-> 0, inCallback |-> FALSE])
    /\ calls' = calls + 1

\* The context update shared by transition and forceTransition (lines
\* 83-90, 110-117), followed by notify's snapshot (line 130).
SetState(to) ==
    /\ previous' = state
    /\ state' = to
    /\ hasError' = (to = "ERROR")
    /\ stack' = Append(stack, [ctx |-> to, pos |-> 0, inCallback |-> FALSE])
    /\ calls' = calls + 1

-----------------------------------------------------------------------------
\* transition(to): refused (false, nothing changes) unless canTransition.
Transition(to) ==
    /\ CanCall("state")
    /\ to \in VALID_TRANSITIONS[state]
    /\ SetState(to)
    /\ UNCHANGED << entries, seen >>

\* forceTransition(to) without its notify() call.
ForceTransitionSilent(to) ==
    /\ CanCall("state")
    /\ previous' = state
    /\ state' = to
    /\ hasError' = (to = "ERROR")
    /\ calls' = calls + 1
    /\ UNCHANGED << entries, seen, stack >>

\* forceTransition(to): no validation.
ForceTransition(to) ==
    /\ CanCall("state")
    /\ SetState(to)
    /\ UNCHANGED << entries, seen >>

\* reset(): a fresh IDLE context, then notify.
Reset ==
    /\ CanCall("state")
    /\ state' = "IDLE"
    /\ previous' = "null"
    /\ hasError' = FALSE
    /\ stack' = Append(stack, [ctx |-> "IDLE", pos |-> 0, inCallback |-> FALSE])
    /\ calls' = calls + 1
    /\ UNCHANGED << entries, seen >>

\* subscribe(l): Set.add (a no-op for a member), then the immediate call
\* with the current context.
Subscribe(l) ==
    /\ CanCall("subscription")
    /\ l \notin Subscribers
    /\ entries' = Append(entries, l)
    /\ seen' = [seen EXCEPT ![l] = state]
    /\ calls' = calls + 1
    /\ UNCHANGED << state, previous, hasError, stack >>

\* The function subscribe returned: Set.delete.
Unsubscribe(l) ==
    /\ CanCall("subscription")
    /\ l \in Subscribers
    /\ entries' = [i \in DOMAIN entries |-> IF entries[i] = l THEN NoListener ELSE entries[i]]
    /\ calls' = calls + 1
    /\ UNCHANGED << state, previous, hasError, seen, stack >>

-----------------------------------------------------------------------------
(* notify's forEach (lines 129-138), one listener call per step.          *)

NextEntries(f) == {i \in DOMAIN entries : i > f.pos /\ entries[i] # NoListener}

\* The loop calls the next live entry with the snapshot.
Deliver ==
    /\ stack # << >>
    /\ ~Top.inCallback
    /\ NextEntries(Top) # {}
    /\ LET i == CHOOSE j \in NextEntries(Top) : \A k \in NextEntries(Top) : j <= k
       IN  /\ seen' = [seen EXCEPT ![entries[i]] = Top.ctx]
           /\ stack' = [stack EXCEPT ![Len(stack)] = [@ EXCEPT !.pos = i, !.inCallback = TRUE]]
    /\ UNCHANGED << state, previous, hasError, entries, calls >>

\* The listener returns (or throws, and the catch logs it).
Return ==
    /\ stack # << >>
    /\ Top.inCallback
    /\ stack' = [stack EXCEPT ![Len(stack)] = [@ EXCEPT !.inCallback = FALSE]]
    /\ UNCHANGED << state, previous, hasError, entries, seen, calls >>

\* forEach has passed the last entry: notify returns to its caller.
Finish ==
    /\ stack # << >>
    /\ ~Top.inCallback
    /\ NextEntries(Top) = {}
    /\ stack' = SubSeq(stack, 1, Len(stack) - 1)
    /\ UNCHANGED << state, previous, hasError, entries, seen, calls >>

Next ==
    \/ \E to \in States : Transition(to) \/ ForceTransition(to)
    \/ Reset
    \/ \E l \in Listeners : Subscribe(l) \/ Unsubscribe(l)
    \/ Deliver
    \/ Return
    \/ Finish

Spec == Init /\ [][Next]_vars

-----------------------------------------------------------------------------
(* Derived state agrees with the machine: whenever no notify is under way,*)
(* every subscribed listener was last called with the machine's current   *)
(* state, so the React state derived from it (file header, lines 3-5) is   *)
(* the machine's.  notify snapshots the context once (line 130) and keeps  *)
(* calling later listeners with it after an earlier one moved the machine. *)
ListenersSeeCurrentState ==
    stack = << >> => \A l \in Subscribers : seen[l] = state

(* No listener is ever handed a stale context: every call of a listener,  *)
(* subscribe's immediate call and each call of notify's forEach, nested   *)
(* ones included, passes the state the machine is in at that moment       *)
(* (notify snapshots getContext() once, line 130, and forEach may run     *)
(* after a listener moved the machine).                                    *)
CallsCarryCurrentState ==
    [][\A l \in Listeners : seen'[l] # seen[l] => seen'[l] = state']_vars


-----------------------------------------------------------------------------
(* The listeners under which notify's single snapshot is safe: they never *)
(* subscribe or unsubscribe from a callback, and they move the machine    *)
(* from a callback only when there is one listener.                        *)
SafeListeners ==
    /\ Reentrant \subseteq {"state"}
    /\ Reentrant # {} => \A a, b \in Listeners : a = b

Live(i) == entries[i] # NoListener

\* Set.add never adds a member twice.
EntriesDistinct == \A i, j \in DOMAIN entries : Live(i) /\ entries[i] = entries[j] => i = j

\* A callback under way belongs to a live entry.
CallbackLive ==
    \A k \in DOMAIN stack :
        stack[k].inCallback => stack[k].pos \in DOMAIN entries /\ Live(stack[k].pos)

\* Every notify below the innermost is inside the call of its last listener.
OuterDone == \A k \in 1 .. Len(stack) - 1 : stack[k].inCallback /\ NextEntries(stack[k]) = {}

\* A notify with listeners still to call holds the current state.
PendingCurrent == stack # << >> /\ NextEntries(Top) # {} => Top.ctx = state

\* The listeners already called (all of them, outside notify) saw the
\* current state.
CalledCurrent ==
    \A i \in DOMAIN entries :
        Live(i) /\ (stack = << >> \/ i <= Top.pos) => seen[entries[i]] = state

\* The strengthening of ListenersSeeCurrentState that a step preserves.
IInv == TypeOK /\ EntriesDistinct /\ CallbackLive /\ OuterDone /\ PendingCurrent /\ CalledCurrent

=============================================================================
