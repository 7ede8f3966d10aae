---------------------------- MODULE WebhookInbox ----------------------------
(***************************************************************************)
(* The event-sourced Lidarr webhook route (src/unnamed/part_003, the      *)
(* POST /webhooks/lidarr handler and processWebhookEvent).                 *)
(*                                                                         *)
(* Lidarr delivers each external event one or more times.  A delivery is  *)
(* an HTTP request: the handler reads the settings, stores the event with *)
(* webhookEventStore.storeEvent (deduplicated by the event's id), answers *)
(* 200, and starts processWebhookEvent without awaiting it.  Processing   *)
(* runs the handler of the event type (handleGrab, handleDownload,        *)
(* handleImportFailure), whose downstream action is a download-job        *)
(* transition and, for downloads, a scan enqueued; then it marks the row  *)
(* processed, or failed when the handler threw.                            *)
(*                                                                         *)
(* webhookEventStore and simpleDownloadManager are not in this repository *)
(* and are modelled from the spec: storeEvent returns the existing row for *)
(* a known id, markProcessed and markFailed set the row's status.  Every  *)
(* await is a step; the process may crash between any two, losing every   *)
(* request and every processing in flight but no stored row.               *)
(***************************************************************************)
EXTENDS Naturals

CONSTANTS
    Events,         \* external event ids
    MaxDeliveries,  \* deliveries of one event by Lidarr (retries, duplicates)
    MaxCrashes,     \* process restarts
    StoreFaults,    \* whether getSystemSettings and the event store may throw
    HandlerFaults,  \* whether the download manager, Prisma or the scan queue may throw
    Retention       \* whether the daily sweep of processed rows runs

ASSUME ConstantsAssumption ==
    /\ Events # {}
    /\ MaxDeliveries \in Nat \ {0}
    /\ MaxCrashes \in Nat
    /\ StoreFaults \in BOOLEAN
    /\ HandlerFaults \in BOOLEAN
    /\ Retention \in BOOLEAN

Deliveries == Events \X (1 .. MaxDeliveries)

\* Where one delivery is: not yet sent; in the route before or after the
\* settings read; processing (handler, then markProcessed or markFailed);
\* finished; or cut off by a crash.
Stages == {"unsent", "settings", "storing", "handling", "markOK", "markFailed",
           "done", "lost"}

Statuses == {"absent", "received", "processed", "failed"}

VARIABLES
    row,       \* row[e]: the WebhookEvent row of e
    acked,     \* acked[e]: Lidarr got a 200 with an eventId for e
    effects,   \* effects[e]: downstream actions the handlers ran for e
    stage,     \* stage[d]: where delivery d is
    crashes,   \* restarts so far
    swept      \* history: swept[e], the sweep deleted e's row

vars == << row, acked, effects, stage, crashes, swept >>

TypeOK ==
    /\ row \in [Events -> Statuses]
    /\ acked \in [Events -> BOOLEAN]
    /\ effects \in [Events -> Nat]
    /\ stage \in [Deliveries -> Stages]
    /\ crashes \in 0 .. MaxCrashes
    /\ swept \in [Events -> BOOLEAN]

Init ==
    /\ row = [e \in Events |-> "absent"]
    /\ acked = [e \in Events |-> FALSE]
    /\ effects = [e \in Events |-> 0]
    /\ stage = [d \in Deliveries |-> "unsent"]
    /\ crashes = 0
    /\ swept = [e \in Events |-> FALSE]

Move(d, from, to) ==
    /\ stage[d] = from
    /\ stage' = [stage EXCEPT ![d] = to]

-----------------------------------------------------------------------------
\* Lidarr sends delivery i of event e, after delivery i - 1.
Deliver(d) ==
    /\ d[2] > 1 => stage[<< d[1], d[2] - 1 >>] # "unsent"
    /\ Move(d, "unsent", "settings")
    /\ UNCHANGED << row, acked, effects, crashes, swept >>

\* getSystemSettings(): Lidarr disabled (202, ignored), a wrong secret
\* (401), a throw (500), or on to storeEvent.
ReadSettings(d) ==
    /\ \/ Move(d, "settings", "storing")
       \/ Move(d, "settings", "done")
    /\ UNCHANGED << row, acked, effects, crashes, swept >>

\* storeEvent without its await: the 200 goes out before the row is written,
\* and the write is lost with the process.
StoreNotAwaited(d) ==
    /\ Move(d, "storing", "handling")
    /\ acked' = [acked EXCEPT ![d[1]] = TRUE]
    /\ UNCHANGED << row, effects, crashes, swept >>

\* storeEvent, then res.json 200, then processWebhookEvent started without
\* awaiting it: the handler's first call is under way.  storeEvent returns
\* the existing row for a known id.  If it throws, the route answers 500.
Store(d) ==
    LET e == d[1] IN
    /\ \/ /\ Move(d, "storing", "handling")
          /\ row' = [row EXCEPT ![e] = IF @ = "absent" THEN "received" ELSE @]
          /\ acked' = [acked EXCEPT ![e] = TRUE]
       \/ /\ StoreFaults
          /\ Move(d, "storing", "done")
          /\ UNCHANGED << row, acked >>
    /\ UNCHANGED << effects, crashes, swept >>

\* The handler of the event type returns a correlation id, or throws before
\* or after its downstream action (scanQueue.add can fail after the job
\* was advanced).
Handle(d) ==
    LET e == d[1] IN
    /\ \/ /\ Move(d, "handling", "markOK")
          /\ effects' = [effects EXCEPT ![e] = @ + 1]
       \/ /\ HandlerFaults
          /\ Move(d, "handling", "markFailed")
          /\ UNCHANGED effects
       \/ /\ HandlerFaults
          /\ Move(d, "handling", "markFailed")
          /\ effects' = [effects EXCEPT ![e] = @ + 1]
    /\ UNCHANGED << row, acked, crashes, swept >>

\* markProcessed; if it throws, the catch block runs markFailed.
MarkProcessed(d) ==
    /\ \/ /\ Move(d, "markOK", "done")
          /\ row' = [row EXCEPT ![d[1]] = "processed"]
       \/ /\ StoreFaults
          /\ Move(d, "markOK", "markFailed")
          /\ UNCHANGED row
    /\ UNCHANGED << acked, effects, crashes, swept >>

\* A catch block that only logs the error and leaves the row as it was.
MarkFailedLogOnly(d) ==
    /\ Move(d, "markFailed", "done")
    /\ UNCHANGED << row, acked, effects, crashes, swept >>

\* markFailed; if it throws, the rejection reaches the .catch of the route,
\* which only logs it.
MarkFailed(d) ==
    /\ \/ /\ Move(d, "markFailed", "done")
          /\ row' = [row EXCEPT ![d[1]] = "failed"]
       \/ /\ StoreFaults
          /\ Move(d, "markFailed", "done")
          /\ UNCHANGED row
    /\ UNCHANGED << acked, effects, crashes, swept >>

InFlight == {"settings", "storing", "handling", "markOK", "markFailed"}

\* The process restarts: requests and processings in flight are gone; the
\* database keeps its rows.  Nothing in the code resumes them.
Crash ==
    /\ crashes < MaxCrashes
    /\ crashes' = crashes + 1
    /\ stage' = [d \in Deliveries |-> IF stage[d] \in InFlight THEN "lost" ELSE stage[d]]
    /\ UNCHANGED << row, acked, effects, swept >>

\* cleanupWebhookEvents (the data-cleanup cron): deleteMany of the rows with
\* processed = true older than 30 days; the age is not modelled.
SweepEvents ==
    /\ Retention
    /\ \E e \in Events : row[e] = "processed"
    /\ row' = [e \in Events |-> IF row[e] = "processed" THEN "absent" ELSE row[e]]
    /\ swept' = [e \in Events |-> swept[e] \/ row[e] = "processed"]
    /\ UNCHANGED << acked, effects, stage, crashes >>

Server(d) ==
    ReadSettings(d) \/ Store(d) \/ Handle(d) \/ MarkProcessed(d) \/ MarkFailed(d)

\* Every delivery has been sent and has finished or been lost.
Quiescent ==
    /\ \A d \in Deliveries : stage[d] \in {"done", "lost"}
    /\ UNCHANGED vars

Next ==
    \/ \E d \in Deliveries : Deliver(d) \/ Server(d)
    \/ Crash
    \/ SweepEvents
    \/ Quiescent

\* The route and its promise chain run to the end unless the process dies:
\* Node's event loop runs every continuation whose await has resolved.
Fairness == \A d \in Deliveries : WF_vars(Server(d))

Spec == Init /\ [][Next]_vars /\ Fairness

-----------------------------------------------------------------------------
(* Receipt is durable before it is acknowledged: every event for which    *)
(* Lidarr received a 200 has a stored row, whatever crashes and store     *)
(* errors happened, unless the retention sweep deleted it after it was     *)
(* processed (storeEvent is awaited before res.json, lines 81-88).         *)
AckedIsDurable == \A e \in Events : acked[e] => row[e] # "absent" \/ swept[e]

(* A stored event is eventually settled: a row that storeEvent created   *)
(* as received ends processed or failed, because the route always starts  *)
(* processWebhookEvent after the 200 (line 91) and its try/catch reaches   *)
(* markProcessed or markFailed (lines 111-146), when the process does not  *)
(* die and the event store does not fail.                                  *)
StoredEventuallySettled ==
    \A e \in Events : row[e] = "received" ~> row[e] \in {"processed", "failed"}

(* At-most-once processing (spec 3, WebhookEvent): however often Lidarr   *)
(* delivers an event, its handler's downstream action runs at most once.  *)
ProcessedAtMostOnce == \A e \in Events : effects[e] <= 1

=============================================================================
