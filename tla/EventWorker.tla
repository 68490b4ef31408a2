---------------------------- MODULE EventWorker ----------------------------
(***************************************************************************)
(* The event worker of nilcc-agent: one task that takes the events of all  *)
(* VM workers from a bounded channel and reports them to nilcc-api, one at *)
(* a time and each until it is through, remembering in the workloads table *)
(* the last one reported; and the handler of nilcc-api that turns an event *)
(* into the status of the workload.                                        *)
(***************************************************************************)
EXTENDS Integers, Sequences

CONSTANTS
    Workloads,  \* ids of workloads
    QueueCap    \* capacity of the channel (1024)

ASSUME QueueAssumption == QueueCap \in Nat \ {0}

VARIABLES
    queue,          \* the channel, in memory
    current,        \* the event being sent, or NoEvent
    epc,            \* where in send_event the worker is
    seen,           \* seen_workloads, in memory
    table,          \* ids in the agent's workloads table
    lastReported,   \* the column last_reported_event
    registered,     \* ids of committed workloads in nilcc-api's database
    status,         \* their status column
    applied         \* history: nilcc-api has applied the current event

evars == <<queue, current, epc, seen, table, lastReported, registered, status,
           applied>>

Kinds == {"Starting", "VmRestarted", "ForcedRestart", "AwaitingCert", "Running",
          "Stopped", "FailedToStart", "Warning"}
Statuses == {"scheduled", "starting", "awaitingCert", "running", "stopped", "error"}

Event == [w: Workloads, kind: Kinds]
NoEvent == [kind |-> "none"]

(* submitEvent of nilcc-api: a warning leaves the status alone.            *)
StatusAfter(s, k) ==
    CASE k \in {"Starting", "VmRestarted", "ForcedRestart"} -> "starting"
      [] k = "AwaitingCert" -> "awaitingCert"
      [] k = "Running" -> "running"
      [] k = "Stopped" -> "stopped"
      [] k = "FailedToStart" -> "error"
      [] OTHER -> s

(* The agent starts; the workloads of S were created and stopped earlier.  *)
EventInit(S) ==
    /\ queue = << >>
    /\ current = NoEvent
    /\ epc = "recv"
    /\ seen = {}
    /\ table = S
    /\ lastReported = [w \in Workloads |-> IF w \in S THEN "Stopped" ELSE "none"]
    /\ registered = S
    /\ status = [w \in Workloads |-> IF w \in S THEN "stopped" ELSE "scheduled"]
    /\ applied = FALSE

-----------------------------------------------------------------------------

(* EventSender::send_event: waits while the channel is full.               *)
SendEvent(w, k) ==
    /\ Len(queue) < QueueCap
    /\ queue' = Append(queue, [w |-> w, kind |-> k])
    /\ UNCHANGED <<current, epc, seen, table, lastReported, registered, status, applied>>

(* run: the next event of the channel.                                     *)
Receive ==
    /\ epc = "recv"
    /\ queue # << >>
    /\ current' = Head(queue)
    /\ queue' = Tail(queue)
    /\ epc' = "look"
    /\ UNCHANGED <<seen, table, lastReported, registered, status, applied>>

Done == current' = NoEvent /\ epc' = "recv" /\ applied' = FALSE

(* Before the first event of a workload is sent since the agent started:   *)
(* one of a workload that is gone, or the last one reported, is dropped.   *)
Look ==
    LET w == current.w IN
    /\ epc = "look"
    /\ \/ /\ w \notin seen /\ w \notin table
          /\ Done
          /\ UNCHANGED seen
       \/ /\ w \notin seen /\ w \in table /\ lastReported[w] = current.kind
          /\ Done
          /\ seen' = seen \cup {w}
       \/ /\ w \in seen \/ (w \in table /\ lastReported[w] # current.kind)
          /\ epc' = "report"
          /\ UNCHANGED <<current, seen, applied>>
    /\ UNCHANGED <<queue, table, lastReported, registered, status>>

(* submitEvent, committed.                                                 *)
Submit ==
    LET w == current.w IN
    /\ w \in registered
    /\ status' = [status EXCEPT ![w] = StatusAfter(@, current.kind)]
    /\ applied' = TRUE

(* report_vm_event: accepted; 404, which drops the event; refused or       *)
(* unreachable, which starts again after a second, and so does an answer   *)
(* that is lost after nilcc-api committed.                                 *)
Report ==
    /\ epc = "report"
    /\ \/ /\ Submit
          /\ epc' = "record"
          /\ UNCHANGED current
       \/ /\ current.w \notin registered
          /\ Done
          /\ UNCHANGED status
    /\ UNCHANGED <<queue, seen, table, lastReported, registered>>

(* Variant: an event that could not be reported goes to the end of the     *)
(* channel.                                                                *)
ReportFailsRequeues ==
    /\ epc = "report"
    /\ Len(queue) < QueueCap
    /\ queue' = Append(queue, current)
    /\ Done
    /\ UNCHANGED <<seen, table, lastReported, registered, status>>

ReportFails ==
    /\ epc = "report"
    /\ Submit \/ UNCHANGED <<status, applied>>
    /\ epc' = "look"
    /\ UNCHANGED <<queue, current, seen, table, lastReported, registered>>

(* set_last_reported_event, tried until it works. An UPDATE of a row that  *)
(* is gone succeeds.                                                       *)
Record ==
    LET w == current.w IN
    /\ epc = "record"
    /\ lastReported' = IF w \in table
                       THEN [lastReported EXCEPT ![w] = current.kind] ELSE lastReported
    /\ seen' = seen \cup {w}
    /\ Done
    /\ UNCHANGED <<queue, table, registered, status>>

EventStep == Receive \/ Look \/ Report \/ Record

(* The agent dies: the channel and seen_workloads are gone.                *)
EventsLost ==
    /\ queue' = << >>
    /\ seen' = {}
    /\ Done
    /\ UNCHANGED <<table, lastReported, registered, status>>

(* The rows that others write: the agent's table, and nilcc-api's. A new   *)
(* row has reported nothing, and ids are never used again.                 *)
StoreRow(w) ==
    /\ table' = table \cup {w}
    /\ UNCHANGED <<queue, current, epc, seen, lastReported, registered, status,
                   applied>>

EraseRow(w) ==
    /\ table' = table \ {w}
    /\ UNCHANGED <<queue, current, epc, seen, lastReported, registered, status,
                   applied>>

Register(w) ==
    /\ registered' = registered \cup {w}
    /\ UNCHANGED <<queue, current, epc, seen, table, lastReported, status, applied>>

Unregister(w) ==
    /\ registered' = registered \ {w}
    /\ UNCHANGED <<queue, current, epc, seen, table, lastReported, status, applied>>

(* The event worker with producers that emit any events at any time.       *)
EventNext ==
    \/ EventStep \/ ReportFails \/ EventsLost
    \/ \E w \in Workloads :
        \/ \E k \in Kinds : SendEvent(w, k)
        \/ StoreRow(w) \/ EraseRow(w) \/ Register(w) \/ Unregister(w)

EventSpec == (\E S \in SUBSET Workloads : EventInit(S)) /\ [][EventNext]_evars

-----------------------------------------------------------------------------

(* The events that the agent still holds: the one being sent, then those   *)
(* in the channel.                                                         *)
Held == IF current = NoEvent THEN queue ELSE <<current>> \o queue

Channel == INSTANCE EventChannel WITH pending <- Held

(* Events reach nilcc-api in the order they were emitted: only the oldest  *)
(* one the agent holds changes a status, and one that was given up, for a  *)
(* workload that is gone, an event already reported, a 404 or a crash,     *)
(* never comes back after a later one (run and send_event of the event     *)
(* worker, submitEvent of nilcc-api).                                      *)
StatusInOrder == Channel!Spec

=============================================================================
