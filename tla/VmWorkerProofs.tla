--------------------------- MODULE VmWorkerProofs ---------------------------
(***************************************************************************)
(* Theorems about VmWorker and the event worker in it. The event worker    *)
(* implements EventChannel, for any workloads and any capacity of the      *)
(* channel, with any producers, crashes and failed calls, and the VM       *)
(* worker is such a producer. The VM service and the host agree on who     *)
(* owns the CVM and its files.                                             *)
(***************************************************************************)
EXTENDS VmWorker, SequenceTheorems, TLAPS

-----------------------------------------------------------------------------
(* The event worker, with any producers.                                   *)

(* What the refinement rests on: the worker holds an event exactly while   *)
(* it is not waiting for one.                                              *)
EventInv ==
    /\ queue \in Seq(Event)
    /\ current \in Event \cup {NoEvent}
    /\ epc \in {"recv", "look", "report", "record"}
    /\ current = NoEvent <=> epc = "recv"
    /\ status \in [Workloads -> Statuses]

(* The placeholder is not an event.                                        *)
LEMMA NoEventIsNone == NoEvent \notin Event
<1>1. \A e \in Event : e.kind \in Kinds
  BY DEF Event
<1>2. NoEvent.kind \notin Kinds
  BY DEF NoEvent, Kinds
<1>. QED BY <1>1, <1>2

(* submitEvent leaves the status column in its type.                       *)
LEMMA StatusAfterType ==
    ASSUME NEW s \in Statuses, NEW k \in Kinds
    PROVE  StatusAfter(s, k) \in Statuses
  BY DEF StatusAfter, Statuses, Kinds

(* A line that is the event being sent and those behind it.                *)
LEMMA LineFacts ==
    ASSUME NEW S, NEW q \in Seq(S), NEW c \in S, NEW e \in S
    PROVE  /\ <<c>> \o q # << >>
           /\ Head(<<c>> \o q) = c
           /\ Tail(<<c>> \o q) = q
           /\ Append(<<c>> \o q, e) = <<c>> \o Append(q, e)
           /\ q # << >> => <<Head(q)>> \o Tail(q) = q
<1>1. <<c>> \o q \in Seq(S) /\ Len(<<c>> \o q) = 1 + Len(q)
      /\ \A i \in 1..(1 + Len(q)) : (<<c>> \o q)[i] = IF i = 1 THEN c ELSE q[i - 1]
  OBVIOUS
<1>2. <<c>> \o q # << >> /\ Head(<<c>> \o q) = c
  BY <1>1
<1>3. Tail(<<c>> \o q) = q
  <2>1. Tail(<<c>> \o q) \in Seq(S) /\ Len(Tail(<<c>> \o q)) = Len(q)
        /\ \A i \in 1..Len(q) : Tail(<<c>> \o q)[i] = q[i]
    BY <1>1
  <2>. QED BY <2>1, SeqEqual
<1>4. Append(<<c>> \o q, e) = <<c>> \o Append(q, e)
  <2>1. Append(q, e) \in Seq(S) /\ Append(<<c>> \o q, e) \in Seq(S)
        /\ <<c>> \o Append(q, e) \in Seq(S)
    BY <1>1
  <2>2. Len(Append(<<c>> \o q, e)) = Len(<<c>> \o Append(q, e))
    BY <1>1, <2>1
  <2>3. \A i \in 1..Len(Append(<<c>> \o q, e)) :
            Append(<<c>> \o q, e)[i] = (<<c>> \o Append(q, e))[i]
    BY <1>1, <2>1
  <2>. QED BY <2>1, <2>2, <2>3, SeqEqual
<1>5. ASSUME q # << >> PROVE <<Head(q)>> \o Tail(q) = q
  <2>1. Tail(q) \in Seq(S) /\ Len(Tail(q)) = Len(q) - 1 /\ Head(q) \in S
    BY <1>5
  <2>2. <<Head(q)>> \o Tail(q) \in Seq(S) /\ Len(<<Head(q)>> \o Tail(q)) = Len(q)
    BY <2>1, <1>5
  <2>3. \A i \in 1..Len(q) : (<<Head(q)>> \o Tail(q))[i] = q[i]
    BY <2>1, <1>5
  <2>. QED BY <2>2, <2>3, SeqEqual
<1>. QED BY <1>2, <1>3, <1>4, <1>5

LEMMA EventInvInit ==
    ASSUME NEW S \in SUBSET Workloads, EventInit(S)
    PROVE  EventInv
  BY DEF EventInit, EventInv, Statuses

LEMMA EventInvNext == EventInv /\ [EventNext]_evars => EventInv'
<1>. SUFFICES ASSUME EventInv, [EventNext]_evars PROVE EventInv'
  OBVIOUS
<1>. USE NoEventIsNone
<1>1. ASSUME NEW w \in Workloads, NEW k \in Kinds, SendEvent(w, k) PROVE EventInv'
  <2>1. [w |-> w, kind |-> k] \in Event
    BY DEF Event
  <2>. QED BY <1>1, <2>1 DEF SendEvent, EventInv
<1>2. CASE Receive
  BY <1>2 DEF Receive, EventInv
<1>3. CASE Look
  BY <1>3 DEF Look, Done, EventInv
<1>4. ASSUME Submit, current # NoEvent PROVE status' \in [Workloads -> Statuses]
  <2>1. current.w \in Workloads /\ current.kind \in Kinds
    BY <1>4 DEF EventInv, Event
  <2>. QED BY <1>4, <2>1, StatusAfterType DEF Submit, EventInv
<1>5. CASE Report
  BY <1>4, <1>5 DEF Report, Done, EventInv
<1>6. CASE ReportFails
  BY <1>4, <1>6 DEF ReportFails, EventInv
<1>7. CASE Record
  BY <1>7 DEF Record, Done, EventInv
<1>8. CASE EventsLost
  BY <1>8 DEF EventsLost, Done, EventInv
<1>9. ASSUME NEW w \in Workloads,
             StoreRow(w) \/ EraseRow(w) \/ Register(w) \/ Unregister(w)
      PROVE  EventInv'
  BY <1>9 DEF StoreRow, EraseRow, Register, Unregister, EventInv
<1>10. CASE UNCHANGED evars
  BY <1>10 DEF evars, EventInv
<1>. QED BY <1>1, <1>2, <1>3, <1>5, <1>6, <1>7, <1>8, <1>9, <1>10
     DEF EventNext, EventStep

(* Every step of the event worker is a step of the channel or changes      *)
(* nothing in it.                                                          *)
LEMMA EventStepRefines ==
    EventInv /\ EventInv' /\ [EventNext]_evars => [Channel!Next]_<<Held, status>>
<1>. SUFFICES ASSUME EventInv, EventInv', [EventNext]_evars
     PROVE  [Channel!Next]_<<Held, status>>
  OBVIOUS
<1>. USE NoEventIsNone
<1>1. ASSUME NEW w \in Workloads, NEW k \in Kinds, SendEvent(w, k)
      PROVE  Channel!Emit(w, k)
  <2>1. [w |-> w, kind |-> k] \in Event
    BY DEF Event
  <2>2. Held' = Append(Held, [w |-> w, kind |-> k])
    BY <1>1, <2>1, LineFacts DEF SendEvent, Held, EventInv
  <2>. QED BY <1>1, <2>2 DEF SendEvent, Channel!Emit
<1>2. ASSUME current # NoEvent, current' = NoEvent, queue' = queue, UNCHANGED status
      PROVE  Channel!Leave
  BY <1>2, LineFacts DEF Held, EventInv, Channel!Leave
<1>3. ASSUME current # NoEvent, current' = current, queue' = queue, Submit
      PROVE  Channel!Apply
  <2>1. Held # << >> /\ Head(Held) = current /\ Held' = Held
    BY <1>3, LineFacts DEF Held, EventInv
  <2>. QED BY <1>3, <2>1 DEF Submit, Channel!Apply
<1>4. CASE Receive
  <2>1. Held' = Held
    BY <1>4, LineFacts DEF Receive, Held, EventInv
  <2>. QED BY <1>4, <2>1 DEF Receive
<1>5. CASE Look
  <2>1. CASE Done
    BY <1>2, <1>5, <2>1 DEF Look, Done, EventInv, Channel!Next
  <2>2. CASE UNCHANGED current
    BY <1>5, <2>2 DEF Look, Held
  <2>. QED BY <1>5, <2>1, <2>2 DEF Look
<1>6. CASE Report
  BY <1>2, <1>3, <1>6 DEF Report, Done, EventInv, Channel!Next
<1>7. CASE ReportFails
  <2>1. CASE Submit
    BY <1>3, <1>7, <2>1 DEF ReportFails, EventInv, Channel!Next
  <2>2. CASE UNCHANGED status
    BY <1>7, <2>2 DEF ReportFails, Held
  <2>. QED BY <1>7, <2>1, <2>2 DEF ReportFails
<1>8. CASE Record
  BY <1>2, <1>8 DEF Record, Done, EventInv, Channel!Next
<1>9. CASE EventsLost
  BY <1>9 DEF EventsLost, Done, Held, Channel!Lose, Channel!Next
<1>10. ASSUME NEW w \in Workloads,
              StoreRow(w) \/ EraseRow(w) \/ Register(w) \/ Unregister(w)
       PROVE  UNCHANGED <<Held, status>>
  BY <1>10 DEF StoreRow, EraseRow, Register, Unregister, Held
<1>11. CASE UNCHANGED evars
  BY <1>11 DEF evars, Held
<1>. QED BY <1>1, <1>4, <1>5, <1>6, <1>7, <1>8, <1>9, <1>10, <1>11
     DEF EventNext, EventStep, Channel!Next

(* The worker's invariant holds in every behaviour.                        *)
LEMMA EventInvAlways == EventSpec => []EventInv
<1>1. (\E S \in SUBSET Workloads : EventInit(S)) => EventInv
  BY EventInvInit
<1>. QED BY <1>1, EventInvNext, PTL DEF EventSpec

(* Events reach nilcc-api in the order they were emitted: the event worker *)
(* (run and send_event), with the handler submitEvent, implements the      *)
(* channel, whatever the producers emit, whatever fails and however often  *)
(* the agent dies.                                                         *)
THEOREM EventsInOrder == EventSpec => StatusInOrder
<1>1. (\E S \in SUBSET Workloads : EventInit(S)) => Channel!Init
  BY DEF EventInit, Channel!Init, Held, Statuses
<1>. QED BY <1>1, EventInvAlways, EventStepRefines, PTL
     DEF EventSpec, StatusInOrder, Channel!Spec


-----------------------------------------------------------------------------
(* The worker tasks: the shape of their records, and who emits what.       *)

WorkerFields == {"pc", "cmds", "state", "last", "out"}

IsWorker(r) == DOMAIN r = WorkerFields /\ r.out \in Seq(Kinds)

Shape == DOMAIN worker = Slots /\ \A s \in Slots : IsWorker(worker[s])

LEMMA NoWorkerShape ==
    /\ IsWorker(NoWorker) /\ NoWorker.pc = "none"
    /\ IsWorker(NewWorker) /\ NewWorker.pc = "start" /\ NewWorker.cmds = << >>
  BY DEF IsWorker, NoWorker, NewWorker, WorkerFields

(* One task is replaced.                                                   *)
LEMMA BecomesIs ==
    ASSUME Shape, NEW s \in Slots, NEW r, worker' = [worker EXCEPT ![s] = r]
    PROVE  /\ DOMAIN worker' = Slots
           /\ worker'[s] = r
           /\ \A t \in Slots : t # s => worker'[t] = worker[t]
  BY DEF Shape

(* A task that goes on at p.                                               *)
LEMMA GoesOn ==
    ASSUME NEW r, IsWorker(r), NEW p
    PROVE  /\ IsWorker([r EXCEPT !.pc = p])
           /\ [r EXCEPT !.pc = p].pc = p
           /\ [r EXCEPT !.pc = p].cmds = r.cmds
  BY DEF IsWorker, WorkerFields

LEMMA OneEvent ==
    ASSUME NEW k \in Kinds
    PROVE  <<k>> \in Seq(Kinds)
  OBVIOUS

(* handle_tick passes on at most Running and one event of the guest.       *)
LEMMA HealthReportShape ==
    ASSUME NEW r, IsWorker(r), NEW h
    PROVE  /\ IsWorker(HealthReport(r, h))
           /\ HealthReport(r, h).pc = r.pc
           /\ HealthReport(r, h).cmds = r.cmds
<1>. DEFINE new == h.event # NoId /\ h.event # r.last
            a == IF h.https THEN <<"Running">> ELSE << >>
            b == IF new THEN <<EventOf(h.kind)>> ELSE << >>
<1>1. a \in Seq(Kinds) /\ b \in Seq(Kinds)
  <2>1. "Running" \in Kinds /\ EventOf(h.kind) \in Kinds
    BY DEF EventOf, Kinds
  <2>2. <<"Running">> \in Seq(Kinds) /\ <<EventOf(h.kind)>> \in Seq(Kinds)
    BY <2>1, OneEvent
  <2>. QED BY <2>2
<1>2. a \o b \in Seq(Kinds)
  BY <1>1
<1>3. HealthReport(r, h) = [r EXCEPT !.state = IF h.https THEN "running" ELSE @,
                                     !.last = IF new THEN h.event ELSE @,
                                     !.out = a \o b]
  BY DEF HealthReport
<1>. HIDE DEF new, a, b
<1>. QED BY <1>2, <1>3 DEF IsWorker, WorkerFields

-----------------------------------------------------------------------------
(* VmOwned, when a worker is not spawned while another one exits. The      *)
(* argument follows the one worker there is: only a worker that was        *)
(* dismissed gets a Delete, so the managed one never exits; one that exits *)
(* has stopped the CVM before it erases the files, and both before it is   *)
(* gone.                                                                   *)

Exiting == {"quit", "erase", "unlink"}

Alone == \A s, t \in Slots : worker[s].pc # "none" /\ worker[t].pc # "none" => s = t

ManagedInv ==
    managed # None =>
        /\ managed \in Slots
        /\ worker[managed].pc \notin Exiting \cup {"none"}
        /\ worker[managed].cmds \in Seq({"Restart"})
        /\ iso # 0 /\ disk

HostInv ==
    /\ env \in Nat \ {0}
    /\ ~serving => leaked # {}
    /\ vm \in {"on", "off"}
    /\ leaked = {} /\ vm = "on" => socket

(* What a worker r that is leaving, or gone, leaves behind.                *)
LeavesInv(r) ==
    /\ r.pc = "unlink" => iso = 0 /\ ~disk
    /\ leaked = {} /\ r.pc \in {"erase", "unlink"} => vm = "off"

GoneInv ==
    (\A s \in Slots : worker[s].pc = "none") /\ leaked = {} =>
        vm = "off" /\ iso = 0 /\ ~disk

OwnerInv ==
    /\ Shape
    /\ Alone
    /\ ManagedInv
    /\ HostInv
    /\ \A s \in Slots : LeavesInv(worker[s])
    /\ GoneInv

LEMMA InitOwnerInv == Init => OwnerInv
<1>. SUFFICES ASSUME Init PROVE OwnerInv
  OBVIOUS
<1>1. Shape /\ \A s \in Slots : worker[s].pc = "none"
  BY NoWorkerShape DEF Init, Shape
<1>. QED BY <1>1 DEF Init, OwnerInv, Alone, ManagedInv, HostInv, LeavesInv, GoneInv

LEMMA OwnerInvImplies == OwnerInv => VmOwned
  BY DEF OwnerInv, ManagedInv, HostInv, GoneInv, VmOwned

(* Steps that change nothing of what the invariant is about, but for the   *)
(* CVM that may be gone.                                                   *)
LEMMA OwnerInvOther ==
    ASSUME OwnerInv, UNCHANGED <<worker, managed, iso, disk, env, serving, leaked>>,
           UNCHANGED <<vm, socket>> \/ vm' = "off"
    PROVE  OwnerInv'
  BY DEF OwnerInv, Shape, Alone, ManagedInv, HostInv, LeavesInv, GoneInv

(* A step of the one worker.                                               *)
LEMMA OwnerInvWorker ==
    ASSUME OwnerInv, NEW s \in Slots, worker[s].pc # "none",
           NEW r, IsWorker(r), worker' = [worker EXCEPT ![s] = r],
           managed' \in {managed, None}, HostInv', LeavesInv(r)',
           managed' # None =>
               /\ r.pc \notin Exiting \cup {"none"}
               /\ r.cmds \in Seq({"Restart"})
               /\ iso' # 0 /\ disk',
           r.pc = "none" /\ leaked' = {} => vm' = "off" /\ iso' = 0 /\ ~disk'
    PROVE  OwnerInv'
<1>1. /\ DOMAIN worker' = Slots /\ worker'[s] = r
      /\ \A t \in Slots : t # s => worker'[t] = worker[t]
  BY BecomesIs DEF OwnerInv
<1>2. \A t \in Slots : t # s => worker[t].pc = "none"
  BY DEF OwnerInv, Alone
<1>3. managed' # None => managed' = s
  BY <1>2 DEF OwnerInv, ManagedInv
<1>4. Shape'
  BY <1>1 DEF OwnerInv, Shape
<1>5. Alone'
  BY <1>1, <1>2 DEF Alone
<1>6. ManagedInv'
  BY <1>1, <1>3 DEF ManagedInv
<1>7. \A t \in Slots : LeavesInv(worker[t])'
  BY <1>1, <1>2 DEF LeavesInv
<1>8. GoneInv'
  BY <1>1 DEF GoneInv
<1>. QED BY <1>4, <1>5, <1>6, <1>7, <1>8 DEF OwnerInv


LEMMA OwnerInvSteps ==
    ASSUME OwnerInv, NEW s \in Slots, WorkerStep(s)
    PROVE  OwnerInv'
<1>0. PICK r : r = worker[s]
  OBVIOUS
<1>1. r.pc # "none" \/ Submits(s)
  BY <1>0 DEF WorkerStep, At, StartVm, TakeCommand, RestartVm, QuitVm, EraseFiles,
         Unlink, TickGone, TickHealth, TickBootstrap
<1>2. IsWorker(r) /\ HostInv /\ LeavesInv(r)
  BY <1>0 DEF OwnerInv, Shape
<1>3. managed # None /\ r.pc # "none" => managed = s
  BY <1>0 DEF OwnerInv, Alone, ManagedInv
<1>4. managed # None /\ r.pc # "none" =>
        r.pc \notin Exiting /\ r.cmds \in Seq({"Restart"}) /\ iso # 0 /\ disk
  BY <1>0, <1>3 DEF OwnerInv, ManagedInv
<1>5. \A k \in Kinds : <<k>> \in Seq(Kinds)
  BY OneEvent
<1>6. QED
  <2>1. CASE Submits(s)
    <3>0. PICK n : n = [r EXCEPT !.out = Tail(@)]
      OBVIOUS
    <3>1. worker' = [worker EXCEPT ![s] = n] /\ r.out # << >>
      BY <1>0, <2>1, <3>0 DEF Submits, Becomes
    <3>2. IsWorker(n) /\ n.pc = r.pc /\ n.cmds = r.cmds
      <4>1. Tail(r.out) \in Seq(Kinds)
        BY <1>2, <3>1 DEF IsWorker
      <4>. QED BY <1>2, <3>0, <4>1 DEF IsWorker, WorkerFields
    <3>3. UNCHANGED <<managed, iso, disk, env, serving, socket, leaked, vm>>
      BY <2>1 DEF Submits, Rest
    <3>4. CASE r.pc # "none"
      <4>1. HostInv' /\ LeavesInv(n)'
        BY <1>2, <3>2, <3>3 DEF HostInv, LeavesInv
      <4>. QED BY <1>0, <1>4, <3>1, <3>2, <3>3, <3>4, <4>1, OwnerInvWorker
    <3>5. CASE r.pc = "none"
      <4>1. /\ DOMAIN worker' = Slots /\ worker'[s] = n
            /\ \A t \in Slots : t # s => worker'[t] = worker[t]
        BY <3>1, BecomesIs DEF OwnerInv
      <4>2. \A t \in Slots : worker'[t].pc = worker[t].pc
        BY <1>0, <3>2, <4>1
      <4>3. Shape' /\ Alone' /\ GoneInv'
        BY <3>2, <3>3, <4>1, <4>2 DEF OwnerInv, Shape, Alone, GoneInv
      <4>4. ManagedInv'
        BY <1>0, <3>2, <3>3, <4>1, <4>2 DEF OwnerInv, ManagedInv
      <4>5. HostInv' /\ \A t \in Slots : LeavesInv(worker[t])'
        BY <3>3, <4>2 DEF OwnerInv, HostInv, LeavesInv
      <4>. QED BY <4>3, <4>4, <4>5 DEF OwnerInv
    <3>. QED BY <3>4, <3>5
  <2>2. CASE StartVm(s)
    <3>0. PICK g : g = [r EXCEPT !.pc = "loop"]
      OBVIOUS
    <3>1. r.pc = "start"
      BY <1>0, <2>2 DEF StartVm, At
    <3>2. PICK n : /\ worker' = [worker EXCEPT ![s] = n]
                   /\ \/ n = [g EXCEPT !.state = "starting"]
                      \/ n = [g EXCEPT !.state = "starting", !.out = <<"Starting">>]
                      \/ n = [g EXCEPT !.out = <<"FailedToStart">>]
      BY <1>0, <2>2, <3>0, Zenon DEF StartVm, Becomes
    <3>3. IsWorker(n) /\ n.pc = "loop" /\ n.cmds = r.cmds
      <4>1. "Starting" \in Kinds /\ "FailedToStart" \in Kinds
        BY DEF Kinds
      <4>2. IsWorker(g) /\ g.pc = "loop" /\ g.cmds = r.cmds
        BY <1>2, <3>0, GoesOn
      <4>. QED BY <1>5, <3>2, <4>1, <4>2 DEF IsWorker, WorkerFields
    <3>4. UNCHANGED <<managed, iso, disk, env, serving, leaked>>
      BY <2>2 DEF StartVm, Rest
    <3>5. HostInv' /\ LeavesInv(n)'
      <4>1. UNCHANGED <<vm, socket>> \/ (vm' = "on" /\ socket')
        <5>1. Qemu(TRUE) => vm' = "on" /\ socket'
          BY Zenon DEF Qemu
        <5>2. QemuUnchanged => UNCHANGED <<vm, socket>>
          BY DEF QemuUnchanged
        <5>. QED BY <2>2, <5>1, <5>2 DEF StartVm
      <4>. QED BY <1>2, <3>3, <3>4, <4>1 DEF HostInv, LeavesInv
    <3>. QED BY <1>0, <1>4, <3>1, <3>2, <3>3, <3>4, <3>5, OwnerInvWorker DEF Exiting
  <2>3. CASE TakeCommand(s)
    <3>. DEFINE del == Head(r.cmds) = "Delete"
    <3>0. PICK n : n = [r EXCEPT !.cmds = Tail(@),
                                 !.pc = IF del THEN "quit" ELSE "restart",
                                 !.out = IF del THEN << >> ELSE <<"ForcedRestart">>]
      OBVIOUS
    <3>1. r.pc = "loop" /\ r.cmds # << >> /\ worker' = [worker EXCEPT ![s] = n]
      BY <1>0, <2>3, <3>0 DEF TakeCommand, At, Becomes
    <3>2. UNCHANGED <<managed, iso, disk, env, serving, socket, leaked, vm>>
      BY <2>3 DEF TakeCommand, Rest
    <3>3. /\ IsWorker(n) /\ n.pc = (IF del THEN "quit" ELSE "restart")
          /\ n.cmds = Tail(r.cmds)
      <4>1. <<"ForcedRestart">> \in Seq(Kinds) /\ << >> \in Seq(Kinds)
        BY <1>5 DEF Kinds
      <4>. HIDE DEF del
      <4>. QED BY <1>2, <3>0, <4>1 DEF IsWorker, WorkerFields
    <3>4. managed # None => ~del /\ Tail(r.cmds) \in Seq({"Restart"}) /\ iso # 0 /\ disk
      BY <1>4, <3>1
    <3>. HIDE DEF del
    <3>5. HostInv' /\ LeavesInv(n)'
      BY <1>2, <3>2, <3>3 DEF HostInv, LeavesInv
    <3>. QED BY <1>0, <3>1, <3>2, <3>3, <3>4, <3>5, OwnerInvWorker DEF Exiting
  <2>4. CASE RestartVm(s)
    <3>1. r.pc = "restart"
      BY <1>0, <2>4 DEF RestartVm, At
    <3>2. PICK p \in {"start", "loop"} : worker' = [worker EXCEPT ![s] = [r EXCEPT !.pc = p]]
      BY <1>0, <2>4 DEF RestartVm, Becomes
    <3>0. PICK n : n = [r EXCEPT !.pc = p]
      OBVIOUS
    <3>3. IsWorker(n) /\ n.pc = p /\ n.cmds = r.cmds
      BY <1>2, <3>0, GoesOn
    <3>4. UNCHANGED <<managed, iso, disk, env, serving>>
      BY <2>4 DEF RestartVm
    <3>5. HostInv' /\ LeavesInv(n)'
      BY <1>2, <2>4, <3>3, <3>4
         DEF RestartVm, HostInv, LeavesInv, Quit, QuitFails, Qemu, QemuUnchanged, IsRunning
    <3>6. worker' = [worker EXCEPT ![s] = n]
      BY <3>0, <3>2
    <3>. QED BY <1>0, <1>4, <3>1, <3>3, <3>4, <3>5, <3>6, OwnerInvWorker DEF Exiting
  <2>5. CASE QuitVm(s)
    <3>0. PICK n : n = [r EXCEPT !.pc = "erase"]
      OBVIOUS
    <3>1. r.pc = "quit" /\ worker' = [worker EXCEPT ![s] = n]
      BY <1>0, <2>5, <3>0 DEF QuitVm, At, Becomes
    <3>2. IsWorker(n) /\ n.pc = "erase"
      BY <1>2, <3>0, GoesOn
    <3>3. UNCHANGED <<managed, iso, disk, env, serving>> /\ managed = None
      BY <1>4, <2>5, <3>1 DEF QuitVm, Exiting
    <3>4. HostInv'
      BY <1>2, <2>5, <3>3
         DEF QuitVm, HostInv, Quit, QuitFails, Qemu, QemuUnchanged, IsRunning
    <3>5. leaked' = {} => vm' = "off"
      BY <1>2, <2>5
         DEF QuitVm, HostInv, Quit, QuitFails, Qemu, QemuUnchanged, IsRunning
    <3>6. LeavesInv(n)'
      BY <3>2, <3>5 DEF LeavesInv
    <3>. QED BY <1>0, <3>1, <3>2, <3>3, <3>4, <3>6, OwnerInvWorker
  <2>6. CASE EraseFiles(s)
    <3>0. PICK n : n = [r EXCEPT !.pc = "unlink", !.out = <<"Stopped">>]
      OBVIOUS
    <3>1. r.pc = "erase" /\ worker' = [worker EXCEPT ![s] = n]
      BY <1>0, <2>6, <3>0 DEF EraseFiles, At, Becomes
    <3>2. IsWorker(n) /\ n.pc = "unlink"
      <4>1. <<"Stopped">> \in Seq(Kinds)
        BY <1>5 DEF Kinds
      <4>. QED BY <1>2, <3>0, <4>1 DEF IsWorker, WorkerFields
    <3>3. /\ UNCHANGED <<managed, env, serving, socket, leaked, vm>> /\ managed = None
          /\ iso' = 0 /\ disk' = FALSE
      BY <1>4, <2>6, <3>1 DEF EraseFiles, Rest, Exiting
    <3>4. HostInv' /\ LeavesInv(n)'
      BY <1>2, <3>1, <3>2, <3>3 DEF HostInv, LeavesInv
    <3>. QED BY <1>0, <3>1, <3>2, <3>3, <3>4, OwnerInvWorker
  <2>7. CASE Unlink(s)
    <3>1. r.pc = "unlink" /\ worker' = [worker EXCEPT ![s] = NoWorker]
      BY <1>0, <2>7 DEF Unlink, At, Becomes
    <3>2. /\ UNCHANGED <<managed, iso, disk, env, serving, leaked, vm>> /\ managed = None
          /\ socket' = FALSE
      BY <1>4, <2>7, <3>1 DEF Unlink, Rest, Exiting
    <3>3. leaked = {} => vm = "off" /\ iso = 0 /\ ~disk
      BY <1>2, <3>1 DEF LeavesInv
    <3>4. HostInv' /\ LeavesInv(NoWorker)'
      BY <1>2, <3>2, <3>3, NoWorkerShape DEF HostInv, LeavesInv
    <3>. QED BY <1>0, <3>1, <3>2, <3>3, <3>4, NoWorkerShape, OwnerInvWorker
  <2>8. CASE TickGone(s) \/ TickHealth(s) \/ TickBootstrap(s)
    <3>1. r.pc \in {"loop", "bootstrap"}
      BY <1>0, <2>8 DEF TickGone, TickHealth, TickBootstrap, At
    <3>2. UNCHANGED <<managed, iso, disk, env, serving, socket, leaked, vm>>
      BY <2>8 DEF TickGone, TickHealth, TickBootstrap, Rest
    <3>3. PICK n : worker' = [worker EXCEPT ![s] = n]
                   /\ \/ n = [r EXCEPT !.pc = "start", !.out = <<"VmRestarted">>]
                      \/ n = HealthReport(r, Health) /\ r.pc = "loop"
                      \/ n = [r EXCEPT !.pc = "bootstrap"]
                      \/ n = [r EXCEPT !.pc = "loop"]
                      \/ n = [[r EXCEPT !.pc = "loop"] EXCEPT !.out = <<"AwaitingCert">>]
      BY <1>0, <2>8, Zenon DEF TickGone, TickHealth, TickBootstrap, Becomes, At
    <3>4. IsWorker(n) /\ n.pc \in {"start", "loop", "bootstrap"} /\ n.cmds = r.cmds
      <4>1. "VmRestarted" \in Kinds /\ "AwaitingCert" \in Kinds
        BY DEF Kinds
      <4>2. CASE n = [r EXCEPT !.pc = "start", !.out = <<"VmRestarted">>]
        <5>1. <<"VmRestarted">> \in Seq(Kinds)
          BY <1>5, <4>1
        <5>. QED BY <1>2, <4>2, <5>1 DEF IsWorker, WorkerFields
      <4>3. CASE n = HealthReport(r, Health) /\ r.pc = "loop"
        BY <1>2, <4>3, HealthReportShape
      <4>4. CASE n = [r EXCEPT !.pc = "bootstrap"] \/ n = [r EXCEPT !.pc = "loop"]
        BY <1>2, <4>4 DEF IsWorker, WorkerFields
      <4>5. CASE n = [[r EXCEPT !.pc = "loop"] EXCEPT !.out = <<"AwaitingCert">>]
        BY <1>2, <1>5, <4>1, <4>5 DEF IsWorker, WorkerFields
      <4>. QED BY <3>3, <4>2, <4>3, <4>4, <4>5
    <3>5. HostInv' /\ LeavesInv(n)'
      BY <1>2, <3>2, <3>4 DEF HostInv, LeavesInv
    <3>. QED BY <1>0, <1>4, <3>1, <3>2, <3>3, <3>4, <3>5, OwnerInvWorker DEF Exiting
  <2>. QED BY <2>1, <2>2, <2>3, <2>4, <2>5, <2>6, <2>7, <2>8 DEF WorkerStep


(* create_vm: the first worker, with its files.                            *)
LEMMA OwnerInvSpawn ==
    ASSUME Overlap = FALSE, OwnerInv, Spawn, UNCHANGED <<vm, socket, env, leaked>>,
           ~serving' => leaked # {}
    PROVE  OwnerInv'
<1>1. PICK s \in Slots : /\ worker' = [worker EXCEPT ![s] = NewWorker]
                         /\ managed' = s
                         /\ \A t \in Slots : worker[t].pc = "none"
  BY DEF Spawn
<1>2. /\ DOMAIN worker' = Slots /\ worker'[s] = NewWorker
      /\ \A t \in Slots : t # s => worker'[t] = worker[t]
  BY <1>1, BecomesIs DEF OwnerInv
<1>3. iso' # 0 /\ disk'
  BY DEF Spawn, CreateFiles, ApplicationIso, OwnerInv, HostInv
<1>4. Shape' /\ Alone'
  BY <1>1, <1>2, NoWorkerShape DEF OwnerInv, Shape, Alone
<1>5. ManagedInv'
  <2>1. << >> \in Seq({"Restart"})
    OBVIOUS
  <2>. QED BY <1>1, <1>2, <1>3, <2>1, NoWorkerShape DEF ManagedInv, Exiting
<1>6. HostInv'
  BY DEF OwnerInv, HostInv
<1>7. \A t \in Slots : LeavesInv(worker[t])'
  BY <1>1, <1>2, NoWorkerShape DEF LeavesInv
<1>8. GoneInv'
  BY <1>2, NoWorkerShape DEF GoneInv
<1>. QED BY <1>4, <1>5, <1>6, <1>7, <1>8 DEF OwnerInv

(* A command for the managed worker: Delete only as it is dismissed.       *)
LEMMA OwnerInvCommand ==
    ASSUME OwnerInv, managed # None, NEW c \in {"Restart", "Delete"}, Command(c),
           managed' = IF c = "Delete" THEN None ELSE managed,
           UNCHANGED <<vm, socket, iso, disk, leaked, serving>>,
           env' \in Nat \ {0}
    PROVE  OwnerInv'
<1>1. PICK s : s = managed
  OBVIOUS
<1>2. PICK r : r = worker[s]
  OBVIOUS
<1>3. PICK n : n = [r EXCEPT !.cmds = Append(@, c)]
  OBVIOUS
<1>4. /\ s \in Slots /\ IsWorker(r) /\ r.pc \notin Exiting \cup {"none"}
      /\ r.cmds \in Seq({"Restart"}) /\ iso # 0 /\ disk
  BY <1>1, <1>2 DEF OwnerInv, ManagedInv, Shape
<1>5. worker' = [worker EXCEPT ![s] = n]
  BY <1>1, <1>2, <1>3 DEF Command
<1>6. IsWorker(n) /\ n.pc = r.pc /\ n.cmds = Append(r.cmds, c)
  BY <1>3, <1>4 DEF IsWorker, WorkerFields
<1>7. HostInv' /\ LeavesInv(n)'
  BY <1>4, <1>6 DEF OwnerInv, HostInv, LeavesInv, Exiting
<1>8. c = "Restart" => n.cmds \in Seq({"Restart"})
  BY <1>4, <1>6
<1>. QED BY <1>2, <1>4, <1>5, <1>6, <1>7, <1>8, OwnerInvWorker

LEMMA OwnerInvStep ==
    ASSUME Overlap = FALSE, OwnerInv, [Next]_vars
    PROVE  OwnerInv'
<1>1. CASE UNCHANGED vars
  BY <1>1, OwnerInvOther DEF vars, wvars
<1>2. CASE Create \/ Start
  BY <1>2, OwnerInvSpawn DEF Create, Start, OwnerInv, HostInv
<1>3. CASE Stop \/ Delete
  BY <1>3, OwnerInvCommand DEF Stop, Delete, Dismiss, OwnerInv, HostInv
<1>4. CASE Restart
  <2>1. env' \in Nat \ {0}
    BY <1>4 DEF Restart, OwnerInv, HostInv
  <2>. QED BY <1>4, <2>1, OwnerInvCommand DEF Restart
<1>5. CASE Stored \/ Created \/ Deleted
  BY <1>5, OwnerInvOther DEF Stored, Created, Deleted, wvars
<1>6. CASE BootAgent
  <2>1. leaked # {}
    BY <1>6 DEF BootAgent, OwnerInv, HostInv
  <2>2. CASE Spawn
    BY <1>6, <2>1, <2>2, OwnerInvSpawn DEF BootAgent
  <2>3. CASE UNCHANGED <<managed, worker, iso, disk>>
    BY <1>6, <2>1, <2>3
       DEF BootAgent, OwnerInv, Shape, Alone, ManagedInv, HostInv, LeavesInv, GoneInv
  <2>. QED BY <1>6, <2>2, <2>3 DEF BootAgent
<1>7. CASE EventWorkerStep \/ PullImages \/ Guest(Launch) \/ Guest(CaddyCheck)
           \/ Guest(\E k \in Lines : CaddyWrites(k))
  BY <1>7, OwnerInvOther DEF EventWorkerStep, PullImages, Guest, wvars
<1>8. CASE GuestFails \/ ReportError
  BY <1>8, OwnerInvOther DEF GuestFails, ReportError
<1>9. CASE CvmDies
  <2>1. vm' = "off"
    BY <1>9, Zenon DEF CvmDies, Qemu
  <2>. QED BY <1>9, <2>1, OwnerInvOther DEF CvmDies, Rest
<1>10. CASE Crash
  <2>1. /\ worker' = [s \in Slots |-> NoWorker] /\ managed' = None
        /\ leaked' # {} /\ UNCHANGED <<vm, socket, env, iso, disk>>
    BY <1>10 DEF Crash
  <2>2. Shape' /\ \A s \in Slots : worker'[s].pc = "none"
    BY <2>1, NoWorkerShape DEF Shape
  <2>. QED BY <2>1, <2>2
           DEF OwnerInv, Alone, ManagedInv, HostInv, LeavesInv, GoneInv
<1>. QED BY <1>1, <1>2, <1>3, <1>4, <1>5, <1>6, <1>7, <1>8, <1>9, <1>10, OwnerInvSteps
     DEF Next, Clients, Service

(* A managed worker always finds its ISO and its state disk, and when no   *)
(* worker is left no qemu process runs and no disk stays behind: through   *)
(* restarts, guests that die, failed calls and the end of the agent (which *)
(* the second part excepts, as it does a quit that failed), for any number *)
(* of operations and faults. Workers are spawned one after the other; one  *)
(* that is spawned while another erases the files would lose them.         *)
THEOREM CvmAndFilesOwned ==
    ASSUME Overlap = FALSE
    PROVE  Spec => []VmOwned
<1>1. Init => OwnerInv
  BY InitOwnerInv
<1>2. OwnerInv /\ [Next]_vars => OwnerInv'
  BY OwnerInvStep
<1>3. OwnerInv => VmOwned
  BY OwnerInvImplies
<1>. QED BY <1>1, <1>2, <1>3, PTL DEF Spec


-----------------------------------------------------------------------------
(* The VM worker is a producer of the event worker, so the order of events *)
(* holds in the composed system as well, also with workers that overlap.   *)

LEMMA InitShape == Init => Shape
  BY NoWorkerShape DEF Init, Shape

(* A task whose record keeps its shape.                                    *)
LEMMA ShapeKept ==
    ASSUME Shape, NEW s \in Slots, NEW n, IsWorker(n),
           worker' = [worker EXCEPT ![s] = n]
    PROVE  Shape'
  BY BecomesIs DEF Shape

LEMMA ShapeWorkerStep ==
    ASSUME Shape, NEW s \in Slots, WorkerStep(s)
    PROVE  Shape'
<1>1. PICK r : r = worker[s]
  OBVIOUS
<1>2. IsWorker(r)
  BY <1>1 DEF Shape
<1>3. \A k \in Kinds : <<k>> \in Seq(Kinds)
  BY OneEvent
<1>4. << >> \in Seq(Kinds)
  OBVIOUS
<1>5. ASSUME NEW n, worker' = [worker EXCEPT ![s] = n],
             DOMAIN n = DOMAIN r,
             n.out = r.out \/ n.out = << >> \/ \E k \in Kinds : n.out = <<k>>
      PROVE  Shape'
  BY <1>2, <1>3, <1>4, <1>5, ShapeKept DEF IsWorker
<1>6. CASE Submits(s)
  <2>1. PICK n : n = [r EXCEPT !.out = Tail(@)]
    OBVIOUS
  <2>2. worker' = [worker EXCEPT ![s] = n] /\ r.out # << >>
    BY <1>1, <1>6, <2>1 DEF Submits, Becomes
  <2>3. Tail(r.out) \in Seq(Kinds)
    BY <1>2, <2>2 DEF IsWorker
  <2>4. IsWorker(n)
    BY <1>2, <2>1, <2>3 DEF IsWorker, WorkerFields
  <2>. QED BY <2>2, <2>4, ShapeKept
<1>7. CASE TickHealth(s)
  <2>1. PICK n : /\ worker' = [worker EXCEPT ![s] = n]
                 /\ n = HealthReport(r, Health) \/ n = [r EXCEPT !.pc = "bootstrap"]
    BY <1>1, <1>7, Zenon DEF TickHealth, Becomes
  <2>. QED BY <1>2, <2>1, HealthReportShape, GoesOn, ShapeKept
<1>8. CASE StartVm(s) \/ TickBootstrap(s)
  <2>1. PICK g : g = [r EXCEPT !.pc = "loop"]
    OBVIOUS
  <2>2. DOMAIN g = WorkerFields /\ DOMAIN r = WorkerFields /\ g.out = r.out
    BY <1>2, <2>1 DEF IsWorker, WorkerFields
  <2>3. PICK n : /\ worker' = [worker EXCEPT ![s] = n]
                 /\ \/ n = g
                    \/ n = [g EXCEPT !.state = "starting"]
                    \/ n = [g EXCEPT !.state = "starting", !.out = <<"Starting">>]
                    \/ n = [g EXCEPT !.out = <<"FailedToStart">>]
                    \/ n = [g EXCEPT !.out = <<"AwaitingCert">>]
    BY <1>1, <1>8, <2>1, Zenon DEF StartVm, TickBootstrap, Becomes
  <2>4. DOMAIN n = DOMAIN r
    BY <2>2, <2>3 DEF WorkerFields
  <2>5. n.out \in {r.out, <<"Starting">>, <<"FailedToStart">>, <<"AwaitingCert">>}
    BY <2>2, <2>3 DEF WorkerFields
  <2>. QED BY <1>5, <2>3, <2>4, <2>5 DEF Kinds
<1>9. CASE RestartVm(s) \/ QuitVm(s)
  <2>1. PICK p \in {"start", "loop", "erase"} :
          worker' = [worker EXCEPT ![s] = [r EXCEPT !.pc = p]]
    BY <1>1, <1>9 DEF RestartVm, QuitVm, Becomes
  <2>. QED BY <1>2, <2>1, GoesOn, ShapeKept
<1>10. CASE TakeCommand(s) \/ EraseFiles(s) \/ TickGone(s)
  <2>1. PICK n : /\ worker' = [worker EXCEPT ![s] = n]
                 /\ \E p, o : /\ o \in {<< >>, <<"ForcedRestart">>, <<"Stopped">>, <<"VmRestarted">>}
                              /\ \/ n = [r EXCEPT !.cmds = Tail(@), !.pc = p, !.out = o]
                                 \/ n = [r EXCEPT !.pc = p, !.out = o]
    <3>1. CASE TakeCommand(s)
      <4>. DEFINE del == Head(r.cmds) = "Delete"
      <4>1. worker' = [worker EXCEPT ![s] =
                          [r EXCEPT !.cmds = Tail(@),
                                    !.pc = IF del THEN "quit" ELSE "restart",
                                    !.out = IF del THEN << >> ELSE <<"ForcedRestart">>]]
        BY <1>1, <3>1 DEF TakeCommand, Becomes
      <4>2. (IF del THEN << >> ELSE <<"ForcedRestart">>) \in
               {<< >>, <<"ForcedRestart">>, <<"Stopped">>, <<"VmRestarted">>}
        OBVIOUS
      <4>. QED BY <4>1, <4>2, Zenon
    <3>2. CASE EraseFiles(s) \/ TickGone(s)
      BY <1>1, <3>2, Zenon DEF EraseFiles, TickGone, Becomes
    <3>. QED BY <1>10, <3>1, <3>2
  <2>2. PICK p, o : /\ o \in {<< >>, <<"ForcedRestart">>, <<"Stopped">>, <<"VmRestarted">>}
                    /\ \/ n = [r EXCEPT !.cmds = Tail(@), !.pc = p, !.out = o]
                       \/ n = [r EXCEPT !.pc = p, !.out = o]
    BY <2>1
  <2>3. DOMAIN n = DOMAIN r /\ n.out = o
    BY <1>2, <2>2 DEF IsWorker, WorkerFields
  <2>. QED BY <1>5, <2>1, <2>2, <2>3 DEF Kinds
<1>11. CASE Unlink(s)
  BY <1>11, ShapeKept, NoWorkerShape DEF Unlink, Becomes
<1>. QED BY <1>6, <1>7, <1>8, <1>9, <1>10, <1>11 DEF WorkerStep

LEMMA ShapeStep ==
    ASSUME Shape, [Next]_vars, managed = None \/ managed \in Slots
    PROVE  Shape' /\ (managed' = None \/ managed' \in Slots)
<1>1. CASE UNCHANGED <<worker, managed>>
  BY <1>1 DEF Shape
<1>2. ASSUME NEW s \in Slots, WorkerStep(s)
      PROVE  Shape' /\ UNCHANGED managed
  BY <1>2, ShapeWorkerStep DEF WorkerStep, Submits, StartVm, TakeCommand, RestartVm,
     QuitVm, EraseFiles, Unlink, TickGone, TickHealth, TickBootstrap, Rest
<1>3. ASSUME Spawn
      PROVE  Shape' /\ managed' \in Slots
  BY <1>3, NoWorkerShape, ShapeKept DEF Spawn
<1>4. ASSUME NEW c, Command(c), managed # None
      PROVE  Shape'
  <2>1. PICK s, r, n : s = managed /\ r = worker[s] /\ n = [r EXCEPT !.cmds = Append(@, c)]
    OBVIOUS
  <2>2. worker' = [worker EXCEPT ![s] = n] /\ s \in Slots /\ IsWorker(r)
    BY <1>4, <2>1 DEF Command, Shape
  <2>3. IsWorker(n)
    BY <2>1, <2>2 DEF IsWorker, WorkerFields
  <2>. QED BY <2>2, <2>3, ShapeKept
<1>5. CASE Crash
  BY <1>5, NoWorkerShape DEF Crash, Shape
<1>6. CASE Clients
  BY <1>3, <1>4, <1>6 DEF Clients, Create, Stop, Start, Restart, Delete, Dismiss
<1>7. CASE Service
  BY <1>1, <1>3, <1>7 DEF Service, Stored, Created, Deleted, BootAgent, wvars
<1>8. CASE \/ EventWorkerStep \/ PullImages \/ Guest(Launch) \/ Guest(CaddyCheck)
           \/ Guest(\E k \in Lines : CaddyWrites(k))
           \/ GuestFails \/ CvmDies \/ ReportError \/ UNCHANGED vars
  BY <1>1, <1>8 DEF EventWorkerStep, PullImages, Guest, GuestFails, CvmDies,
     ReportError, Rest, vars, wvars
<1>. QED BY <1>2, <1>5, <1>6, <1>7, <1>8 DEF Next

(* Every step of the system is one of the event worker with its producers, *)
(* or does not concern it.                                                 *)
LEMMA ProducerStep ==
    ASSUME Shape, [Next]_vars
    PROVE  [EventNext]_evars
<1>0. W \in Workloads
  BY WorkerAssumption
<1>1. ASSUME NEW s \in Slots, Submits(s)
      PROVE  EventNext
  <2>1. Head(worker[s].out) \in Kinds
    BY <1>1 DEF Submits, Shape, IsWorker
  <2>. QED BY <1>0, <1>1, <2>1 DEF Submits, EventNext
<1>2. ASSUME NEW s \in Slots, WorkerStep(s), ~Submits(s)
      PROVE  UNCHANGED evars
  BY <1>2 DEF WorkerStep, StartVm, TakeCommand, RestartVm,
     QuitVm, EraseFiles, Unlink, TickGone, TickHealth, TickBootstrap
<1>3. CASE Stored \/ Created \/ Delete \/ Deleted
  BY <1>0, <1>3 DEF Stored, Created, Delete, Deleted, EventNext
<1>4. CASE EventWorkerStep \/ ReportError \/ Crash
  BY <1>4 DEF EventWorkerStep, ReportError, Crash, EventNext
<1>5. CASE Create \/ Stop \/ Start \/ Restart \/ BootAgent
  BY <1>5 DEF Create, Stop, Start, Restart, BootAgent
<1>6. CASE \/ PullImages \/ Guest(Launch) \/ Guest(CaddyCheck)
           \/ Guest(\E k \in Lines : CaddyWrites(k))
           \/ GuestFails \/ CvmDies \/ UNCHANGED vars
  BY <1>6 DEF PullImages, Guest, GuestFails, CvmDies, vars
<1>. QED BY <1>1, <1>2, <1>3, <1>4, <1>5, <1>6 DEF Next, Clients, Service

(* In the composed system too, events of the VM workers reach nilcc-api in *)
(* the order they were emitted: workers that are spawned and dismissed,    *)
(* create, delete, crashes of the agent and failed calls included.         *)
THEOREM LifecycleInOrder == Spec => StatusInOrder
<1>. DEFINE Inv == Shape /\ (managed = None \/ managed \in Slots)
<1>1. Init => Inv
  BY InitShape DEF Init
<1>2. Inv /\ [Next]_vars => Inv'
  BY ShapeStep
<1>3. Inv /\ [Next]_vars => [EventNext]_evars
  BY ProducerStep
<1>4. Init => \E S \in SUBSET Workloads : EventInit(S)
  BY WorkerAssumption DEF Init
<1>. HIDE DEF Inv
<1>5. Spec => EventSpec
  BY <1>1, <1>2, <1>3, <1>4, PTL DEF Spec, EventSpec
<1>. QED BY <1>5, EventsInOrder

=============================================================================
