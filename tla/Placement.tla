----------------------------- MODULE Placement -----------------------------
(***************************************************************************)
(* The workloads of nilcc-api: their creation on a metal instance, their   *)
(* removal, and the heartbeats of the instances, which charge the accounts *)
(* and remove the workloads of those that have nothing left.               *)
(*                                                                         *)
(* A request runs in one database transaction, at READ COMMITTED, that its *)
(* middleware commits after the handler: what it wrote is visible, and the *)
(* calls it made to the agent and to the DNS are not undone, when it rolls *)
(* back. The agent creates and deletes a workload in one step and refuses  *)
(* what does not fit; its own steps are in WorkloadService. Workloads and  *)
(* instances are numbered in the order of their names. An agent sends one  *)
(* heartbeat at a time.                                                    *)
(***************************************************************************)
EXTENDS Money, FiniteSetsExt

CONSTANTS
    Workloads, Instances, Accounts, Reqs,
    OwnDomain,       \* workloads with a domain of their own: no CNAME for them
    Stoppable,       \* workloads whose agent stops and starts them
    Owner(_),        \* the account of a workload
    Demand(_),       \* what a workload takes of an instance
    Capacity(_),     \* total less reserved resources of an instance
    Cost(_),         \* usdCostPerMin of a workload
    Credit,          \* the balance of every account at first
    MinDuration,     \* MINIMUM_EXECUTION_DURATION
    Hour,            \* minutes after which getMinutes() repeats
    MaxFaults        \* bound on failing calls and crashes

ASSUME PlacementAssumption ==
    /\ Workloads \subseteq Nat /\ Instances \subseteq Nat
    /\ \A w \in Workloads : Owner(w) \in Accounts /\ Demand(w) \in Nat /\ Cost(w) \in Nat
    /\ \A i \in Instances : Capacity(i) \in Nat
    /\ Credit \in Nat /\ MinDuration \in Nat /\ Hour \in Nat \ {0} /\ MaxFaults \in Nat

VARIABLES
    instances,    \* registered metal instances
    rows,         \* rows[w]: the instance of a committed workload
    used,         \* workloads whose identifier was given
    created,      \* history: workloads whose creation was committed
    stopped,      \* workloads whose status is "stopped"
    vms,          \* vms[i]: workloads of the agent of an instance
    cname,        \* workloads that have a CNAME record
    balance,      \* balance[a]
    req,          \* requests to create and to remove a workload
    hb,           \* the heartbeat of each instance
    reaper,       \* the removals that heartbeats started
    reaped,       \* history: workloads that a heartbeat removed
    minute,       \* the clock, modulo Hour
    lastSeen,     \* the minute of lastSeenAt
    billed,       \* history: charges of an instance in this minute
    faults, disturbed

vars == <<instances, rows, used, created, stopped, vms, cname, balance, req, hb,
          reaper, reaped, minute, lastSeen, billed, faults, disturbed>>

NoRow == -1
NoReq == [op |-> "none", w |-> NoRow, i |-> NoRow, balance |-> 0]
NoHb == [pc |-> "none", now |-> 0, charge |-> FALSE, late |-> FALSE,
         seen |-> {}, left |-> [a \in Accounts |-> 0], gone |-> {}]
Init ==
    /\ instances = {}
    /\ rows = [w \in Workloads |-> NoRow]
    /\ used = {} /\ created = {} /\ stopped = {}
    /\ vms = [i \in Instances |-> {}]
    /\ cname = {}
    /\ balance = [a \in Accounts |-> Credit]
    /\ req = [r \in Reqs |-> NoReq]
    /\ hb = [i \in Instances |-> NoHb]
    /\ reaper = [w \in Workloads |-> "none"]
    /\ reaped = {}
    /\ minute = 0 /\ lastSeen = [i \in Instances |-> 0]
    /\ billed = [i \in Instances |-> 0]
    /\ faults = 0 /\ disturbed = FALSE

clockVars == <<minute, lastSeen, billed>>
faultVars == <<faults, disturbed>>

Fault == faults < MaxFaults /\ faults' = faults + 1 /\ disturbed' = TRUE

To(r, step) == req' = [req EXCEPT ![r].op = step]
EndReq(r) == req' = [req EXCEPT ![r] = NoReq]

(* Rows that a transaction wrote and did not commit: others wait for it.   *)
RowLocked(w) ==
    \/ \E r \in Reqs : req[r].w = w /\ req[r].op \in {"unname", "delete", "end"}
    \/ \E i \in Instances : w \in hb[i].gone

AccountLocked(a) == \E i \in Instances :
    hb[i].pc \in {"erase", "commit"} /\ hb[i].charge /\ \E w \in hb[i].seen : Owner(w) = a

Running(a) == {w \in Workloads : rows[w] # NoRow /\ w \notin stopped /\ Owner(w) = a}
CostOf(S) == MapThenSumSet(Cost, S)
Placed(i) == {w \in Workloads : rows[w] = i}
DemandOf(S) == MapThenSumSet(Demand, S)

-----------------------------------------------------------------------------
(* Metal instances.                                                        *)

Register(i) ==
    /\ instances' = instances \cup {i}
    /\ lastSeen' = [lastSeen EXCEPT ![i] = minute]
    /\ hb[i] = NoHb
    /\ UNCHANGED <<rows, used, created, stopped, vms, cname, balance, req, hb, reaper,
                   reaped, minute, billed, faultVars>>

(* remove of an instance: refused if it has workloads, and by the database *)
(* if one was placed there since: its row keeps the row of the instance.   *)
RemoveInstance(i) ==
    /\ i \in instances /\ Placed(i) = {}
    /\ \A r \in Reqs : ~ (req[r].i = i /\ req[r].op \in {"agent", "dns", "commit"})
    /\ instances' = instances \ {i}
    /\ UNCHANGED <<rows, used, created, stopped, vms, cname, balance, req, hb, reaper,
                   reaped, clockVars, faultVars>>

-----------------------------------------------------------------------------
(* Creation.                                                               *)

(* The authentication reads the account.                                   *)
CreateBegin(r, w) ==
    /\ req[r] = NoReq /\ w \notin used
    /\ used' = used \cup {w}
    /\ req' = [req EXCEPT ![r] = [op |-> "place", w |-> w, i |-> NoRow,
                                  balance |-> balance[Owner(w)]]]
    /\ UNCHANGED <<instances, rows, created, stopped, vms, cname, balance, hb, reaper,
                   reaped, clockVars, faultVars>>

Affordable(r) == LET w == req[r].w IN
    (CostOf(Running(Owner(w))) + Cost(w)) * MinDuration + MinimumSpendable
        <= req[r].balance

(* findWithFreeResources.                                                  *)
WithFreeResources(w) ==
    {i \in instances : Capacity(i) - DemandOf(Placed(i)) > Demand(w)}

(* The checks, the choice of an instance and the row of the workload.      *)
CreatePlace(r) ==
    /\ req[r].op = "place"
    /\ LET free == WithFreeResources(req[r].w) IN
        IF Affordable(r) /\ free # {}
        THEN req' = [req EXCEPT ![r].op = "agent", ![r].i = Min(free)]
        ELSE EndReq(r)
    /\ UNCHANGED <<instances, rows, used, created, stopped, vms, cname, balance, hb,
                   reaper, reaped, clockVars, faultVars>>

AfterAgent(w) == IF w \in OwnDomain THEN "commit" ELSE "dns"
AfterErase(w) == IF w \in OwnDomain THEN "delete" ELSE "unname"

Fits(i, w) == DemandOf(vms[i]) + Demand(w) <= Capacity(i)

(* Variant: the error of the agent is ignored.                             *)
CreateAgentIgnored(r) == LET w == req[r].w  i == req[r].i IN
    /\ req[r].op = "agent"
    /\ IF Fits(i, w)
       THEN vms' = [vms EXCEPT ![i] = @ \cup {w}] /\ To(r, AfterAgent(w))
       ELSE UNCHANGED vms /\ To(r, AfterAgent(w))
    /\ UNCHANGED <<instances, rows, used, created, stopped, cname, balance, hb,
                   reaper, reaped, clockVars, faultVars>>

CreateAgent(r) == LET w == req[r].w  i == req[r].i IN
    /\ req[r].op = "agent"
    /\ IF Fits(i, w)
       THEN vms' = [vms EXCEPT ![i] = @ \cup {w}] /\ To(r, AfterAgent(w))
       ELSE UNCHANGED vms /\ EndReq(r)
    /\ UNCHANGED <<instances, rows, used, created, stopped, cname, balance, hb,
                   reaper, reaped, clockVars, faultVars>>

CreateCname(r) ==
    /\ req[r].op = "dns"
    /\ cname' = cname \cup {req[r].w}
    /\ To(r, "commit")
    /\ UNCHANGED <<instances, rows, used, created, stopped, vms, balance, hb,
                   reaper, reaped, clockVars, faultVars>>

CreateCommit(r) ==
    /\ req[r].op = "commit"
    /\ rows' = [rows EXCEPT ![req[r].w] = req[r].i]
    /\ created' = created \cup {req[r].w}
    /\ EndReq(r)
    /\ UNCHANGED <<instances, used, stopped, vms, cname, balance, hb,
                   reaper, reaped, clockVars, faultVars>>

-----------------------------------------------------------------------------
(* Removal.                                                                *)

RemoveFind(r, w) ==
    /\ req[r] = NoReq /\ rows[w] # NoRow
    /\ req' = [req EXCEPT ![r] = [op |-> "erase", w |-> w, i |-> rows[w], balance |-> 0]]
    /\ UNCHANGED <<instances, rows, used, created, stopped, vms, cname, balance, hb,
                   reaper, reaped, clockVars, faultVars>>

(* The row is deleted in the transaction of the request; another deletion  *)
(* of it is waited for, and deletes nothing if that one commits.           *)
RemoveErase(r) ==
    /\ req[r].op = "erase" /\ ~RowLocked(req[r].w)
    /\ To(r, AfterErase(req[r].w))
    /\ UNCHANGED <<instances, rows, used, created, stopped, vms, cname, balance, hb,
                   reaper, reaped, clockVars, faultVars>>

(* findDomain: the first record at or after the name, whatever its name.   *)
FindDomain(w) ==
    LET after == {v \in cname : v >= w} IN IF after = {} THEN {} ELSE {Min(after)}

RemoveCname(r) ==
    /\ req[r].op = "unname"
    /\ cname' = cname \ FindDomain(req[r].w)
    /\ To(r, "delete")
    /\ UNCHANGED <<instances, rows, used, created, stopped, vms, balance, hb,
                   reaper, reaped, clockVars, faultVars>>

(* Variant: every error of the agent is taken for a workload it does not   *)
(* have.                                                                   *)
RemoveAgentIgnored(r) ==
    /\ req[r].op = "delete"
    /\ \/ UNCHANGED faultVars /\ vms' = [vms EXCEPT ![req[r].i] = @ \ {req[r].w}]
       \/ Fault /\ UNCHANGED vms
    /\ To(r, "end")
    /\ UNCHANGED <<instances, rows, used, created, stopped, cname, balance, hb,
                   reaper, reaped, clockVars>>

(* A workload that the agent does not have is a success.                   *)
RemoveAgent(r) ==
    /\ req[r].op = "delete"
    /\ vms' = [vms EXCEPT ![req[r].i] = @ \ {req[r].w}]
    /\ To(r, "end")
    /\ UNCHANGED <<instances, rows, used, created, stopped, cname, balance, hb,
                   reaper, reaped, clockVars, faultVars>>

RemoveCommit(r) ==
    /\ req[r].op = "end"
    /\ rows' = [rows EXCEPT ![req[r].w] = NoRow]
    /\ stopped' = stopped \ {req[r].w}
    /\ EndReq(r)
    /\ UNCHANGED <<instances, used, created, vms, cname, balance, hb,
                   reaper, reaped, clockVars, faultVars>>

-----------------------------------------------------------------------------
(* Heartbeats.                                                             *)

(* A heartbeat lasts less than a minute: the agent gives up after 30 s.    *)
Tick ==
    /\ \A i \in Instances : ~hb[i].late
    /\ minute' = (minute + 1) % Hour
    /\ billed' = [i \in Instances |-> 0]
    /\ hb' = [i \in Instances |-> [hb[i] EXCEPT !.late = hb[i] # NoHb]]
    /\ UNCHANGED <<instances, rows, used, created, stopped, vms, cname, balance, req,
                   reaper, reaped, lastSeen, faultVars>>

(* The instance and its workloads are read; the accounts are charged if    *)
(* the minute differs from that of the last heartbeat.                     *)
HbRead(i) ==
    /\ i \in instances /\ hb[i] = NoHb
    /\ LET charge == minute # lastSeen[i]
           seen == {w \in Placed(i) : w \notin stopped} IN
        hb' = [hb EXCEPT ![i] =
                 [NoHb EXCEPT !.pc = IF charge /\ seen # {} THEN "read" ELSE "commit",
                              !.now = minute, !.charge = charge,
                              !.seen = IF charge THEN seen ELSE {}]]
    /\ UNCHANGED <<instances, rows, used, created, stopped, vms, cname, balance, req,
                   reaper, reaped, clockVars, faultVars>>

SeenOf(i, a) == {w \in hb[i].seen : Owner(w) = a}

(* deductBalance of the workloads that the heartbeat saw.                  *)
Left(i) == [a \in Accounts |->
    IF SeenOf(i, a) = {} THEN balance[a] ELSE Deducted(balance[a], CostOf(SeenOf(i, a)))]

(* Variant: an account loses its workloads once it owes something.         *)
OffendersOwing(i, left) == {w \in hb[i].seen : left[Owner(w)] < 0}

Offenders(i, left) == {w \in hb[i].seen : IsBalanceDepleted(left[Owner(w)])}

(* The accounts are charged under their row locks. The removals of their   *)
(* workloads are started and not awaited: each looks up its row before the *)
(* next statement of the heartbeat.                                        *)
HbDeduct(i) ==
    /\ hb[i].pc = "read"
    /\ \A w \in hb[i].seen : ~AccountLocked(Owner(w))
    /\ \A w \in Offenders(i, Left(i)) : rows[w] # NoRow
    /\ hb' = [hb EXCEPT ![i].pc = "erase", ![i].left = Left(i)]
    /\ UNCHANGED <<instances, rows, used, created, stopped, vms, cname, balance,
                   req, reaper, reaped, clockVars, faultVars>>

(* The process ends: transactions are rolled back.                         *)
ProcessEnds ==
    /\ req' = [r \in Reqs |-> NoReq]
    /\ hb' = [i \in Instances |-> NoHb]
    /\ reaper' = [w \in Workloads |-> "none"]
    /\ disturbed' = TRUE

(* A removal that finds no row rejects a promise that nobody handles.      *)
HbRejected(i) ==
    /\ hb[i].pc = "read"
    /\ \A w \in hb[i].seen : ~AccountLocked(Owner(w))
    /\ \E w \in Offenders(i, Left(i)) : rows[w] = NoRow
    /\ ProcessEnds
    /\ UNCHANGED <<instances, rows, used, created, stopped, vms, cname, balance,
                   reaped, clockVars, faults>>

(* The removals delete their rows in the transaction of the heartbeat, and *)
(* go on by themselves.                                                    *)
HbErase(i) == LET offenders == Offenders(i, hb[i].left) IN
    /\ hb[i].pc = "erase"
    /\ \A w \in offenders : ~RowLocked(w)
    /\ hb' = [hb EXCEPT ![i].pc = "commit", ![i].gone = offenders]
    /\ reaper' = [w \in Workloads |-> IF w \in offenders THEN AfterErase(w) ELSE reaper[w]]
    /\ UNCHANGED <<instances, rows, used, created, stopped, vms, cname, balance,
                   req, reaped, clockVars, faultVars>>

(* Variant: lastSeenAt is only written when nothing was charged.           *)
HbCommitUnseen(i) ==
    /\ hb[i].pc = "commit"
    /\ instances' = instances \cup {i}
    /\ rows' = [w \in Workloads |-> IF w \in hb[i].gone THEN NoRow ELSE rows[w]]
    /\ stopped' = stopped \ hb[i].gone
    /\ balance' = [a \in Accounts |->
         IF hb[i].charge /\ SeenOf(i, a) # {} THEN hb[i].left[a] ELSE balance[a]]
    /\ reaped' = reaped \cup hb[i].gone
    /\ lastSeen' = [lastSeen EXCEPT ![i] = IF hb[i].charge THEN @ ELSE hb[i].now]
    /\ billed' = [billed EXCEPT ![i] = IF hb[i].charge /\ ~hb[i].late THEN @ + 1 ELSE @]
    /\ hb' = [hb EXCEPT ![i] = NoHb]
    /\ UNCHANGED <<used, created, vms, cname, req, reaper, minute, faultVars>>

(* The save of the instance, which inserts it if it was removed meanwhile, *)
(* and the commit.                                                         *)
HbCommit(i) ==
    /\ hb[i].pc = "commit"
    /\ instances' = instances \cup {i}
    /\ rows' = [w \in Workloads |-> IF w \in hb[i].gone THEN NoRow ELSE rows[w]]
    /\ stopped' = stopped \ hb[i].gone
    /\ balance' = [a \in Accounts |->
         IF hb[i].charge /\ SeenOf(i, a) # {} THEN hb[i].left[a] ELSE balance[a]]
    /\ reaped' = reaped \cup hb[i].gone
    /\ lastSeen' = [lastSeen EXCEPT ![i] = hb[i].now]
    /\ billed' = [billed EXCEPT ![i] = IF hb[i].charge /\ ~hb[i].late THEN @ + 1 ELSE @]
    /\ hb' = [hb EXCEPT ![i] = NoHb]
    /\ UNCHANGED <<used, created, vms, cname, req, reaper, minute, faultVars>>

ReapCname(w) ==
    /\ reaper[w] = "unname"
    /\ cname' = cname \ FindDomain(w)
    /\ reaper' = [reaper EXCEPT ![w] = "delete"]
    /\ UNCHANGED <<instances, rows, used, created, stopped, vms, balance, req, hb,
                   reaped, clockVars, faultVars>>

ReapAgent(w) ==
    /\ reaper[w] = "delete"
    /\ vms' = [i \in Instances |-> vms[i] \ {w}]
    /\ reaper' = [reaper EXCEPT ![w] = "none"]
    /\ UNCHANGED <<instances, rows, used, created, stopped, cname, balance, req, hb,
                   reaped, clockVars, faultVars>>

-----------------------------------------------------------------------------
(* The agents and the faults.                                              *)

(* submitEvent: a workload was stopped, or runs again.                     *)
StatusEvent(w) ==
    /\ w \in Stoppable /\ rows[w] # NoRow
    /\ stopped' = IF w \in stopped THEN stopped \ {w} ELSE stopped \cup {w}
    /\ UNCHANGED <<instances, rows, used, created, vms, cname, balance, req, hb,
                   reaper, reaped, clockVars, faultVars>>

(* A statement, or a call before it had any effect, fails: the middleware  *)
(* rolls back.                                                             *)
CallFails(r) ==
    /\ Fault
    /\ req[r] # NoReq
    /\ EndReq(r)
    /\ UNCHANGED <<instances, rows, used, created, stopped, vms, cname, balance, hb,
                   reaper, reaped, clockVars>>

(* The agent acted and its answer did not arrive.                          *)
AnswerLost(r) == LET w == req[r].w  i == req[r].i IN
    /\ Fault
    /\ \/ /\ req[r].op = "agent" /\ Fits(i, w)
          /\ vms' = [vms EXCEPT ![i] = @ \cup {w}]
       \/ /\ req[r].op = "delete"
          /\ vms' = [vms EXCEPT ![i] = @ \ {w}]
    /\ EndReq(r)
    /\ UNCHANGED <<instances, rows, used, created, stopped, cname, balance, hb,
                   reaper, reaped, clockVars>>

HbFails(i) ==
    /\ Fault
    /\ hb[i] # NoHb
    /\ hb' = [hb EXCEPT ![i] = NoHb]
    /\ UNCHANGED <<instances, rows, used, created, stopped, vms, cname, balance, req,
                   reaper, reaped, clockVars>>

(* The process dies, or a removal of a heartbeat fails: nobody handles it. *)
Crash ==
    /\ Fault
    /\ ProcessEnds
    /\ UNCHANGED <<instances, rows, used, created, stopped, vms, cname, balance,
                   reaped, clockVars>>

-----------------------------------------------------------------------------
ReqStep(r) ==
    \/ CreatePlace(r) \/ CreateAgent(r) \/ CreateCname(r) \/ CreateCommit(r)
    \/ RemoveErase(r) \/ RemoveCname(r) \/ RemoveAgent(r) \/ RemoveCommit(r)

HbStep(i) == HbDeduct(i) \/ HbRejected(i) \/ HbErase(i) \/ HbCommit(i)

Next ==
    \/ Tick \/ Crash
    \/ \E i \in Instances : Register(i) \/ RemoveInstance(i)
                              \/ HbRead(i) \/ HbStep(i) \/ HbFails(i)
    \/ \E r \in Reqs : ReqStep(r) \/ CallFails(r) \/ AnswerLost(r)
                         \/ \E w \in Workloads : CreateBegin(r, w) \/ RemoveFind(r, w)
    \/ \E w \in Workloads : ReapCname(w) \/ ReapAgent(w) \/ StatusEvent(w)

Spec == Init /\ [][Next]_vars

(* Requests, heartbeats and removals end; agents heartbeat several times a *)
(* minute, so a heartbeat that finds a new minute comes again and again.   *)
FairSpec ==
    /\ Spec
    /\ WF_vars(\E r \in Reqs : ReqStep(r))
    /\ \A i \in Instances : WF_vars(HbStep(i)) /\ SF_vars(minute # lastSeen[i] /\ HbRead(i))
    /\ WF_vars(\E w \in Workloads : ReapCname(w) \/ ReapAgent(w))
    /\ WF_vars(Tick)

-----------------------------------------------------------------------------
InFlight(w) ==
    \/ \E r \in Reqs : req[r].w = w
    \/ reaper[w] # "none"
    \/ \E i \in Instances : w \in hb[i].gone

(* As long as no call failed and the process did not end, nilcc-api and    *)
(* the agents agree on every workload that no request is about: it runs on *)
(* the instance of its row, a registered one, and without a row it does    *)
(* not run, although creations choose an instance from sums that others    *)
(* are about to change and heartbeats do not wait for their removals.      *)
InStep == ~disturbed => \A w \in Workloads : ~InFlight(w) =>
    /\ {i \in Instances : w \in vms[i]} = {rows[w]} \ {NoRow}
    /\ rows[w] # NoRow => rows[w] \in instances

(* Whatever fails, a workload that was created and that no heartbeat       *)
(* removed runs only while it has a row: a removal that is cut short never *)
(* leaves a workload that nobody can remove and nobody pays for.           *)
NoLeak == \A w \in created \ reaped, i \in Instances : w \in vms[i] => rows[w] = i

(* The workloads of an instance are charged at most once in a minute,      *)
(* however many heartbeats it sends and whichever of them fail.            *)
BilledOnce == \A i \in Instances : billed[i] <= 1

(* A running workload of an account that has nothing left is removed,      *)
(* unless it stops; a call that fails or a process that ends (`disturbed`) *)
(* may leave it running until a later heartbeat.                           *)
DepletedReaped == \A w \in Workloads :
    (rows[w] # NoRow /\ IsBalanceDepleted(balance[Owner(w)]) /\ w \notin stopped)
        ~> (rows[w] = NoRow \/ w \in stopped \/ disturbed)

(* The removal of a workload deletes the record of no other workload:      *)
(* deleteRecord says of a name without record that it is ignored.          *)
OwnRecordOnly == [][\A v \in cname \ cname' :
    (\E r \in Reqs : req[r].w = v /\ req[r].op = "unname") \/ reaper[v] = "unname"]_vars

=============================================================================
