------------------------------- MODULE Funder -------------------------------
(***************************************************************************)
(* heartbeat-funder: the service that keeps the wallets of the heartbeat   *)
(* emitters above a minimum of ETH (gas) and NIL (the price of a           *)
(* heartbeat).  It has three kinds of tasks.  The API monitor asks         *)
(* nilcc-api for its metal instances and starts an agent monitor for each. *)
(* An agent monitor asks its agent which verifier keys are in use, and     *)
(* tells the funder the difference with what it saw before.  The funder    *)
(* adds and removes addresses as it is told and, on every tick, goes       *)
(* through them in order and tops up those that have too little.           *)
(*                                                                         *)
(* The chain and the keys of the agents are external; what changes them    *)
(* apart from the funder is in Heartbeats.  The transfers of the funder    *)
(* leave its account in nonce order, so they are mined as a queue.         *)
(***************************************************************************)
EXTENDS Integers, Sequences, FiniteSets, SequencesExt

CONSTANTS
    Agents,     \* metal instances
    Monitors,   \* agent monitors
    AgentOf,    \* [Monitors -> Agents]: whom a monitor polls
    Configured, \* the monitors that main starts from the config file
    Addresses,  \* wallets, naturals: a BTreeSet is iterated in their order
    Static,     \* the wallets of the config file
    Refusing,   \* wallets to which every transfer fails
    Minimum,    \* [Assets -> Nat], ThresholdsConfig
    Target,     \* [Assets -> Nat], ThresholdsConfig
    MaxFaults,  \* bound: RPC errors
    MaxLost     \* bound: transfers whose receipt is lost

Assets == {"eth", "nil"}

(* What main checks before it starts anything.                             *)
ThresholdsValid ==
    /\ Minimum["eth"] < Target["eth"]
    /\ Target["nil"] # 0 => Minimum["nil"] < Target["nil"]

ASSUME ThresholdsOrdered == ThresholdsValid
ASSUME ThresholdsType == Minimum \in [Assets -> Nat] /\ Target \in [Assets -> Nat]

VARIABLES
    active,    \* [Agents -> SUBSET Addresses], the keys in use
    known,     \* NilccApiMonitor.agents
    monitor,   \* [Monitors -> what the task holds]
    queue,     \* the FunderCommand channel
    addresses, \* Funder.addresses
    task,      \* what the funder is doing
    balance,   \* [Assets -> [Addresses -> Nat]], on chain
    inflight,  \* the transfers of the funder that are not mined yet
    faults,    \* RPC errors so far
    lost       \* transfers whose receipt was lost

monitorVars == <<known, monitor>>
funderVars == <<addresses, task, faults, lost>>
chainVars == <<balance, inflight>>
varsFunder == <<active, monitorVars, queue, funderVars, chainVars>>

InOrder(S) == SetToSortSeq(S, <)
Idle == [pc |-> "idle", todo |-> <<>>, asset |-> "eth", missing |-> 0]

InitFunder ==
    /\ active = [a \in Agents |-> {}]
    /\ known = {}
    /\ monitor = [m \in Monitors |-> [seen |-> {}, fetched |-> {}, send |-> <<>>]]
    /\ queue = <<>>
    /\ addresses = Static
    /\ task = Idle
    /\ balance = [s \in Assets |-> [a \in Addresses |-> 0]]
    /\ inflight = <<>>
    /\ faults = 0
    /\ lost = 0

-----------------------------------------------------------------------------
(* Monitors                                                                *)

(* NilccApiMonitor::run_once, for the instances that nilcc-api lists at    *)
(* the time: a monitor for each that is new; an instance that is no longer *)
(* listed keeps its monitor.                                               *)
ApiPoll(listed) ==
    /\ known' = known \cup listed
    /\ UNCHANGED <<active, monitor, queue, funderVars, chainVars>>

Spawned(m) == m \in Configured \/ AgentOf[m] \in known

(* Variant: addresses are only ever added.                                 *)
AnnounceAdds(seen, now) ==
    [i \in 1..Cardinality(now \ seen) |-> [op |-> "add", address |-> InOrder(now \ seen)[i]]]

(* NilccAgentMonitor::run_once, up to the first command: the new addresses *)
(* are announced before the ones that are gone.                            *)
Announce(seen, now) ==
    LET Cmds(S, op) == [i \in 1..Cardinality(S) |-> [op |-> op, address |-> InOrder(S)[i]]]
    IN  Cmds(now \ seen, "add") \o Cmds(seen \ now, "remove")

(* What the agent answers: the keys that the rows of its workloads name.   *)
KeysInUse(a) == active[a]

(* The client's GET; when it fails the poll ends, and nothing has changed. *)
Fetch(m) == KeysInUse(AgentOf[m])

AgentPoll(m) ==
    LET now == Fetch(m) IN
    /\ Spawned(m)
    /\ monitor[m].send = <<>>
    /\ monitor[m].seen # now
    /\ monitor' = [monitor EXCEPT ![m] =
                       [@ EXCEPT !.fetched = now, !.send = Announce(monitor[m].seen, now)]]
    /\ UNCHANGED <<active, known, queue, funderVars, chainVars>>

(* FunderHandle                                                            *)
Send(cmd) == queue' = Append(queue, cmd)

(* One add_address or remove_address; active_addresses changes after the   *)
(* last one.                                                               *)
AgentSend(m) ==
    /\ monitor[m].send # <<>>
    /\ Send(Head(monitor[m].send))
    /\ monitor' = [monitor EXCEPT ![m] =
                       [@ EXCEPT !.send = Tail(@),
                                 !.seen = IF Len(monitor[m].send) = 1 THEN monitor[m].fetched ELSE @]]
    /\ UNCHANGED <<active, known, funderVars, chainVars>>

-----------------------------------------------------------------------------
(* Funder                                                                  *)

Start(todo) == IF todo = <<>> THEN Idle ELSE [Idle EXCEPT !.pc = "read", !.todo = todo]

(* select! takes the ticker or the channel, whichever it likes when both   *)
(* are ready.                                                              *)
HandleTick ==
    /\ task.pc = "idle"
    /\ task' = Start(InOrder(addresses))
    /\ UNCHANGED <<active, monitorVars, queue, addresses, faults, lost, chainVars>>

HandleCommand ==
    LET cmd == Head(queue) IN
    /\ task.pc = "idle"
    /\ queue # <<>>
    /\ queue' = Tail(queue)
    /\ IF cmd.op = "add"
       THEN /\ addresses' = addresses \cup {cmd.address}
            /\ task' = Start(<<cmd.address>>)
       ELSE /\ addresses' = addresses \ {cmd.address}
            /\ UNCHANGED task
    /\ UNCHANGED <<active, monitorVars, faults, lost, chainVars>>

(* ensure_address_funded: ETH, then NIL unless its target is zero, then    *)
(* the next address.                                                       *)
Following ==
    IF task.asset = "eth" /\ Target["nil"] # 0
    THEN [task EXCEPT !.pc = "read", !.asset = "nil"]
    ELSE Start(Tail(task.todo))

(* Variant: the target is sent, whatever the wallet still has.             *)
MissingAll(has, s) == Target[s]

(* saturating_sub                                                          *)
Missing(has, s) == IF Target[s] > has THEN Target[s] - has ELSE 0

(* Variant: the minimum itself is enough.                                  *)
EnoughAtMinimum(has, s) == has >= Minimum[s]

(* Reads the balance, and decides.                                         *)
Enough(has, s) == has > Minimum[s]

EnsureRead ==
    LET has == balance[task.asset][Head(task.todo)] IN
    /\ task.pc = "read"
    /\ task' = IF Enough(has, task.asset) THEN Following
               ELSE [task EXCEPT !.pc = "send", !.missing = Missing(has, task.asset)]
    /\ UNCHANGED <<active, monitorVars, queue, addresses, faults, lost, chainVars>>

EnsureSend ==
    /\ task.pc = "send"
    /\ Head(task.todo) \notin Refusing
    /\ inflight' = Append(inflight, [asset |-> task.asset, to |-> Head(task.todo),
                                     amount |-> task.missing])
    /\ task' = [task EXCEPT !.pc = "watch"]
    /\ UNCHANGED <<active, monitorVars, queue, addresses, faults, lost, balance>>

(* watch and get_receipt: the transfer, the last one sent, is mined.       *)
EnsureWatch ==
    /\ task.pc = "watch"
    /\ inflight = <<>>
    /\ task' = Following
    /\ UNCHANGED <<active, monitorVars, queue, addresses, faults, lost, chainVars>>

(* `?` in ensure_addresses_funded: the addresses after this one have to    *)
(* wait for the next tick, if it gets any further.                         *)
EnsureRefused ==
    /\ task.pc = "send"
    /\ Head(task.todo) \in Refusing
    /\ task' = Idle
    /\ UNCHANGED <<active, monitorVars, queue, addresses, faults, lost, chainVars>>

EnsureFails ==
    /\ task.pc \in {"read", "send"}
    /\ faults < MaxFaults
    /\ faults' = faults + 1
    /\ task' = Idle
    /\ UNCHANGED <<active, monitorVars, queue, addresses, lost, chainVars>>

(* The connection is lost while the receipt is waited for: the transfer    *)
(* counts as failed and may be mined later.                                *)
WatchFails ==
    /\ task.pc = "watch"
    /\ lost < MaxLost
    /\ lost' = lost + 1
    /\ task' = Idle
    /\ UNCHANGED <<active, monitorVars, queue, addresses, faults, chainVars>>

(* The chain (external) executes the next transfer.                        *)
Mine ==
    LET t == Head(inflight) IN
    /\ inflight # <<>>
    /\ inflight' = Tail(inflight)
    /\ balance' = [balance EXCEPT ![t.asset][t.to] = @ + t.amount]
    /\ UNCHANGED <<active, monitorVars, queue, funderVars>>

FunderStep ==
    \/ HandleTick
    \/ HandleCommand
    \/ EnsureRead
    \/ EnsureSend
    \/ EnsureWatch
    \/ EnsureRefused
    \/ EnsureFails
    \/ WatchFails
    \/ Mine

MonitorStep ==
    \/ \E S \in SUBSET Agents : ApiPoll(S)
    \/ \E m \in Monitors : AgentPoll(m) \/ AgentSend(m)
=============================================================================
