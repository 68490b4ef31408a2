----------------------------- MODULE Heartbeats -----------------------------
(***************************************************************************)
(* The heartbeats of the workloads, end to end: the emitter that cvm-agent *)
(* runs in every CVM whose workload has a wallet, the agent that tells the *)
(* emitters how often to beat, the chain that takes the price of every     *)
(* heartbeat out of the wallet, and heartbeat-funder, which puts it back.  *)
(***************************************************************************)
EXTENDS Funder

CONSTANTS
    Keys,       \* [Agents -> SUBSET Addresses], the wallets of an agent
    Intervals,  \* values of verifier_heartbeat.interval_seconds
    MaxDeploys, \* bound: CVMs started
    MaxConfigs  \* bound: restarts of the agent with another interval

Wallets == UNION {Keys[a] : a \in Agents}
AgentWith(k) == CHOOSE a \in Agents : k \in Keys[a]

VARIABLES
    emitter,   \* [Wallets -> the emitter of the CVM that has the wallet]
    allowance, \* the wallets that approved the heartbeat contract, on chain
    config,    \* the interval in the agent's configuration
    row,       \* [Wallets -> heartbeat_interval of the workload's row]
    missed,    \* wallets whose emitter did not get the last set_interval
    deploys,
    configs

emitterVars == <<emitter, allowance, config, row, missed, deploys, configs>>
vars == <<varsFunder, emitterVars>>

Off(i) == [pc |-> "off", interval |-> i, cmds |-> <<>>]

Init ==
    /\ InitFunder
    /\ config = CHOOSE i \in Intervals : TRUE \* any: they differ in name only
    /\ emitter = [k \in Wallets |-> Off(config)]
    /\ row = [k \in Wallets |-> config]
    /\ allowance = {}
    /\ missed = {}
    /\ deploys = 0
    /\ configs = 0

-----------------------------------------------------------------------------
(* A workload with wallet k is created or started: its row names the key   *)
(* and the interval, and its CVM boots.                                    *)
Deploy(k) ==
    /\ emitter[k].pc = "off"
    /\ deploys < MaxDeploys
    /\ deploys' = deploys + 1
    /\ active' = [active EXCEPT ![AgentWith(k)] = @ \cup {k}]
    /\ row' = [row EXCEPT ![k] = config]
    /\ emitter' = [emitter EXCEPT ![k].pc = "boot"]
    /\ missed' = missed \ {k}
    /\ UNCHANGED <<allowance, config, configs, monitorVars, queue, funderVars, chainVars>>

(* It is stopped or deleted.                                               *)
Undeploy(k) ==
    /\ emitter[k].pc # "off"
    /\ active' = [active EXCEPT ![AgentWith(k)] = @ \ {k}]
    /\ emitter' = [emitter EXCEPT ![k] = Off(config)]
    /\ UNCHANGED <<allowance, config, row, missed, deploys, configs,
                   monitorVars, queue, funderVars, chainVars>>

(* The bootstrap request spawns the emitter, with the agent's interval.    *)
Spawn(k) ==
    /\ emitter[k].pc = "boot"
    /\ emitter' = [emitter EXCEPT ![k] = [pc |-> "cert", interval |-> config, cmds |-> <<>>]]
    /\ UNCHANGED <<varsFunder, allowance, config, row, missed, deploys, configs>>

(* wait_tls_certificate, and connect: both are waited for without end.     *)
WaitCertificate(k) ==
    /\ emitter[k].pc = "cert"
    /\ emitter' = [emitter EXCEPT ![k].pc = "connect"]
    /\ UNCHANGED <<varsFunder, allowance, config, row, missed, deploys, configs>>

Connect(k) ==
    /\ emitter[k].pc = "connect"
    /\ emitter' = [emitter EXCEPT ![k].pc = "approve"]
    /\ UNCHANGED <<varsFunder, allowance, config, row, missed, deploys, configs>>

Pay(eth, nil, k) ==
    /\ balance["eth"][k] >= eth
    /\ balance["nil"][k] >= nil
    /\ balance' = [balance EXCEPT !["eth"][k] = @ - eth, !["nil"][k] = @ - nil]

(* approve_nil: nothing to do, or a transaction that needs gas; it counts  *)
(* as done even when the receipt says that it was reverted.                *)
Approve(k) ==
    /\ emitter[k].pc = "approve"
    /\ \/ k \in allowance /\ UNCHANGED <<balance, allowance, faults>>
       \/ k \notin allowance /\ Pay(1, 0, k) /\ allowance' = allowance \cup {k} /\ UNCHANGED faults
       \/ /\ k \notin allowance
          /\ Pay(1, 0, k)
          /\ faults < MaxFaults
          /\ faults' = faults + 1
          /\ UNCHANGED allowance
    /\ emitter' = [emitter EXCEPT ![k].pc = "loop"]
    /\ UNCHANGED <<active, monitorVars, queue, addresses, task, lost, inflight,
                   config, row, missed, deploys, configs>>

(* Variant: the commands are taken out of the channel, and nothing more.   *)
DrainedOnly(e) == [e EXCEPT !.cmds = <<>>]

(* process_pending_commands: the last of the queued intervals wins.        *)
Drained(e) == [e EXCEPT !.interval = IF e.cmds = <<>> THEN @ ELSE Last(e.cmds), !.cmds = <<>>]


(* A tick and submit_htx, which the chain accepts, reverts at the price of *)
(* the gas, or never sees because estimating it failed; the intervals are  *)
(* looked at after it in any case.                                         *)
BeatSent(k) ==
    /\ emitter[k].pc = "loop"
    /\ k \in allowance
    /\ Pay(1, 1, k)
    /\ emitter' = [emitter EXCEPT ![k] = Drained(@)]
    /\ UNCHANGED <<active, monitorVars, queue, funderVars, inflight,
                   allowance, config, row, missed, deploys, configs>>

BeatReverted(k) ==
    /\ emitter[k].pc = "loop"
    /\ faults < MaxFaults
    /\ faults' = faults + 1
    /\ Pay(1, 0, k)
    /\ emitter' = [emitter EXCEPT ![k] = Drained(@)]
    /\ UNCHANGED <<active, monitorVars, queue, addresses, task, lost, inflight,
                   allowance, config, row, missed, deploys, configs>>

BeatFails(k) ==
    /\ emitter[k].pc = "loop"
    /\ \/ k \notin allowance
       \/ balance["eth"][k] = 0
       \/ balance["nil"][k] = 0
    /\ emitter' = [emitter EXCEPT ![k] = Drained(@)]
    /\ UNCHANGED <<varsFunder, allowance, config, row, missed, deploys, configs>>

(* The heartbeats route of cvm-agent: it needs the handle of the emitter.  *)
Reachable(k) == emitter[k].pc \notin {"off", "boot"}

(* The agent starts again with interval i.  sync_heartbeat_config calls    *)
(* every CVM whose row has another interval, only logs a failure and       *)
(* writes the row in any case.                                             *)
SyncHeartbeatConfig(i, delivered) ==
    LET live == {k \in Wallets : Reachable(k) /\ row[k] # i} IN
    /\ i # config
    /\ configs < MaxConfigs
    /\ configs' = configs + 1
    /\ delivered \subseteq live
    /\ config' = i
    /\ row' = [k \in Wallets |-> i]
    /\ emitter' = [k \in Wallets |-> IF k \in delivered
                                     THEN [emitter[k] EXCEPT !.cmds = Append(@, i)]
                                     ELSE emitter[k]]
    /\ missed' = (missed \ delivered) \cup (live \ delivered)
    /\ UNCHANGED <<varsFunder, allowance, deploys>>

EmitterStep(k) ==
    \/ Spawn(k)
    \/ WaitCertificate(k)
    \/ Connect(k)
    \/ Approve(k)
    \/ BeatSent(k)
    \/ BeatReverted(k)
    \/ BeatFails(k)

Next ==
    \/ FunderStep /\ UNCHANGED emitterVars
    \/ MonitorStep /\ UNCHANGED emitterVars
    \/ \E k \in Wallets : Deploy(k) \/ Undeploy(k) \/ EmitterStep(k)
    \/ \E i \in Intervals, D \in SUBSET Wallets : SyncHeartbeatConfig(i, D)

(***************************************************************************)
(* Every task loops for as long as its process lives, a ticker fires again *)
(* and again and the chain executes what it took: weak fairness of each    *)
(* task.  Nothing is assumed of deployments, of restarts of the agent, of  *)
(* the errors, or of the certificate, which may never come.                *)
(***************************************************************************)
Fairness ==
    /\ WF_vars(ApiPoll(Agents) /\ UNCHANGED emitterVars)
    /\ \A m \in Monitors : WF_vars((AgentPoll(m) \/ AgentSend(m)) /\ UNCHANGED emitterVars)
    /\ SF_vars(HandleCommand /\ UNCHANGED emitterVars)
    /\ WF_vars((HandleTick \/ EnsureRead \/ EnsureSend \/ EnsureWatch \/ EnsureRefused)
               /\ UNCHANGED emitterVars)
    /\ WF_vars(Mine /\ UNCHANGED emitterVars)
    /\ \A k \in Wallets : WF_vars(Spawn(k) \/ Connect(k) \/ Approve(k)
                                  \/ BeatSent(k) \/ BeatFails(k))

Spec == Init /\ [][Next]_vars /\ Fairness

-----------------------------------------------------------------------------
(* What the transfers that are not mined yet will bring to wallet k.       *)
UnderWay(s, k) ==
    SumFunction([i \in DOMAIN inflight |->
        IF inflight[i].asset = s /\ inflight[i].to = k THEN inflight[i].amount ELSE 0])

(* A wallet never gets more than the target: what it has and what is under *)
(* way to it together stay below it, whatever it spends between the funder's *)
(* look at its balance and the transfer.  The exception is a transfer      *)
(* whose receipt was lost: it is sent again while it may still be mined.   *)
FundedOnce ==
    \A s \in Assets, k \in Addresses :
        balance[s][k] + UnderWay(s, k) <= Target[s] * (1 + lost)

(* Once the workloads no longer come and go, the funder's addresses are    *)
(* the static ones and those of the keys in use, in spite of two monitors  *)
(* of one agent that see its changes at different times.                   *)
AddressesConverge ==
    <>[](addresses = Static \cup UNION {active[a] : a \in Agents})

(* A CVM that keeps running and got its approval through never stops       *)
(* sending heartbeats: when its wallet runs dry it is filled again.        *)
KeepsBeating ==
    \A k \in Wallets :
        <>[](emitter[k].pc = "loop" /\ k \in allowance) => []<><<BeatSent(k)>>_vars

(* An emitter gets to the interval of its row, unless the call that should *)
(* have told it failed; the row is written in any case, so nothing calls   *)
(* again.                                                                  *)
IntervalApplied ==
    \A k \in Wallets :
        (emitter[k].pc = "loop" /\ k \notin missed)
            ~> (emitter[k].interval = row[k] \/ emitter[k].pc = "off" \/ k \in missed)
=============================================================================
