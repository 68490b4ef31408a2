------------------------------ MODULE Payments ------------------------------
(***************************************************************************)
(* The payments of nilcc-api: replicas of the service poll the chain for   *)
(* burn events and credit the accounts of the wallets that burned. The     *)
(* cursor row, locked for the whole poll, says up to which block the chain *)
(* was processed; each event is credited in a transaction of its own.      *)
(*                                                                         *)
(* The chain only grows: reorganisations are not modelled. `Faults` bounds *)
(* the errors of the price service, of the chain's RPC and of the database *)
(* and the crashes of replicas.                                            *)
(***************************************************************************)
EXTENDS Accounts, FiniteSets

CONSTANTS
    Replicas,
    Logs,          \* LogBurnWithDigest events
    Tx(_),         \* the transaction of an event
    From(_),       \* the wallet that burned
    Burned(_),     \* how much, in base units of NIL; 0 is a malformed event
    Prices,        \* NIL prices, in 1 / PriceScale of a dollar
    PriceScale,
    StartBlock,    \* paymentStartBlock
    MaxBlock,      \* bound on the length of the chain
    MaxRange,      \* paymentPollerMaxBlockRange
    MaxFaults      \* bound on the errors and crashes

ASSUME PaymentsAssumption ==
    /\ \A l \in Logs : From(l) \in Wallets /\ Burned(l) \in Nat
    /\ Prices \subseteq Nat \ {0} /\ PriceScale \in Nat \ {0}
    /\ StartBlock \in Nat \ {0} /\ MaxBlock \in Nat
    /\ MaxRange \in Nat \ {0} /\ MaxFaults \in Nat
    /\ "none" \notin Replicas

VARIABLES
    head,         \* the current block of the chain
    mined,        \* mined[l]: the block of an event, 0 before it exists
    known,        \* history: events whose wallet had an account when mined
    cursor,       \* last_processed_block; NoCursor before it is seeded
    lock,         \* the replica whose transaction holds the cursor row
    payments,     \* transactions in the payments table (tx_hash is unique)
    poller,       \* the poll of each replica
    faults

chainVars == <<head, mined, known>>
vars == <<accountVars, chainVars, cursor, lock, payments, poller, faults>>

NoCursor == -1
NoReplica == "none"
NoBlock == 0     \* firstFailedBlock = null
Blocks == 1 .. MaxBlock

(* nilToMicrodollars of uint256ToNil: rounded to the nearest, halves up.   *)
NilToMicrodollars(amount, price) ==
    (2 * amount * price + PriceScale) \div (2 * PriceScale)

Worth(l) == {NilToMicrodollars(Burned(l), p) : p \in Prices}

Down == [pc |-> "down", from |-> 0, to |-> 0, left |-> {}, failed |-> NoBlock, usd |-> 0]
Idle == [Down EXCEPT !.pc = "idle"]

PollRecord ==
    [pc: {"down", "idle", "locked", "event", "insert"},
     from: {StartBlock} \cup 0 .. MaxBlock + 1, to: 0 .. MaxBlock, left: SUBSET Logs,
     failed: 0 .. MaxBlock, usd: Nat]

TypeOK ==
    /\ AccountsTypeOK
    /\ head \in 0 .. MaxBlock
    /\ mined \in [Logs -> 0 .. head]
    /\ known \subseteq Logs
    /\ cursor \in {NoCursor, StartBlock - 1} \cup 0 .. head
    /\ lock \in Replicas \cup {NoReplica}
    /\ payments \subseteq {Tx(l) : l \in Logs}
    /\ poller \in [Replicas -> PollRecord]
    /\ faults \in 0 .. MaxFaults

Init ==
    /\ AccountsInit
    /\ head = 0
    /\ mined = [l \in Logs |-> 0]
    /\ known = {}
    /\ cursor = NoCursor
    /\ lock = NoReplica
    /\ payments = {}
    /\ poller = [r \in Replicas |-> Down]
    /\ faults = 0

Fault == faults < MaxFaults /\ faults' = faults + 1

(* The next block of the chain, with some of the events.                   *)
Mine(new) ==
    /\ head < MaxBlock
    /\ \A l \in new : mined[l] = 0
    /\ \A l \in Logs : (\E k \in new : Tx(k) = Tx(l)) => l \in new
    /\ head' = head + 1
    /\ mined' = [l \in Logs |-> IF l \in new THEN head + 1 ELSE mined[l]]
    /\ known' = known \cup {l \in new : From(l) \in accounts}
    /\ UNCHANGED <<accountVars, cursor, lock, payments, poller, faults>>

(* start: seeds the cursor, unless it is there.                            *)
Start(r) ==
    /\ poller[r] = Down
    /\ cursor' = IF cursor = NoCursor THEN StartBlock - 1 ELSE cursor
    /\ poller' = [poller EXCEPT ![r] = Idle]
    /\ UNCHANGED <<accountVars, chainVars, lock, payments, faults>>

(* doPoll: SELECT ... FOR UPDATE of the cursor. A poll that finds the last *)
(* one of its replica unfinished is skipped.                               *)
Poll(r) ==
    /\ poller[r] = Idle
    /\ lock = NoReplica
    /\ lock' = r
    /\ poller' = [poller EXCEPT ![r].pc = "locked", ![r].from = cursor + 1]
    /\ UNCHANGED <<accountVars, chainVars, cursor, payments, faults>>

Unlock(r) == IF lock = r THEN NoReplica ELSE lock

(* Ends the poll of a replica and its transaction.                         *)
Finish(r) ==
    /\ poller' = [poller EXCEPT ![r] = Idle]
    /\ lock' = Unlock(r)

(* Variant: the early return does not end the transaction.                 *)
NothingNewLocked(r) ==
    /\ poller[r].pc = "locked" /\ poller[r].from > head
    /\ poller' = [poller EXCEPT ![r] = Idle]
    /\ UNCHANGED <<accountVars, chainVars, cursor, lock, payments, faults>>

NothingNew(r) ==
    /\ poller[r].pc = "locked" /\ poller[r].from > head
    /\ Finish(r)
    /\ UNCHANGED <<accountVars, chainVars, cursor, payments, faults>>

(* Variant: the range is not limited to the blocks that exist.             *)
ToBlockAhead(from) == from + MaxRange

ToBlock(from) == IF head - from > MaxRange THEN from + MaxRange - 1 ELSE head

(* The events of the range; malformed ones are passed over.                *)
GetLogs(r) ==
    /\ poller[r].pc = "locked" /\ poller[r].from <= head
    /\ LET to == ToBlock(poller[r].from) IN
        poller' = [poller EXCEPT ![r].pc = "event", ![r].to = to,
                     ![r].left = {l \in Logs : Burned(l) > 0
                                            /\ mined[l] \in poller[r].from .. to}]
    /\ UNCHANGED <<accountVars, chainVars, cursor, lock, payments, faults>>

(* getBlockNumber or getLogs fails: the poll is rolled back.               *)
RpcFails(r) ==
    /\ Fault
    /\ poller[r].pc = "locked"
    /\ Finish(r)
    /\ UNCHANGED <<accountVars, chainVars, cursor, payments>>

(* The event that a poll is at: they come in the order of their blocks.    *)
Earliest(left) == {l \in left : \A k \in left : mined[l] <= mined[k]}
Pick(S) == CHOOSE l \in S : TRUE
Current(r) == Pick(Earliest(poller[r].left))

Handled(r) == [poller[r] EXCEPT !.pc = "event", !.usd = 0,
                                !.left = @ \ {Current(r)}]

(* processEvent failed: the block of the first failure is kept.            *)
Failed(r) == [Handled(r) EXCEPT !.failed =
                IF @ = NoBlock THEN mined[Current(r)] ELSE @]

(* processEvent up to its transaction: an event that is already recorded,  *)
(* of a wallet without account or worth nothing is passed over.            *)
Quote(r, price) ==
    /\ poller[r].pc = "event" /\ poller[r].left # {}
    /\ LET l == Current(r)
           usd == NilToMicrodollars(Burned(l), price) IN
        poller' = [poller EXCEPT ![r] =
          IF Tx(l) \notin payments /\ From(l) \in accounts /\ usd > 0
          THEN [@ EXCEPT !.pc = "insert", !.usd = usd] ELSE Handled(r)]
    /\ UNCHANGED <<accountVars, chainVars, cursor, lock, payments, faults>>

PriceUnavailable(r) ==
    /\ Fault
    /\ poller[r].pc = "event" /\ poller[r].left # {}
    /\ Tx(Current(r)) \notin payments /\ From(Current(r)) \in accounts
    /\ poller' = [poller EXCEPT ![r] = Failed(r)]
    /\ UNCHANGED <<accountVars, chainVars, cursor, lock, payments>>

(* Variant: nothing keeps two payments of a transaction apart.             *)
InsertTwice(r) ==
    /\ poller[r].pc = "insert" /\ RowFree(From(Current(r)))
    /\ payments' = payments \cup {Tx(Current(r))}
    /\ Add(From(Current(r)), poller[r].usd)
    /\ poller' = [poller EXCEPT ![r] = Handled(r)]
    /\ UNCHANGED <<accounts, rename, deduct, clobbered, changes,
                   chainVars, cursor, lock, faults>>

(* The transaction that records the payment and adds to the balance: it is *)
(* rolled back if another replica recorded the payment first.              *)
Insert(r) ==
    /\ poller[r].pc = "insert"
    /\ LET l == Current(r) IN
        IF Tx(l) \in payments THEN UNCHANGED <<payments, balance, due>>
        ELSE /\ RowFree(From(l))
             /\ payments' = payments \cup {Tx(l)}
             /\ Add(From(l), poller[r].usd)
    /\ poller' = [poller EXCEPT ![r] = Handled(r)]
    /\ UNCHANGED <<accounts, rename, deduct, clobbered, changes,
                   chainVars, cursor, lock, faults>>

(* A statement of processEvent fails.                                      *)
DbFails(r) ==
    /\ Fault
    /\ \/ poller[r].pc = "event" /\ poller[r].left # {}
       \/ poller[r].pc = "insert"
    /\ poller' = [poller EXCEPT ![r] = Failed(r)]
    /\ UNCHANGED <<accountVars, chainVars, cursor, lock, payments>>

(* Variant: the cursor advances to the block that failed.                  *)
AdvanceToFailed(r) ==
    /\ poller[r].pc = "event" /\ poller[r].left = {} /\ lock = r
    /\ cursor' = IF poller[r].failed = NoBlock THEN poller[r].to ELSE poller[r].failed
    /\ Finish(r)
    /\ UNCHANGED <<accountVars, chainVars, payments, faults>>

(* The cursor advances to the block before the first failure. A failure in *)
(* the first block of the range leaves it where it is.                     *)
Advance(r) ==
    /\ poller[r].pc = "event" /\ poller[r].left = {} /\ lock = r
    /\ cursor' = IF poller[r].failed = NoBlock THEN poller[r].to
                 ELSE IF poller[r].failed <= poller[r].from THEN cursor
                 ELSE poller[r].failed - 1
    /\ Finish(r)
    /\ UNCHANGED <<accountVars, chainVars, payments, faults>>

(* The connection of the cursor's transaction is lost: the row is free for *)
(* another replica while this one goes on with its events.                 *)
LockLost(r) ==
    /\ Fault
    /\ lock = r
    /\ lock' = NoReplica
    /\ UNCHANGED <<accountVars, chainVars, cursor, payments, poller>>

(* Without its connection the poll cannot advance the cursor.              *)
AdvanceFails(r) ==
    /\ poller[r].pc = "event" /\ poller[r].left = {} /\ lock # r
    /\ Finish(r)
    /\ UNCHANGED <<accountVars, chainVars, cursor, payments, faults>>

Crash(r) ==
    /\ Fault
    /\ poller[r] # Down
    /\ poller' = [poller EXCEPT ![r] = Down]
    /\ lock' = Unlock(r)
    /\ UNCHANGED <<accountVars, chainVars, cursor, payments>>

Step(r) ==
    \/ Start(r) \/ Poll(r) \/ NothingNew(r) \/ GetLogs(r)
    \/ \E p \in Prices : Quote(r, p)
    \/ Insert(r) \/ Advance(r) \/ AdvanceFails(r)

Next ==
    \/ \E new \in SUBSET Logs : Mine(new)
    \/ \E r \in Replicas : Step(r) \/ RpcFails(r) \/ PriceUnavailable(r)
                           \/ DbFails(r) \/ LockLost(r) \/ Crash(r)
    \/ AccountsNext /\ UNCHANGED <<chainVars, cursor, lock, payments, poller, faults>>

Spec == Init /\ [][Next]_vars

(* Replicas are restarted, poll on their timer and their calls return; the *)
(* heartbeat that holds the lock of an account ends.                       *)
FairSpec ==
    /\ Spec
    /\ \A r \in Replicas : WF_vars(Step(r))
    /\ WF_vars(/\ \E w \in Wallets : DeductRollback(w) \/ \E c \in Costs : DeductCommit(w, c)
               /\ UNCHANGED <<chainVars, cursor, lock, payments, poller, faults>>)

-----------------------------------------------------------------------------
(* The cursor never passes a burn that is owed: once it is at or after the *)
(* block of an event whose wallet had an account when it was mined, and    *)
(* that was worth something at every price, its transaction is recorded,   *)
(* whatever failed, crashed or lost its lock on the way.                   *)
Owed(l) == l \in known /\ mined[l] >= StartBlock /\ 0 \notin Worth(l) /\ Burned(l) > 0

NoBurnPassed == \A l \in Logs :
    Owed(l) /\ cursor >= mined[l] => Tx(l) \in payments

(* Payments implements Ledger: each transaction is paid at most once, even *)
(* if two replicas process it at the same time.                            *)
Payee(t) == {From(l) : l \in {k \in Logs : Tx(k) = t}}
WorthOf(t) == UNION {Worth(l) : l \in {k \in Logs : Tx(k) = t}}
LedgerOf == INSTANCE Ledger WITH
    Txs <- {Tx(l) : l \in Logs}, Payee <- Payee, Worth <- WorthOf,
    Deposits <- Amounts, paid <- payments
PaidOnce == LedgerOf!Spec

(* Every burn that is owed is credited in the end.                         *)
BurnsCredited == \A l \in Logs : Owed(l) ~> Tx(l) \in payments

=============================================================================
