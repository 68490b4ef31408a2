--------------------------- MODULE PaymentsProofs ---------------------------
(***************************************************************************)
(* Theorems about Payments, for any replicas, events, prices and bounds.   *)
(***************************************************************************)
EXTENDS Payments, TLAPS, WellFoundedInduction

-----------------------------------------------------------------------------
(* The inductive invariant.                                                *)

Polling == {"locked", "event", "insert"}
Working == {"event", "insert"}

(* Nobody polls before the cursor is seeded; who holds its row polls the   *)
(* blocks behind it.                                                       *)
CursorInv ==
    /\ cursor = NoCursor \/ cursor >= StartBlock - 1
    /\ \A r \in Replicas :
        /\ poller[r].pc # "down" => cursor # NoCursor
        /\ lock = r => poller[r].pc \in Polling /\ poller[r].from = cursor + 1

(* A poll works through what was mined in its range, in the order of the   *)
(* blocks, and keeps the price of the event that it is about to record. An *)
(* event that it is past is recorded, or not before its first failure.     *)
PollOK(p) ==
    /\ p.pc \in Polling => p.from >= 1
    /\ p.pc \in Working => p.from <= p.to /\ p.to <= head /\ p.failed <= p.to
    /\ p.pc \notin Working => p.left = {} /\ p.failed = NoBlock
    /\ p.pc = "insert" => p.left # {} /\ p.usd \in Worth(Pick(Earliest(p.left)))
    /\ \A l \in p.left : mined[l] \in p.from .. p.to /\ mined[l] >= 1
    /\ p.failed # NoBlock => \A l \in p.left : p.failed <= mined[l]
    /\ p.pc \in Working => \A l \in Logs :
        Owed(l) /\ mined[l] \in p.from .. p.to =>
            \/ l \in p.left
            \/ Tx(l) \in payments
            \/ p.failed # NoBlock /\ p.failed <= mined[l]

PollsInv == \A r \in Replicas : PollOK(poller[r])

KnownInv == \A l \in known : From(l) \in accounts /\ mined[l] >= 1

(* The row lock keeps a balance that a heartbeat read up to date. Nobody   *)
(* is in debt, unless administrators take from the accounts.               *)
BalanceInv ==
    /\ \A w \in Wallets : deduct[w] # NoTx =>
        w \in accounts /\ deduct[w].balance = balance[w]
    /\ (\A a \in Amounts : a >= 0) =>
        \A w \in Wallets : balance[w] >= 0 /\ rename[w].balance >= 0

IInv ==
    /\ TypeOK
    /\ CursorInv
    /\ PollsInv
    /\ KnownInv
    /\ BalanceInv
    /\ BalanceExact
    /\ NoBurnPassed

-----------------------------------------------------------------------------
(* The operators.                                                          *)

LEMMA ProductNat ==
    ASSUME NEW x \in Nat, NEW y \in Nat
    PROVE  x * y \in Nat
  OBVIOUS

LEMMA QuotientNat ==
    ASSUME NEW x \in Nat, NEW y \in Nat \ {0}
    PROVE  x \div y \in Nat
  OBVIOUS

(* What an event is worth is a whole amount, at any price.                 *)
LEMMA WorthNat ==
    ASSUME NEW l \in Logs, NEW p \in Prices
    PROVE  NilToMicrodollars(Burned(l), p) \in Nat
<1>. DEFINE a == 2 * Burned(l) * p + PriceScale
            b == 2 * PriceScale
<1>1. Burned(l) \in Nat /\ p \in Nat /\ PriceScale \in Nat \ {0}
  BY PaymentsAssumption
<1>2. 2 * Burned(l) * p \in Nat
  <2>1. 2 * Burned(l) \in Nat
    BY <1>1
  <2>. QED BY <1>1, <2>1, ProductNat
<1>3. a \in Nat /\ b \in Nat \ {0}
  BY <1>1, <1>2
<1>4. NilToMicrodollars(Burned(l), p) = a \div b
  BY DEF NilToMicrodollars
<1>. HIDE DEF a, b
<1>. QED BY <1>3, <1>4, QuotientNat

LEMMA SmallestNumber ==
    ASSUME NEW T, T \subseteq Nat, T # {}
    PROVE  \E x \in T : \A y \in T : x <= y
<1>. DEFINE R == OpToRel(<, Nat)
<1>1. IsWellFoundedOn(R, Nat)
  BY NatLessThanWellFounded
<1>2. \A x, y \in Nat : <<x, y>> \in R <=> x < y
  BY DEF OpToRel
<1>. HIDE DEF R
<1>3. PICK x \in T : \A y \in T : ~(<<y, x>> \in R)
  BY <1>1, WFMin, Zenon
<1>4. \A y \in T : ~(y < x)
  BY <1>2, <1>3, Zenon
<1>. QED BY <1>4

LEMMA PickMember ==
    ASSUME NEW S, S # {}
    PROVE  Pick(S) \in S
  BY DEF Pick

(* The event that a poll is at is one of those that are left, and of the   *)
(* earliest block.                                                         *)
LEMMA EarliestExists ==
    ASSUME TypeOK, NEW left \in SUBSET Logs, left # {}
    PROVE  /\ Pick(Earliest(left)) \in left
           /\ \A k \in left : mined[Pick(Earliest(left))] <= mined[k]
<1>1. {mined[l] : l \in left} \subseteq Nat /\ {mined[l] : l \in left} # {}
  BY PaymentsAssumption DEF TypeOK
<1>2. \E x \in {mined[l] : l \in left} : \A y \in {mined[l] : l \in left} : x <= y
  BY <1>1, SmallestNumber
<1>3. Earliest(left) # {}
  BY <1>2 DEF Earliest
<1>4. Pick(Earliest(left)) \in Earliest(left)
  BY <1>3, PickMember
<1>. QED BY <1>4 DEF Earliest

LEMMA DownIdleOK ==
    ASSUME TypeOK
    PROVE  /\ Down \in PollRecord /\ Idle \in PollRecord
           /\ PollOK(Down) /\ PollOK(Idle)
           /\ Down.pc = "down" /\ Idle.pc = "idle"
<1>1. /\ Down \in PollRecord /\ Idle \in PollRecord
      /\ Down.pc = "down" /\ Idle.pc = "idle"
      /\ \A p \in {Down, Idle} : p.left = {} /\ p.failed = 0
  BY PaymentsAssumption DEF Down, Idle, PollRecord, NoBlock
<1>2. ASSUME NEW p, p.pc \in {"down", "idle"}, p.left = {}, p.failed = 0
      PROVE  PollOK(p)
  BY <1>2 DEF TypeOK, PollOK, Polling, Working, NoBlock
<1>. QED BY <1>1, <1>2

-----------------------------------------------------------------------------
(* A step of the chain's readers changes one poll at most and grows the    *)
(* payments.                                                               *)

(* A poll that was sound stays so if the chain stands still and no payment *)
(* is removed.                                                             *)
LEMMA PollOKKept ==
    ASSUME NEW q, PollOK(q), UNCHANGED chainVars, payments \subseteq payments'
    PROVE  PollOK(q)'
<1>1. head' = head /\ mined' = mined /\ known' = known
  BY DEF chainVars
<1>2. Earliest(q.left)' = Earliest(q.left)
  BY <1>1 DEF Earliest
<1>3. \A l : Owed(l)' <=> Owed(l)
  BY <1>1 DEF Owed
<1>. QED BY <1>1, <1>2, <1>3, Zenon DEF PollOK

(* The poll of a replica becomes p.                                        *)
LEMMA ReplicaStep ==
    ASSUME TypeOK, PollsInv, NEW r \in Replicas, NEW p \in PollRecord, PollOK(p)',
           poller' = [poller EXCEPT ![r] = p],
           UNCHANGED chainVars, payments \subseteq payments'
    PROVE  /\ poller' \in [Replicas -> PollRecord]
           /\ PollsInv'
           /\ poller'[r] = p
           /\ \A s \in Replicas : s # r => poller'[s] = poller[s]
<1>1. /\ poller' \in [Replicas -> PollRecord]
      /\ poller'[r] = p
      /\ \A s \in Replicas : s # r => poller'[s] = poller[s]
  BY DEF TypeOK
<1>2. ASSUME NEW s \in Replicas
      PROVE  PollOK(poller[s])'
  <2>1. CASE s = r
    BY <1>1, <2>1 DEF PollOK, Earliest, Owed
  <2>2. CASE s # r
    <3>1. PICK q : q = poller[s]
      OBVIOUS
    <3>2. poller'[s] = q
      BY <1>1, <2>2, <3>1
    <3>3. PollOK(q)
      BY <3>1 DEF PollsInv
    <3>4. PollOK(q)'
      BY <3>3, PollOKKept
    <3>. QED BY <3>2, <3>4 DEF PollOK, Earliest, Owed
  <2>. QED BY <2>1, <2>2
<1>. QED BY <1>1, <1>2 DEF PollsInv

(* What is left to show of a step that moves a poll on and records nothing.*)
LEMMA PollStep ==
    ASSUME IInv, NEW r \in Replicas, NEW p \in PollRecord, PollOK(p),
           poller' = [poller EXCEPT ![r] = p],
           UNCHANGED <<accountVars, chainVars, payments>>,
           lock' \in {lock, r, NoReplica}, faults' \in 0 .. MaxFaults,
           cursor' \in {NoCursor, StartBlock - 1} \cup 0 .. head,
           cursor' = NoCursor \/ cursor' >= StartBlock - 1,
           cursor' = cursor \/ (lock' = NoReplica /\ cursor' # NoCursor),
           p.pc # "down" => cursor' # NoCursor,
           lock' = r => p.pc \in Polling /\ p.from = cursor' + 1,
           NoBurnPassed'
    PROVE  IInv'
<1>. USE DEF IInv
<1>1. /\ poller' \in [Replicas -> PollRecord]
      /\ PollsInv'
      /\ poller'[r] = p
      /\ \A s \in Replicas : s # r => poller'[s] = poller[s]
  BY PollOKKept, ReplicaStep
<1>2. TypeOK'
  BY <1>1 DEF TypeOK, AccountsTypeOK, accountVars, chainVars
<1>3. CursorInv'
  <2>1. ASSUME NEW s \in Replicas
        PROVE  /\ poller'[s].pc # "down" => cursor' # NoCursor
               /\ lock' = s => poller'[s].pc \in Polling /\ poller'[s].from = cursor' + 1
    <3>1. NoReplica # s /\ NoReplica # r
      BY PaymentsAssumption DEF NoReplica
    <3>2. CASE s = r
      BY <1>1, <3>2
    <3>3. CASE s # r
      BY <1>1, <3>1, <3>3 DEF CursorInv
    <3>. QED BY <3>2, <3>3
  <2>. QED BY <2>1 DEF CursorInv
<1>4. KnownInv' /\ BalanceInv' /\ BalanceExact'
  BY DEF KnownInv, BalanceInv, BalanceExact, accountVars, chainVars
<1>. QED BY <1>1, <1>2, <1>3, <1>4

(* The cursor and the payments stay as they are.                           *)
LEMMA NoBurnPassedKept ==
    ASSUME NoBurnPassed, UNCHANGED chainVars, payments \subseteq payments', UNCHANGED cursor
    PROVE  NoBurnPassed'
  BY DEF NoBurnPassed, Owed, chainVars

LEMMA StartStep ==
    ASSUME IInv, NEW r \in Replicas, Start(r)
    PROVE  IInv'
<1>. USE DEF IInv
<1>1. TypeOK /\ CursorInv
  OBVIOUS
<1>2. Idle \in PollRecord /\ PollOK(Idle) /\ Idle.pc = "idle"
  BY DownIdleOK
<1>3. /\ poller' = [poller EXCEPT ![r] = Idle]
      /\ UNCHANGED <<accountVars, chainVars, payments>>
      /\ lock' = lock /\ faults' = faults
      /\ cursor' = IF cursor = NoCursor THEN StartBlock - 1 ELSE cursor
  BY DEF Start
<1>4. StartBlock - 1 # NoCursor /\ StartBlock - 1 \in Int
  BY PaymentsAssumption DEF NoCursor
<1>5. lock # r
  <2>1. poller[r].pc = "down"
    BY DownIdleOK DEF Start
  <2>. QED BY <2>1 DEF CursorInv, Polling
<1>6. cursor = NoCursor => lock = NoReplica
  BY DEF TypeOK, CursorInv, Polling
<1>7. NoBurnPassed'
  <2>1. CASE cursor # NoCursor
    BY <1>3, <2>1, NoBurnPassedKept
  <2>2. CASE cursor = NoCursor
    <3>1. \A l \in Logs : mined'[l] \in Int
      BY <1>3 DEF TypeOK, chainVars
    <3>. QED BY <1>3, <1>4, <2>2, <3>1, PaymentsAssumption DEF NoBurnPassed, Owed
  <2>. QED BY <2>1, <2>2
<1>8. /\ cursor' \in {NoCursor, StartBlock - 1} \cup 0 .. head
      /\ cursor' = NoCursor \/ cursor' >= StartBlock - 1
      /\ cursor' # NoCursor
      /\ cursor' = cursor \/ lock' = NoReplica
  BY <1>3, <1>4, <1>6 DEF TypeOK, CursorInv
<1>. QED BY <1>2, <1>3, <1>5, <1>7, <1>8, PollStep DEF TypeOK

LEMMA PollPoll ==
    ASSUME IInv, NEW r \in Replicas, Poll(r)
    PROVE  IInv'
<1>. USE DEF IInv
<1>. DEFINE p == [poller[r] EXCEPT !.pc = "locked", !.from = cursor + 1]
<1>1. /\ poller' = [poller EXCEPT ![r] = p]
      /\ UNCHANGED <<accountVars, chainVars, cursor, payments, faults>>
      /\ lock' = r
      /\ poller[r] = Idle
  BY DEF Poll
<1>2. cursor # NoCursor /\ cursor >= StartBlock - 1 /\ cursor \in Int /\ cursor + 1 >= 1
  BY <1>1, DownIdleOK, PaymentsAssumption DEF CursorInv, TypeOK, NoCursor
<1>3. /\ p.pc = "locked" /\ p.from = cursor + 1
      /\ p.left = {} /\ p.failed = 0
  BY <1>1 DEF Idle, Down, NoBlock
<1>4. p \in PollRecord
  <2>1. cursor + 1 \in {StartBlock} \cup 0 .. MaxBlock + 1
    BY <1>2, PaymentsAssumption DEF TypeOK, NoCursor
  <2>2. Idle \in PollRecord
    BY DownIdleOK
  <2>. QED BY <1>1, <2>1, <2>2 DEF PollRecord
<1>. HIDE DEF p
<1>5. PollOK(p)
  BY <1>2, <1>3 DEF PollOK, Polling, Working, NoBlock, TypeOK
<1>6. NoBurnPassed'
  BY <1>1, NoBurnPassedKept
<1>. QED BY <1>1, <1>2, <1>3, <1>4, <1>5, <1>6, PollStep DEF TypeOK, CursorInv, Polling

(* The poll of r ends, with the cursor as it was.                          *)
LEMMA FinishStep ==
    ASSUME IInv, NEW r \in Replicas, Finish(r), poller[r].pc # "down",
           UNCHANGED <<accountVars, chainVars, cursor, payments>>,
           faults' \in 0 .. MaxFaults
    PROVE  IInv'
<1>. USE DEF IInv
<1>1. Idle \in PollRecord /\ PollOK(Idle) /\ Idle.pc = "idle"
  BY DownIdleOK
<1>2. NoReplica # r
  BY PaymentsAssumption DEF NoReplica
<1>3. /\ poller' = [poller EXCEPT ![r] = Idle]
      /\ lock' \in {lock, NoReplica} /\ lock' # r
      /\ cursor # NoCursor
  BY <1>2 DEF Finish, Unlock, CursorInv
<1>4. NoBurnPassed'
  BY NoBurnPassedKept
<1>. QED BY <1>1, <1>3, <1>4, PollStep DEF TypeOK, CursorInv

LEMMA CrashStep ==
    ASSUME IInv, NEW r \in Replicas, Crash(r)
    PROVE  IInv'
<1>. USE DEF IInv
<1>1. Down \in PollRecord /\ PollOK(Down) /\ Down.pc = "down"
  BY DownIdleOK
<1>2. NoReplica # r
  BY PaymentsAssumption DEF NoReplica
<1>3. /\ poller' = [poller EXCEPT ![r] = Down]
      /\ lock' \in {lock, NoReplica} /\ lock' # r
      /\ UNCHANGED <<accountVars, chainVars, cursor, payments>>
  BY <1>2 DEF Crash, Unlock
<1>4. faults' \in 0 .. MaxFaults
  BY PaymentsAssumption DEF Crash, Fault, TypeOK
<1>5. NoBurnPassed'
  BY <1>3, NoBurnPassedKept
<1>. QED BY <1>1, <1>3, <1>4, <1>5, PollStep DEF TypeOK, CursorInv

LEMMA GetLogsStep ==
    ASSUME IInv, NEW r \in Replicas, GetLogs(r)
    PROVE  IInv'
<1>. USE DEF IInv
<1>. DEFINE from == poller[r].from
            to == ToBlock(from)
            new == {l \in Logs : Burned(l) > 0 /\ mined[l] \in from .. to}
            p == [poller[r] EXCEPT !.pc = "event", !.to = to, !.left = new]
<1>1. /\ poller' = [poller EXCEPT ![r] = p]
      /\ UNCHANGED <<accountVars, chainVars, cursor, lock, payments, faults>>
      /\ poller[r].pc = "locked" /\ from <= head
  BY DEF GetLogs
<1>2. poller[r] \in PollRecord /\ PollOK(poller[r]) /\ head \in 0 .. MaxBlock
  BY DEF TypeOK, PollsInv
<1>3. from \in Nat /\ from >= 1 /\ poller[r].failed = 0
  BY <1>1, <1>2, PaymentsAssumption DEF PollOK, PollRecord, Polling, Working, NoBlock
<1>4. to \in 0 .. MaxBlock /\ from <= to /\ to <= head
  BY <1>1, <1>2, <1>3, PaymentsAssumption DEF ToBlock
<1>. HIDE DEF to
<1>5. p \in PollRecord
  BY <1>2, <1>4 DEF PollRecord
<1>6. p.pc = "event" /\ p.from = from /\ p.to = to /\ p.left = new /\ p.failed = 0
  BY <1>2, <1>3 DEF PollRecord
<1>. HIDE DEF p
<1>7. PollOK(p)
  <2>1. \A l \in Logs : mined[l] \in Nat
    BY DEF TypeOK
  <2>2. \A l \in p.left : mined[l] \in p.from .. p.to /\ mined[l] >= 1
    BY <1>3, <1>4, <1>6
  <2>3. \A l \in Logs : Owed(l) /\ mined[l] \in p.from .. p.to => l \in p.left
    BY <1>6 DEF Owed
  <2>. QED BY <1>2, <1>3, <1>4, <1>6, <2>2, <2>3 DEF PollOK, Polling, Working, NoBlock
<1>8. NoBurnPassed'
  BY <1>1, NoBurnPassedKept
<1>. QED BY <1>1, <1>5, <1>6, <1>7, <1>8, PollStep DEF TypeOK, CursorInv, Polling

(* The event that a poll is at is done with: recorded, or not owed.        *)
LEMMA HandledOK ==
    ASSUME IInv, NEW r \in Replicas, poller[r].pc \in Working, poller[r].left # {},
           UNCHANGED chainVars, payments \subseteq payments',
           Owed(Current(r)) => Tx(Current(r)) \in payments',
           NEW p, p = Handled(r)
    PROVE  p \in PollRecord /\ PollOK(p)' /\ p.pc = "event" /\ p.from = poller[r].from
<1>. USE DEF IInv
<1>. DEFINE cur == Current(r)
<1>1. poller[r] \in PollRecord /\ PollOK(poller[r])
  BY DEF TypeOK, PollsInv
<1>2. p \in PollRecord
  BY <1>1 DEF Handled, PollRecord
<1>3. /\ p.pc = "event" /\ p.from = poller[r].from /\ p.to = poller[r].to
      /\ p.left = poller[r].left \ {cur} /\ p.failed = poller[r].failed
  BY <1>1 DEF Handled, PollRecord
<1>4. head' = head /\ mined' = mined /\ \A l : Owed(l)' <=> Owed(l)
  BY DEF chainVars, Owed
<1>. HIDE DEF cur
<1>5. \A l \in Logs : Owed(l) /\ mined[l] \in p.from .. p.to =>
            \/ l \in p.left
            \/ Tx(l) \in payments'
            \/ p.failed # NoBlock /\ p.failed <= mined[l]
  <2>1. Owed(cur) => Tx(cur) \in payments'
    BY DEF cur
  <2>. QED BY <1>1, <1>3, <2>1 DEF PollOK
<1>6. PollOK(p)'
  BY <1>1, <1>3, <1>4, <1>5 DEF PollOK, Polling, Working
<1>. QED BY <1>2, <1>3, <1>6

(* The event that a poll is at failed: the cursor will not pass its block. *)
LEMMA FailedOK ==
    ASSUME IInv, NEW r \in Replicas, poller[r].pc \in Working, poller[r].left # {},
           NEW p, p = Failed(r)
    PROVE  p \in PollRecord /\ PollOK(p) /\ p.pc = "event" /\ p.from = poller[r].from
<1>. USE DEF IInv
<1>. DEFINE cur == Current(r)
            f == IF poller[r].failed = NoBlock THEN mined[cur] ELSE poller[r].failed
<1>1. poller[r] \in PollRecord /\ PollOK(poller[r])
  BY DEF TypeOK, PollsInv
<1>2. poller[r].left \in SUBSET Logs
  BY <1>1 DEF PollRecord
<1>3. cur \in poller[r].left /\ \A k \in poller[r].left : mined[cur] <= mined[k]
  BY <1>2, EarliestExists DEF Current
<1>4. \A l \in Logs : mined[l] \in 0 .. head
  BY DEF TypeOK
<1>5. mined[cur] \in 1 .. poller[r].to /\ poller[r].to <= head
  BY <1>1, <1>2, <1>3, <1>4 DEF PollOK, Working
<1>. HIDE DEF cur
<1>6. p = [[poller[r] EXCEPT !.pc = "event", !.usd = 0, !.left = @ \ {cur}] EXCEPT !.failed = f]
  BY <1>1 DEF Failed, Handled, PollRecord, cur
<1>7. f \in 1 .. poller[r].to
  BY <1>1, <1>5 DEF PollOK, Working, PollRecord, NoBlock
<1>8. \A k \in poller[r].left : f <= mined[k]
  BY <1>1, <1>3 DEF PollOK
<1>9. poller[r].failed # NoBlock => f = poller[r].failed
  OBVIOUS
<1>. HIDE DEF f
<1>10. p \in PollRecord
  <2>1. f \in 0 .. MaxBlock
    BY <1>1, <1>7, PaymentsAssumption DEF PollRecord
  <2>. DEFINE h == [poller[r] EXCEPT !.pc = "event", !.usd = 0, !.left = @ \ {cur}]
  <2>2. h \in PollRecord
    BY <1>1 DEF PollRecord
  <2>3. p = [h EXCEPT !.failed = f]
    BY <1>6
  <2>. HIDE DEF h
  <2>. QED BY <2>1, <2>2, <2>3 DEF PollRecord
<1>11. /\ p.pc = "event" /\ p.from = poller[r].from /\ p.to = poller[r].to
       /\ p.left = poller[r].left \ {cur} /\ p.failed = f
  BY <1>1, <1>6 DEF PollRecord
<1>12. \A l \in Logs : Owed(l) /\ mined[l] \in p.from .. p.to =>
            \/ l \in p.left
            \/ Tx(l) \in payments
            \/ p.failed # NoBlock /\ p.failed <= mined[l]
  BY <1>1, <1>7, <1>8, <1>9, <1>11 DEF PollOK, NoBlock
<1>13. /\ p.from >= 1 /\ p.from <= p.to /\ p.to <= head /\ p.failed <= p.to
       /\ \A l \in p.left : mined[l] \in p.from .. p.to /\ mined[l] >= 1
       /\ \A l \in p.left : p.failed <= mined[l]
  BY <1>1, <1>7, <1>8, <1>11 DEF PollOK, Polling, Working
<1>14. PollOK(p)
  BY <1>11, <1>12, <1>13 DEF PollOK, Polling, Working
<1>. QED BY <1>10, <1>11, <1>14

LEMMA QuoteStep ==
    ASSUME IInv, NEW r \in Replicas, NEW price \in Prices, Quote(r, price)
    PROVE  IInv'
<1>. USE DEF IInv
<1>. DEFINE cur == Current(r)
            usd == NilToMicrodollars(Burned(cur), price)
            credit == Tx(cur) \notin payments /\ From(cur) \in accounts /\ usd > 0
<1>1. /\ poller[r].pc = "event" /\ poller[r].left # {}
      /\ poller' = [poller EXCEPT ![r] = IF credit
            THEN [poller[r] EXCEPT !.pc = "insert", !.usd = usd] ELSE Handled(r)]
      /\ UNCHANGED <<accountVars, chainVars, cursor, lock, payments, faults>>
  BY DEF Quote, TypeOK
<1>2. poller[r] \in PollRecord /\ PollOK(poller[r])
  BY DEF TypeOK, PollsInv
<1>3. cur \in Logs /\ cur = Pick(Earliest(poller[r].left))
  <2>1. poller[r].left \in SUBSET Logs
    BY <1>2 DEF PollRecord
  <2>. QED BY <1>1, <2>1, EarliestExists DEF Current
<1>4. usd \in Nat /\ usd \in Worth(cur)
  BY <1>3, WorthNat DEF Worth
<1>5. NoBurnPassed'
  BY <1>1, NoBurnPassedKept
<1>. HIDE DEF cur, usd
<1>6. CASE credit
  <2>. DEFINE p == [poller[r] EXCEPT !.pc = "insert", !.usd = usd]
  <2>1. p \in PollRecord
    BY <1>2, <1>4 DEF PollRecord
  <2>2. /\ p.pc = "insert" /\ p.from = poller[r].from /\ p.to = poller[r].to
        /\ p.left = poller[r].left /\ p.failed = poller[r].failed /\ p.usd = usd
    BY <1>2 DEF PollRecord
  <2>3. poller' = [poller EXCEPT ![r] = p]
    BY <1>1, <1>6
  <2>. HIDE DEF p
  <2>4. PollOK(p)
    BY <1>1, <1>2, <1>3, <1>4, <2>2 DEF PollOK, Polling, Working
  <2>. QED BY <1>1, <1>5, <2>1, <2>2, <2>3, <2>4, PollStep DEF TypeOK, CursorInv, Polling
<1>7. CASE ~credit
  <2>1. Owed(cur) => Tx(cur) \in payments'
    <3>1. Owed(cur) => From(cur) \in accounts /\ usd > 0
      BY <1>4 DEF Owed, KnownInv
    <3>. QED BY <1>1, <1>7, <3>1
  <2>2. PICK p : p = Handled(r)
    OBVIOUS
  <2>3. p \in PollRecord /\ PollOK(p)' /\ p.pc = "event" /\ p.from = poller[r].from
    BY <1>1, <2>1, <2>2, HandledOK DEF Working, cur
  <2>4. poller' = [poller EXCEPT ![r] = p]
    BY <1>1, <1>7, <2>2
  <2>5. PollOK(p)
    <3>1. head' = head /\ mined' = mined /\ known' = known /\ payments' = payments
      BY <1>1 DEF chainVars
    <3>. QED BY <2>3, <3>1 DEF PollOK, Owed, Earliest
  <2>. QED BY <1>1, <1>5, <2>3, <2>4, <2>5, PollStep DEF TypeOK, CursorInv, Polling
<1>. QED BY <1>6, <1>7

(* processEvent fails at any of its statements.                            *)
LEMMA FailedStep ==
    ASSUME IInv, NEW r \in Replicas, PriceUnavailable(r) \/ DbFails(r)
    PROVE  IInv'
<1>. USE DEF IInv
<1>1. PollOK(poller[r])
  BY DEF PollsInv
<1>2. /\ poller[r].pc \in Working /\ poller[r].left # {}
      /\ poller' = [poller EXCEPT ![r] = Failed(r)]
      /\ UNCHANGED <<accountVars, chainVars, cursor, lock, payments>>
  BY <1>1 DEF PriceUnavailable, DbFails, Working, PollOK
<1>3. faults' \in 0 .. MaxFaults
  BY PaymentsAssumption DEF PriceUnavailable, DbFails, Fault, TypeOK
<1>4. PICK p : p = Failed(r)
  OBVIOUS
<1>5. p \in PollRecord /\ PollOK(p) /\ p.pc = "event" /\ p.from = poller[r].from
  BY <1>2, <1>4, FailedOK
<1>6. NoBurnPassed'
  BY <1>2, NoBurnPassedKept
<1>. QED BY <1>2, <1>3, <1>4, <1>5, <1>6, PollStep DEF TypeOK, CursorInv, Polling, Working

(* The cursor passes what is recorded, and stops before what failed.       *)
LEMMA AdvanceStep ==
    ASSUME IInv, NEW r \in Replicas, Advance(r)
    PROVE  IInv'
<1>. USE DEF IInv
<1>. DEFINE q == poller[r]
<1>1. /\ q.pc = "event" /\ q.left = {} /\ lock = r
      /\ poller' = [poller EXCEPT ![r] = Idle]
      /\ lock' = NoReplica
      /\ cursor' = IF q.failed = NoBlock THEN q.to
                   ELSE IF q.failed <= q.from THEN cursor ELSE q.failed - 1
      /\ UNCHANGED <<accountVars, chainVars, payments, faults>>
  BY DEF Advance, Finish, Unlock
<1>2. q \in PollRecord /\ PollOK(q)
  BY DEF TypeOK, PollsInv
<1>3. q.from = cursor + 1 /\ cursor # NoCursor /\ cursor >= StartBlock - 1
  BY <1>1 DEF CursorInv
<1>4. /\ q.from \in Nat /\ q.to \in Nat /\ q.failed \in Nat /\ cursor \in Int /\ head \in Nat
      /\ q.from >= 1 /\ q.from <= q.to /\ q.to <= head /\ q.failed <= q.to
  BY <1>1, <1>2, PaymentsAssumption DEF PollRecord, TypeOK, PollOK, Polling, Working, NoCursor
<1>5. \A l \in Logs : Owed(l) /\ mined[l] \in q.from .. q.to =>
        Tx(l) \in payments \/ (q.failed # NoBlock /\ q.failed <= mined[l])
  BY <1>1, <1>2 DEF PollOK, Working
<1>6. \A l \in Logs : mined[l] \in Nat
  BY DEF TypeOK
<1>. HIDE DEF q
<1>7. Idle \in PollRecord /\ PollOK(Idle) /\ Idle.pc = "idle"
  BY DownIdleOK
<1>8. /\ cursor' \in 0 .. head /\ cursor' >= StartBlock - 1 /\ cursor' # NoCursor
      /\ \A n \in Nat : n <= cursor' => n <= cursor \/ (n \in q.from .. q.to
                                          /\ ~(q.failed # NoBlock /\ q.failed <= n))
  BY <1>1, <1>3, <1>4, PaymentsAssumption DEF NoBlock, NoCursor, TypeOK
<1>9. NoBurnPassed'
  <2>1. ASSUME NEW l \in Logs, Owed(l), cursor' >= mined[l]
        PROVE  Tx(l) \in payments
    <3>1. CASE mined[l] <= cursor
      BY <1>6, <2>1, <3>1, <1>4 DEF NoBurnPassed
    <3>2. CASE ~(mined[l] <= cursor)
      <4>1. mined[l] \in q.from .. q.to /\ ~(q.failed # NoBlock /\ q.failed <= mined[l])
        BY <1>6, <1>8, <2>1, <3>2
      <4>. QED BY <1>5, <2>1, <4>1
    <3>. QED BY <3>1, <3>2
  <2>2. mined' = mined /\ known' = known /\ payments' = payments
    BY <1>1 DEF chainVars
  <2>3. \A l : Owed(l)' <=> Owed(l)
    BY <2>2 DEF Owed
  <2>. QED BY <2>1, <2>2, <2>3 DEF NoBurnPassed
<1>10. lock' # r
  BY <1>1, PaymentsAssumption DEF NoReplica
<1>. QED BY <1>1, <1>7, <1>8, <1>9, <1>10, PollStep DEF TypeOK

LEMMA LockLostStep ==
    ASSUME IInv, NEW r \in Replicas, LockLost(r)
    PROVE  IInv'
<1>. USE DEF IInv
<1>. DEFINE p == poller[r]
<1>1. p \in PollRecord /\ PollOK(p) /\ poller' = [poller EXCEPT ![r] = p]
  BY DEF LockLost, TypeOK, PollsInv
<1>2. /\ lock' = NoReplica /\ lock' # r
      /\ UNCHANGED <<accountVars, chainVars, cursor, payments>>
      /\ faults' \in 0 .. MaxFaults
  BY PaymentsAssumption DEF LockLost, Fault, TypeOK, NoReplica
<1>3. p.pc # "down" => cursor # NoCursor
  BY DEF CursorInv
<1>4. NoBurnPassed'
  BY <1>2, NoBurnPassedKept
<1>. HIDE DEF p
<1>. QED BY <1>1, <1>2, <1>3, <1>4, PollStep DEF TypeOK, CursorInv

(* A new block is beyond every poll and the cursor.                        *)
LEMMA MineStep ==
    ASSUME IInv, NEW new \in SUBSET Logs, Mine(new)
    PROVE  IInv'
<1>. USE DEF IInv
<1>1. /\ head' = head + 1 /\ head < MaxBlock
      /\ mined' = [l \in Logs |-> IF l \in new THEN head + 1 ELSE mined[l]]
      /\ known' = known \cup {l \in new : From(l) \in accounts}
      /\ \A l \in new : mined[l] = 0
      /\ UNCHANGED <<accountVars, cursor, lock, payments, poller, faults>>
  BY DEF Mine
<1>2. /\ head \in Nat /\ mined \in [Logs -> 0 .. head] /\ MaxBlock \in Nat
      /\ known \subseteq Logs /\ StartBlock \in Nat \ {0}
  BY PaymentsAssumption DEF TypeOK
<1>3. \A l \in Logs : /\ mined'[l] \in 0 .. head'
                      /\ mined'[l] = IF l \in new THEN head + 1 ELSE mined[l]
  BY <1>1, <1>2
<1>4. TypeOK'
  <2>1. head' \in 0 .. MaxBlock
    BY <1>1, <1>2
  <2>2. mined' \in [Logs -> 0 .. head']
    BY <1>1, <1>3
  <2>3. known' \subseteq Logs
    BY <1>1, <1>2
  <2>4. cursor' \in {NoCursor, StartBlock - 1} \cup 0 .. head'
    BY <1>1, <1>2 DEF TypeOK
  <2>5. AccountsTypeOK'
    BY <1>1 DEF TypeOK, AccountsTypeOK, accountVars
  <2>. QED BY <1>1, <2>1, <2>2, <2>3, <2>4, <2>5 DEF TypeOK
<1>5. CursorInv'
  BY <1>1 DEF CursorInv
<1>6. KnownInv'
  BY <1>1, <1>2, <1>3 DEF KnownInv, accountVars
<1>7. \A l \in Logs : Owed(l)' => Owed(l) \/ mined'[l] = head + 1
  BY <1>1, <1>3 DEF Owed
<1>8. NoBurnPassed'
  <2>1. ASSUME NEW l \in Logs, Owed(l)', cursor >= mined'[l]
        PROVE  Tx(l) \in payments
    <3>1. mined'[l] >= StartBlock /\ mined'[l] \in Nat
      BY <1>3, <2>1 DEF Owed
    <3>2. cursor <= head
      BY <1>2, <2>1, <3>1 DEF TypeOK, NoCursor
    <3>3. mined'[l] # head + 1
      BY <1>2, <2>1, <3>1, <3>2 DEF TypeOK, NoCursor
    <3>4. Owed(l) /\ mined'[l] = mined[l]
      BY <1>3, <1>7, <2>1, <3>3
    <3>. QED BY <2>1, <3>4 DEF NoBurnPassed
  <2>. QED BY <1>1, <2>1 DEF NoBurnPassed
<1>9. ASSUME NEW r \in Replicas
      PROVE  PollOK(poller[r])'
  <2>1. PICK p : p = poller[r]
    OBVIOUS
  <2>2. p \in PollRecord /\ PollOK(p) /\ poller'[r] = p
    BY <1>1, <2>1 DEF TypeOK, PollsInv
  <2>3. \A l \in p.left : l \in Logs /\ mined'[l] = mined[l]
    <3>1. \A l \in p.left : l \in Logs /\ mined[l] >= 1
      BY <2>2 DEF PollRecord, PollOK
    <3>. QED BY <1>1, <1>3, <3>1
  <2>4. Earliest(p.left)' = Earliest(p.left)
    BY <2>3 DEF Earliest
  <2>5. p.pc \in Working => \A l \in Logs :
        Owed(l)' /\ mined'[l] \in p.from .. p.to => Owed(l) /\ mined'[l] = mined[l]
    <3>1. p.pc \in Working => p.to <= head /\ p.to \in Nat /\ p.from \in Nat
      BY <2>2, PaymentsAssumption DEF PollOK, PollRecord
    <3>2. ASSUME p.pc \in Working, NEW l \in Logs, Owed(l)', mined'[l] \in p.from .. p.to
          PROVE  Owed(l) /\ mined'[l] = mined[l]
      <4>1. mined'[l] # head + 1
        BY <1>2, <3>1, <3>2
      <4>. QED BY <1>3, <1>7, <3>2, <4>1
    <3>. QED BY <3>2
  <2>6. p.pc \in Working => p.to <= head'
    BY <1>1, <1>2, <2>2 DEF PollOK, PollRecord
  <2>7. PollOK(p)'
    BY <1>1, <2>2, <2>3, <2>4, <2>5, <2>6 DEF PollOK
  <2>. QED BY <2>2, <2>7 DEF PollOK, Earliest, Owed
<1>10. PollsInv'
  BY <1>9 DEF PollsInv
<1>11. BalanceInv' /\ BalanceExact'
  BY <1>1 DEF BalanceInv, BalanceExact, accountVars
<1>. QED BY <1>4, <1>5, <1>6, <1>8, <1>10, <1>11

-----------------------------------------------------------------------------
(* The accounts: what a step does to a balance it does to what is due.     *)

AccountsInv == AccountsTypeOK /\ BalanceInv /\ BalanceExact

(* A whole amount is added to the account of w, whose row is free.         *)
LEMMA AddStep ==
    ASSUME AccountsInv, NEW w \in Wallets, NEW amount \in Int, RowFree(w), Add(w, amount),
           (\A a \in Amounts : a >= 0) => amount >= 0,
           UNCHANGED <<rename, deduct, clobbered>>,
           accounts \subseteq accounts', accounts' \subseteq Wallets,
           changes' \in 0 .. MaxChanges
    PROVE  AccountsInv'
<1>. USE DEF AccountsInv
<1>1. /\ \A v \in Wallets : balance'[v] = IF v = w THEN balance[w] + amount ELSE balance[v]
      /\ \A v \in Wallets : due'[v] = IF v = w THEN due[w] + amount ELSE due[v]
      /\ balance' \in [Wallets -> Int] /\ due' \in [Wallets -> Int]
      /\ \A v \in Wallets : balance[v] \in Int
  BY DEF Add, AccountsTypeOK
<1>2. AccountsTypeOK'
  BY <1>1 DEF AccountsTypeOK
<1>3. BalanceInv'
  <2>1. ASSUME NEW v \in Wallets, deduct[v] # NoTx
        PROVE  v \in accounts' /\ deduct[v].balance = balance'[v]
    BY <1>1, <2>1 DEF BalanceInv, RowFree
  <2>2. ASSUME \A a \in Amounts : a >= 0, NEW v \in Wallets
        PROVE  balance'[v] >= 0 /\ rename[v].balance >= 0
    BY <1>1, <2>2 DEF BalanceInv
  <2>. QED BY <2>1, <2>2 DEF BalanceInv
<1>4. BalanceExact'
  BY <1>1 DEF BalanceExact
<1>. QED BY <1>2, <1>3, <1>4

LEMMA ChangeBounded ==
    ASSUME AccountsTypeOK, Change
    PROVE  changes' \in 0 .. MaxChanges
  BY AccountsAssumption DEF AccountsTypeOK, Change

LEMMA RenameStep ==
    ASSUME AccountsInv, NEW w \in Wallets,
           RenameRead(w) \/ RenameCompare(w) \/ RenameWrite(w)
    PROVE  AccountsInv'
<1>. USE DEF AccountsInv
<1>1. CASE RenameRead(w)
  <2>1. changes' \in 0 .. MaxChanges
    BY <1>1, ChangeBounded DEF RenameRead
  <2>2. /\ rename' = [rename EXCEPT ![w] = [pc |-> "read", balance |-> balance[w]]]
        /\ UNCHANGED <<accounts, balance, deduct, due, clobbered>>
    BY <1>1 DEF RenameRead
  <2>3. AccountsTypeOK'
    BY <2>1, <2>2 DEF AccountsTypeOK, RenameTx
  <2>4. \A v \in Wallets : rename'[v].balance \in {rename[v].balance, balance[v]}
    BY <2>2 DEF AccountsTypeOK
  <2>5. BalanceInv' /\ BalanceExact'
    BY <2>2, <2>4 DEF BalanceInv, BalanceExact
  <2>. QED BY <2>3, <2>5
<1>2. CASE RenameCompare(w)
  <2>. DEFINE pc == IF rename[w].balance = balance[w] THEN "name" ELSE "all"
  <2>1. /\ rename' = [rename EXCEPT ![w].pc = pc] /\ rename[w].pc = "read"
        /\ UNCHANGED <<accounts, balance, deduct, due, clobbered, changes>>
    BY <1>2 DEF RenameCompare
  <2>2. rename[w] \in RenameTx
    BY <2>1 DEF AccountsTypeOK, NoTx
  <2>3. pc \in {"name", "all"}
    OBVIOUS
  <2>. HIDE DEF pc
  <2>4. [rename[w] EXCEPT !.pc = pc] \in RenameTx
        /\ [rename[w] EXCEPT !.pc = pc].balance = rename[w].balance
    BY <2>2, <2>3 DEF RenameTx
  <2>5. AccountsTypeOK'
    BY <2>1, <2>4 DEF AccountsTypeOK
  <2>6. \A v \in Wallets : rename'[v].balance = rename[v].balance
    BY <2>1, <2>4 DEF AccountsTypeOK
  <2>7. BalanceInv' /\ BalanceExact'
    BY <2>1, <2>6 DEF BalanceInv, BalanceExact
  <2>. QED BY <2>5, <2>7
<1>3. CASE RenameWrite(w)
  <2>1. /\ rename' = [rename EXCEPT ![w] = NoTx] /\ RowFree(w)
        /\ rename[w].pc \in {"name", "all"}
        /\ UNCHANGED <<accounts, deduct, due, changes>>
        /\ \/ UNCHANGED <<balance, clobbered>>
           \/ /\ balance' = [balance EXCEPT ![w] = rename[w].balance]
              /\ clobbered' = clobbered \cup {w}
    BY <1>3, Zenon DEF RenameWrite
  <2>2. rename[w].balance \in Int
    BY <2>1 DEF AccountsTypeOK, NoTx, RenameTx
  <2>3. AccountsTypeOK'
    BY <2>1, <2>2 DEF AccountsTypeOK
  <2>4. \A v \in Wallets : v # w => balance'[v] = balance[v] /\ rename'[v] = rename[v]
    BY <2>1 DEF AccountsTypeOK
  <2>5. /\ rename'[w].balance = 0
        /\ balance'[w] \in {balance[w], rename[w].balance}
    BY <2>1 DEF AccountsTypeOK, NoTx
  <2>6. BalanceInv'
    BY <2>1, <2>4, <2>5 DEF BalanceInv, RowFree
  <2>7. BalanceExact'
    BY <2>1, <2>4 DEF BalanceExact
  <2>. QED BY <2>3, <2>6, <2>7
<1>. QED BY <1>1, <1>2, <1>3

(* What a heartbeat leaves of a balance.                                   *)
LEMMA DeductedInt ==
    ASSUME NEW b \in Int, NEW c \in Nat
    PROVE  /\ Deducted(b, c) \in Int
           /\ Deducted(b, c) >= 0
           /\ b >= 0 => Deducted(b, c) <= b
  BY MoneyAssumption DEF Deducted, IsBalanceDepleted

LEMMA DeductStep ==
    ASSUME AccountsInv, NEW w \in Wallets,
           DeductLock(w) \/ DeductRollback(w) \/ \E c \in Costs : DeductCommit(w, c)
    PROVE  AccountsInv'
<1>. USE DEF AccountsInv
<1>1. CASE DeductLock(w)
  <2>1. changes' \in 0 .. MaxChanges
    BY <1>1, ChangeBounded DEF DeductLock
  <2>2. /\ deduct' = [deduct EXCEPT ![w] = [pc |-> "locked", balance |-> balance[w]]]
        /\ w \in accounts
        /\ UNCHANGED <<accounts, balance, rename, due, clobbered>>
    BY <1>1 DEF DeductLock
  <2>3. AccountsTypeOK'
    BY <2>1, <2>2 DEF AccountsTypeOK, DeductTx
  <2>4. BalanceInv' /\ BalanceExact'
    BY <2>2 DEF BalanceInv, BalanceExact, AccountsTypeOK
  <2>. QED BY <2>3, <2>4
<1>2. CASE DeductRollback(w)
  <2>1. /\ deduct' = [deduct EXCEPT ![w] = NoTx]
        /\ UNCHANGED <<accounts, balance, rename, due, clobbered, changes>>
    BY <1>2 DEF DeductRollback
  <2>2. AccountsTypeOK'
    BY <2>1 DEF AccountsTypeOK
  <2>3. BalanceInv' /\ BalanceExact'
    BY <2>1 DEF BalanceInv, BalanceExact, AccountsTypeOK
  <2>. QED BY <2>2, <2>3
<1>3. ASSUME NEW c \in Costs, DeductCommit(w, c)
      PROVE  AccountsInv'
  <2>. DEFINE b == balance[w]
              left == Deducted(b, c)
  <2>1. deduct[w].balance = b /\ deduct[w] # NoTx
    BY <1>3 DEF DeductCommit, BalanceInv
  <2>2. /\ balance' = [balance EXCEPT ![w] = left]
        /\ due' = [due EXCEPT ![w] = @ - (b - left)]
        /\ deduct' = [deduct EXCEPT ![w] = NoTx]
        /\ UNCHANGED <<accounts, rename, clobbered, changes>>
    BY <1>3, <2>1 DEF DeductCommit
  <2>3. b \in Int /\ left \in Int /\ left >= 0 /\ due[w] \in Int
    BY DeductedInt, AccountsAssumption DEF AccountsTypeOK
  <2>. HIDE DEF left
  <2>4. AccountsTypeOK'
    BY <2>2, <2>3 DEF AccountsTypeOK
  <2>5. BalanceInv'
    BY <2>2, <2>3 DEF BalanceInv, AccountsTypeOK
  <2>6. BalanceExact'
    BY <2>2, <2>3 DEF BalanceExact, AccountsTypeOK
  <2>. QED BY <2>4, <2>5, <2>6
<1>. QED BY <1>1, <1>2, <1>3

(* Administrators and heartbeats.                                          *)
LEMMA AccountsStep ==
    ASSUME AccountsInv, AccountsNext
    PROVE  AccountsInv' /\ accounts \subseteq accounts'
<1>1. PICK w \in Wallets :
        \/ \E a \in Amounts : CreateAccount(w, a) \/ AddBalance(w, a)
        \/ RenameRead(w) \/ RenameCompare(w) \/ RenameWrite(w)
        \/ DeductLock(w) \/ DeductRollback(w)
        \/ \E c \in Costs : DeductCommit(w, c)
  BY DEF AccountsNext
<1>2. ASSUME NEW a \in Amounts, CreateAccount(w, a) \/ AddBalance(w, a)
      PROVE  AccountsInv' /\ accounts \subseteq accounts'
  <2>1. changes' \in 0 .. MaxChanges
    BY <1>2, ChangeBounded DEF CreateAccount, AddBalance, AccountsInv
  <2>2. RowFree(w)
    BY <1>2 DEF CreateAccount, SaveAccount, AddBalance, RowFree, AccountsInv, BalanceInv
  <2>3. /\ accounts \subseteq accounts' /\ accounts' \subseteq Wallets
        /\ Add(w, a) /\ UNCHANGED <<rename, deduct, clobbered>>
    BY <1>2 DEF CreateAccount, SaveAccount, AddBalance, AccountsInv, AccountsTypeOK
  <2>. QED BY <2>1, <2>2, <2>3, AddStep, AccountsAssumption
<1>3. CASE RenameRead(w) \/ RenameCompare(w) \/ RenameWrite(w)
  BY <1>3, RenameStep DEF RenameRead, RenameCompare, RenameWrite
<1>4. CASE DeductLock(w) \/ DeductRollback(w) \/ \E c \in Costs : DeductCommit(w, c)
  BY <1>4, DeductStep DEF DeductLock, DeductRollback, DeductCommit
<1>. QED BY <1>1, <1>2, <1>3, <1>4

-----------------------------------------------------------------------------
(* The payment and the rest of the next-state relation.                    *)

(* What an insert records and adds.                                        *)
LEMMA InsertFacts ==
    ASSUME IInv, NEW r \in Replicas, poller[r].pc = "insert"
    PROVE  /\ poller[r].left # {} /\ Current(r) \in Logs
           /\ From(Current(r)) \in Wallets
           /\ poller[r].usd \in Worth(Current(r))
           /\ poller[r].usd \in Nat
<1>1. poller[r] \in PollRecord /\ PollOK(poller[r]) /\ TypeOK
  BY DEF IInv, TypeOK, PollsInv
<1>2. poller[r].left \in SUBSET Logs /\ poller[r].left # {} /\ poller[r].usd \in Nat
  BY <1>1 DEF PollRecord, PollOK
<1>3. Current(r) \in Logs
  BY <1>1, <1>2, EarliestExists DEF Current
<1>4. poller[r].usd \in Worth(Current(r))
  BY <1>1 DEF PollOK, Current
<1>. QED BY <1>2, <1>3, <1>4, PaymentsAssumption

LEMMA InsertStep ==
    ASSUME IInv, NEW r \in Replicas, Insert(r)
    PROVE  IInv'
<1>. USE DEF IInv
<1>. DEFINE cur == Current(r)
<1>1. /\ poller[r].pc = "insert"
      /\ poller' = [poller EXCEPT ![r] = Handled(r)]
      /\ UNCHANGED <<accounts, rename, deduct, clobbered, changes,
                     chainVars, cursor, lock, faults>>
      /\ IF Tx(cur) \in payments THEN UNCHANGED <<payments, balance, due>>
         ELSE /\ RowFree(From(cur))
              /\ payments' = payments \cup {Tx(cur)}
              /\ Add(From(cur), poller[r].usd)
  BY DEF Insert
<1>2. /\ poller[r].left # {} /\ cur \in Logs
      /\ From(cur) \in Wallets
      /\ poller[r].usd \in Nat
  BY <1>1, InsertFacts
<1>. HIDE DEF cur
<1>3. /\ payments \subseteq payments' /\ Tx(cur) \in payments'
      /\ payments' \subseteq {Tx(l) : l \in Logs}
  BY <1>1, <1>2 DEF TypeOK
<1>4. AccountsInv'
  <2>1. AccountsInv
    BY DEF AccountsInv, TypeOK
  <2>2. CASE Tx(cur) \in payments
    BY <1>1, <2>1, <2>2 DEF AccountsInv, AccountsTypeOK, BalanceInv, BalanceExact
  <2>3. CASE Tx(cur) \notin payments
    <3>1. /\ RowFree(From(cur)) /\ Add(From(cur), poller[r].usd)
          /\ UNCHANGED <<accounts, rename, deduct, clobbered, changes>>
      BY <1>1, <2>3
    <3>2. /\ accounts \subseteq accounts' /\ accounts' \subseteq Wallets
          /\ changes' \in 0 .. MaxChanges
          /\ poller[r].usd \in Int /\ poller[r].usd >= 0
      BY <1>2, <3>1 DEF TypeOK, AccountsTypeOK
    <3>. QED BY <1>2, <2>1, <3>1, <3>2, AddStep
  <2>. QED BY <2>2, <2>3
<1>5. PICK p : p = Handled(r)
  OBVIOUS
<1>6. p \in PollRecord /\ PollOK(p)' /\ p.pc = "event" /\ p.from = poller[r].from
  BY <1>1, <1>2, <1>3, <1>5, HandledOK DEF Working, cur
<1>7. /\ poller' \in [Replicas -> PollRecord]
      /\ PollsInv'
      /\ poller'[r] = p
      /\ \A s \in Replicas : s # r => poller'[s] = poller[s]
  BY <1>1, <1>3, <1>5, <1>6, ReplicaStep
<1>8. TypeOK'
  BY <1>1, <1>3, <1>4, <1>7 DEF TypeOK, AccountsInv, chainVars
<1>9. CursorInv'
  BY <1>1, <1>6, <1>7 DEF CursorInv, Polling
<1>10. KnownInv'
  BY <1>1 DEF KnownInv, chainVars
<1>11. NoBurnPassed'
  BY <1>1, <1>3, NoBurnPassedKept
<1>. QED BY <1>4, <1>7, <1>8, <1>9, <1>10, <1>11 DEF AccountsInv

LEMMA AccountsNextStep ==
    ASSUME IInv, AccountsNext, UNCHANGED <<chainVars, cursor, lock, payments, poller, faults>>
    PROVE  IInv'
<1>. USE DEF IInv
<1>1. AccountsInv' /\ accounts \subseteq accounts'
  <2>1. AccountsInv
    BY DEF AccountsInv, TypeOK
  <2>. QED BY <2>1, AccountsStep
<1>2. TypeOK'
  BY <1>1 DEF TypeOK, AccountsInv, chainVars
<1>3. CursorInv' /\ KnownInv'
  BY <1>1 DEF CursorInv, KnownInv, chainVars
<1>4. NoBurnPassed'
  BY NoBurnPassedKept
<1>5. PollsInv'
  BY Zenon DEF PollsInv, PollOK, Earliest, Owed, chainVars
<1>. QED BY <1>1, <1>2, <1>3, <1>4, <1>5 DEF AccountsInv

LEMMA InitInv ==
    ASSUME Init
    PROVE  IInv
<1>1. /\ head = 0 /\ mined = [l \in Logs |-> 0] /\ known = {}
      /\ cursor = NoCursor /\ lock = NoReplica /\ payments = {}
      /\ poller = [r \in Replicas |-> Down] /\ faults = 0
      /\ AccountsInit
  BY DEF Init
<1>2. AccountsInv
  BY <1>1, AccountsAssumption
     DEF AccountsInv, AccountsInit, AccountsTypeOK, BalanceInv, BalanceExact, NoTx
<1>3. TypeOK
  <2>1. Down \in PollRecord
    BY PaymentsAssumption DEF Down, PollRecord, NoBlock
  <2>. QED BY <1>1, <1>2, <2>1, PaymentsAssumption DEF TypeOK, AccountsInv
<1>4. CursorInv
  BY <1>1, PaymentsAssumption DEF CursorInv, NoReplica, Down
<1>5. PollsInv
  BY <1>1, <1>3, DownIdleOK DEF PollsInv
<1>6. KnownInv /\ NoBurnPassed
  BY <1>1 DEF KnownInv, NoBurnPassed, Owed
<1>. QED BY <1>2, <1>3, <1>4, <1>5, <1>6 DEF IInv, AccountsInv

LEMMA NextInv ==
    ASSUME IInv, [Next]_vars
    PROVE  IInv'
<1>1. CASE UNCHANGED vars
  BY <1>1, Zenon DEF IInv, TypeOK, AccountsTypeOK, CursorInv, PollsInv, PollOK, Earliest, Owed,
        KnownInv, BalanceInv, BalanceExact, NoBurnPassed, vars, accountVars, chainVars
<1>2. ASSUME NEW new \in SUBSET Logs, Mine(new)
      PROVE  IInv'
  BY <1>2, MineStep
<1>3. CASE AccountsNext /\ UNCHANGED <<chainVars, cursor, lock, payments, poller, faults>>
  BY <1>3, AccountsNextStep
<1>4. ASSUME NEW r \in Replicas,
             Step(r) \/ RpcFails(r) \/ PriceUnavailable(r)
                \/ DbFails(r) \/ LockLost(r) \/ Crash(r)
      PROVE  IInv'
  <2>1. CASE Start(r)
    BY <2>1, StartStep
  <2>2. CASE Poll(r)
    BY <2>2, PollPoll
  <2>3. CASE NothingNew(r) \/ AdvanceFails(r)
    <3>1. /\ Finish(r) /\ poller[r].pc # "down"
          /\ UNCHANGED <<accountVars, chainVars, cursor, payments, faults>>
      BY <2>3 DEF NothingNew, AdvanceFails
    <3>. QED BY <3>1, FinishStep DEF IInv, TypeOK
  <2>4. CASE GetLogs(r)
    BY <2>4, GetLogsStep
  <2>5. CASE \E p \in Prices : Quote(r, p)
    BY <2>5, QuoteStep
  <2>6. CASE Insert(r)
    BY <2>6, InsertStep
  <2>7. CASE Advance(r)
    BY <2>7, AdvanceStep
  <2>8. CASE RpcFails(r)
    <3>1. /\ Finish(r) /\ poller[r].pc # "down"
          /\ UNCHANGED <<accountVars, chainVars, cursor, payments>>
      BY <2>8 DEF RpcFails
    <3>2. faults' \in 0 .. MaxFaults
      BY <2>8, PaymentsAssumption DEF RpcFails, Fault, IInv, TypeOK
    <3>. QED BY <3>1, <3>2, FinishStep
  <2>9. CASE PriceUnavailable(r) \/ DbFails(r)
    BY <2>9, FailedStep
  <2>10. CASE LockLost(r)
    BY <2>10, LockLostStep
  <2>11. CASE Crash(r)
    BY <2>11, CrashStep
  <2>. QED BY <1>4, <2>1, <2>2, <2>3, <2>4, <2>5, <2>6, <2>7, <2>8, <2>9, <2>10, <2>11 DEF Step
<1>. QED BY <1>1, <1>2, <1>3, <1>4 DEF Next

LEMMA Invariance == Spec => []IInv
  BY InitInv, NextInv, PTL DEF Spec

(* Payments: the state has its type; in particular the cursor is never     *)
(* ahead of the chain, unless it was seeded there.                         *)
THEOREM TypeCorrect == Spec => []TypeOK
<1>1. IInv => TypeOK
  BY DEF IInv
<1>. QED BY <1>1, Invariance, PTL

(* No credit, deposit or charge of an account is lost and none is made     *)
(* twice, save for the accounts that a rename overwrote: the updates of    *)
(* account.service.ts, and the credits of payment.service.ts.              *)
THEOREM BalancesExact == Spec => []BalanceExact
<1>1. IInv => BalanceExact
  BY DEF IInv
<1>. QED BY <1>1, Invariance, PTL

(* The cursor never passes a burn that is owed, whatever fails, crashes or *)
(* loses its lock: doPoll of payment-poller.ts.                            *)
THEOREM NoOwedBurnPassed == Spec => []NoBurnPassed
<1>1. IInv => NoBurnPassed
  BY DEF IInv
<1>. QED BY <1>1, Invariance, PTL

-----------------------------------------------------------------------------
(* Payments implements Ledger: an insert pays, the other steps of replicas *)
(* leave the ledger as it is, and the accounts' own steps deposit, charge  *)
(* or leave it as it is.                                                   *)

LEMMA InsertPays ==
    ASSUME IInv, NEW r \in Replicas, Insert(r)
    PROVE  LedgerOf!Next \/ UNCHANGED <<payments, due>>
<1>. DEFINE cur == Current(r)
<1>1. /\ poller[r].pc = "insert"
      /\ IF Tx(cur) \in payments THEN UNCHANGED <<payments, balance, due>>
         ELSE /\ payments' = payments \cup {Tx(cur)}
              /\ Add(From(cur), poller[r].usd)
  BY DEF Insert
<1>2. cur \in Logs /\ poller[r].usd \in Worth(cur)
  BY <1>1, InsertFacts
<1>. HIDE DEF cur
<1>3. CASE Tx(cur) \in payments
  BY <1>1, <1>3
<1>4. CASE Tx(cur) \notin payments
  <2>1. From(cur) \in Payee(Tx(cur)) /\ poller[r].usd \in WorthOf(Tx(cur))
    BY <1>2 DEF Payee, WorthOf
  <2>2. /\ payments' = payments \cup {Tx(cur)}
        /\ due' = [due EXCEPT ![From(cur)] = @ + poller[r].usd]
    BY <1>1, <1>4 DEF Add
  <2>3. LedgerOf!Pay(Tx(cur))
    BY <1>4, <2>1, <2>2 DEF LedgerOf!Pay
  <2>. QED BY <1>2, <2>3 DEF LedgerOf!Next
<1>. QED BY <1>3, <1>4

LEMMA AccountsPay ==
    ASSUME IInv, AccountsNext, UNCHANGED payments
    PROVE  LedgerOf!Next \/ UNCHANGED <<payments, due>>
<1>1. PICK w \in Wallets :
        \/ \E a \in Amounts : CreateAccount(w, a) \/ AddBalance(w, a)
        \/ RenameRead(w) \/ RenameCompare(w) \/ RenameWrite(w)
        \/ DeductLock(w) \/ DeductRollback(w)
        \/ \E c \in Costs : DeductCommit(w, c)
  BY DEF AccountsNext
<1>2. ASSUME NEW a \in Amounts, CreateAccount(w, a) \/ AddBalance(w, a)
      PROVE  LedgerOf!Deposit(w)
  <2>1. due' = [due EXCEPT ![w] = @ + a]
    BY <1>2 DEF CreateAccount, SaveAccount, AddBalance, Add
  <2>. QED BY <2>1 DEF LedgerOf!Deposit
<1>3. ASSUME NEW c \in Costs, DeductCommit(w, c)
      PROVE  LedgerOf!Charge(w)
  <2>. DEFINE b == deduct[w].balance
              v == due[w] - (b - Deducted(b, c))
  <2>1. due' = [due EXCEPT ![w] = v]
    BY <1>3 DEF DeductCommit
  <2>2. /\ b = balance[w] /\ b \in Int /\ due[w] \in Int
        /\ due \in [Wallets -> Int]
    BY <1>3 DEF DeductCommit, IInv, BalanceInv, TypeOK, AccountsTypeOK
  <2>3. (\A a \in Amounts : a >= 0) => b >= 0
    BY <2>2 DEF IInv, BalanceInv
  <2>4. (\A a \in Amounts : a >= 0) => v <= due[w]
    <3>1. c \in Nat
      BY AccountsAssumption
    <3>2. Deducted(b, c) \in Int /\ (b >= 0 => Deducted(b, c) <= b)
      BY <2>2, <3>1, DeductedInt
    <3>. HIDE DEF b
    <3>. QED BY <2>2, <2>3, <3>2
  <2>. HIDE DEF v
  <2>5. due'[w] = v
    BY <2>1, <2>2
  <2>6. due'[w] <= due[w] \/ \E a \in Amounts : a < 0
    BY <2>4, <2>5, AccountsAssumption
  <2>. QED BY <2>1, <2>5, <2>6 DEF LedgerOf!Charge
<1>4. CASE \/ RenameRead(w) \/ RenameCompare(w) \/ RenameWrite(w)
           \/ DeductLock(w) \/ DeductRollback(w)
  BY <1>4 DEF RenameRead, RenameCompare, RenameWrite, DeductLock, DeductRollback
<1>. QED BY <1>1, <1>2, <1>3, <1>4 DEF LedgerOf!Next

LEMMA StepPays ==
    ASSUME IInv, [Next]_vars
    PROVE  LedgerOf!Next \/ UNCHANGED <<payments, due>>
<1>1. CASE UNCHANGED vars
  BY <1>1 DEF vars, accountVars
<1>2. ASSUME NEW new \in SUBSET Logs, Mine(new)
      PROVE  UNCHANGED <<payments, due>>
  BY <1>2 DEF Mine, accountVars
<1>3. CASE AccountsNext /\ UNCHANGED <<chainVars, cursor, lock, payments, poller, faults>>
  BY <1>3, AccountsPay
<1>4. ASSUME NEW r \in Replicas,
             Step(r) \/ RpcFails(r) \/ PriceUnavailable(r)
                \/ DbFails(r) \/ LockLost(r) \/ Crash(r)
      PROVE  LedgerOf!Next \/ UNCHANGED <<payments, due>>
  <2>1. CASE Insert(r)
    BY <2>1, InsertPays
  <2>2. CASE ~Insert(r)
    <3>1. UNCHANGED <<accountVars, payments>>
      BY <1>4, <2>2 DEF Step, Start, Poll, NothingNew, GetLogs, Quote, Advance, AdvanceFails,
            RpcFails, PriceUnavailable, DbFails, LockLost, Crash
    <3>. QED BY <3>1 DEF accountVars
  <2>. QED BY <2>1, <2>2
<1>. QED BY <1>1, <1>2, <1>3, <1>4 DEF Next

(* Each burn transaction is paid out at most once, to a wallet that burned *)
(* in it and by what it was worth, in the step that records it, even if    *)
(* several replicas process it: Payments implements Ledger.                *)
THEOREM PaidAtMostOnce == Spec => PaidOnce
<1>1. Init => LedgerOf!Init
  BY DEF Init, AccountsInit, LedgerOf!Init
<1>2. IInv /\ [Next]_vars => [LedgerOf!Next]_<<payments, due>>
  BY StepPays
<1>. QED BY <1>1, <1>2, Invariance, PTL DEF Spec, PaidOnce, LedgerOf!Spec

=============================================================================
