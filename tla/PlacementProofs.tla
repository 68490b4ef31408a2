-------------------------- MODULE PlacementProofs --------------------------
(***************************************************************************)
(* Theorems about Placement: for any workloads, instances, accounts,       *)
(* requests, demands, capacities, costs and faults.                        *)
(***************************************************************************)
EXTENDS Placement, WellFoundedInduction, TLAPS

-----------------------------------------------------------------------------
(* The records of requests and heartbeats.                                 *)

Creating == {"place", "agent", "dns", "commit"}
Deleting == {"erase", "unname", "delete", "end"}

ReqFields == {"op", "w", "i", "balance"}
HbFields == {"pc", "now", "charge", "late", "seen", "left", "gone"}

IsReq(q) ==
    \/ q = NoReq
    \/ /\ DOMAIN q = ReqFields
       /\ q.op \in Creating \cup Deleting
       /\ q.w \in Workloads

ReqShape == DOMAIN req = Reqs /\ \A r \in Reqs : IsReq(req[r])
HbShape == DOMAIN hb = Instances /\ \A i \in Instances : DOMAIN hb[i] = HbFields

(* One request, or one heartbeat, is replaced.                             *)
LEMMA ReqReplaced ==
    ASSUME ReqShape, NEW r \in Reqs, NEW q, req' = [req EXCEPT ![r] = q]
    PROVE  /\ DOMAIN req' = Reqs
           /\ req'[r] = q
           /\ \A s \in Reqs : s # r => req'[s] = req[s]
  BY DEF ReqShape

LEMMA HbReplaced ==
    ASSUME HbShape, NEW i \in Instances, NEW h, hb' = [hb EXCEPT ![i] = h]
    PROVE  /\ DOMAIN hb' = Instances
           /\ hb'[i] = h
           /\ \A j \in Instances : j # i => hb'[j] = hb[j]
  BY DEF HbShape

LEMMA NoReqFields ==
    /\ IsReq(NoReq) /\ NoReq.op = "none" /\ NoReq.w \notin Workloads
  BY PlacementAssumption DEF IsReq, NoReq, NoRow

LEMMA NoHbFields ==
    /\ DOMAIN NoHb = HbFields
    /\ NoHb.pc = "none" /\ NoHb.charge = FALSE /\ NoHb.late = FALSE
    /\ NoHb.seen = {} /\ NoHb.gone = {}
  BY DEF NoHb, HbFields

(* A request that goes on at step p.                                       *)
LEMMA ReqGoesOn ==
    ASSUME ReqShape, NEW r \in Reqs, req[r].op # "none",
           NEW p \in Creating \cup Deleting, To(r, p)
    PROVE  \E q : /\ req' = [req EXCEPT ![r] = q]
                  /\ IsReq(q) /\ q.op = p /\ q.w = req[r].w /\ q.i = req[r].i
<1>1. PICK o, q : o = req[r] /\ q = [o EXCEPT !.op = p]
  OBVIOUS
<1>2. req' = [req EXCEPT ![r] = q]
  BY <1>1 DEF To
<1>3. DOMAIN o = ReqFields /\ o.w \in Workloads
  BY <1>1, NoReqFields DEF ReqShape, IsReq
<1>4. IsReq(q) /\ q.op = p /\ q.w = o.w /\ q.i = o.i
  BY <1>1, <1>3 DEF IsReq, ReqFields
<1>. QED BY <1>1, <1>2, <1>4

-----------------------------------------------------------------------------
(* BilledOnce. An instance that was charged in this minute was last seen   *)
(* in it, and a heartbeat that is going to charge found that it was not.   *)

BillInv ==
    /\ HbShape
    /\ DOMAIN billed = Instances /\ DOMAIN lastSeen = Instances
    /\ \A i \in Instances :
        /\ billed[i] \in {0, 1}
        /\ billed[i] = 1 => lastSeen[i] = minute
        /\ hb[i].pc # "none" /\ hb[i].late = FALSE => hb[i].now = minute
        /\ hb[i].late # FALSE \/ hb[i].charge # FALSE => billed[i] = 0
        /\ hb[i].late \in BOOLEAN /\ hb[i].charge \in BOOLEAN

LEMMA InitBillInv == Init => BillInv
  BY NoHbFields DEF Init, BillInv, HbShape

(* The heartbeat of one instance goes on, or ends without effect.          *)
LEMMA BillInvHb ==
    ASSUME BillInv, NEW i \in Instances, NEW h, hb' = [hb EXCEPT ![i] = h],
           UNCHANGED clockVars, DOMAIN h = HbFields,
           h.pc # "none" /\ h.late = FALSE => h.now = minute,
           h.late # FALSE \/ h.charge # FALSE => billed[i] = 0,
           h.late \in BOOLEAN, h.charge \in BOOLEAN
    PROVE  BillInv'
<1>1. /\ DOMAIN hb' = Instances /\ hb'[i] = h
      /\ \A j \in Instances : j # i => hb'[j] = hb[j]
  BY HbReplaced DEF BillInv
<1>. QED BY <1>1 DEF BillInv, HbShape, clockVars

LEMMA BillInvEnds ==
    ASSUME BillInv, hb' = [i \in Instances |-> NoHb], UNCHANGED clockVars
    PROVE  BillInv'
  BY NoHbFields DEF BillInv, HbShape, clockVars

LEMMA BillInvStep ==
    ASSUME BillInv, [Next]_vars
    PROVE  BillInv'
<1>1. CASE UNCHANGED <<hb, clockVars>>
  BY <1>1 DEF BillInv, HbShape, clockVars
<1>2. CASE Tick
  <2>1. \A i \in Instances : billed'[i] = 0
    BY <1>2 DEF Tick
  <2>2. ASSUME NEW i \in Instances
        PROVE  /\ DOMAIN hb'[i] = HbFields
               /\ hb'[i].pc # "none" => hb'[i].late # FALSE
               /\ hb'[i].late \in BOOLEAN /\ hb'[i].charge \in BOOLEAN
    <3>1. PICK h : h = hb[i]
      OBVIOUS
    <3>2. PICK l \in BOOLEAN : l = (h # NoHb)
      BY Zenon
    <3>3. hb'[i] = [h EXCEPT !.late = l]
      BY <1>2, <3>1, <3>2 DEF Tick
    <3>4. DOMAIN h = HbFields /\ h.charge \in BOOLEAN
      BY <3>1 DEF BillInv, HbShape
    <3>5. /\ DOMAIN hb'[i] = HbFields /\ hb'[i].pc = h.pc /\ hb'[i].late = l
          /\ hb'[i].charge = h.charge
      BY <3>3, <3>4 DEF HbFields
    <3>6. h.pc # "none" => h # NoHb
      BY NoHbFields
    <3>7. h # NoHb => l # FALSE
      BY <3>2, Zenon
    <3>. QED BY <3>2, <3>4, <3>5, <3>6, <3>7
  <2>3. /\ DOMAIN hb' = Instances /\ DOMAIN billed' = Instances
        /\ DOMAIN lastSeen' = Instances
    BY <1>2 DEF Tick, BillInv
  <2>4. ASSUME NEW i \in Instances
        PROVE  /\ billed'[i] \in {0, 1}
               /\ billed'[i] = 1 => lastSeen'[i] = minute'
               /\ hb'[i].pc # "none" /\ hb'[i].late = FALSE => hb'[i].now = minute'
               /\ hb'[i].late # FALSE \/ hb'[i].charge # FALSE => billed'[i] = 0
    <3>1. billed'[i] \in {0, 1} /\ (billed'[i] = 1 => lastSeen'[i] = minute')
      BY <2>1
    <3>2. hb'[i].pc # "none" => hb'[i].late # FALSE
      BY <2>2
    <3>. QED BY <2>1, <3>1, <3>2, Zenon
  <2>. QED BY <2>2, <2>3, <2>4, Zenon DEF BillInv, HbShape
<1>3. ASSUME NEW i \in Instances, Register(i)
      PROVE  BillInv'
  BY <1>3, NoHbFields DEF Register, BillInv, HbShape
<1>4. ASSUME NEW i \in Instances, HbRead(i)
      PROVE  BillInv'
  <2>1. PICK c \in BOOLEAN : c = (minute # lastSeen[i])
    BY Zenon
  <2>p. PICK p, s :
          hb' = [hb EXCEPT ![i] = [NoHb EXCEPT !.pc = p, !.now = minute,
                                               !.charge = c, !.seen = s]]
    BY <1>4, <2>1 DEF HbRead
  <2>2. PICK h : h = [NoHb EXCEPT !.pc = p, !.now = minute, !.charge = c, !.seen = s]
    OBVIOUS
  <2>3. DOMAIN h = HbFields /\ h.now = minute /\ h.late = FALSE /\ h.charge = c
    BY <2>2 DEF NoHb, HbFields
  <2>c. c # FALSE => minute # lastSeen[i]
    BY <2>1, Zenon
  <2>4. c # FALSE => billed[i] = 0
    BY <2>c DEF BillInv
  <2>. QED BY <1>4, <2>1, <2>p, <2>2, <2>3, <2>4, BillInvHb DEF HbRead
<1>5. ASSUME NEW i \in Instances, HbDeduct(i) \/ HbErase(i)
      PROVE  BillInv'
  <2>1. PICK h : h = hb[i]
    OBVIOUS
  <2>2. PICK n, x : /\ hb' = [hb EXCEPT ![i] = n]
                    /\ \/ n = [h EXCEPT !.pc = "erase", !.left = x]
                       \/ n = [h EXCEPT !.pc = "commit", !.gone = x]
    <3>1. CASE HbDeduct(i)
      <4>1. PICK x, n : x = Left(i) /\ n = [h EXCEPT !.pc = "erase", !.left = x]
        OBVIOUS
      <4>2. hb' = [hb EXCEPT ![i] = n]
        BY <2>1, <3>1, <4>1 DEF HbDeduct, BillInv, HbShape
      <4>. QED BY <4>1, <4>2
    <3>2. CASE HbErase(i)
      <4>1. PICK x, n : /\ x = Offenders(i, hb[i].left)
                        /\ n = [h EXCEPT !.pc = "commit", !.gone = x]
        OBVIOUS
      <4>2. hb' = [hb EXCEPT ![i] = n]
        BY <2>1, <3>2, <4>1 DEF HbErase, BillInv, HbShape
      <4>. QED BY <4>1, <4>2
    <3>. QED BY <1>5, <3>1, <3>2
  <2>d. DOMAIN h = HbFields
    BY <2>1 DEF BillInv, HbShape
  <2>3. /\ DOMAIN n = HbFields
        /\ n.now = h.now /\ n.charge = h.charge /\ n.late = h.late
    <3>1. CASE n = [h EXCEPT !.pc = "erase", !.left = x]
      BY <2>d, <3>1 DEF HbFields
    <3>2. CASE n = [h EXCEPT !.pc = "commit", !.gone = x]
      BY <2>d, <3>2 DEF HbFields
    <3>. QED BY <2>2, <3>1, <3>2
  <2>4. h.pc # "none" /\ UNCHANGED clockVars
    BY <1>5, <2>1 DEF HbDeduct, HbErase
  <2>. QED BY <2>1, <2>2, <2>3, <2>4, BillInvHb DEF BillInv
<1>6. ASSUME NEW i \in Instances, HbCommit(i)
      PROVE  BillInv'
  <2>1. PICK h : h = hb[i]
    OBVIOUS
  <2>2. /\ h.pc = "commit" /\ hb' = [hb EXCEPT ![i] = NoHb]
        /\ lastSeen' = [lastSeen EXCEPT ![i] = h.now]
        /\ minute' = minute
    BY <1>6, <2>1 DEF HbCommit
  <2>3. \A j \in Instances : j # i => /\ hb'[j] = hb[j] /\ billed'[j] = billed[j]
                                      /\ lastSeen'[j] = lastSeen[j]
    BY <1>6, <2>2 DEF BillInv, HbShape, HbCommit
  <2>4. hb'[i] = NoHb /\ lastSeen'[i] = h.now
    BY <2>2 DEF BillInv, HbShape
  <2>5. /\ billed'[i] \in {0, 1}
        /\ billed'[i] = 1 => h.now = minute
    <3>1. billed'[i] = IF h.charge /\ ~h.late THEN billed[i] + 1 ELSE billed[i]
      BY <1>6, <2>1 DEF HbCommit, BillInv
    <3>2. CASE h.charge /\ ~h.late
      <4>1. h.charge # FALSE /\ h.late # TRUE
        BY <3>2
      <4>2. billed[i] = 0
        BY <2>1, <4>1 DEF BillInv
      <4>3. billed'[i] = 1
        BY <3>1, <3>2, <4>2
      <4>4. h.late = FALSE
        BY <2>1, <3>2 DEF BillInv
      <4>. QED BY <2>1, <2>2, <4>3, <4>4 DEF BillInv
    <3>3. CASE ~(h.charge /\ ~h.late)
      <4>1. billed'[i] = billed[i]
        BY <3>1, <3>3
      <4>0. 1 # 0
        OBVIOUS
      <4>2. billed[i] = 1 => h.late = FALSE
        BY <2>1, <4>0, Zenon DEF BillInv
      <4>3. h.late = FALSE => h.now = minute
        BY <2>1, <2>2 DEF BillInv
      <4>4. billed[i] \in {0, 1}
        BY Zenon DEF BillInv
      <4>. QED BY <4>1, <4>2, <4>3, <4>4
    <3>. QED BY <3>2, <3>3
  <2>6. DOMAIN hb' = Instances /\ DOMAIN billed' = Instances /\ DOMAIN lastSeen' = Instances
    BY <1>6 DEF HbCommit, BillInv, HbShape
  <2>7. HbShape'
    BY <2>3, <2>4, <2>6, NoHbFields DEF BillInv, HbShape
  <2>8. ASSUME NEW j \in Instances, j # i
        PROVE  /\ billed'[j] \in {0, 1}
               /\ billed'[j] = 1 => lastSeen'[j] = minute'
               /\ hb'[j].pc # "none" /\ hb'[j].late = FALSE => hb'[j].now = minute'
               /\ hb'[j].late # FALSE \/ hb'[j].charge # FALSE => billed'[j] = 0
               /\ hb'[j].late \in BOOLEAN /\ hb'[j].charge \in BOOLEAN
    BY <2>2, <2>3, <2>8, Zenon DEF BillInv
  <2>9. /\ billed'[i] = 1 => lastSeen'[i] = minute'
        /\ hb'[i].pc = "none" /\ hb'[i].late = FALSE /\ hb'[i].charge = FALSE
    BY <2>2, <2>4, <2>5, NoHbFields
  <2>. QED BY <2>5, <2>6, <2>7, <2>8, <2>9, Zenon DEF BillInv
<1>7. ASSUME NEW i \in Instances, HbFails(i)
      PROVE  BillInv'
  BY <1>7, NoHbFields, BillInvHb DEF HbFails
<1>8. CASE Crash \/ \E i \in Instances : HbRejected(i)
  BY <1>8, BillInvEnds DEF Crash, HbRejected, ProcessEnds
<1>9. ASSUME NEW i \in Instances, RemoveInstance(i)
      PROVE  UNCHANGED <<hb, clockVars>>
  BY <1>9 DEF RemoveInstance
<1>10. ASSUME NEW r \in Reqs, \/ ReqStep(r) \/ CallFails(r) \/ AnswerLost(r)
                              \/ \E w \in Workloads : CreateBegin(r, w) \/ RemoveFind(r, w)
       PROVE  UNCHANGED <<hb, clockVars>>
  BY <1>10 DEF ReqStep, CallFails, AnswerLost, CreateBegin, RemoveFind, CreatePlace,
     CreateAgent, CreateCname, CreateCommit, RemoveErase, RemoveCname, RemoveAgent,
     RemoveCommit
<1>11. ASSUME NEW w \in Workloads, ReapCname(w) \/ ReapAgent(w) \/ StatusEvent(w)
       PROVE  UNCHANGED <<hb, clockVars>>
  BY <1>11 DEF ReapCname, ReapAgent, StatusEvent
<1>12. CASE UNCHANGED vars
  BY <1>1, <1>12 DEF vars, clockVars
<1>. QED BY <1>1, <1>2, <1>3, <1>4, <1>5, <1>6, <1>7, <1>8, <1>9, <1>10, <1>11, <1>12
     DEF Next, HbStep

(* The workloads of an instance are charged at most once in a minute,      *)
(* whatever fails and whenever the process ends: the minute of lastSeenAt  *)
(* is written in the transaction that charges.                             *)
THEOREM ChargedOnce == Spec => []BilledOnce
<1>1. Init => BillInv
  BY InitBillInv
<1>2. BillInv /\ [Next]_vars => BillInv'
  BY BillInvStep
<1>3. BillInv => BilledOnce
  <2>1. BillInv => \A i \in Instances : billed[i] \in {0, 1}
    BY Zenon DEF BillInv
  <2>. QED BY <2>1 DEF BilledOnce
<1>. QED BY <1>1, <1>2, <1>3, PTL DEF Spec

-----------------------------------------------------------------------------
(* NoLeak. A workload whose creation is not committed runs, if at all, on  *)
(* the instance that its one creation chose; a removal is about a created  *)
(* workload, knows its instance, and at its end that agent has it not.     *)

Types ==
    /\ ReqShape
    /\ instances \subseteq Instances
    /\ rows \in [Workloads -> Instances \cup {NoRow}]
    /\ vms \in [Instances -> SUBSET Workloads]
    /\ created \subseteq used

RowsCreated == \A w \in Workloads : rows[w] # NoRow => w \in created

UnusedNowhere == \A j \in Instances, w \in Workloads : w \in vms[j] => w \in used

OneCreation == \A r, s \in Reqs :
    req[r].op \in Creating /\ req[s].op \in Creating /\ req[r].w = req[s].w => r = s

CreationsOK == \A r \in Reqs : req[r].op \in Creating =>
    /\ req[r].w \in used /\ req[r].w \notin created
    /\ req[r].op # "place" => req[r].i \in Instances
    /\ \A j \in Instances : req[r].w \in vms[j] =>
        req[r].op \in {"dns", "commit"} /\ j = req[r].i

RemovalsOK == \A r \in Reqs : req[r].op \in Deleting =>
    /\ req[r].w \in created /\ req[r].i \in Instances
    /\ rows[req[r].w] \in {req[r].i, NoRow}
    /\ req[r].op = "end" => req[r].w \notin vms[req[r].i]

LeakInv ==
    /\ Types
    /\ RowsCreated /\ UnusedNowhere /\ OneCreation /\ CreationsOK /\ RemovalsOK
    /\ NoLeak

LEMMA NoRowNoInstance == NoRow \notin Instances
  BY PlacementAssumption DEF NoRow

LEMMA InitLeakInv == Init => LeakInv
  BY NoReqFields DEF Init, LeakInv, Types, ReqShape, RowsCreated, UnusedNowhere,
     OneCreation, CreationsOK, RemovalsOK, NoLeak, Creating, Deleting

(* Nothing happens to the requests, the rows and the agents.               *)
LEMMA LeakInvSame ==
    ASSUME LeakInv, UNCHANGED <<req, rows, vms, created, used, reaped>>,
           instances' \subseteq Instances
    PROVE  LeakInv'
  BY DEF LeakInv, Types, ReqShape, RowsCreated, UnusedNowhere,
     OneCreation, CreationsOK, RemovalsOK, NoLeak

(* Requests end, agents lose workloads, heartbeats remove rows.            *)
Fewer ==
    /\ UNCHANGED <<created, used>> /\ instances' \subseteq Instances
    /\ DOMAIN req' = Reqs /\ \A r \in Reqs : req'[r] = req[r] \/ req'[r] = NoReq
    /\ vms' \in [Instances -> SUBSET Workloads]
    /\ \A j \in Instances : vms'[j] \subseteq vms[j]
    /\ rows' \in [Workloads -> Instances \cup {NoRow}]
    /\ \A w \in Workloads : rows'[w] = rows[w] \/ (rows'[w] = NoRow /\ w \in reaped')
    /\ reaped \subseteq reaped'

LEMMA LeakInvFewer ==
    ASSUME LeakInv, Fewer
    PROVE  LeakInv'
<1>. USE NoReqFields DEF LeakInv, Fewer
<1>r. \A r \in Reqs : req'[r] = req[r] \/ req'[r].op = "none"
  BY DEF Types, ReqShape
<1>n. "none" \notin Creating \cup Deleting
  BY DEF Creating, Deleting
<1>1. Types'
  BY DEF Types, ReqShape
<1>2. RowsCreated' /\ UnusedNowhere'
  BY DEF RowsCreated, UnusedNowhere, Types
<1>3. OneCreation'
  BY <1>r, <1>n DEF OneCreation
<1>4. CreationsOK'
  BY <1>r, <1>n DEF CreationsOK
<1>5. RemovalsOK'
  <2>. SUFFICES ASSUME NEW r \in Reqs, req'[r].op \in Deleting
                PROVE  /\ req'[r].w \in created' /\ req'[r].i \in Instances
                       /\ rows'[req'[r].w] \in {req'[r].i, NoRow}
                       /\ req'[r].op = "end" => req'[r].w \notin vms'[req'[r].i]
    BY DEF RemovalsOK
  <2>1. req'[r] = req[r]
    BY <1>r, <1>n
  <2>2. req[r].w \in Workloads
    BY <2>1, <1>n DEF Types, ReqShape, IsReq, NoReq
  <2>. QED BY <2>1, <2>2 DEF RemovalsOK
<1>6. NoLeak'
  BY DEF NoLeak, Types
<1>. QED BY <1>1, <1>2, <1>3, <1>4, <1>5, <1>6

(* A request goes on, or one begins, and nothing else changes but the set  *)
(* of identifiers that were given.                                         *)
LEMMA LeakInvGoes ==
    ASSUME LeakInv, UNCHANGED <<instances, rows, vms, created, reaped>>, used \subseteq used',
           NEW r \in Reqs, NEW q, req' = [req EXCEPT ![r] = q], IsReq(q),
           q.op \in Creating =>
               /\ q.w \in used' /\ q.w \notin created
               /\ \A s \in Reqs : s # r /\ req[s].op \in Creating => req[s].w # q.w
               /\ q.op # "place" => q.i \in Instances
               /\ \A j \in Instances : q.w \in vms[j] =>
                   q.op \in {"dns", "commit"} /\ j = q.i,
           q.op \in Deleting =>
               /\ q.w \in created /\ q.i \in Instances
               /\ rows[q.w] \in {q.i, NoRow}
               /\ q.op = "end" => q.w \notin vms[q.i]
    PROVE  LeakInv'
<1>. USE DEF LeakInv
<1>1. /\ DOMAIN req' = Reqs /\ req'[r] = q
      /\ \A s \in Reqs : s # r => req'[s] = req[s]
  BY ReqReplaced DEF Types
<1>2. Types'
  BY <1>1 DEF Types, ReqShape
<1>3. RowsCreated' /\ UnusedNowhere' /\ NoLeak'
  BY DEF RowsCreated, UnusedNowhere, NoLeak
<1>4. OneCreation'
  BY <1>1 DEF OneCreation
<1>5. CreationsOK'
  BY <1>1 DEF CreationsOK
<1>6. RemovalsOK'
  BY <1>1 DEF RemovalsOK
<1>. QED BY <1>2, <1>3, <1>4, <1>5, <1>6

LEMMA SmallestNumber ==
    ASSUME NEW S, S \subseteq Nat, S # {}
    PROVE  Min(S) \in S
<1>. DEFINE R == OpToRel(<, Nat)
<1>1. IsWellFoundedOn(R, Nat)
  BY NatLessThanWellFounded
<1>2. \A x, y \in Nat : <<x, y>> \in R <=> x < y
  BY DEF OpToRel
<1>. HIDE DEF R
<1>3. PICK x \in S : \A y \in S : ~(<<y, x>> \in R)
  BY <1>1, WFMin, Zenon
<1>4. \A y \in S : ~(y < x)
  BY <1>2, <1>3, Zenon
<1>5. \A y \in S : x <= y
  BY <1>4
<1>. QED BY <1>5, Zenon DEF Min

(* The request that runs: its record, and the one that replaces it.        *)
LEMMA Request ==
    ASSUME Types, NEW r \in Reqs, req[r].op # "none"
    PROVE  /\ DOMAIN req[r] = ReqFields
           /\ req[r].op \in Creating \cup Deleting
           /\ req[r].w \in Workloads
  BY NoReqFields DEF Types, ReqShape, IsReq

LEMMA InstanceChosen ==
    ASSUME Types, NEW r \in Reqs, CreatePlace(r)
    PROVE  \/ EndReq(r)
           \/ \E q : /\ req' = [req EXCEPT ![r] = q] /\ IsReq(q)
                     /\ q.op = "agent" /\ q.w = req[r].w
                     /\ q.i \in instances
<1>. SUFFICES ASSUME ~EndReq(r)
              PROVE  \E q : /\ req' = [req EXCEPT ![r] = q] /\ IsReq(q)
                            /\ q.op = "agent" /\ q.w = req[r].w
                            /\ q.i \in instances
  OBVIOUS
<1>1. PICK f : f = WithFreeResources(req[r].w)
  OBVIOUS
<1>2. f # {} /\ req' = [req EXCEPT ![r].op = "agent", ![r].i = Min(f)]
  BY <1>1 DEF CreatePlace
<1>3. f \subseteq instances
  BY <1>1 DEF WithFreeResources
<1>4. Min(f) \in instances
  BY <1>2, <1>3, SmallestNumber, PlacementAssumption DEF Types
<1>5. PICK o, q : o = req[r] /\ q = [o EXCEPT !.op = "agent", !.i = Min(f)]
  OBVIOUS
<1>6. req' = [req EXCEPT ![r] = q]
  BY <1>2, <1>5 DEF Types, ReqShape
<1>7. DOMAIN o = ReqFields /\ o.w \in Workloads
  BY <1>5, Request DEF CreatePlace
<1>8. IsReq(q) /\ q.op = "agent" /\ q.w = o.w /\ q.i = Min(f)
  BY <1>5, <1>7 DEF IsReq, ReqFields, Creating
<1>. QED BY <1>4, <1>5, <1>6, <1>8

LEMMA LeakInvBegin ==
    ASSUME LeakInv, NEW r \in Reqs, NEW w \in Workloads,
           CreateBegin(r, w) \/ RemoveFind(r, w)
    PROVE  LeakInv'
<1>1. CASE CreateBegin(r, w)
  <2>1. PICK q : q = [op |-> "place", w |-> w, i |-> NoRow, balance |-> balance[Owner(w)]]
    OBVIOUS
  <2>2. /\ req' = [req EXCEPT ![r] = q] /\ used' = used \cup {w} /\ w \notin used
        /\ UNCHANGED <<instances, rows, vms, created, reaped>>
    BY <1>1, <2>1 DEF CreateBegin
  <2>3. IsReq(q) /\ q.op = "place" /\ q.w = w
    BY <2>1 DEF IsReq, ReqFields, Creating
  <2>4. \A s \in Reqs : req[s].op \in Creating => req[s].w # w
    BY <2>2 DEF LeakInv, CreationsOK
  <2>5. w \notin created /\ \A j \in Instances : w \notin vms[j]
    BY <2>2 DEF LeakInv, Types, UnusedNowhere
  <2>6. q.op \notin Deleting
    BY <2>3 DEF Deleting
  <2>. QED BY <2>2, <2>3, <2>4, <2>5, <2>6, LeakInvGoes
<1>2. CASE RemoveFind(r, w)
  <2>1. PICK q : q = [op |-> "erase", w |-> w, i |-> rows[w], balance |-> 0]
    OBVIOUS
  <2>2. /\ req' = [req EXCEPT ![r] = q] /\ rows[w] # NoRow
        /\ UNCHANGED <<instances, rows, vms, created, used, reaped>>
    BY <1>2, <2>1 DEF RemoveFind
  <2>3. IsReq(q) /\ q.op = "erase" /\ q.w = w /\ q.i = rows[w]
    BY <2>1 DEF IsReq, ReqFields, Deleting
  <2>4. w \in created /\ rows[w] \in Instances
    BY <2>2 DEF LeakInv, RowsCreated, Types
  <2>5. q.op \notin Creating
    BY <2>3 DEF Creating
  <2>. QED BY <2>2, <2>3, <2>4, <2>5, LeakInvGoes
<1>. QED BY <1>1, <1>2

(* A request ends; at most its agent loses the workload.                   *)
LEMMA LeakInvEnd ==
    ASSUME LeakInv, NEW r \in Reqs, EndReq(r),
           UNCHANGED <<instances, rows, created, used, reaped>>,
           \/ UNCHANGED vms
           \/ req[r].op = "delete" /\ vms' = [vms EXCEPT ![req[r].i] = @ \ {req[r].w}]
    PROVE  LeakInv'
<1>1. /\ DOMAIN req' = Reqs
      /\ \A s \in Reqs : req'[s] = IF s = r THEN NoReq ELSE req[s]
  BY DEF EndReq, LeakInv, Types, ReqShape
<1>2. \A s \in Reqs : req'[s] = req[s] \/ req'[s] = NoReq
  BY <1>1
<1>3. /\ vms' \in [Instances -> SUBSET Workloads]
      /\ \A j \in Instances : vms'[j] \subseteq vms[j]
  BY DEF LeakInv, Types
<1>4. /\ rows' \in [Workloads -> Instances \cup {NoRow}]
      /\ instances' \subseteq Instances
      /\ \A w \in Workloads : rows'[w] = rows[w]
      /\ reaped \subseteq reaped'
  BY DEF LeakInv, Types
<1>5. Fewer
  BY <1>1, <1>2, <1>3, <1>4 DEF Fewer
<1>. QED BY <1>5, LeakInvFewer

LEMMA LeakInvPlace ==
    ASSUME LeakInv, NEW r \in Reqs, CreatePlace(r)
    PROVE  LeakInv'
<1>1. UNCHANGED <<instances, rows, vms, created, used, reaped>> /\ req[r].op = "place"
  BY DEF CreatePlace
<1>2. CASE EndReq(r)
  BY <1>1, <1>2, LeakInvEnd
<1>3. ASSUME NEW q, req' = [req EXCEPT ![r] = q], IsReq(q),
             q.op = "agent", q.w = req[r].w, q.i \in instances
      PROVE  LeakInv'
  <2>1. req[r].op \in Creating /\ q.op \notin Deleting
    BY <1>1, <1>3 DEF Creating, Deleting
  <2>2. /\ q.w \in used /\ q.w \notin created
        /\ \A j \in Instances : q.w \notin vms[j]
    BY <1>1, <1>3, <2>1 DEF LeakInv, CreationsOK
  <2>3. \A s \in Reqs : s # r /\ req[s].op \in Creating => req[s].w # q.w
    BY <1>3, <2>1 DEF LeakInv, OneCreation
  <2>4. q.i \in Instances
    BY <1>3 DEF LeakInv, Types
  <2>. QED BY <1>1, <1>3, <2>1, <2>2, <2>3, <2>4, LeakInvGoes
<1>. QED BY <1>2, <1>3, InstanceChosen DEF LeakInv

(* The agent has a new workload: the creation goes on, or its answer is    *)
(* lost and it ends.                                                       *)
LEMMA LeakInvAgent ==
    ASSUME LeakInv, UNCHANGED <<instances, rows, created, used, reaped>>,
           NEW r \in Reqs, req[r].op = "agent",
           vms' = [vms EXCEPT ![req[r].i] = @ \cup {req[r].w}],
           NEW q, req' = [req EXCEPT ![r] = q], IsReq(q),
           \/ q = NoReq
           \/ q.op \in {"dns", "commit"} /\ q.w = req[r].w /\ q.i = req[r].i
    PROVE  LeakInv'
<1>. USE DEF LeakInv
<1>1. PICK o : o = req[r]
  OBVIOUS
<1>2. /\ DOMAIN req' = Reqs /\ req'[r] = q
      /\ \A s \in Reqs : s # r => req'[s] = req[s]
  BY ReqReplaced DEF Types
<1>3. o.op \in Creating /\ o.w \in Workloads
  BY <1>1, Request DEF Creating
<1>4. /\ o.w \in used /\ o.w \notin created /\ o.i \in Instances
      /\ \A s \in Reqs : s # r /\ req[s].op \in Creating => req[s].w # o.w
      /\ \A j \in Instances : o.w \notin vms[j]
  BY <1>1, <1>3 DEF CreationsOK, OneCreation
<1>5. /\ vms' \in [Instances -> SUBSET Workloads]
      /\ vms'[o.i] = vms[o.i] \cup {o.w}
      /\ \A j \in Instances : j # o.i => vms'[j] = vms[j]
  BY <1>1, <1>3, <1>4 DEF Types
<1>6. \/ q.op = "none"
      \/ q.op \in {"dns", "commit"} /\ q.w = o.w /\ q.i = o.i
  BY <1>1, NoReqFields
<1>7. Types'
  BY <1>2, <1>5 DEF Types, ReqShape
<1>8. RowsCreated' /\ UnusedNowhere'
  BY <1>4, <1>5 DEF RowsCreated, UnusedNowhere
<1>9. OneCreation'
  BY <1>2, <1>4, <1>6 DEF OneCreation, Creating
<1>10. CreationsOK'
  <2>1. ASSUME NEW s \in Reqs, s # r, req[s].op \in Creating, NEW j \in Instances,
               req[s].w \in vms'[j]
        PROVE  req[s].w \in vms[j]
    BY <1>4, <1>5, <2>1
  <2>2. \A j \in Instances : o.w \in vms'[j] => j = o.i
    BY <1>4, <1>5
  <2>. QED BY <1>2, <1>4, <1>6, <2>1, <2>2 DEF CreationsOK, Creating
<1>11. RemovalsOK'
  <2>1. ASSUME NEW s \in Reqs, req[s].op \in Deleting,
               req[s].w \in vms'[req[s].i]
        PROVE  req[s].w \in vms[req[s].i]
    BY <1>4, <1>5, <2>1 DEF RemovalsOK
  <2>. QED BY <1>2, <1>6, <2>1 DEF RemovalsOK, Deleting
<1>12. NoLeak'
  BY <1>4, <1>5 DEF NoLeak
<1>. QED BY <1>7, <1>8, <1>9, <1>10, <1>11, <1>12

(* The agent has the workload no more.                                     *)
LEMMA LeakInvDeleted ==
    ASSUME LeakInv, NEW r \in Reqs, RemoveAgent(r)
    PROVE  LeakInv'
<1>. USE DEF LeakInv
<1>1. PICK o : o = req[r]
  OBVIOUS
<1>2. /\ o.op = "delete" /\ To(r, "end") /\ vms' = [vms EXCEPT ![o.i] = @ \ {o.w}]
      /\ UNCHANGED <<instances, rows, created, used, reaped>>
  BY <1>1 DEF RemoveAgent
<1>3. PICK q : /\ req' = [req EXCEPT ![r] = q]
               /\ IsReq(q) /\ q.op = "end" /\ q.w = o.w /\ q.i = o.i
  BY <1>1, <1>2, ReqGoesOn DEF Types, Deleting
<1>4. /\ DOMAIN req' = Reqs /\ req'[r] = q
      /\ \A s \in Reqs : s # r => req'[s] = req[s]
  BY <1>3, ReqReplaced DEF Types
<1>5. /\ o.w \in Workloads /\ o.w \in created /\ o.i \in Instances
      /\ rows[o.w] \in {o.i, NoRow}
  BY <1>1, <1>2, Request DEF RemovalsOK, Deleting
<1>6. /\ vms' \in [Instances -> SUBSET Workloads]
      /\ vms'[o.i] = vms[o.i] \ {o.w}
      /\ \A j \in Instances : j # o.i => vms'[j] = vms[j]
  BY <1>2, <1>5 DEF Types
<1>7. Types'
  BY <1>2, <1>3, <1>4, <1>6 DEF Types, ReqShape
<1>8. \A j \in Instances : vms'[j] \subseteq vms[j]
  BY <1>6
<1>9. RowsCreated' /\ UnusedNowhere' /\ NoLeak'
  BY <1>2, <1>8 DEF RowsCreated, UnusedNowhere, NoLeak
<1>10. OneCreation'
  BY <1>2, <1>3, <1>4 DEF OneCreation, Creating
<1>11. CreationsOK'
  BY <1>2, <1>3, <1>4, <1>8 DEF CreationsOK, Creating
<1>12. RemovalsOK'
  BY <1>2, <1>3, <1>4, <1>5, <1>6, <1>8 DEF RemovalsOK
<1>. QED BY <1>7, <1>9, <1>10, <1>11, <1>12

(* A creation is committed.                                                *)
LEMMA LeakInvCreated ==
    ASSUME LeakInv, NEW r \in Reqs, CreateCommit(r)
    PROVE  LeakInv'
<1>. USE DEF LeakInv
<1>1. PICK o : o = req[r]
  OBVIOUS
<1>2. /\ o.op = "commit" /\ EndReq(r)
      /\ rows' = [rows EXCEPT ![o.w] = o.i] /\ created' = created \cup {o.w}
      /\ UNCHANGED <<instances, vms, used, reaped>>
  BY <1>1 DEF CreateCommit
<1>3. /\ DOMAIN req' = Reqs /\ req'[r] = NoReq
      /\ \A s \in Reqs : s # r => req'[s] = req[s]
  BY <1>2, ReqReplaced DEF Types, EndReq
<1>4. o.op \in Creating /\ o.w \in Workloads
  BY <1>1, <1>2, Request DEF Creating
<1>5. /\ o.w \in used /\ o.w \notin created /\ o.i \in Instances
      /\ \A s \in Reqs : s # r /\ req[s].op \in Creating => req[s].w # o.w
      /\ \A j \in Instances : o.w \in vms[j] => j = o.i
  BY <1>1, <1>2, <1>4 DEF CreationsOK, OneCreation
<1>6. /\ rows' \in [Workloads -> Instances \cup {NoRow}]
      /\ rows'[o.w] = o.i
      /\ \A w \in Workloads : w # o.w => rows'[w] = rows[w]
  BY <1>2, <1>4, <1>5 DEF Types
<1>7. req'[r].op \notin Creating \cup Deleting
  BY <1>3, NoReqFields DEF Creating, Deleting
<1>8. Types'
  BY <1>2, <1>3, <1>5, <1>6, NoReqFields DEF Types, ReqShape
<1>9. RowsCreated' /\ UnusedNowhere' /\ NoLeak'
  BY <1>2, <1>5, <1>6 DEF RowsCreated, UnusedNowhere, NoLeak, Types
<1>10. OneCreation'
  BY <1>3, <1>7 DEF OneCreation
<1>11. CreationsOK'
  BY <1>2, <1>3, <1>5, <1>7 DEF CreationsOK
<1>12. RemovalsOK'
  <2>1. ASSUME NEW s \in Reqs, req'[s].op \in Deleting
        PROVE  /\ req'[s] = req[s] /\ req[s].w \in Workloads /\ req[s].w # o.w
               /\ rows'[req[s].w] = rows[req[s].w]
    <3>1. req'[s] = req[s] /\ req[s].op \in Deleting
      BY <1>3, <1>7, <2>1
    <3>2. req[s].w \in Workloads
      BY <3>1, Request DEF Deleting
    <3>3. req[s].w \in created
      BY <3>1 DEF RemovalsOK
    <3>. QED BY <1>5, <1>6, <3>1, <3>2, <3>3
  <2>. QED BY <1>2, <2>1 DEF RemovalsOK
<1>. QED BY <1>8, <1>9, <1>10, <1>11, <1>12

(* A removal is committed: the agent of the row has it not.                *)
LEMMA LeakInvRemoved ==
    ASSUME LeakInv, NEW r \in Reqs, RemoveCommit(r)
    PROVE  LeakInv'
<1>. USE DEF LeakInv
<1>1. PICK o : o = req[r]
  OBVIOUS
<1>2. /\ o.op = "end" /\ EndReq(r) /\ rows' = [rows EXCEPT ![o.w] = NoRow]
      /\ UNCHANGED <<instances, vms, created, used, reaped>>
  BY <1>1 DEF RemoveCommit
<1>3. /\ DOMAIN req' = Reqs /\ req'[r] = NoReq
      /\ \A s \in Reqs : s # r => req'[s] = req[s]
  BY <1>2, ReqReplaced DEF Types, EndReq
<1>4. /\ o.w \in Workloads /\ o.w \in created /\ o.i \in Instances
      /\ rows[o.w] \in {o.i, NoRow} /\ o.w \notin vms[o.i]
  BY <1>1, <1>2, Request DEF RemovalsOK, Deleting
<1>5. /\ rows' \in [Workloads -> Instances \cup {NoRow}]
      /\ rows'[o.w] = NoRow
      /\ \A w \in Workloads : w # o.w => rows'[w] = rows[w]
  BY <1>2, <1>4 DEF Types
<1>6. req'[r].op \notin Creating \cup Deleting
  BY <1>3, NoReqFields DEF Creating, Deleting
<1>7. Types'
  BY <1>2, <1>3, <1>5, NoReqFields DEF Types, ReqShape
<1>8. RowsCreated' /\ UnusedNowhere'
  BY <1>2, <1>5 DEF RowsCreated, UnusedNowhere
<1>9. NoLeak'
  <2>1. o.w \in created \ reaped => \A j \in Instances : o.w \notin vms[j]
    BY <1>4, NoRowNoInstance DEF NoLeak
  <2>. QED BY <1>2, <1>5, <2>1 DEF NoLeak, Types
<1>10. OneCreation' /\ CreationsOK'
  BY <1>2, <1>3, <1>6 DEF OneCreation, CreationsOK
<1>11. RemovalsOK'
  <2>1. ASSUME NEW s \in Reqs, req'[s].op \in Deleting
        PROVE  /\ req'[s] = req[s] /\ req[s].w \in Workloads
               /\ rows'[req[s].w] \in {rows[req[s].w], NoRow}
    <3>1. req'[s] = req[s] /\ req[s].op \in Deleting
      BY <1>3, <1>6, <2>1
    <3>2. req[s].w \in Workloads
      BY <3>1, Request DEF Deleting
    <3>. QED BY <1>5, <3>1, <3>2
  <2>. QED BY <1>2, <2>1 DEF RemovalsOK
<1>. QED BY <1>7, <1>8, <1>9, <1>10, <1>11

(* A request goes on within its creation, or its removal, where the agents *)
(* are not concerned.                                                      *)
LEMMA LeakInvOn ==
    ASSUME LeakInv, NEW r \in Reqs, NEW p, To(r, p),
           UNCHANGED <<instances, rows, vms, created, used, reaped>>,
           \/ req[r].op = "dns" /\ p = "commit"
           \/ req[r].op \in Deleting /\ p \in {"unname", "delete"}
    PROVE  LeakInv'
<1>1. PICK q : /\ req' = [req EXCEPT ![r] = q]
               /\ IsReq(q) /\ q.op = p /\ q.w = req[r].w /\ q.i = req[r].i
  BY ReqGoesOn DEF LeakInv, Types, Creating, Deleting
<1>2. CASE req[r].op = "dns" /\ p = "commit"
  <2>1. /\ req[r].w \in used /\ req[r].w \notin created /\ req[r].i \in Instances
        /\ \A j \in Instances : req[r].w \in vms[j] => j = req[r].i
    BY <1>2 DEF LeakInv, CreationsOK, Creating
  <2>2. \A s \in Reqs : s # r /\ req[s].op \in Creating => req[s].w # req[r].w
    BY <1>2 DEF LeakInv, OneCreation, Creating
  <2>3. q.op \in {"dns", "commit"} /\ q.op \notin Deleting
    BY <1>1, <1>2 DEF Deleting
  <2>. QED BY <1>1, <2>1, <2>2, <2>3, LeakInvGoes
<1>3. CASE req[r].op \in Deleting /\ p \in {"unname", "delete"}
  <2>1. /\ req[r].w \in created /\ req[r].i \in Instances
        /\ rows[req[r].w] \in {req[r].i, NoRow}
    BY <1>3 DEF LeakInv, RemovalsOK
  <2>2. q.op \notin Creating /\ q.op # "end"
    BY <1>1, <1>3 DEF Creating
  <2>. QED BY <1>1, <2>1, <2>2, LeakInvGoes
<1>. QED BY <1>2, <1>3

LEMMA LeakInvStep ==
    ASSUME LeakInv, [Next]_vars
    PROVE  LeakInv'
<1>t. Types
  BY DEF LeakInv
<1>1. CASE \/ Tick \/ UNCHANGED vars
           \/ \E i \in Instances : \/ Register(i) \/ RemoveInstance(i) \/ HbRead(i)
                                   \/ HbDeduct(i) \/ HbErase(i) \/ HbFails(i)
           \/ \E w \in Workloads : ReapCname(w) \/ StatusEvent(w)
  <2>1. UNCHANGED <<req, rows, vms, created, used, reaped>>
    BY <1>1 DEF vars, Tick, Register, RemoveInstance, HbRead, HbDeduct, HbErase, HbFails,
       ReapCname, StatusEvent
  <2>2. instances' \subseteq Instances
    BY <1>1, <1>t DEF Types, vars, Tick, Register, RemoveInstance, HbRead, HbDeduct, HbErase,
       HbFails, ReapCname, StatusEvent
  <2>. QED BY <2>1, <2>2, LeakInvSame
<1>2. CASE Crash \/ \E i \in Instances : HbRejected(i)
  <2>1. /\ UNCHANGED <<instances, rows, vms, created, used, reaped>>
        /\ req' = [r \in Reqs |-> NoReq]
    BY <1>2 DEF Crash, HbRejected, ProcessEnds
  <2>2. \A r \in Reqs : req'[r] = req[r] \/ req'[r] = NoReq
    BY <2>1
  <2>5. Fewer
    BY <1>t, <2>1, <2>2 DEF Types, Fewer
  <2>. QED BY <2>5, LeakInvFewer
<1>3. ASSUME NEW i \in Instances, HbCommit(i)
      PROVE  LeakInv'
  <2>1. PICK g : g = hb[i].gone
    OBVIOUS
  <2>2. /\ instances' = instances \cup {i} /\ UNCHANGED <<req, vms, created, used>>
        /\ rows' = [w \in Workloads |-> IF w \in g THEN NoRow ELSE rows[w]]
        /\ reaped' = reaped \cup g
    BY <1>3, <2>1 DEF HbCommit
  <2>3. /\ rows' \in [Workloads -> Instances \cup {NoRow}]
        /\ \A w \in Workloads : rows'[w] = IF w \in g THEN NoRow ELSE rows[w]
        /\ instances' \subseteq Instances
    BY <1>t, <2>2 DEF Types
  <2>4. DOMAIN req' = Reqs /\ \A r \in Reqs : req'[r] = req[r] \/ req'[r] = NoReq
    BY <1>t, <2>2 DEF Types, ReqShape
  <2>5. Fewer
    BY <1>t, <2>2, <2>3, <2>4 DEF Types, Fewer
  <2>. QED BY <2>5, LeakInvFewer
<1>4. ASSUME NEW w \in Workloads, ReapAgent(w)
      PROVE  LeakInv'
  <2>1. /\ UNCHANGED <<instances, rows, req, created, used, reaped>>
        /\ vms' = [i \in Instances |-> vms[i] \ {w}]
    BY <1>4 DEF ReapAgent
  <2>2. DOMAIN req' = Reqs /\ \A r \in Reqs : req'[r] = req[r] \/ req'[r] = NoReq
    BY <1>t, <2>1 DEF Types, ReqShape
  <2>5. Fewer
    BY <1>t, <2>1, <2>2 DEF Types, Fewer
  <2>. QED BY <2>5, LeakInvFewer
<1>5. ASSUME NEW r \in Reqs, ReqStep(r)
      PROVE  LeakInv'
  <2>1. CASE CreateAgent(r)
    <3>1. CASE EndReq(r) /\ UNCHANGED vms
      BY <2>1, <3>1, LeakInvEnd DEF CreateAgent
    <3>2. CASE /\ To(r, AfterAgent(req[r].w))
               /\ vms' = [vms EXCEPT ![req[r].i] = @ \cup {req[r].w}]
      <4>1. PICK p \in {"dns", "commit"} : p = AfterAgent(req[r].w)
        BY DEF AfterAgent
      <4>2. PICK q : /\ req' = [req EXCEPT ![r] = q]
                     /\ IsReq(q) /\ q.op = p /\ q.w = req[r].w /\ q.i = req[r].i
        BY <1>t, <2>1, <3>2, <4>1, ReqGoesOn DEF CreateAgent, Types, Creating
      <4>. QED BY <2>1, <3>2, <4>2, LeakInvAgent DEF CreateAgent
    <3>. QED BY <2>1, <3>1, <3>2 DEF CreateAgent
  <2>2. CASE CreateCname(r)
    BY <2>2, LeakInvOn DEF CreateCname
  <2>3. CASE RemoveErase(r)
    <3>1. PICK p \in {"unname", "delete"} : p = AfterErase(req[r].w)
      BY DEF AfterErase
    <3>. QED BY <2>3, <3>1, LeakInvOn DEF RemoveErase, Deleting
  <2>4. CASE RemoveCname(r)
    BY <2>4, LeakInvOn DEF RemoveCname, Deleting
  <2>. QED BY <1>5, <2>1, <2>2, <2>3, <2>4, LeakInvPlace, LeakInvCreated, LeakInvDeleted,
       LeakInvRemoved DEF ReqStep
<1>6. ASSUME NEW r \in Reqs, CallFails(r) \/ AnswerLost(r)
      PROVE  LeakInv'
  <2>1. CASE CallFails(r)
    BY <2>1, LeakInvEnd DEF CallFails
  <2>2. CASE AnswerLost(r) /\ req[r].op = "delete"
    BY <2>2, LeakInvEnd DEF AnswerLost
  <2>3. CASE AnswerLost(r) /\ req[r].op = "agent"
    BY <2>3, LeakInvAgent, NoReqFields DEF AnswerLost, EndReq
  <2>. QED BY <1>6, <2>1, <2>2, <2>3 DEF AnswerLost
<1>. QED BY <1>1, <1>2, <1>3, <1>4, <1>5, <1>6, LeakInvBegin DEF Next, HbStep

(* Whatever fails, a created workload that no heartbeat removed runs only  *)
(* on the instance of its row: removals call the agent before they commit, *)
(* and a creation that is not committed is about a new identifier.         *)
THEOREM NoWorkloadLeaks == Spec => []NoLeak
<1>1. Init => LeakInv
  BY InitLeakInv
<1>2. LeakInv /\ [Next]_vars => LeakInv'
  BY LeakInvStep
<1>3. LeakInv => NoLeak
  BY DEF LeakInv
<1>. QED BY <1>1, <1>2, <1>3, PTL DEF Spec

-----------------------------------------------------------------------------
(* InStep. First, heartbeats and the removals they start are about created *)
(* workloads only.                                                         *)

IsHb(h) ==
    /\ DOMAIN h = HbFields
    /\ h.seen \subseteq created /\ h.gone \subseteq created
    /\ h.pc # "commit" => h.gone = {}

HbInv ==
    /\ DOMAIN hb = Instances /\ \A i \in Instances : IsHb(hb[i])
    /\ DOMAIN reaper = Workloads
    /\ \A w \in Workloads : reaper[w] # "none" => w \in created

LEMMA InitHbInv == Init => HbInv
  BY NoHbFields DEF Init, HbInv, IsHb

LEMMA HbInvOne ==
    ASSUME HbInv, NEW i \in Instances, NEW h, hb' = [hb EXCEPT ![i] = h],
           IsHb(h), UNCHANGED <<created, reaper>>
    PROVE  /\ HbInv'
           /\ hb'[i] = h
           /\ \A j \in Instances : j # i => hb'[j] = hb[j]
<1>1. /\ DOMAIN hb' = Instances /\ hb'[i] = h
      /\ \A j \in Instances : j # i => hb'[j] = hb[j]
  BY DEF HbInv
<1>. QED BY <1>1 DEF HbInv, IsHb

(* A step that leaves the heartbeats alone.                                *)
LEMMA HbInvSame ==
    ASSUME HbInv, UNCHANGED hb, created \subseteq created', DOMAIN reaper' = Workloads,
           \A w \in Workloads : reaper'[w] # "none" => reaper[w] # "none"
    PROVE  HbInv'
  BY DEF HbInv, IsHb

(* The workloads that a heartbeat is about to remove, when it reads, when  *)
(* it charges and when it erases the rows.                                 *)
LEMMA HeartbeatRead ==
    ASSUME HbInv, LeakInv, NEW i \in Instances, HbRead(i)
    PROVE  \E h : hb' = [hb EXCEPT ![i] = h] /\ IsHb(h) /\ h.gone = {}
<1>1. PICK c : c = (minute # lastSeen[i])
  OBVIOUS
<1>2. PICK s : s = {w \in Placed(i) : w \notin stopped}
  OBVIOUS
<1>3. PICK p : p = IF c /\ s # {} THEN "read" ELSE "commit"
  OBVIOUS
<1>4. PICK t : t = IF c THEN s ELSE {}
  OBVIOUS
<1>5. PICK h : h = [NoHb EXCEPT !.pc = p, !.now = minute, !.charge = c, !.seen = t]
  OBVIOUS
<1>6. hb' = [hb EXCEPT ![i] = h]
  BY <1>1, <1>2, <1>3, <1>4, <1>5 DEF HbRead
<1>7. DOMAIN h = HbFields /\ h.gone = {} /\ h.seen = t
  BY <1>5 DEF NoHb, HbFields
<1>8. t \subseteq created
  <2>1. \A w \in Placed(i) : w \in created
    BY NoRowNoInstance DEF Placed, LeakInv, RowsCreated
  <2>. QED BY <1>2, <1>4, <2>1
<1>. QED BY <1>6, <1>7, <1>8 DEF IsHb

LEMMA HeartbeatCharges ==
    ASSUME HbInv, NEW i \in Instances, HbDeduct(i)
    PROVE  \E h : hb' = [hb EXCEPT ![i] = h] /\ IsHb(h) /\ h.gone = hb[i].gone
<1>1. PICK o, x : o = hb[i] /\ x = Left(i)
  OBVIOUS
<1>2. PICK h : h = [o EXCEPT !.pc = "erase", !.left = x]
  OBVIOUS
<1>3. IsHb(o) /\ o.pc = "read"
  BY <1>1 DEF HbInv, HbDeduct
<1>4. hb' = [hb EXCEPT ![i] = h]
  BY <1>1, <1>2 DEF HbDeduct, HbInv
<1>5. DOMAIN h = HbFields /\ h.pc = "erase" /\ h.gone = o.gone /\ h.seen = o.seen
  BY <1>2, <1>3 DEF IsHb, HbFields
<1>. QED BY <1>1, <1>3, <1>4, <1>5 DEF IsHb

LEMMA HeartbeatErases ==
    ASSUME HbInv, NEW i \in Instances, HbErase(i)
    PROVE  \E h, g : /\ hb' = [hb EXCEPT ![i] = h] /\ IsHb(h) /\ h.gone = g
                     /\ g \subseteq created /\ hb[i].gone = {}
                     /\ reaper' = [w \in Workloads |->
                          IF w \in g THEN AfterErase(w) ELSE reaper[w]]
<1>1. PICK o, g : o = hb[i] /\ g = Offenders(i, hb[i].left)
  OBVIOUS
<1>2. PICK h : h = [o EXCEPT !.pc = "commit", !.gone = g]
  OBVIOUS
<1>3. IsHb(o) /\ o.pc = "erase"
  BY <1>1 DEF HbInv, HbErase
<1>4. hb' = [hb EXCEPT ![i] = h]
  BY <1>1, <1>2 DEF HbErase, HbInv
<1>5. DOMAIN h = HbFields /\ h.pc = "commit" /\ h.gone = g /\ h.seen = o.seen
  BY <1>2, <1>3 DEF IsHb, HbFields
<1>6. g \subseteq o.seen
  BY <1>1 DEF Offenders
<1>7. g \subseteq created
  BY <1>3, <1>6 DEF IsHb
<1>8. reaper' = [w \in Workloads |-> IF w \in g THEN AfterErase(w) ELSE reaper[w]]
  BY <1>1 DEF HbErase
<1>9. IsHb(h) /\ o.gone = {}
  BY <1>3, <1>5, <1>7 DEF IsHb
<1>. QED BY <1>1, <1>4, <1>5, <1>7, <1>8, <1>9

(* A minute passes: only `late` changes.                                   *)
LEMMA HeartbeatsLate ==
    ASSUME HbInv, Tick
    PROVE  /\ HbInv'
           /\ \A i \in Instances : hb'[i].gone = hb[i].gone
<1>1. ASSUME NEW i \in Instances
      PROVE  /\ DOMAIN hb'[i] = HbFields
             /\ hb'[i].gone = hb[i].gone /\ hb'[i].seen = hb[i].seen
             /\ hb'[i].pc = hb[i].pc
  <2>1. PICK o, l : o = hb[i] /\ l = (o # NoHb)
    OBVIOUS
  <2>2. hb'[i] = [o EXCEPT !.late = l]
    BY <2>1 DEF Tick
  <2>3. DOMAIN o = HbFields
    BY <2>1 DEF HbInv, IsHb
  <2>. QED BY <2>1, <2>2, <2>3 DEF HbFields
<1>2. DOMAIN hb' = Instances /\ UNCHANGED <<created, reaper>>
  BY DEF Tick
<1>. QED BY <1>1, <1>2 DEF HbInv, IsHb

LEMMA NoHbOK == IsHb(NoHb)
  BY NoHbFields DEF IsHb

LEMMA HbInvStep ==
    ASSUME HbInv, LeakInv, [Next]_vars
    PROVE  HbInv'
<1>1. CASE Tick
  BY <1>1, HeartbeatsLate
<1>2. ASSUME NEW i \in Instances, HbRead(i)
      PROVE  HbInv'
  BY <1>2, HeartbeatRead, HbInvOne DEF HbRead
<1>3. ASSUME NEW i \in Instances, HbDeduct(i)
      PROVE  HbInv'
  BY <1>3, HeartbeatCharges, HbInvOne DEF HbDeduct
<1>4. ASSUME NEW i \in Instances, HbErase(i)
      PROVE  HbInv'
  <2>1. PICK h, g : /\ hb' = [hb EXCEPT ![i] = h] /\ IsHb(h)
                    /\ g \subseteq created
                    /\ reaper' = [w \in Workloads |->
                         IF w \in g THEN AfterErase(w) ELSE reaper[w]]
    BY <1>4, HeartbeatErases
  <2>2. UNCHANGED created
    BY <1>4 DEF HbErase
  <2>3. /\ DOMAIN hb' = Instances /\ hb'[i] = h
        /\ \A j \in Instances : j # i => hb'[j] = hb[j]
    BY <2>1 DEF HbInv
  <2>. QED BY <2>1, <2>2, <2>3 DEF HbInv, IsHb
<1>5. ASSUME NEW i \in Instances, HbCommit(i) \/ HbFails(i)
      PROVE  HbInv'
  BY <1>5, NoHbOK, HbInvOne DEF HbCommit, HbFails
<1>6. CASE Crash \/ \E i \in Instances : HbRejected(i)
  <2>1. /\ hb' = [i \in Instances |-> NoHb] /\ reaper' = [w \in Workloads |-> "none"]
        /\ UNCHANGED created
    BY <1>6 DEF Crash, HbRejected, ProcessEnds
  <2>. QED BY <2>1, NoHbFields DEF HbInv, IsHb
<1>7. ASSUME NEW w \in Workloads, ReapCname(w) \/ ReapAgent(w)
      PROVE  HbInv'
  <2>1. UNCHANGED <<hb, created>>
    BY <1>7 DEF ReapCname, ReapAgent
  <2>2. /\ reaper[w] # "none" /\ DOMAIN reaper' = Workloads
        /\ \A v \in Workloads : v # w => reaper'[v] = reaper[v]
    BY <1>7 DEF ReapCname, ReapAgent, HbInv
  <2>. QED BY <2>1, <2>2, HbInvSame
<1>8. CASE \/ UNCHANGED vars
           \/ \E i \in Instances : Register(i) \/ RemoveInstance(i)
           \/ \E w \in Workloads : StatusEvent(w)
           \/ \E r \in Reqs : \/ ReqStep(r) \/ CallFails(r) \/ AnswerLost(r)
                              \/ \E w \in Workloads : CreateBegin(r, w) \/ RemoveFind(r, w)
  <2>1. UNCHANGED <<hb, reaper>>
    BY <1>8 DEF vars, Register, RemoveInstance, StatusEvent, CallFails, AnswerLost, ReqStep,
       CreateBegin, RemoveFind, CreatePlace, CreateAgent, CreateCname, CreateCommit,
       RemoveErase, RemoveCname, RemoveAgent, RemoveCommit
  <2>2. created \subseteq created'
    BY <1>8 DEF vars, Register, RemoveInstance, StatusEvent, CallFails, AnswerLost, ReqStep,
       CreateBegin, RemoveFind, CreatePlace, CreateAgent, CreateCname, CreateCommit,
       RemoveErase, RemoveCname, RemoveAgent, RemoveCommit
  <2>. QED BY <2>1, <2>2, HbInvSame DEF HbInv
<1>. QED BY <1>1, <1>2, <1>3, <1>4, <1>5, <1>6, <1>7, <1>8 DEF Next, HbStep

-----------------------------------------------------------------------------
(* What holds while nothing has failed. A row names a registered instance, *)
(* whose agent has the workload unless a removal is at its end; an agent   *)
(* has no workload but those of its rows, of the creations that are about  *)
(* to commit and of the removals that a heartbeat started and has not      *)
(* finished.                                                               *)

Ending(w) == \E r \in Reqs : req[r].w = w /\ req[r].op = "end"
Starting(w) == \E r \in Reqs : req[r].w = w /\ req[r].op \in {"dns", "commit"}
Gone(w) == \E i \in Instances : w \in hb[i].gone

RowsRun == \A w \in Workloads : rows[w] # NoRow =>
    /\ rows[w] \in instances
    /\ w \in vms[rows[w]] \/ Ending(w) \/ Gone(w)

RunsKnown == \A w \in Workloads, j \in Instances : w \in vms[j] =>
    rows[w] = j \/ Starting(w) \/ reaper[w] # "none"

CreationsRun == \A r \in Reqs :
    /\ req[r].op \in {"agent", "dns", "commit"} => req[r].i \in instances
    /\ req[r].op \in {"dns", "commit"} => req[r].w \in vms[req[r].i]

GoneReaped == \A w \in Workloads, j \in Instances :
    Gone(w) /\ w \in vms[j] => reaper[w] # "none"

ReapedGone == \A w \in Workloads : reaper[w] # "none" => Gone(w) \/ rows[w] = NoRow

Agreeing == RowsRun /\ RunsKnown /\ CreationsRun /\ GoneReaped /\ ReapedGone

StepInv == LeakInv /\ HbInv /\ (~disturbed => Agreeing)

LEMMA InitAgreeing == Init => Agreeing
  BY NoHbFields, NoReqFields DEF Init, Agreeing, RowsRun, RunsKnown, CreationsRun,
     GoneReaped, ReapedGone, Gone

(* The removals of heartbeats are the same, and no row or creation is      *)
(* about an instance that is removed.                                      *)
LEMMA AgreeingSame ==
    ASSUME Agreeing, UNCHANGED <<req, rows, vms>>,
           \A w \in Workloads : Gone(w)' <=> Gone(w),
           \A w \in Workloads : reaper'[w] = "none" <=> reaper[w] = "none",
           \A w \in Workloads : rows[w] # NoRow => rows[w] \in instances',
           \A r \in Reqs : req[r].op \in {"agent", "dns", "commit"} => req[r].i \in instances'
    PROVE  Agreeing'
<1>. USE DEF Agreeing
<1>1. RowsRun'
  BY DEF RowsRun, Ending
<1>2. RunsKnown'
  BY DEF RunsKnown, Starting
<1>3. CreationsRun'
  BY DEF CreationsRun
<1>4. GoneReaped' /\ ReapedGone'
  BY DEF GoneReaped, ReapedGone
<1>. QED BY <1>1, <1>2, <1>3, <1>4

(* A request goes on where neither the rows nor the agents are concerned.  *)
LEMMA AgreeingGoes ==
    ASSUME LeakInv, Agreeing, UNCHANGED <<instances, rows, vms, hb, reaper>>,
           NEW r \in Reqs, NEW q, req' = [req EXCEPT ![r] = q],
           req[r].op # "end",
           req[r].op \in {"dns", "commit"} =>
               q.op \in {"dns", "commit"} /\ q.w = req[r].w /\ q.i = req[r].i,
           q.op \in {"dns", "commit"} => req[r].op \in {"dns", "commit"},
           q.op = "agent" => q.i \in instances
    PROVE  Agreeing'
<1>. USE DEF Agreeing
<1>1. /\ DOMAIN req' = Reqs /\ req'[r] = q
      /\ \A s \in Reqs : s # r => req'[s] = req[s]
  BY ReqReplaced DEF LeakInv, Types
<1>2. \A w : Ending(w) => Ending(w)'
  BY <1>1 DEF Ending
<1>3. \A w : Starting(w) => Starting(w)'
  BY <1>1 DEF Starting
<1>4. RowsRun'
  BY <1>2 DEF RowsRun, Gone
<1>5. RunsKnown'
  BY <1>3 DEF RunsKnown
<1>6. CreationsRun'
  BY <1>1 DEF CreationsRun
<1>7. GoneReaped' /\ ReapedGone'
  BY DEF GoneReaped, ReapedGone, Gone
<1>. QED BY <1>4, <1>5, <1>6, <1>7

LEMMA AgreeingStarted ==
    ASSUME LeakInv, HbInv, Agreeing, NEW r \in Reqs, CreateAgent(r)
    PROVE  Agreeing'
<1>. USE DEF Agreeing
<1>1. PICK o : o = req[r]
  OBVIOUS
<1>2. o.op = "agent" /\ UNCHANGED <<instances, rows, hb, reaper>>
  BY <1>1 DEF CreateAgent
<1>3. CASE EndReq(r) /\ UNCHANGED vms
  BY <1>1, <1>2, <1>3, NoReqFields, AgreeingGoes DEF EndReq
<1>4. CASE /\ To(r, AfterAgent(o.w))
           /\ vms' = [vms EXCEPT ![o.i] = @ \cup {o.w}]
  <2>1. PICK p \in {"dns", "commit"} : p = AfterAgent(o.w)
    BY DEF AfterAgent
  <2>2. PICK q : req' = [req EXCEPT ![r] = q] /\ q.op = p /\ q.w = o.w /\ q.i = o.i
    BY <1>1, <1>2, <1>4, <2>1, ReqGoesOn DEF LeakInv, Types, Creating
  <2>3. /\ DOMAIN req' = Reqs /\ req'[r] = q
        /\ \A s \in Reqs : s # r => req'[s] = req[s]
    BY <2>2, ReqReplaced DEF LeakInv, Types
  <2>4. /\ o.w \in Workloads /\ o.w \notin created /\ o.i \in Instances
        /\ o.i \in instances
    BY <1>1, <1>2, Request DEF LeakInv, CreationsOK, Creating, CreationsRun
  <2>5. /\ vms'[o.i] = vms[o.i] \cup {o.w}
        /\ \A j \in Instances : j # o.i => vms'[j] = vms[j]
    BY <1>4, <2>4 DEF LeakInv, Types
  <2>6. \A j \in Instances : \A w : w \in vms[j] => w \in vms'[j]
    BY <2>5
  <2>7. \A j \in Instances : \A w : w \in vms'[j] => w \in vms[j] \/ w = o.w
    BY <2>5
  <2>8. \A w : Ending(w) => Ending(w)'
    BY <1>1, <1>2, <2>3 DEF Ending
  <2>9. /\ \A w : Starting(w) => Starting(w)'
        /\ Starting(o.w)'
    BY <1>1, <1>2, <2>1, <2>2, <2>3 DEF Starting
  <2>10. RowsRun'
    <3>1. \A w \in Workloads : rows[w] # NoRow => rows[w] \in Instances
      BY DEF LeakInv, Types
    <3>. QED BY <1>2, <2>6, <2>8, <3>1 DEF RowsRun, Gone
  <2>11. RunsKnown'
    BY <1>2, <2>7, <2>9 DEF RunsKnown
  <2>12. CreationsRun'
    <3>1. ASSUME NEW s \in Reqs, req[s].op \in {"dns", "commit"}
          PROVE  req[s].i \in Instances /\ req[s].w \in vms'[req[s].i]
      BY <2>6, <3>1 DEF CreationsRun, LeakInv, CreationsOK, Creating
    <3>2. o.w \in vms'[o.i]
      BY <2>5
    <3>. QED BY <1>2, <2>1, <2>2, <2>3, <2>4, <3>1, <3>2 DEF CreationsRun
  <2>13. ~Gone(o.w)
    BY <2>4 DEF Gone, HbInv, IsHb
  <2>14. GoneReaped' /\ ReapedGone'
    BY <1>2, <2>7, <2>13 DEF GoneReaped, ReapedGone, Gone
  <2>. QED BY <2>10, <2>11, <2>12, <2>14
<1>. QED BY <1>1, <1>3, <1>4 DEF CreateAgent

LEMMA AgreeingCreated ==
    ASSUME LeakInv, HbInv, Agreeing, NEW r \in Reqs, CreateCommit(r)
    PROVE  Agreeing'
<1>. USE DEF Agreeing
<1>1. PICK o : o = req[r]
  OBVIOUS
<1>2. /\ o.op = "commit" /\ EndReq(r) /\ rows' = [rows EXCEPT ![o.w] = o.i]
      /\ UNCHANGED <<instances, vms, hb, reaper>>
  BY <1>1 DEF CreateCommit
<1>3. /\ DOMAIN req' = Reqs /\ req'[r].op = "none"
      /\ \A s \in Reqs : s # r => req'[s] = req[s]
  BY <1>2, ReqReplaced, NoReqFields DEF LeakInv, Types, EndReq
<1>4. /\ o.w \in Workloads /\ o.w \notin created /\ o.i \in Instances
      /\ \A j \in Instances : o.w \in vms[j] => j = o.i
      /\ o.i \in instances /\ o.w \in vms[o.i]
  BY <1>1, <1>2, Request DEF LeakInv, CreationsOK, Creating, CreationsRun
<1>5. /\ rows'[o.w] = o.i
      /\ \A w \in Workloads : w # o.w => rows'[w] = rows[w]
  BY <1>2, <1>4 DEF LeakInv, Types
<1>6. \A w : w # o.w /\ Starting(w) => Starting(w)'
  BY <1>1, <1>3 DEF Starting
<1>7. \A w : Ending(w) => Ending(w)'
  BY <1>1, <1>2, <1>3 DEF Ending
<1>8. reaper[o.w] = "none"
  BY <1>4 DEF HbInv
<1>9. RowsRun'
  BY <1>2, <1>4, <1>5, <1>7 DEF RowsRun, Gone
<1>10. RunsKnown'
  BY <1>2, <1>4, <1>5, <1>6 DEF RunsKnown
<1>11. CreationsRun'
  BY <1>2, <1>3 DEF CreationsRun
<1>12. GoneReaped' /\ ReapedGone'
  BY <1>2, <1>5, <1>8 DEF GoneReaped, ReapedGone, Gone
<1>. QED BY <1>9, <1>10, <1>11, <1>12

LEMMA AgreeingDeleted ==
    ASSUME LeakInv, Agreeing, NEW r \in Reqs, RemoveAgent(r)
    PROVE  Agreeing'
<1>. USE DEF Agreeing
<1>1. PICK o : o = req[r]
  OBVIOUS
<1>2. /\ o.op = "delete" /\ To(r, "end") /\ vms' = [vms EXCEPT ![o.i] = @ \ {o.w}]
      /\ UNCHANGED <<instances, rows, hb, reaper>>
  BY <1>1 DEF RemoveAgent
<1>3. PICK q : req' = [req EXCEPT ![r] = q] /\ q.op = "end" /\ q.w = o.w /\ q.i = o.i
  BY <1>1, <1>2, ReqGoesOn DEF LeakInv, Types, Deleting
<1>4. /\ DOMAIN req' = Reqs /\ req'[r] = q
      /\ \A s \in Reqs : s # r => req'[s] = req[s]
  BY <1>3, ReqReplaced DEF LeakInv, Types
<1>5. o.w \in created /\ o.i \in Instances
  BY <1>1, <1>2 DEF LeakInv, RemovalsOK, Deleting
<1>6. /\ vms'[o.i] = vms[o.i] \ {o.w}
      /\ \A j \in Instances : j # o.i => vms'[j] = vms[j]
  BY <1>2, <1>5 DEF LeakInv, Types
<1>7. /\ \A j \in Instances : vms'[j] \subseteq vms[j]
      /\ \A j \in Instances : \A w : w # o.w /\ w \in vms[j] => w \in vms'[j]
  BY <1>6
<1>8. /\ \A w : Ending(w) => Ending(w)'
      /\ Ending(o.w)'
  BY <1>1, <1>2, <1>3, <1>4 DEF Ending
<1>9. \A w : Starting(w) => Starting(w)'
  BY <1>1, <1>2, <1>4 DEF Starting
<1>10. RowsRun'
  <2>1. \A w \in Workloads : rows[w] # NoRow => rows[w] \in Instances
    BY DEF LeakInv, Types
  <2>. QED BY <1>2, <1>7, <1>8, <2>1 DEF RowsRun, Gone
<1>11. RunsKnown'
  BY <1>2, <1>7, <1>9 DEF RunsKnown
<1>12. CreationsRun'
  <2>1. ASSUME NEW s \in Reqs, req[s].op \in {"dns", "commit"}
        PROVE  req[s].w \in vms'[req[s].i]
    BY <1>5, <1>7, <2>1 DEF CreationsRun, LeakInv, CreationsOK, Creating
  <2>. QED BY <1>2, <1>3, <1>4, <2>1 DEF CreationsRun
<1>13. GoneReaped' /\ ReapedGone'
  BY <1>2, <1>7 DEF GoneReaped, ReapedGone, Gone
<1>. QED BY <1>10, <1>11, <1>12, <1>13

LEMMA AgreeingRemoved ==
    ASSUME LeakInv, Agreeing, NEW r \in Reqs, RemoveCommit(r)
    PROVE  Agreeing'
<1>. USE DEF Agreeing
<1>1. PICK o : o = req[r]
  OBVIOUS
<1>2. /\ o.op = "end" /\ EndReq(r) /\ rows' = [rows EXCEPT ![o.w] = NoRow]
      /\ UNCHANGED <<instances, vms, hb, reaper>>
  BY <1>1 DEF RemoveCommit
<1>3. /\ DOMAIN req' = Reqs /\ req'[r].op = "none"
      /\ \A s \in Reqs : s # r => req'[s] = req[s]
  BY <1>2, ReqReplaced, NoReqFields DEF LeakInv, Types, EndReq
<1>4. /\ o.w \in Workloads /\ o.i \in Instances
      /\ rows[o.w] \in {o.i, NoRow} /\ o.w \notin vms[o.i]
  BY <1>1, <1>2, Request DEF LeakInv, RemovalsOK, Deleting
<1>5. /\ rows'[o.w] = NoRow
      /\ \A w \in Workloads : w # o.w => rows'[w] = rows[w]
  BY <1>2, <1>4 DEF LeakInv, Types
<1>6. \A w : Starting(w) => Starting(w)'
  BY <1>1, <1>2, <1>3 DEF Starting
<1>7. \A w : w # o.w /\ Ending(w) => Ending(w)'
  BY <1>1, <1>3 DEF Ending
<1>8. RowsRun'
  BY <1>2, <1>5, <1>7 DEF RowsRun, Gone
<1>9. RunsKnown'
  BY <1>2, <1>4, <1>5, <1>6, NoRowNoInstance DEF RunsKnown
<1>10. CreationsRun'
  BY <1>2, <1>3 DEF CreationsRun
<1>11. GoneReaped' /\ ReapedGone'
  BY <1>2, <1>5 DEF GoneReaped, ReapedGone, Gone
<1>. QED BY <1>8, <1>9, <1>10, <1>11

(* A heartbeat erases rows, and the removals of their workloads start.     *)
LEMMA AgreeingErased ==
    ASSUME HbInv, Agreeing, NEW i \in Instances, HbErase(i)
    PROVE  Agreeing'
<1>. USE DEF Agreeing
<1>1. PICK h, g : /\ hb' = [hb EXCEPT ![i] = h] /\ h.gone = g /\ hb[i].gone = {}
                  /\ reaper' = [w \in Workloads |->
                       IF w \in g THEN AfterErase(w) ELSE reaper[w]]
  BY HeartbeatErases
<1>2. UNCHANGED <<instances, rows, vms, req>>
  BY DEF HbErase
<1>3. /\ hb'[i].gone = g
      /\ \A j \in Instances : j # i => hb'[j] = hb[j]
  BY <1>1 DEF HbInv
<1>4. /\ \A w : Gone(w) => Gone(w)'
      /\ \A w : Gone(w)' => Gone(w) \/ w \in g
      /\ \A w \in g : Gone(w)'
  BY <1>1, <1>3 DEF Gone
<1>5. /\ \A w \in Workloads : reaper[w] # "none" => reaper'[w] # "none"
      /\ \A w \in Workloads : reaper'[w] # "none" => reaper[w] # "none" \/ w \in g
      /\ \A w \in Workloads : w \in g => reaper'[w] # "none"
  BY <1>1 DEF AfterErase
<1>6. RowsRun'
  BY <1>2, <1>4 DEF RowsRun, Ending
<1>7. RunsKnown'
  BY <1>2, <1>5 DEF RunsKnown, Starting
<1>8. CreationsRun'
  BY <1>2 DEF CreationsRun
<1>9. GoneReaped'
  BY <1>2, <1>4, <1>5 DEF GoneReaped
<1>10. ReapedGone'
  BY <1>2, <1>4, <1>5 DEF ReapedGone
<1>. QED BY <1>6, <1>7, <1>8, <1>9, <1>10

LEMMA AgreeingHeartbeat ==
    ASSUME LeakInv, HbInv, Agreeing, NEW i \in Instances, HbCommit(i)
    PROVE  Agreeing'
<1>. USE DEF Agreeing
<1>1. PICK g : g = hb[i].gone
  OBVIOUS
<1>2. /\ instances' = instances \cup {i} /\ hb' = [hb EXCEPT ![i] = NoHb]
      /\ rows' = [w \in Workloads |-> IF w \in g THEN NoRow ELSE rows[w]]
      /\ UNCHANGED <<vms, req, reaper>>
  BY <1>1 DEF HbCommit
<1>3. /\ hb'[i].gone = {}
      /\ \A j \in Instances : j # i => hb'[j] = hb[j]
  BY <1>2, NoHbFields DEF HbInv
<1>4. /\ \A w : Gone(w)' => Gone(w)
      /\ \A w : Gone(w) => Gone(w)' \/ w \in g
      /\ \A w \in g : Gone(w)
  BY <1>1, <1>3 DEF Gone
<1>5. \A w \in Workloads : rows'[w] = IF w \in g THEN NoRow ELSE rows[w]
  BY <1>2
<1>6. RowsRun'
  BY <1>2, <1>4, <1>5 DEF RowsRun, Ending
<1>7. RunsKnown'
  <2>1. \A w \in Workloads, j \in Instances : w \in g /\ w \in vms[j] => reaper[w] # "none"
    BY <1>4 DEF GoneReaped
  <2>. QED BY <1>2, <1>5, <2>1 DEF RunsKnown, Starting
<1>8. CreationsRun'
  BY <1>2 DEF CreationsRun
<1>9. GoneReaped' /\ ReapedGone'
  BY <1>2, <1>4, <1>5 DEF GoneReaped, ReapedGone
<1>. QED BY <1>6, <1>7, <1>8, <1>9

LEMMA AgreeingReaped ==
    ASSUME LeakInv, HbInv, Agreeing, NEW w \in Workloads, ReapAgent(w)
    PROVE  Agreeing'
<1>. USE DEF Agreeing
<1>1. /\ reaper[w] = "delete" /\ vms' = [i \in Instances |-> vms[i] \ {w}]
      /\ reaper' = [reaper EXCEPT ![w] = "none"]
      /\ UNCHANGED <<instances, rows, req, hb>>
  BY DEF ReapAgent
<1>2. \A v \in Workloads : v # w => reaper'[v] = reaper[v]
  BY <1>1 DEF HbInv
<1>3. /\ \A j \in Instances : w \notin vms'[j] /\ vms'[j] \subseteq vms[j]
      /\ \A j \in Instances : \A v : v # w /\ v \in vms[j] => v \in vms'[j]
  BY <1>1
<1>4. reaper'[w] = "none"
  BY <1>1 DEF HbInv
<1>5. w \in created /\ (Gone(w) \/ rows[w] = NoRow)
  BY <1>1 DEF HbInv, ReapedGone
<1>6. RowsRun'
  <2>1. \A v \in Workloads : rows[v] # NoRow => rows[v] \in Instances
    BY DEF LeakInv, Types
  <2>. QED BY <1>1, <1>3, <1>5, <2>1 DEF RowsRun, Ending, Gone
<1>7. RunsKnown'
  BY <1>1, <1>2, <1>3 DEF RunsKnown, Starting
<1>8. CreationsRun'
  <2>1. ASSUME NEW s \in Reqs, req[s].op \in {"dns", "commit"}
        PROVE  req[s].w \in vms'[req[s].i]
    BY <1>3, <1>5, <2>1 DEF CreationsRun, LeakInv, CreationsOK, Creating
  <2>. QED BY <1>1, <2>1 DEF CreationsRun
<1>9. GoneReaped' /\ ReapedGone'
  BY <1>1, <1>2, <1>3, <1>4 DEF GoneReaped, ReapedGone, Gone
<1>. QED BY <1>6, <1>7, <1>8, <1>9

LEMMA AgreeingRequest ==
    ASSUME LeakInv, HbInv, Agreeing, NEW r \in Reqs,
           ReqStep(r) \/ \E w \in Workloads : CreateBegin(r, w) \/ RemoveFind(r, w)
    PROVE  Agreeing'
<1>1. ASSUME NEW w \in Workloads, CreateBegin(r, w)
      PROVE  Agreeing'
  <2>1. PICK q : q = [op |-> "place", w |-> w, i |-> NoRow, balance |-> balance[Owner(w)]]
    OBVIOUS
  <2>2. q.op = "place" /\ req[r].op = "none" /\ req' = [req EXCEPT ![r] = q]
    BY <1>1, <2>1, NoReqFields DEF CreateBegin
  <2>. QED BY <1>1, <2>2, AgreeingGoes DEF CreateBegin
<1>2. ASSUME NEW w \in Workloads, RemoveFind(r, w)
      PROVE  Agreeing'
  <2>1. PICK q : q = [op |-> "erase", w |-> w, i |-> rows[w], balance |-> 0]
    OBVIOUS
  <2>2. q.op = "erase" /\ req[r].op = "none" /\ req' = [req EXCEPT ![r] = q]
    BY <1>2, <2>1, NoReqFields DEF RemoveFind
  <2>. QED BY <1>2, <2>2, AgreeingGoes DEF RemoveFind
<1>3. CASE CreatePlace(r)
  <2>1. req[r].op = "place" /\ UNCHANGED <<instances, rows, vms, hb, reaper>>
    BY <1>3 DEF CreatePlace
  <2>2. CASE EndReq(r)
    BY <2>1, <2>2, NoReqFields, AgreeingGoes DEF EndReq
  <2>3. ASSUME NEW q, req' = [req EXCEPT ![r] = q], q.op = "agent", q.i \in instances
        PROVE  Agreeing'
    BY <2>1, <2>3, AgreeingGoes
  <2>. QED BY <1>3, <2>2, <2>3, InstanceChosen DEF LeakInv
<1>4. CASE CreateCname(r) \/ RemoveErase(r) \/ RemoveCname(r)
  <2>1. UNCHANGED <<instances, rows, vms, hb, reaper>>
    BY <1>4 DEF CreateCname, RemoveErase, RemoveCname
  <2>2. PICK p : /\ To(r, p)
                 /\ \/ req[r].op = "dns" /\ p = "commit"
                    \/ req[r].op \in {"erase", "unname"} /\ p \in {"unname", "delete"}
    BY <1>4 DEF CreateCname, RemoveErase, RemoveCname, AfterErase
  <2>3. PICK q : req' = [req EXCEPT ![r] = q] /\ q.op = p /\ q.w = req[r].w /\ q.i = req[r].i
    BY <2>2, ReqGoesOn DEF LeakInv, Types, Creating, Deleting
  <2>4. CASE req[r].op = "dns" /\ p = "commit"
    BY <2>1, <2>3, <2>4, AgreeingGoes
  <2>5. CASE req[r].op \in {"erase", "unname"} /\ p \in {"unname", "delete"}
    BY <2>1, <2>3, <2>5, AgreeingGoes
  <2>. QED BY <2>2, <2>4, <2>5
<1>. QED BY <1>1, <1>2, <1>3, <1>4, AgreeingStarted, AgreeingCreated, AgreeingDeleted,
     AgreeingRemoved DEF ReqStep

LEMMA AgreeingStep ==
    ASSUME StepInv, [Next]_vars, ~disturbed'
    PROVE  Agreeing'
<1>1. LeakInv /\ HbInv
  BY DEF StepInv
<1>2. ~(\/ Crash \/ \E i \in Instances : HbRejected(i) \/ HbFails(i)
        \/ \E r \in Reqs : CallFails(r) \/ AnswerLost(r))
  BY DEF Crash, HbRejected, HbFails, CallFails, AnswerLost, Fault, ProcessEnds
<1>3. Agreeing
  <2>1. disturbed' = disturbed
    BY <1>2 DEF Next, vars, Tick, Register, RemoveInstance, HbRead, HbStep, HbDeduct, HbErase,
       HbCommit, ReapCname, ReapAgent, StatusEvent, faultVars, ReqStep, CreateBegin,
       RemoveFind, CreatePlace, CreateAgent, CreateCname, CreateCommit, RemoveErase,
       RemoveCname, RemoveAgent, RemoveCommit
  <2>. QED BY <2>1 DEF StepInv
<1>4. CASE Tick
  <2>1. UNCHANGED <<req, rows, vms, reaper, instances>>
    BY <1>4 DEF Tick
  <2>2. \A w : Gone(w)' <=> Gone(w)
    BY <1>1, <1>4, HeartbeatsLate DEF Gone
  <2>. QED BY <1>3, <2>1, <2>2, AgreeingSame DEF Agreeing, RowsRun, CreationsRun
<1>5. ASSUME NEW i \in Instances, HbRead(i) \/ HbDeduct(i)
      PROVE  Agreeing'
  <2>1. UNCHANGED <<req, rows, vms, reaper, instances, created>>
    BY <1>5 DEF HbRead, HbDeduct
  <2>2. PICK h : hb' = [hb EXCEPT ![i] = h] /\ IsHb(h) /\ h.gone = hb[i].gone
    BY <1>1, <1>5, HeartbeatRead, HeartbeatCharges, NoHbFields DEF HbRead
  <2>3. \A j \in Instances : hb'[j].gone = hb[j].gone
    BY <1>1, <2>1, <2>2, HbInvOne
  <2>4. \A w : Gone(w)' <=> Gone(w)
    BY <2>3 DEF Gone
  <2>. QED BY <1>3, <2>1, <2>4, AgreeingSame DEF Agreeing, RowsRun, CreationsRun
<1>6. ASSUME NEW i \in Instances, RemoveInstance(i)
      PROVE  Agreeing'
  <2>1. UNCHANGED <<req, rows, vms, reaper, hb>> /\ instances' = instances \ {i}
    BY <1>6 DEF RemoveInstance
  <2>2. \A w \in Workloads : rows[w] # NoRow => rows[w] \in instances'
    BY <1>3, <1>6, <2>1 DEF Agreeing, RowsRun, RemoveInstance, Placed
  <2>3. \A r \in Reqs : req[r].op \in {"agent", "dns", "commit"} => req[r].i \in instances'
    BY <1>3, <1>6, <2>1 DEF Agreeing, CreationsRun, RemoveInstance
  <2>. QED BY <1>3, <2>1, <2>2, <2>3, AgreeingSame DEF Gone
<1>7. CASE \/ UNCHANGED vars
           \/ \E i \in Instances : Register(i)
           \/ \E w \in Workloads : ReapCname(w) \/ StatusEvent(w)
  <2>1. UNCHANGED <<req, rows, vms, hb>>
    BY <1>7 DEF vars, Register, ReapCname, StatusEvent
  <2>2. instances \subseteq instances'
    BY <1>7 DEF vars, Register, ReapCname, StatusEvent
  <2>3. \A w \in Workloads : reaper'[w] = "none" <=> reaper[w] = "none"
    BY <1>1, <1>7 DEF HbInv, vars, Register, ReapCname, StatusEvent
  <2>. QED BY <1>3, <2>1, <2>2, <2>3, AgreeingSame DEF Gone, Agreeing, RowsRun, CreationsRun
<1>. QED BY <1>1, <1>2, <1>3, <1>4, <1>5, <1>6, <1>7, AgreeingErased, AgreeingHeartbeat,
     AgreeingReaped, AgreeingRequest DEF Next, HbStep

(* As long as no call failed and the process did not end, the agents run,  *)
(* for every workload that no request and no heartbeat is about, what its  *)
(* row says, on a registered instance: whatever creations, removals and    *)
(* heartbeats there are at a time, and in whichever order their steps come.*)
THEOREM AgentsInStep == Spec => []InStep
<1>1. Init => StepInv
  BY InitLeakInv, InitHbInv, InitAgreeing DEF StepInv
<1>2. StepInv /\ [Next]_vars => StepInv'
  BY LeakInvStep, HbInvStep, AgreeingStep DEF StepInv
<1>3. StepInv => InStep
  <2>. SUFFICES ASSUME StepInv, ~disturbed, NEW w \in Workloads, ~InFlight(w)
                PROVE  /\ {i \in Instances : w \in vms[i]} = {rows[w]} \ {NoRow}
                       /\ rows[w] # NoRow => rows[w] \in instances
    BY DEF InStep
  <2>1. ~Ending(w) /\ ~Starting(w) /\ ~Gone(w) /\ reaper[w] = "none"
    BY DEF InFlight, Ending, Starting, Gone
  <2>2. rows[w] # NoRow => rows[w] \in instances /\ w \in vms[rows[w]]
    BY <2>1 DEF StepInv, Agreeing, RowsRun
  <2>3. \A j \in Instances : w \in vms[j] => rows[w] = j
    BY <2>1 DEF StepInv, Agreeing, RunsKnown
  <2>4. rows[w] \in Instances \cup {NoRow} /\ NoRow \notin Instances
    BY NoRowNoInstance DEF StepInv, LeakInv, Types
  <2>. QED BY <2>2, <2>3, <2>4
<1>. QED BY <1>1, <1>2, <1>3, PTL DEF Spec
=============================================================================
