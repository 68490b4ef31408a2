------------------------ MODULE WorkloadServiceProofs ------------------------
(***************************************************************************)
(* Theorems about WorkloadService, for every number of workloads,          *)
(* requests, workers, keys, GPUs and ports, and, at the end, about the     *)
(* compose files that create accepts and the GPUs that a start hands out.  *)
(***************************************************************************)
EXTENDS WorkloadService, ComposeValidation, Resources,
        FiniteSetTheorems, WellFoundedInduction, TLAPS

-----------------------------------------------------------------------------
(* Induction, over a set of the numbers, or of the sets, that have the     *)
(* property.                                                               *)

LEMMA NumberInduction ==
    ASSUME NEW G, 0 \in G, \A n \in Nat : n \in G => n + 1 \in G
    PROVE  Nat \subseteq G
<1>. DEFINE R == OpToRel(<, Nat)
            N == Nat \ G
<1>. SUFFICES ASSUME N # {}
              PROVE  FALSE
  OBVIOUS
<1>1. IsWellFoundedOn(R, Nat)
  BY NatLessThanWellFounded
<1>2. \A x, y \in Nat : <<x, y>> \in R <=> x < y
  BY DEF OpToRel
<1>3. N \subseteq Nat
  OBVIOUS
<1>. HIDE DEF R
<1>4. \E n \in N : \A m \in N : ~(<<m, n>> \in R)
  <2>. HIDE DEF N
  <2>. QED BY <1>1, <1>3, WFMin, Zenon
<1>5. PICK n \in N : \A m \in N : ~(<<m, n>> \in R)
  BY <1>4
<1>6. n \in Nat /\ n \notin G
  OBVIOUS
<1>7. n # 0 /\ n - 1 \in Nat /\ (n - 1) + 1 = n
  BY <1>6
<1>8. n - 1 \notin G
  BY <1>6, <1>7
<1>9. n - 1 \in N /\ <<n - 1, n>> \in R
  BY <1>2, <1>6, <1>7, <1>8
<1>. QED BY <1>5, <1>9

(* Induction on the subsets of a finite set: what holds of a set when it   *)
(* holds of the set without any one of its elements holds of all.          *)
LEMMA SubsetInduction ==
    ASSUME NEW S, IsFiniteSet(S), NEW G, {} \in G,
           \A s \in SUBSET S : s # {} /\ (\A x \in s : s \ {x} \in G) => s \in G
    PROVE  SUBSET S \subseteq G
<1>. DEFINE N == {n \in Nat : \A s \in SUBSET S : Cardinality(s) = n => s \in G}
<1>1. \A s \in SUBSET S : IsFiniteSet(s) /\ Cardinality(s) \in Nat
  BY FS_Subset, FS_CardinalityType
<1>2. 0 \in N
  BY <1>1, FS_EmptySet
<1>3. ASSUME NEW n \in Nat, n \in N, NEW s \in SUBSET S, Cardinality(s) = n + 1
      PROVE  s \in G
  <2>1. s # {}
    BY <1>3, FS_EmptySet
  <2>2. ASSUME NEW x \in s
        PROVE  s \ {x} \in G
    <3>1. Cardinality(s \ {x}) = n
      BY <1>1, <1>3, FS_RemoveElement
    <3>. QED BY <1>3, <3>1
  <2>. QED BY <2>1, <2>2
<1>4. Nat \subseteq N
  <2>1. \A n \in Nat : n \in N => n + 1 \in N
    BY <1>3
  <2>. HIDE DEF N
  <2>. QED BY <1>2, <2>1, NumberInduction
<1>. QED BY <1>1, <1>4

-----------------------------------------------------------------------------
(* Sums. SumFunctionOnSet is a recursive function on the subsets of its    *)
(* argument; it exists for a finite set, and neither the order in which it *)
(* takes the elements nor the set it is a function of matters.             *)
Some(s) == CHOOSE x \in s : TRUE
IsSum(g, f, S) ==
    g = [s \in SUBSET S |-> IF s = {} THEN 0 ELSE f[Some(s)] + g[s \ {Some(s)}]]

LEMMA SomeMember == ASSUME NEW s, s # {} PROVE Some(s) \in s
  BY DEF Some

LEMMA SumIsSum == ASSUME NEW f, NEW S PROVE SumFunctionOnSet(f, S) = (CHOOSE g : IsSum(g, f, S))[S]
  BY DEF SumFunctionOnSet, FoldFunctionOnSet, MapThenFoldSet, IsSum, Some

(* The function exists: on the sets of n elements, for every n.            *)
UpTo(S, n) == {s \in SUBSET S : Cardinality(s) <= n}
IsSumUpTo(g, f, S, n) ==
    g = [s \in UpTo(S, n) |-> IF s = {} THEN 0 ELSE f[Some(s)] + g[s \ {Some(s)}]]

LEMMA SumExists ==
    ASSUME NEW f, NEW S, IsFiniteSet(S)
    PROVE  \E g : IsSum(g, f, S)
<1>. DEFINE N == {n \in Nat : \E g : IsSumUpTo(g, f, S, n)}
<1>1. \A s \in SUBSET S : IsFiniteSet(s) /\ Cardinality(s) \in Nat
  BY FS_Subset, FS_CardinalityType
<1>2. 0 \in N
  <2>1. PICK g : g = [s \in UpTo(S, 0) |-> 0]
    OBVIOUS
  <2>2. \A s \in UpTo(S, 0) : s = {}
    BY <1>1, FS_EmptySet DEF UpTo
  <2>. QED BY <2>1, <2>2 DEF IsSumUpTo
<1>3. ASSUME NEW n \in Nat, n \in N
      PROVE  n + 1 \in N
  <2>1. PICK g : IsSumUpTo(g, f, S, n)
    BY <1>3
  <2>2. PICK h : h = [s \in UpTo(S, n + 1) |->
                        IF s = {} THEN 0 ELSE f[Some(s)] + g[s \ {Some(s)}]]
    OBVIOUS
  <2>3. ASSUME NEW s \in UpTo(S, n + 1), s # {}
        PROVE  g[s \ {Some(s)}] = h[s \ {Some(s)}]
    <3>1. PICK t : t = s \ {Some(s)}
      OBVIOUS
    <3>2. t \in SUBSET S /\ Cardinality(t) = Cardinality(s) - 1
      BY <1>1, <2>3, <3>1, SomeMember, FS_RemoveElement DEF UpTo
    <3>3. Cardinality(s) <= n + 1 /\ Cardinality(s) \in Nat
      BY <1>1 DEF UpTo
    <3>4. t \in UpTo(S, n) /\ t \in UpTo(S, n + 1)
      BY <3>2, <3>3 DEF UpTo
    <3>5. h[t] = IF t = {} THEN 0 ELSE f[Some(t)] + g[t \ {Some(t)}]
      BY <2>2, <3>4
    <3>6. g[t] = IF t = {} THEN 0 ELSE f[Some(t)] + g[t \ {Some(t)}]
      BY <2>1, <3>4 DEF IsSumUpTo
    <3>. QED BY <3>1, <3>5, <3>6
  <2>4. h = [s \in UpTo(S, n + 1) |->
               IF s = {} THEN 0 ELSE f[Some(s)] + h[s \ {Some(s)}]]
    BY <2>2, <2>3
  <2>. QED BY <2>4 DEF IsSumUpTo
<1>4. Cardinality(S) \in N
  <2>. HIDE DEF N
  <2>1. \A n \in Nat : n \in N => n + 1 \in N
    BY <1>3
  <2>. QED BY <1>1, <1>2, <2>1, NumberInduction
<1>5. UpTo(S, Cardinality(S)) = SUBSET S
  BY FS_Subset DEF UpTo
<1>. QED BY <1>4, <1>5 DEF IsSum, IsSumUpTo

SumFcn(f, S) == CHOOSE g : IsSum(g, f, S)

LEMMA SumFcnSums ==
    ASSUME NEW f, NEW S, IsFiniteSet(S)
    PROVE  IsSum(SumFcn(f, S), f, S)
  BY SumExists DEF SumFcn

LEMMA SumValue == ASSUME NEW f, NEW S PROVE SumFunctionOnSet(f, S) = SumFcn(f, S)[S]
  BY SumIsSum DEF SumFcn

(* Functions that sum f, or functions that agree with it, agree.           *)
LEMMA SumsAgree ==
    ASSUME NEW S, IsFiniteSet(S), NEW f, NEW e, \A x \in S : f[x] = e[x],
           NEW T, NEW U, S \subseteq T, S \subseteq U,
           NEW g, IsSum(g, f, T), NEW h, IsSum(h, e, U)
    PROVE  g[S] = h[S]
<1>. DEFINE G == {s \in SUBSET S : g[s] = h[s]}
<1>1. ASSUME NEW s \in SUBSET S
      PROVE  /\ g[s] = IF s = {} THEN 0 ELSE f[Some(s)] + g[s \ {Some(s)}]
             /\ h[s] = IF s = {} THEN 0 ELSE e[Some(s)] + h[s \ {Some(s)}]
  <2>1. s \in SUBSET T /\ s \in SUBSET U
    OBVIOUS
  <2>. QED BY <2>1 DEF IsSum
<1>2. {} \in G
  BY <1>1
<1>3. ASSUME NEW s \in SUBSET S, s # {}, \A x \in s : s \ {x} \in G
      PROVE  s \in G
  <2>1. Some(s) \in s
    BY <1>3, SomeMember
  <2>. QED BY <1>1, <1>3, <2>1
<1>. HIDE DEF G
<1>4. S \in G
  BY <1>2, <1>3, SubsetInduction
<1>. QED BY <1>4 DEF G

LEMMA SumEmpty == ASSUME NEW f PROVE SumFunctionOnSet(f, {}) = 0
<1>1. PICK g : g = SumFcn(f, {})
  OBVIOUS
<1>2. IsSum(g, f, {})
  BY <1>1, SumFcnSums, FS_EmptySet
<1>3. g[{}] = 0
  BY <1>2 DEF IsSum
<1>. QED BY <1>1, <1>3, SumValue

(* The sum of a set depends on the values of its elements only.            *)
LEMMA SumSame ==
    ASSUME NEW S, IsFiniteSet(S), NEW f, NEW e, \A x \in S : f[x] = e[x]
    PROVE  SumFunctionOnSet(f, S) = SumFunctionOnSet(e, S)
<1>1. PICK g, h : g = SumFcn(f, S) /\ h = SumFcn(e, S)
  OBVIOUS
<1>2. IsSum(g, f, S) /\ IsSum(h, e, S)
  BY <1>1, SumFcnSums
<1>3. g[S] = h[S]
  BY <1>2, SumsAgree
<1>. QED BY <1>1, <1>3, SumValue

LEMMA SumSome ==
    ASSUME NEW f, NEW S, IsFiniteSet(S), S # {}
    PROVE  SumFunctionOnSet(f, S) = f[Some(S)] + SumFunctionOnSet(f, S \ {Some(S)})
<1>1. PICK T : T = S \ {Some(S)}
  OBVIOUS
<1>2. IsFiniteSet(T) /\ T \subseteq S
  BY <1>1, FS_RemoveElement
<1>3. PICK g, h : g = SumFcn(f, S) /\ h = SumFcn(f, T)
  OBVIOUS
<1>4. IsSum(g, f, S) /\ IsSum(h, f, T)
  BY <1>2, <1>3, SumFcnSums
<1>5. g[T] = h[T]
  BY <1>2, <1>4, SumsAgree
<1>6. g[S] = f[Some(S)] + g[T]
  BY <1>1, <1>4 DEF IsSum
<1>. QED BY <1>1, <1>3, <1>5, <1>6, SumValue

(* The sum of integers is an integer, of naturals a natural.               *)
LEMMA SumInt ==
    ASSUME NEW S, IsFiniteSet(S), NEW f, \A x \in S : f[x] \in Int
    PROVE  SumFunctionOnSet(f, S) \in Int
<1>. DEFINE G == {s \in SUBSET S : SumFunctionOnSet(f, s) \in Int}
<1>1. {} \in G
  BY SumEmpty
<1>2. ASSUME NEW s \in SUBSET S, s # {}, \A x \in s : s \ {x} \in G
      PROVE  s \in G
  <2>1. IsFiniteSet(s) /\ Some(s) \in s
    BY <1>2, SomeMember, FS_Subset
  <2>2. SumFunctionOnSet(f, s) = f[Some(s)] + SumFunctionOnSet(f, s \ {Some(s)})
    BY <1>2, <2>1, SumSome
  <2>. QED BY <1>2, <2>1, <2>2
<1>. HIDE DEF G
<1>3. S \in G
  BY <1>1, <1>2, SubsetInduction
<1>. QED BY <1>3 DEF G

LEMMA SumNat ==
    ASSUME NEW S, IsFiniteSet(S), NEW f, \A x \in S : f[x] \in Nat
    PROVE  SumFunctionOnSet(f, S) \in Nat
<1>. DEFINE G == {s \in SUBSET S : SumFunctionOnSet(f, s) \in Nat}
<1>1. {} \in G
  BY SumEmpty
<1>2. ASSUME NEW s \in SUBSET S, s # {}, \A x \in s : s \ {x} \in G
      PROVE  s \in G
  <2>1. IsFiniteSet(s) /\ Some(s) \in s
    BY <1>2, SomeMember, FS_Subset
  <2>2. SumFunctionOnSet(f, s) = f[Some(s)] + SumFunctionOnSet(f, s \ {Some(s)})
    BY <1>2, <2>1, SumSome
  <2>. QED BY <1>2, <2>1, <2>2
<1>. HIDE DEF G
<1>3. S \in G
  BY <1>1, <1>2, SubsetInduction
<1>. QED BY <1>3 DEF G

(* Any element can be taken out first.                                     *)
LEMMA SumWithout ==
    ASSUME NEW S, IsFiniteSet(S), NEW f, \A x \in S : f[x] \in Int
    PROVE  \A x \in S : SumFunctionOnSet(f, S) = f[x] + SumFunctionOnSet(f, S \ {x})
<1>. DEFINE G == {s \in SUBSET S : \A x \in s : SumFunctionOnSet(f, s) = f[x] + SumFunctionOnSet(f, s \ {x})}
<1>1. {} \in G
  OBVIOUS
<1>2. ASSUME NEW s \in SUBSET S, s # {}, \A x \in s : s \ {x} \in G, NEW x \in s
      PROVE  SumFunctionOnSet(f, s) = f[x] + SumFunctionOnSet(f, s \ {x})
  <2>1. PICK y : y = Some(s)
    OBVIOUS
  <2>2. y \in s /\ IsFiniteSet(s)
    BY <1>2, <2>1, SomeMember, FS_Subset
  <2>3. SumFunctionOnSet(f, s) = f[y] + SumFunctionOnSet(f, s \ {y})
    BY <1>2, <2>1, <2>2, SumSome
  <2>4. CASE x = y
    BY <2>3, <2>4
  <2>5. CASE x # y
    <3>1. PICK t : t = (s \ {x}) \ {y}
      OBVIOUS
    <3>2. t = (s \ {y}) \ {x} /\ x \in s \ {y} /\ y \in s \ {x}
      BY <2>2, <2>5, <3>1
    <3>3. SumFunctionOnSet(f, s \ {y}) = f[x] + SumFunctionOnSet(f, t)
      BY <1>2, <2>2, <3>2
    <3>4. SumFunctionOnSet(f, s \ {x}) = f[y] + SumFunctionOnSet(f, t)
      BY <1>2, <3>1, <3>2
    <3>5. t \subseteq S /\ IsFiniteSet(t)
      BY <2>2, <3>1, FS_Subset
    <3>6. SumFunctionOnSet(f, t) \in Int
      BY <3>5, SumInt
    <3>7. f[x] \in Int /\ f[y] \in Int
      BY <2>2
    <3>. HIDE DEF G
    <3>. QED BY <2>3, <3>3, <3>4, <3>6, <3>7
  <2>. QED BY <2>4, <2>5
<1>3. ASSUME NEW s \in SUBSET S, s # {}, \A x \in s : s \ {x} \in G
      PROVE  s \in G
  BY <1>2, <1>3
<1>. HIDE DEF G
<1>4. S \in G
  BY <1>1, <1>3, SubsetInduction
<1>. QED BY <1>4 DEF G

LEMMA SumAdd ==
    ASSUME NEW S, IsFiniteSet(S), NEW y, y \notin S, NEW f, \A x \in S \cup {y} : f[x] \in Int
    PROVE  SumFunctionOnSet(f, S \cup {y}) = f[y] + SumFunctionOnSet(f, S)
<1>1. PICK T : T = S \cup {y}
  OBVIOUS
<1>2. IsFiniteSet(T) /\ y \in T /\ T \ {y} = S
  BY <1>1, FS_AddElement
<1>. QED BY <1>1, <1>2, SumWithout

LEMMA SumOne ==
    ASSUME NEW y, NEW f, f[y] \in Int
    PROVE  SumFunctionOnSet(f, {y}) = f[y]
<1>1. SumFunctionOnSet(f, {} \cup {y}) = f[y] + SumFunctionOnSet(f, {})
  BY SumAdd, FS_EmptySet
<1>. QED BY <1>1, SumEmpty

(* A part of a sum of naturals is no more than the whole.                  *)
LEMMA SumSubset ==
    ASSUME NEW S, IsFiniteSet(S), NEW f, \A x \in S : f[x] \in Nat
    PROVE  \A t \in SUBSET S : SumFunctionOnSet(f, t) <= SumFunctionOnSet(f, S)
<1>. DEFINE G == {s \in SUBSET S :
                    \A t \in SUBSET s : SumFunctionOnSet(f, t) <= SumFunctionOnSet(f, s)}
<1>1. {} \in G
  BY SumEmpty
<1>2. ASSUME NEW s \in SUBSET S, s # {}, \A x \in s : s \ {x} \in G, NEW t \in SUBSET s
      PROVE  SumFunctionOnSet(f, t) <= SumFunctionOnSet(f, s)
  <2>0. IsFiniteSet(s) /\ IsFiniteSet(t)
    BY FS_Subset
  <2>1. SumFunctionOnSet(f, t) \in Nat
    BY <2>0, SumNat
  <2>2. CASE t = s
    BY <2>1, <2>2
  <2>3. CASE t # s
    <3>1. PICK x \in s : x \notin t
      BY <2>3
    <3>2. SumFunctionOnSet(f, t) <= SumFunctionOnSet(f, s \ {x})
      BY <1>2, <3>1
    <3>3. SumFunctionOnSet(f, s) = f[x] + SumFunctionOnSet(f, s \ {x})
      BY <2>0, SumWithout
    <3>4. IsFiniteSet(s \ {x})
      BY <2>0, FS_Subset
    <3>5. SumFunctionOnSet(f, s \ {x}) \in Nat
      BY <3>4, SumNat
    <3>6. f[x] \in Nat
      OBVIOUS
    <3>. HIDE DEF G
    <3>. QED BY <2>1, <3>2, <3>3, <3>5, <3>6
  <2>. QED BY <2>2, <2>3
<1>3. ASSUME NEW s \in SUBSET S, s # {}, \A x \in s : s \ {x} \in G
      PROVE  s \in G
  BY <1>2, <1>3
<1>. HIDE DEF G
<1>4. S \in G
  BY <1>1, <1>3, SubsetInduction
<1>. QED BY <1>4 DEF G

-----------------------------------------------------------------------------
(* The types.                                                              *)

LEMMA AnyWorkloadType == AnyWorkload \in Workloads
  BY ConstantsAssumption DEF AnyWorkload

LEMMA IdleType ==
    ASSUME NEW w \in Workloads
    PROVE  Idle(w) \in Request
  BY DEF Idle, Request, Steps, NoRow, Row, KeyOrNone, NoUnits, Units

LEMMA InitTypeOK == Init => TypeOK
  BY ConstantsAssumption, AnyWorkloadType, IdleType
     DEF Init, TypeOK, NoRow, Row, NoUnits, Units, KeyOrNone, NoWorker, Worker,
         Off, Cvm

LEMMA StepNames ==
    /\ "c_insert" \in Steps /\ "c_spawn" \in Steps /\ "c_commit" \in Steps
    /\ "c_deduct" \in Steps /\ "d_erase" \in Steps /\ "d_stop" \in Steps
    /\ "d_free" \in Steps /\ "s_write" \in Steps /\ "s_vm" \in Steps
    /\ "t_write" \in Steps /\ "t_spawn" \in Steps /\ "r_env" \in Steps
    /\ "r_act" \in Steps /\ "r_write" \in Steps
  BY DEF Steps

LEMMA NoKeyType == NoKey \in KeyOrNone /\ NoKey \notin Keys
  BY ConstantsAssumption DEF NoKey, KeyOrNone

(* How the handlers change their record: each shape keeps it a Request.    *)
LEMMA GotoType ==
    ASSUME req \in [Reqs -> Request], NEW r \in Reqs, NEW p \in Steps
    PROVE  [req EXCEPT ![r].pc = p] \in [Reqs -> Request]
  BY Zenon DEF Request

LEMMA GotoWritingType ==
    ASSUME req \in [Reqs -> Request], NEW r \in Reqs, NEW p \in Steps,
           NEW b \in BOOLEAN
    PROVE  [req EXCEPT ![r].pc = p, ![r].writing = b] \in [Reqs -> Request]
  BY Zenon DEF Request

LEMMA GotoKeyType ==
    ASSUME req \in [Reqs -> Request], NEW r \in Reqs, NEW p \in Steps,
           NEW k \in KeyOrNone
    PROVE  [req EXCEPT ![r].pc = p, ![r].key = k] \in [Reqs -> Request]
  BY Zenon DEF Request

LEMMA GotoRowType ==
    ASSUME req \in [Reqs -> Request], NEW r \in Reqs, NEW p \in Steps,
           NEW row \in Row
    PROVE  [req EXCEPT ![r].pc = p, ![r].row = row] \in [Reqs -> Request]
  BY Zenon DEF Request

LEMMA GotoEnvRowType ==
    ASSUME req \in [Reqs -> Request], NEW r \in Reqs, NEW p \in Steps,
           NEW row \in Row
    PROVE  [req EXCEPT ![r].pc = p, ![r].env = FALSE, ![r].row = row]
                \in [Reqs -> Request]
  BY Zenon DEF Request

LEMMA GotoLockedType ==
    ASSUME req \in [Reqs -> Request], NEW r \in Reqs, NEW p \in Steps,
           NEW k \in KeyOrNone, NEW row \in Row
    PROVE  [req EXCEPT ![r].pc = p, ![r].locked = TRUE, ![r].key = k, ![r].row = row]
                \in [Reqs -> Request]
<1>1. [req[r] EXCEPT !.pc = p, !.locked = TRUE, !.key = k, !.row = row] \in Request
  <2>1. req[r] \in Request
    OBVIOUS
  <2>. QED BY <2>1, ZenonT(60) DEF Request
<1>. QED BY <1>1

LEMMA RowUpdateType ==
    ASSUME rows \in [Workloads -> Row], NEW w \in Workloads, NEW b \in BOOLEAN,
           NEW k \in KeyOrNone
    PROVE  /\ [rows EXCEPT ![w].enabled = b, ![w].pk = k] \in [Workloads -> Row]
           /\ [rows EXCEPT ![w].enabled = b] \in [Workloads -> Row]
  BY Zenon DEF Row

LEMMA EndType ==
    ASSUME TypeOK, NEW r \in Reqs, End(r)
    PROVE  req' \in [Reqs -> Request] /\ availKeys' \in SUBSET Keys
  BY AnyWorkloadType, IdleType
     DEF TypeOK, End, Ended, KeySet, KeyOrNone, Request

LEMMA AfterCommitType ==
    ASSUME NEW rs \in [Reqs -> Request], NEW r \in Reqs
    PROVE  AfterCommit(rs, r) \in [Reqs -> Request]
<1>1. ASSUME NEW q \in Request
      PROVE  [q EXCEPT !.stale = TRUE] \in Request
  BY Zenon DEF Request
<1>. QED BY <1>1 DEF AfterCommit

LEMMA CreateVmType ==
    ASSUME TypeOK, NEW w \in Workloads, NEW k \in KeyOrNone,
           NEW ks \in SUBSET Keys, CreateVm(w, k, ks)
    PROVE  worker' \in [Slots -> Worker] /\ availKeys' \in SUBSET Keys
<1>1. [st |-> "managed", w |-> w, key |-> k, restart |-> FALSE] \in Worker
  BY DEF Worker
<1>2. ks \cup KeySet(k) \in SUBSET Keys
  BY DEF KeySet, KeyOrNone
<1>. QED BY <1>1, <1>2 DEF TypeOK, CreateVm

LEMMA DeleteVmType ==
    ASSUME TypeOK, NEW w \in Workloads, DeleteVm(w)
    PROVE  worker' \in [Slots -> Worker]
  BY DEF TypeOK, DeleteVm, Worker

LEMMA TakenType ==
    ASSUME TypeOK, NEW w \in Workloads, Fits(w)
    PROVE  Taken(w) \in Units
<1>1. ASSUME NEW k \in Kinds
      PROVE  SubSeq(pool[k], 1, Need[w][k]) \in Seq(Nat)
  <2>1. pool[k] \in Seq(Nat) /\ Need[w][k] \in Nat /\ Need[w][k] <= Len(pool[k])
    BY ConstantsAssumption DEF TypeOK, Units, Fits
  <2>. QED BY <2>1
<1>. QED BY <1>1 DEF Taken, Units

LEMMA RequestParts ==
    ASSUME TypeOK, NEW r \in Reqs
    PROVE  /\ req[r].w \in Workloads
           /\ req[r].key \in KeyOrNone
           /\ req[r].row \in Row
           /\ req[r].row.units \in Units
  BY DEF TypeOK, Request, Row

-----------------------------------------------------------------------------
(* Type correctness, one lemma per group of actions.                       *)

LEMMA ArriveType ==
    ASSUME TypeOK, NEW r \in Reqs, Arrive(r) \/ Abandon(r)
    PROVE  TypeOK'
<1>1. CASE Arrive(r)
  <2>1. PICK op \in Ops, w \in Workloads, env \in BOOLEAN :
            req' = [req EXCEPT ![r] = [Idle(w) EXCEPT !.pc = FirstStep[op], !.env = env]]
    BY <1>1 DEF Arrive
  <2>2. FirstStep[op] \in Steps
    BY ConstantsAssumption DEF FirstStep, Steps, AllOps
  <2>3. [Idle(w) EXCEPT !.pc = FirstStep[op], !.env = env] \in Request
    <3>1. Idle(w) \in Request
      BY IdleType
    <3>. QED BY <2>2, <3>1, Zenon DEF Request
  <2>. QED BY <1>1, <2>1, <2>3 DEF TypeOK, Arrive
<1>2. CASE Abandon(r)
  BY <1>2, EndType DEF TypeOK, Abandon
<1>. QED BY <1>1, <1>2

LEMMA CreateType ==
    ASSUME TypeOK, NEW r \in Reqs, CreateStep(r)
    PROVE  TypeOK'
<1>1. CASE CreateLock(r)
  <2>1. CASE End(r)
    BY <1>1, <2>1, EndType DEF TypeOK, CreateLock
  <2>2. CASE ~End(r)
    <3>1. PICK k \in KeyOrNone :
            /\ availKeys' = availKeys \ {k}
            /\ req' = [req EXCEPT ![r].pc = "c_insert",
                                  ![r].locked = TRUE,
                                  ![r].key = k,
                                  ![r].row = [exists |-> TRUE, enabled |-> TRUE,
                                              pk |-> k, units |-> Taken(req[r].w)]]
      BY <1>1, <2>2 DEF CreateLock
    <3>2. Taken(req[r].w) \in Units
      BY <1>1, <2>2, TakenType, RequestParts DEF CreateLock
    <3>3. req' \in [Reqs -> Request]
      <4>1. [exists |-> TRUE, enabled |-> TRUE, pk |-> k,
             units |-> Taken(req[r].w)] \in Row
        BY <3>2 DEF Row
      <4>. QED BY <3>1, <4>1, StepNames, GotoLockedType DEF TypeOK
    <3>. QED BY <1>1, <3>1, <3>3 DEF TypeOK, CreateLock
  <2>. QED BY <2>1, <2>2
<1>2. CASE CreateInsert(r)
  <2>1. req' \in [Reqs -> Request] /\ availKeys' \in SUBSET Keys
    <3>1. CASE End(r)
      BY <3>1, EndType
    <3>2. CASE ~End(r)
      <4>1. /\ req' = [req EXCEPT ![r].pc = "c_spawn", ![r].writing = TRUE]
            /\ UNCHANGED availKeys
        BY <1>2, <3>2 DEF CreateInsert
      <4>. QED BY <4>1, StepNames, GotoWritingType DEF TypeOK
    <3>. QED BY <3>1, <3>2
  <2>. QED BY <1>2, <2>1 DEF TypeOK, CreateInsert
<1>3. CASE CreateSpawn(r)
  <2>1. worker' \in [Slots -> Worker] /\ availKeys' \in SUBSET Keys
    BY <1>3, CreateVmType, RequestParts DEF CreateSpawn, TypeOK
  <2>2. req' \in [Reqs -> Request]
    BY <1>3, StepNames, NoKeyType, GotoKeyType DEF CreateSpawn, TypeOK
  <2>. QED BY <1>3, <2>1, <2>2, RequestParts DEF TypeOK, CreateSpawn
<1>4. CASE CreateCommit(r)
  <2>1. [req EXCEPT ![r].pc = "c_deduct", ![r].writing = FALSE] \in [Reqs -> Request]
    BY StepNames, GotoType, GotoWritingType DEF TypeOK
  <2>2. req' \in [Reqs -> Request]
    BY <1>4, <2>1, AfterCommitType DEF CreateCommit
  <2>. QED BY <1>4, <2>2, RequestParts DEF TypeOK, CreateCommit
<1>5. CASE CreateDeduct(r)
  <2>1. \A s \in Scalars : free[s] - Demand[req[r].w][s] \in Int
    BY ConstantsAssumption, RequestParts DEF TypeOK
  <2>2. ASSUME NEW k \in Kinds
        PROVE  SubSeq(pool[k], Need[req[r].w][k] + 1, Len(pool[k])) \in Seq(Nat)
    <3>1. pool[k] \in Seq(Nat) /\ Need[req[r].w][k] \in Nat
      BY ConstantsAssumption, RequestParts DEF TypeOK, Units
    <3>. QED BY <3>1
  <2>3. req' \in [Reqs -> Request] /\ availKeys' \in SUBSET Keys
    BY <1>5, EndType DEF CreateDeduct
  <2>. QED BY <1>5, <2>1, <2>2, <2>3 DEF TypeOK, CreateDeduct, Units
<1>. QED BY <1>1, <1>2, <1>3, <1>4, <1>5 DEF CreateStep

LEMMA DeleteType ==
    ASSUME TypeOK, NEW r \in Reqs, DeleteStep(r)
    PROVE  TypeOK'
<1>1. CASE DeleteFind(r)
  <2>1. req' \in [Reqs -> Request] /\ availKeys' \in SUBSET Keys
    <3>1. CASE End(r)
      BY <3>1, EndType
    <3>2. CASE ~End(r)
      <4>1. /\ req' = [req EXCEPT ![r].pc = "d_erase", ![r].row = rows[req[r].w]]
            /\ UNCHANGED availKeys
        BY <1>1, <3>2 DEF DeleteFind
      <4>. QED BY <4>1, StepNames, GotoRowType, RequestParts DEF TypeOK
    <3>. QED BY <3>1, <3>2
  <2>. QED BY <1>1, <2>1 DEF TypeOK, DeleteFind
<1>2. CASE DeleteErase(r)
  <2>1. [req EXCEPT ![r].pc = "d_stop"] \in [Reqs -> Request]
    BY StepNames, GotoType, GotoWritingType DEF TypeOK
  <2>2. req' \in [Reqs -> Request]
    BY <1>2, <2>1, AfterCommitType DEF DeleteErase
  <2>3. NoRow \in Row
    BY DEF NoRow, Row, KeyOrNone, NoUnits, Units
  <2>. QED BY <1>2, <2>2, <2>3, RequestParts DEF TypeOK, DeleteErase
<1>3. CASE DeleteStop(r)
  <2>1. worker' \in [Slots -> Worker]
    BY <1>3, DeleteVmType, RequestParts DEF DeleteStop
  <2>2. req' \in [Reqs -> Request]
    BY <1>3, StepNames, GotoType DEF TypeOK, DeleteStop, Goto
  <2>. QED BY <1>3, <2>1, <2>2 DEF TypeOK, DeleteStop
<1>4. CASE DeleteFree(r)
  <2>1. \A s \in Scalars : free[s] + Demand[req[r].w][s] \in Int
    BY ConstantsAssumption, RequestParts DEF TypeOK
  <2>2. \A k \in Kinds : pool[k] \o req[r].row.units[k] \in Seq(Nat)
    BY RequestParts DEF TypeOK, Units
  <2>3. req' \in [Reqs -> Request] /\ availKeys' \in SUBSET Keys
    BY <1>4, EndType DEF DeleteFree
  <2>. QED BY <1>4, <2>1, <2>2, <2>3 DEF TypeOK, DeleteFree, Units
<1>. QED BY <1>1, <1>2, <1>3, <1>4 DEF DeleteStep

LEMMA StopType ==
    ASSUME TypeOK, NEW r \in Reqs, StopStep(r)
    PROVE  TypeOK'
<1>1. CASE StopFind(r)
  <2>1. req' \in [Reqs -> Request] /\ availKeys' \in SUBSET Keys
    BY <1>1, EndType, StepNames, GotoType DEF TypeOK, StopFind
  <2>. QED BY <1>1, <2>1 DEF TypeOK, StopFind
<1>2. CASE StopWrite(r)
  <2>1. [req EXCEPT ![r].pc = "s_vm"] \in [Reqs -> Request]
    BY StepNames, GotoType, GotoWritingType DEF TypeOK
  <2>2. req' \in [Reqs -> Request] /\ availKeys' \in SUBSET Keys
    <3>1. CASE End(r)
      BY <3>1, EndType
    <3>2. CASE ~End(r)
      <4>1. /\ req' = AfterCommit([req EXCEPT ![r].pc = "s_vm"], r)
            /\ UNCHANGED availKeys
        BY <1>2, <3>2 DEF StopWrite
      <4>. QED BY <2>1, <4>1, AfterCommitType DEF TypeOK
    <3>. QED BY <3>1, <3>2
  <2>3. rows' \in [Workloads -> Row]
    <3>1. \/ UNCHANGED rows
          \/ rows' = [rows EXCEPT ![req[r].w].enabled = FALSE, ![req[r].w].pk = NoKey]
      BY <1>2 DEF StopWrite
    <3>2. [rows EXCEPT ![req[r].w].enabled = FALSE, ![req[r].w].pk = NoKey]
              \in [Workloads -> Row]
      BY RowUpdateType, NoKeyType, RequestParts DEF TypeOK
    <3>. QED BY <3>1, <3>2 DEF TypeOK
  <2>. QED BY <1>2, <2>2, <2>3 DEF TypeOK, StopWrite
<1>3. CASE StopVm(r)
  <2>1. worker' \in [Slots -> Worker]
    BY <1>3, DeleteVmType, RequestParts DEF StopVm
  <2>. QED BY <1>3, <2>1, EndType DEF TypeOK, StopVm
<1>. QED BY <1>1, <1>2, <1>3 DEF StopStep

LEMMA StartType ==
    ASSUME TypeOK, NEW r \in Reqs, StartStep(r)
    PROVE  TypeOK'
<1>1. CASE StartFind(r)
  <2>1. req' \in [Reqs -> Request] /\ availKeys' \in SUBSET Keys
    <3>1. CASE End(r)
      BY <3>1, EndType
    <3>2. CASE ~End(r)
      <4>1. \E k \in availKeys :
              /\ availKeys' = availKeys \ {k}
              /\ req' = [req EXCEPT ![r].pc = "t_write", ![r].key = k]
        BY <1>1, <3>2 DEF StartFind
      <4>2. PICK k \in availKeys :
              /\ availKeys' = availKeys \ {k}
              /\ req' = [req EXCEPT ![r].pc = "t_write", ![r].key = k]
        BY <4>1
      <4>3. k \in KeyOrNone
        BY DEF TypeOK, KeyOrNone
      <4>. QED BY <4>2, <4>3, StepNames, GotoKeyType DEF TypeOK
    <3>. QED BY <3>1, <3>2
  <2>. QED BY <1>1, <2>1 DEF TypeOK, StartFind
<1>2. CASE StartWrite(r)
  <2>1. [req EXCEPT ![r].pc = "t_spawn"] \in [Reqs -> Request]
    BY StepNames, GotoType, GotoWritingType DEF TypeOK
  <2>2. req' \in [Reqs -> Request] /\ availKeys' \in SUBSET Keys
    <3>1. CASE End(r)
      BY <3>1, EndType
    <3>2. CASE ~End(r)
      <4>1. /\ req' = AfterCommit([req EXCEPT ![r].pc = "t_spawn"], r)
            /\ UNCHANGED availKeys
        BY <1>2, <3>2 DEF StartWrite
      <4>. QED BY <2>1, <4>1, AfterCommitType DEF TypeOK
    <3>. QED BY <3>1, <3>2
  <2>3. rows' \in [Workloads -> Row]
    <3>1. rows[req[r].w].pk \in KeyOrNone
      BY RequestParts DEF TypeOK, Row
    <3>. DEFINE k == IF req[r].w \in Heartbeat THEN req[r].key ELSE rows[req[r].w].pk
    <3>2. \/ UNCHANGED rows
          \/ rows' = [rows EXCEPT ![req[r].w].enabled = TRUE, ![req[r].w].pk = k]
      BY <1>2 DEF StartWrite
    <3>3. k \in KeyOrNone
      BY <3>1, RequestParts
    <3>4. [rows EXCEPT ![req[r].w].enabled = TRUE, ![req[r].w].pk = k]
              \in [Workloads -> Row]
      <4>. HIDE DEF k
      <4>. QED BY <3>3, RowUpdateType, RequestParts DEF TypeOK
    <3>. QED BY <3>2, <3>4 DEF TypeOK
  <2>. QED BY <1>2, <2>2, <2>3 DEF TypeOK, StartWrite
<1>3. CASE StartSpawn(r)
  <2>1. worker' \in [Slots -> Worker] /\ availKeys' \in SUBSET Keys
    BY <1>3, CreateVmType, RequestParts DEF StartSpawn, TypeOK
  <2>2. req' \in [Reqs -> Request]
    BY <1>3, AnyWorkloadType, IdleType DEF TypeOK, StartSpawn, Ended
  <2>. QED BY <1>3, <2>1, <2>2 DEF TypeOK, StartSpawn
<1>. QED BY <1>1, <1>2, <1>3 DEF StartStep

LEMMA RestartType ==
    ASSUME TypeOK, NEW r \in Reqs, RestartStep(r)
    PROVE  TypeOK'
<1>1. CASE RestartFind(r)
  <2>1. req' \in [Reqs -> Request] /\ availKeys' \in SUBSET Keys
    <3>1. CASE End(r)
      BY <3>1, EndType
    <3>2. CASE ~End(r)
      <4>1. /\ req' = [req EXCEPT ![r].pc = IF req[r].env THEN "r_env" ELSE "r_act",
                                  ![r].env = FALSE, ![r].row = rows[req[r].w]]
            /\ UNCHANGED availKeys
        BY <1>1, <3>2 DEF RestartFind
      <4>. QED BY <4>1, StepNames, GotoEnvRowType, RequestParts DEF TypeOK
    <3>. QED BY <3>1, <3>2
  <2>. QED BY <1>1, <2>1 DEF TypeOK, RestartFind
<1>2. CASE RestartEnv(r)
  <2>1. req' \in [Reqs -> Request] /\ availKeys' \in SUBSET Keys
    <3>1. CASE End(r)
      BY <3>1, EndType
    <3>2. CASE ~End(r)
      <4>1. /\ req' = [req EXCEPT ![r].pc = "r_act", ![r].writing = TRUE]
            /\ UNCHANGED availKeys
        BY <1>2, <3>2 DEF RestartEnv
      <4>. QED BY <4>1, StepNames, GotoWritingType DEF TypeOK
    <3>. QED BY <3>1, <3>2
  <2>. QED BY <1>2, <2>1 DEF TypeOK, RestartEnv
<1>3. CASE RestartAct(r)
  <2>1. CASE End(r) /\ UNCHANGED worker
    BY <1>3, <2>1, EndType DEF TypeOK, RestartAct
  <2>2. CASE Goto(r, "r_write")
    <3>1. req' \in [Reqs -> Request]
      BY <2>2, StepNames, GotoType DEF TypeOK, Goto
    <3>2. worker' \in [Slots -> Worker] /\ availKeys' \in SUBSET Keys
      <4>1. CASE \E k \in KeyOrNone : CreateVm(req[r].w, k, availKeys \ {k})
        BY <4>1, CreateVmType, RequestParts DEF TypeOK
      <4>2. CASE UNCHANGED availKeys /\ worker' = [s \in Slots |->
                     IF s \in Managed(req[r].w)
                     THEN [worker[s] EXCEPT !.restart = TRUE] ELSE worker[s]]
        BY <4>2 DEF TypeOK, Worker
      <4>3. CASE End(r) /\ UNCHANGED worker
        BY <4>3, EndType DEF TypeOK
      <4>. QED BY <1>3, <4>1, <4>2, <4>3 DEF RestartAct
    <3>. QED BY <1>3, <3>1, <3>2 DEF TypeOK, RestartAct
  <2>. QED BY <1>3, <2>1, <2>2 DEF RestartAct
<1>4. CASE RestartWrite(r)
  <2>1. Ended(r) \in [Reqs -> Request]
    BY AnyWorkloadType, IdleType DEF TypeOK, Ended
  <2>2. req' \in [Reqs -> Request] /\ availKeys' \in SUBSET Keys
    <3>1. CASE End(r)
      BY <3>1, EndType
    <3>2. CASE ~End(r)
      BY <1>4, <2>1, <3>2, AfterCommitType DEF RestartWrite, TypeOK
    <3>. QED BY <3>1, <3>2
  <2>3. rows' \in [Workloads -> Row]
    <3>1. UNCHANGED rows \/ rows' = [rows EXCEPT ![req[r].w].enabled = TRUE]
      BY <1>4 DEF RestartWrite
    <3>2. [rows EXCEPT ![req[r].w].enabled = TRUE] \in [Workloads -> Row]
      BY RowUpdateType, NoKeyType, RequestParts DEF TypeOK
    <3>. QED BY <3>1, <3>2 DEF TypeOK
  <2>. QED BY <1>4, <2>2, <2>3 DEF TypeOK, RestartWrite
<1>. QED BY <1>1, <1>2, <1>3, <1>4 DEF RestartStep

LEMMA WorkerType ==
    ASSUME TypeOK, NEW s \in Slots, WorkerStep(s)
    PROVE  TypeOK'
<1>0. worker[s].w \in Workloads /\ worker[s].key \in KeyOrNone
  BY DEF TypeOK, Worker
<1>1. CASE WorkerStart(s)
  <2>1. [st |-> "fresh", wallet |-> NoKey] \in Cvm
    BY NoKeyType DEF Cvm
  <2>. QED BY <1>0, <1>1, <2>1 DEF TypeOK, WorkerStart
<1>2. CASE WorkerBootstrap(s)
  <2>1. [st |-> "bootstrapped",
         wallet |-> IF worker[s].w \in Heartbeat THEN worker[s].key ELSE NoKey] \in Cvm
    BY <1>0, NoKeyType DEF Cvm
  <2>. QED BY <1>0, <1>2, <2>1 DEF TypeOK, WorkerBootstrap
<1>3. CASE WorkerRestart(s)
  <2>1. [st |-> "fresh", wallet |-> NoKey] \in Cvm
    BY NoKeyType DEF Cvm
  <2>2. vm' \in [Workloads -> Cvm]
    BY <1>0, <1>3, <2>1 DEF TypeOK, WorkerRestart
  <2>3. worker' \in [Slots -> Worker]
    <3>1. worker' = [worker EXCEPT ![s].restart = FALSE]
      BY <1>3 DEF WorkerRestart
    <3>. QED BY <3>1, Zenon DEF TypeOK, Worker
  <2>. QED BY <1>3, <2>2, <2>3 DEF TypeOK, WorkerRestart
<1>4. CASE WorkerExit(s)
  <2>1. Off \in Cvm
    BY NoKeyType DEF Off, Cvm
  <2>2. vm' \in [Workloads -> Cvm]
    BY <1>0, <1>4, <2>1 DEF TypeOK, WorkerExit
  <2>3. NoWorker \in Worker
    BY NoKeyType, AnyWorkloadType DEF NoWorker, Worker
  <2>4. worker' \in [Slots -> Worker]
    BY <1>4, <2>3 DEF TypeOK, WorkerExit
  <2>5. availKeys' \in SUBSET Keys
    BY <1>0, <1>4 DEF TypeOK, WorkerExit, KeySet, KeyOrNone
  <2>. QED BY <1>4, <2>2, <2>4, <2>5 DEF TypeOK, WorkerExit
<1>. QED BY <1>1, <1>2, <1>3, <1>4 DEF WorkerStep

LEMMA LoseMemoryType ==
    ASSUME TypeOK, LoseMemory, UNCHANGED <<rows, vm>>, crashes' \in 0..MaxCrashes
    PROVE  TypeOK'
  BY InitTypeOK, ConstantsAssumption, AnyWorkloadType, IdleType, NoKeyType
     DEF TypeOK, LoseMemory, NoUnits, Units, NoWorker, Worker

LEMMA NatFunctionIsSeq ==
    ASSUME NEW n \in Nat, NEW S, S \subseteq Nat, NEW f \in [1..n -> S]
    PROVE  f \in Seq(Nat)
<1>1. f \in [1..n -> Nat]
  OBVIOUS
<1>. QED BY <1>1, SMT

LEMMA BootType ==
    ASSUME TypeOK, Boot
    PROVE  TypeOK'
<1>1. \A s \in Scalars : Total[s] - Committed(s) \in Int
  <2>1. \A s \in Scalars : Committed(s) \in 0..Total[s]
    BY DEF Boot, Bootable
  <2>. QED BY <2>1, ConstantsAssumption
<1>2. ASSUME NEW k \in Kinds
      PROVE  pool'[k] \in Seq(Nat) /\ DOMAIN pool' = Kinds
  <2>. DEFINE S == AllUnits[k] \ UsedUnits(k)
  <2>1. PICK p \in [Kinds -> UNION {Ascending(AllUnits[j] \ UsedUnits(j)) : j \in Kinds}] :
          /\ \A j \in Kinds : p[j] \in Ascending(AllUnits[j] \ UsedUnits(j))
          /\ pool' = p
    BY DEF Boot
  <2>2. pool'[k] \in [1..Cardinality(S) -> S]
    BY <2>1 DEF Ascending
  <2>3. IsFiniteSet(S)
    BY ConstantsAssumption, FS_Subset
  <2>4. Cardinality(S) \in Nat
    BY <2>3, FS_CardinalityType
  <2>5. S \subseteq Nat
    BY ConstantsAssumption
  <2>6. pool'[k] \in Seq(Nat)
    <3>. HIDE DEF S
    <3>. QED BY <2>2, <2>4, <2>5, NatFunctionIsSeq
  <2>. QED BY <2>1, <2>6
<1>3. pool' \in Units
  <2>1. pool' = [k \in Kinds |-> pool'[k]]
    BY DEF Boot
  <2>. QED BY <1>2, <2>1 DEF Units
<1>. QED BY <1>1, <1>3 DEF TypeOK, Boot, Stored

LEMMA NextType == TypeOK /\ [Next]_vars => TypeOK'
<1>. SUFFICES ASSUME TypeOK, [Next]_vars
              PROVE  TypeOK'
  OBVIOUS
<1>1. ASSUME NEW r \in Reqs, Arrive(r) \/ Abandon(r)
      PROVE  TypeOK'
  BY <1>1, ArriveType
<1>2. ASSUME NEW r \in Reqs, Handler(r)
      PROVE  TypeOK'
  BY <1>2, CreateType, DeleteType, StopType, StartType, RestartType DEF Handler
<1>3. ASSUME NEW s \in Slots, WorkerStep(s)
      PROVE  TypeOK'
  BY <1>3, WorkerType
<1>4. ASSUME NEW w \in Workloads, CvmDies(w)
      PROVE  TypeOK'
  <2>1. Off \in Cvm
    BY NoKeyType DEF Off, Cvm
  <2>. QED BY <1>4, <2>1 DEF TypeOK, CvmDies
<1>5. ASSUME NEW w \in Workloads, BootWorkload(w)
      PROVE  TypeOK'
  <2>1. CASE LoseMemory
    BY <1>5, <2>1, LoseMemoryType DEF BootWorkload, TypeOK
  <2>2. CASE ~LoseMemory
    <3>1. PICK k \in KeyOrNone : CreateVm(w, k, availKeys \ {k})
      BY <1>5, <2>2 DEF BootWorkload
    <3>2. worker' \in [Slots -> Worker] /\ availKeys' \in SUBSET Keys
      BY <3>1, CreateVmType DEF TypeOK
    <3>. QED BY <1>5, <2>2, <3>2 DEF TypeOK, BootWorkload
  <2>. QED BY <2>1, <2>2
<1>6. CASE Boot
  BY <1>6, BootType
<1>7. CASE Serve
  BY <1>7 DEF TypeOK, Serve
<1>8. CASE Crash
  <2>1. crashes' \in 0..MaxCrashes
    BY <1>8, ConstantsAssumption DEF Crash, TypeOK
  <2>. QED BY <1>8, <2>1, LoseMemoryType DEF Crash
<1>9. CASE UNCHANGED vars
  BY <1>9 DEF TypeOK, vars
<1>. QED BY <1>1, <1>2, <1>3, <1>4, <1>5, <1>6, <1>7, <1>8, <1>9 DEF Next

(* Type correctness of the workload service: every reachable state is made *)
(* of requests, rows, pools, workers and CVMs of the declared shape.       *)
THEOREM TypeCorrect == Spec => []TypeOK
<1>1. Init => TypeOK
  BY InitTypeOK
<1>2. TypeOK /\ [Next]_vars => TypeOK'
  BY NextType
<1>. QED BY <1>1, <1>2, PTL DEF Spec

-----------------------------------------------------------------------------
(* The verifier keys: every key is in the pool or has exactly one owner,   *)
(* wherever a request is dropped.                                          *)

(* The owners as functions: who holds which key.                           *)
ReqKeys == [r \in Reqs |-> req[r].key]
WorkerKeys == [s \in Slots |-> worker[s].key]

(* The keys rk, wk and av (of requests, of workers, in the pool) are a     *)
(* partition of Keys.                                                      *)
Partition(rk, wk, av) ==
    /\ rk \in [Reqs -> KeyOrNone]
    /\ wk \in [Slots -> KeyOrNone]
    /\ av \in SUBSET Keys
    /\ \A r \in Reqs : rk[r] \notin av
    /\ \A s \in Slots : wk[s] \notin av
    /\ \A q, r \in Reqs : q # r /\ rk[q] = rk[r] => rk[r] = NoKey
    /\ \A s, t \in Slots : s # t /\ wk[s] = wk[t] => wk[t] = NoKey
    /\ \A r \in Reqs, s \in Slots : rk[r] = wk[s] => rk[r] = NoKey
    /\ \A k \in Keys : \/ k \in av
                       \/ \E r \in Reqs : rk[r] = k
                       \/ \E s \in Slots : wk[s] = k

(* The steps between taking a key and handing it to a worker.              *)
KeySteps == {"c_insert", "c_spawn", "t_write", "t_spawn"}

(* The inductive invariant: the partition, and that what is idle or is     *)
(* past the hand-over holds nothing.                                       *)
KeyInv ==
    /\ Partition(ReqKeys, WorkerKeys, availKeys)
    /\ \A r \in Reqs : req[r].key # NoKey => req[r].pc \in KeySteps
    /\ \A s \in Slots : worker[s].st = "none" => worker[s].key = NoKey

-----------------------------------------------------------------------------
(* What can happen to a key, without the rest of the state.                *)

(* next_key and get: a request takes a key out of the pool.                *)
LEMMA RequestTakes ==
    ASSUME NEW rk, NEW wk, NEW av, Partition(rk, wk, av),
           NEW r \in Reqs, rk[r] = NoKey, NEW k \in KeyOrNone, k \in av \/ k = NoKey
    PROVE  Partition([rk EXCEPT ![r] = k], wk, av \ {k})
  BY NoKeyType DEF Partition, KeyOrNone

LEMMA WorkerTakes ==
    ASSUME NEW rk, NEW wk, NEW av, Partition(rk, wk, av),
           NEW s \in Slots, wk[s] = NoKey, NEW k \in KeyOrNone, k \in av \/ k = NoKey
    PROVE  Partition(rk, [wk EXCEPT ![s] = k], av \ {k})
  BY NoKeyType DEF Partition, KeyOrNone

(* Drop for VerifierKey.                                                   *)
LEMMA RequestDrops ==
    ASSUME NEW rk, NEW wk, NEW av, Partition(rk, wk, av), NEW r \in Reqs
    PROVE  Partition([rk EXCEPT ![r] = NoKey], wk, av \cup KeySet(rk[r]))
  BY NoKeyType DEF Partition, KeyOrNone, KeySet

LEMMA WorkerDrops ==
    ASSUME NEW rk, NEW wk, NEW av, Partition(rk, wk, av), NEW s \in Slots
    PROVE  Partition(rk, [wk EXCEPT ![s] = NoKey], av \cup KeySet(wk[s]))
  BY NoKeyType DEF Partition, KeyOrNone, KeySet

(* create_vm: the key moves from the request into the worker.              *)
LEMMA HandOver ==
    ASSUME NEW rk, NEW wk, NEW av, Partition(rk, wk, av),
           NEW r \in Reqs, NEW s \in Slots, wk[s] = NoKey
    PROVE  Partition([rk EXCEPT ![r] = NoKey], [wk EXCEPT ![s] = rk[r]], av)
  BY NoKeyType DEF Partition, KeyOrNone

-----------------------------------------------------------------------------
(* The shapes of the steps.                                                *)

(* No worker gets, loses or drops a key.                                   *)
WorkersKeepKeys ==
    \A s \in Slots : /\ worker'[s].key = worker[s].key
                     /\ worker'[s].st = "none" => worker[s].st = "none"

LEMMA UnchangedWorkers ==
    ASSUME UNCHANGED worker
    PROVE  WorkersKeepKeys
  BY DEF WorkersKeepKeys

LEMMA DeleteVmKeepsKeys ==
    ASSUME TypeOK, NEW w \in Workloads, DeleteVm(w)
    PROVE  WorkersKeepKeys
  BY DEF WorkersKeepKeys, DeleteVm, Managed, TypeOK, Worker

(* A step that hands no key over.                                          *)
LEMMA NoKeyMoves ==
    ASSUME KeyInv, UNCHANGED availKeys,
           \A q \in Reqs : /\ req'[q].key = req[q].key
                           /\ req[q].key # NoKey => req'[q].pc \in KeySteps,
           WorkersKeepKeys
    PROVE  KeyInv'
<1>1. ReqKeys' = ReqKeys /\ WorkerKeys' = WorkerKeys
  BY DEF ReqKeys, WorkerKeys, WorkersKeepKeys
<1>2. Partition(ReqKeys, WorkerKeys, availKeys)'
  BY <1>1 DEF KeyInv
<1>. QED BY <1>2 DEF KeyInv, WorkersKeepKeys

(* A request that ends gives its key back.                                 *)
LEMMA EndKeys ==
    ASSUME TypeOK, KeyInv, NEW r \in Reqs, End(r), WorkersKeepKeys
    PROVE  KeyInv'
<1>1. \A q \in Reqs : req'[q] = IF q = r THEN Idle(AnyWorkload) ELSE req[q]
  BY DEF End, Ended, TypeOK
<1>2. Idle(AnyWorkload).key = NoKey
  BY DEF Idle
<1>3. ReqKeys' = [ReqKeys EXCEPT ![r] = NoKey]
  BY <1>1, <1>2 DEF ReqKeys
<1>4. WorkerKeys' = WorkerKeys /\ availKeys' = availKeys \cup KeySet(ReqKeys[r])
  BY DEF WorkerKeys, ReqKeys, End, WorkersKeepKeys
<1>5. Partition(ReqKeys', WorkerKeys', availKeys')
  BY <1>3, <1>4, RequestDrops DEF KeyInv
<1>6. \A q \in Reqs : req'[q].key # NoKey => req'[q].pc \in KeySteps
  BY <1>1, <1>2 DEF KeyInv
<1>. QED BY <1>5, <1>6 DEF KeyInv, WorkersKeepKeys

(* A request takes a key from the pool, or none.                           *)
LEMMA TakeKeys ==
    ASSUME KeyInv, UNCHANGED worker, NEW r \in Reqs, req[r].key = NoKey,
           NEW k \in KeyOrNone, k \in availKeys \/ k = NoKey,
           availKeys' = availKeys \ {k},
           \A q \in Reqs \ {r} : req'[q] = req[q],
           req'[r].key = k, req'[r].pc \in KeySteps
    PROVE  KeyInv'
<1>1. ReqKeys' = [ReqKeys EXCEPT ![r] = k] /\ WorkerKeys' = WorkerKeys
  BY DEF ReqKeys, WorkerKeys
<1>2. ReqKeys[r] = NoKey
  BY DEF ReqKeys
<1>3. Partition(ReqKeys', WorkerKeys', availKeys')
  BY <1>1, <1>2, RequestTakes DEF KeyInv
<1>. QED BY <1>3 DEF KeyInv

(* create_vm with the key of request r.                                    *)
LEMMA CreateVmRequestKeys ==
    ASSUME TypeOK, KeyInv, NEW r \in Reqs, NEW w \in Workloads,
           CreateVm(w, req[r].key, availKeys),
           \A q \in Reqs \ {r} : req'[q] = req[q],
           req'[r].key = NoKey
    PROVE  KeyInv'
<1>1. ReqKeys' = [ReqKeys EXCEPT ![r] = NoKey] /\ ReqKeys[r] = req[r].key
  BY DEF ReqKeys
<1>2. \A q \in Reqs : req'[q].key # NoKey => req'[q].pc \in KeySteps
  BY DEF KeyInv
<1>3. CASE Managed(w) # {}
  <2>1. UNCHANGED worker /\ availKeys' = availKeys \cup KeySet(ReqKeys[r])
    BY <1>1, <1>3 DEF CreateVm
  <2>2. WorkerKeys' = WorkerKeys
    BY <2>1 DEF WorkerKeys
  <2>3. Partition(ReqKeys', WorkerKeys', availKeys')
    BY <1>1, <2>1, <2>2, RequestDrops DEF KeyInv
  <2>. QED BY <1>2, <2>1, <2>3 DEF KeyInv
<1>4. CASE Managed(w) = {}
  <2>1. PICK s \in Slots :
            /\ worker[s].st = "none"
            /\ worker' = [worker EXCEPT ![s] = [st |-> "managed", w |-> w,
                                               key |-> req[r].key, restart |-> FALSE]]
    BY <1>4 DEF CreateVm
  <2>2. UNCHANGED availKeys
    BY <1>4 DEF CreateVm
  <2>3. \A t \in Slots : worker'[t] = IF t = s
                                     THEN [st |-> "managed", w |-> w,
                                           key |-> req[r].key, restart |-> FALSE]
                                     ELSE worker[t]
    BY <2>1 DEF TypeOK
  <2>4. WorkerKeys' = [WorkerKeys EXCEPT ![s] = ReqKeys[r]] /\ WorkerKeys[s] = NoKey
    BY <1>1, <2>1, <2>3 DEF WorkerKeys, KeyInv
  <2>5. Partition(ReqKeys', WorkerKeys', availKeys')
    BY <1>1, <2>2, <2>4, HandOver DEF KeyInv
  <2>. QED BY <1>2, <2>3, <2>5 DEF KeyInv
<1>. QED BY <1>3, <1>4

(* create_vm with a key k that the step itself takes from the pool.        *)
LEMMA CreateVmFreshKeys ==
    ASSUME TypeOK, KeyInv, NEW w \in Workloads, NEW k \in KeyOrNone,
           k \in availKeys \/ k = NoKey, CreateVm(w, k, availKeys \ {k}),
           \A q \in Reqs : /\ req'[q].key = req[q].key
                           /\ req[q].key # NoKey => req'[q].pc = req[q].pc
    PROVE  KeyInv'
<1>1. ReqKeys' = ReqKeys
  BY DEF ReqKeys
<1>2. \A q \in Reqs : req'[q].key # NoKey => req'[q].pc \in KeySteps
  BY DEF KeyInv
<1>3. CASE Managed(w) # {}
  <2>1. UNCHANGED worker /\ availKeys' = availKeys
    BY <1>3, NoKeyType DEF CreateVm, KeySet, TypeOK
  <2>. QED BY <1>1, <1>2, <2>1, NoKeyMoves, UnchangedWorkers DEF KeyInv
<1>4. CASE Managed(w) = {}
  <2>1. PICK s \in Slots :
            /\ worker[s].st = "none"
            /\ worker' = [worker EXCEPT ![s] = [st |-> "managed", w |-> w,
                                               key |-> k, restart |-> FALSE]]
    BY <1>4 DEF CreateVm
  <2>2. availKeys' = availKeys \ {k}
    BY <1>4 DEF CreateVm
  <2>3. \A t \in Slots : worker'[t] = IF t = s
                                     THEN [st |-> "managed", w |-> w,
                                           key |-> k, restart |-> FALSE]
                                     ELSE worker[t]
    BY <2>1 DEF TypeOK
  <2>4. WorkerKeys' = [WorkerKeys EXCEPT ![s] = k] /\ WorkerKeys[s] = NoKey
    BY <2>1, <2>3 DEF WorkerKeys, KeyInv
  <2>5. Partition(ReqKeys', WorkerKeys', availKeys')
    BY <1>1, <2>2, <2>4, WorkerTakes DEF KeyInv
  <2>. QED BY <1>2, <2>3, <2>5 DEF KeyInv
<1>. QED BY <1>3, <1>4

(* A request that moves on: its key, if it has one, stays with it.         *)
LEMMA RequestMoves ==
    ASSUME TypeOK, KeyInv, UNCHANGED availKeys, WorkersKeepKeys, NEW r \in Reqs,
           NEW p, req[r].key # NoKey => p \in KeySteps,
           \A q \in Reqs : req'[q].key = req[q].key,
           \A q \in Reqs \ {r} : req'[q].pc = req[q].pc,
           req'[r].pc = p
    PROVE  KeyInv'
  BY NoKeyMoves DEF KeyInv

LEMMA AfterCommitKeeps ==
    ASSUME NEW rs \in [Reqs -> Request], NEW r \in Reqs, NEW q \in Reqs
    PROVE  /\ AfterCommit(rs, r)[q].key = rs[q].key
           /\ AfterCommit(rs, r)[q].pc = rs[q].pc
<1>1. AfterCommit(rs, r)[q] = rs[q] \/ AfterCommit(rs, r)[q] = [rs[q] EXCEPT !.stale = TRUE]
  BY DEF AfterCommit
<1>2. /\ [rs[q] EXCEPT !.stale = TRUE].key = rs[q].key
      /\ [rs[q] EXCEPT !.stale = TRUE].pc = rs[q].pc
  BY DEF Request
<1>. QED BY <1>1, <1>2

LEMMA WorkloadKeyIsFree ==
    ASSUME NEW w, NEW row, NEW k, IsWorkloadKey(w, row, k)
    PROVE  k \in availKeys \/ k = NoKey
  BY DEF IsWorkloadKey, IsNextKey

-----------------------------------------------------------------------------
(* One step per action.                                                    *)

LEMMA ArriveKeys ==
    ASSUME TypeOK, KeyInv, NEW r \in Reqs, Arrive(r) \/ Abandon(r)
    PROVE  KeyInv'
<1>1. CASE Arrive(r)
  <2>1. PICK op \in Ops, w \in Workloads, env \in BOOLEAN :
            req' = [req EXCEPT ![r] = [Idle(w) EXCEPT !.pc = FirstStep[op], !.env = env]]
    BY <1>1 DEF Arrive
  <2>2. [Idle(w) EXCEPT !.pc = FirstStep[op], !.env = env].key = NoKey
    BY DEF Idle
  <2>3. req[r].key = NoKey
    BY <1>1 DEF Arrive, KeyInv, KeySteps
  <2>4. \A q \in Reqs : req'[q].key = req[q].key
    BY <2>1, <2>2, <2>3 DEF TypeOK
  <2>5. \A q \in Reqs \ {r} : req'[q].pc = req[q].pc
    BY <2>1 DEF TypeOK
  <2>. QED BY <1>1, <2>3, <2>4, <2>5, RequestMoves, UnchangedWorkers DEF Arrive
<1>2. CASE Abandon(r)
  BY <1>2, EndKeys, UnchangedWorkers DEF Abandon
<1>. QED BY <1>1, <1>2

LEMMA CreateKeys ==
    ASSUME TypeOK, KeyInv, NEW r \in Reqs, CreateStep(r)
    PROVE  KeyInv'
<1>1. CASE CreateLock(r)
  <2>1. CASE End(r)
    BY <1>1, <2>1, EndKeys, UnchangedWorkers DEF CreateLock
  <2>2. CASE ~End(r)
    <3>1. PICK k \in KeyOrNone :
            /\ k \in availKeys \/ k = NoKey
            /\ availKeys' = availKeys \ {k}
            /\ req' = [req EXCEPT ![r].pc = "c_insert",
                                  ![r].locked = TRUE,
                                  ![r].key = k,
                                  ![r].row = [exists |-> TRUE, enabled |-> TRUE,
                                              pk |-> k, units |-> Taken(req[r].w)]]
      BY <1>1, <2>2 DEF CreateLock, IsNextKey
    <3>2. req[r].key = NoKey
      BY <1>1 DEF CreateLock, KeyInv, KeySteps
    <3>3. req'[r].key = k /\ req'[r].pc \in KeySteps
      BY <3>1 DEF TypeOK, Request, KeySteps
    <3>4. \A q \in Reqs \ {r} : req'[q] = req[q]
      BY <3>1 DEF TypeOK
    <3>. QED BY <1>1, <3>1, <3>2, <3>3, <3>4, TakeKeys DEF CreateLock
  <2>. QED BY <2>1, <2>2
<1>2. CASE CreateInsert(r)
  <2>1. CASE End(r)
    BY <1>2, <2>1, EndKeys, UnchangedWorkers DEF CreateInsert
  <2>2. CASE ~End(r)
    <3>1. req' = [req EXCEPT ![r].pc = "c_spawn", ![r].writing = TRUE]
      BY <1>2, <2>2 DEF CreateInsert
    <3>2. UNCHANGED <<availKeys, worker>>
      BY <1>2, <2>2 DEF CreateInsert
    <3>3. /\ \A q \in Reqs : req'[q].key = req[q].key
          /\ \A q \in Reqs \ {r} : req'[q].pc = req[q].pc
          /\ req'[r].pc = "c_spawn"
      BY <3>1 DEF TypeOK, Request
    <3>. QED BY <3>2, <3>3, RequestMoves, UnchangedWorkers DEF KeySteps
  <2>. QED BY <2>1, <2>2
<1>3. CASE CreateSpawn(r)
  <2>1. req' = [req EXCEPT ![r].pc = "c_commit", ![r].key = NoKey]
    BY <1>3 DEF CreateSpawn
  <2>2. req'[r].key = NoKey /\ \A q \in Reqs \ {r} : req'[q] = req[q]
    BY <2>1 DEF TypeOK, Request
  <2>. QED BY <1>3, <2>2, CreateVmRequestKeys, RequestParts DEF CreateSpawn
<1>4. CASE CreateCommit(r)
  <2>. DEFINE rs == [req EXCEPT ![r].pc = "c_deduct", ![r].writing = FALSE]
  <2>1. rs \in [Reqs -> Request]
    BY StepNames, GotoWritingType DEF TypeOK
  <2>2. /\ \A q \in Reqs : rs[q].key = req[q].key
        /\ \A q \in Reqs \ {r} : rs[q].pc = req[q].pc
        /\ rs[r].pc = "c_deduct"
    BY DEF TypeOK, Request
  <2>3. req' = AfterCommit(rs, r) /\ UNCHANGED <<availKeys, worker>>
    BY <1>4 DEF CreateCommit
  <2>4. req[r].key = NoKey
    BY <1>4 DEF CreateCommit, KeyInv, KeySteps
  <2>. HIDE DEF rs
  <2>. QED BY <2>1, <2>2, <2>3, <2>4, AfterCommitKeeps, RequestMoves, UnchangedWorkers
<1>5. CASE CreateDeduct(r)
  BY <1>5, EndKeys, UnchangedWorkers DEF CreateDeduct
<1>. QED BY <1>1, <1>2, <1>3, <1>4, <1>5 DEF CreateStep

LEMMA DeleteKeys ==
    ASSUME TypeOK, KeyInv, NEW r \in Reqs, DeleteStep(r)
    PROVE  KeyInv'
<1>1. CASE DeleteFind(r)
  <2>1. CASE End(r)
    BY <1>1, <2>1, EndKeys, UnchangedWorkers DEF DeleteFind
  <2>2. CASE ~End(r)
    <3>1. req' = [req EXCEPT ![r].pc = "d_erase", ![r].row = rows[req[r].w]]
      BY <1>1, <2>2 DEF DeleteFind
    <3>2. UNCHANGED <<availKeys, worker>> /\ req[r].key = NoKey
      BY <1>1, <2>2 DEF DeleteFind, KeyInv, KeySteps
    <3>3. /\ \A q \in Reqs : req'[q].key = req[q].key
          /\ \A q \in Reqs \ {r} : req'[q].pc = req[q].pc
          /\ req'[r].pc = "d_erase"
      BY <3>1 DEF TypeOK, Request
    <3>. QED BY <3>2, <3>3, RequestMoves, UnchangedWorkers
  <2>. QED BY <2>1, <2>2
<1>2. CASE DeleteErase(r)
  <2>. DEFINE rs == [req EXCEPT ![r].pc = "d_stop"]
  <2>1. rs \in [Reqs -> Request]
    BY StepNames, GotoType DEF TypeOK
  <2>2. /\ \A q \in Reqs : rs[q].key = req[q].key
        /\ \A q \in Reqs \ {r} : rs[q].pc = req[q].pc
        /\ rs[r].pc = "d_stop"
    BY DEF TypeOK, Request
  <2>3. (req' = AfterCommit(rs, r) \/ req' = rs) /\ UNCHANGED <<availKeys, worker>>
    BY <1>2 DEF DeleteErase
  <2>4. req[r].key = NoKey
    BY <1>2 DEF DeleteErase, KeyInv, KeySteps
  <2>. HIDE DEF rs
  <2>5. CASE req' = rs
    BY <2>2, <2>3, <2>4, <2>5, RequestMoves, UnchangedWorkers
  <2>6. CASE req' = AfterCommit(rs, r)
    BY <2>1, <2>2, <2>3, <2>4, <2>6, AfterCommitKeeps, RequestMoves, UnchangedWorkers
  <2>. QED BY <2>3, <2>5, <2>6
<1>3. CASE DeleteStop(r)
  <2>1. req' = [req EXCEPT ![r].pc = "d_free"] /\ UNCHANGED availKeys /\ req[r].key = NoKey
    BY <1>3 DEF DeleteStop, Goto, KeyInv, KeySteps
  <2>2. /\ \A q \in Reqs : req'[q].key = req[q].key
        /\ \A q \in Reqs \ {r} : req'[q].pc = req[q].pc
        /\ req'[r].pc = "d_free"
    BY <2>1 DEF TypeOK, Request
  <2>3. WorkersKeepKeys
    BY <1>3, DeleteVmKeepsKeys, RequestParts DEF DeleteStop
  <2>. QED BY <2>1, <2>2, <2>3, RequestMoves
<1>4. CASE DeleteFree(r)
  BY <1>4, EndKeys, UnchangedWorkers DEF DeleteFree
<1>. QED BY <1>1, <1>2, <1>3, <1>4 DEF DeleteStep

LEMMA StopKeys ==
    ASSUME TypeOK, KeyInv, NEW r \in Reqs, StopStep(r)
    PROVE  KeyInv'
<1>1. CASE StopFind(r)
  <2>1. CASE End(r)
    BY <1>1, <2>1, EndKeys, UnchangedWorkers DEF StopFind
  <2>2. CASE ~End(r)
    <3>1. req' = [req EXCEPT ![r].pc = "s_write"]
      BY <1>1, <2>2 DEF StopFind
    <3>2. UNCHANGED <<availKeys, worker>> /\ req[r].key = NoKey
      BY <1>1, <2>2 DEF StopFind, KeyInv, KeySteps
    <3>3. /\ \A q \in Reqs : req'[q].key = req[q].key
          /\ \A q \in Reqs \ {r} : req'[q].pc = req[q].pc
          /\ req'[r].pc = "s_write"
      BY <3>1 DEF TypeOK, Request
    <3>. QED BY <3>2, <3>3, RequestMoves, UnchangedWorkers
  <2>. QED BY <2>1, <2>2
<1>2. CASE StopWrite(r)
  <2>1. CASE End(r)
    BY <1>2, <2>1, EndKeys, UnchangedWorkers DEF StopWrite
  <2>2. CASE ~End(r)
    <3>. DEFINE rs == [req EXCEPT ![r].pc = "s_vm"]
    <3>1. rs \in [Reqs -> Request]
      BY StepNames, GotoType DEF TypeOK
    <3>2. /\ \A q \in Reqs : rs[q].key = req[q].key
          /\ \A q \in Reqs \ {r} : rs[q].pc = req[q].pc
          /\ rs[r].pc = "s_vm"
      BY DEF TypeOK, Request
    <3>3. req' = AfterCommit(rs, r) /\ UNCHANGED <<availKeys, worker>>
      BY <1>2, <2>2 DEF StopWrite
    <3>4. req[r].key = NoKey
      BY <1>2 DEF StopWrite, KeyInv, KeySteps
    <3>. HIDE DEF rs
    <3>. QED BY <3>1, <3>2, <3>3, <3>4, AfterCommitKeeps, RequestMoves, UnchangedWorkers
  <2>. QED BY <2>1, <2>2
<1>3. CASE StopVm(r)
  BY <1>3, EndKeys, DeleteVmKeepsKeys, RequestParts DEF StopVm
<1>. QED BY <1>1, <1>2, <1>3 DEF StopStep

LEMMA StartKeys ==
    ASSUME TypeOK, KeyInv, NEW r \in Reqs, StartStep(r)
    PROVE  KeyInv'
<1>1. CASE StartFind(r)
  <2>1. CASE End(r)
    BY <1>1, <2>1, EndKeys, UnchangedWorkers DEF StartFind
  <2>2. CASE ~End(r)
    <3>1. PICK k \in availKeys :
              /\ availKeys' = availKeys \ {k}
              /\ req' = [req EXCEPT ![r].pc = "t_write", ![r].key = k]
      BY <1>1, <2>2 DEF StartFind
    <3>2. k \in KeyOrNone
      BY DEF TypeOK, KeyOrNone
    <3>3. req[r].key = NoKey /\ UNCHANGED worker
      BY <1>1 DEF StartFind, KeyInv, KeySteps
    <3>4. req'[r].key = k /\ req'[r].pc \in KeySteps
      BY <3>1 DEF TypeOK, Request, KeySteps
    <3>5. \A q \in Reqs \ {r} : req'[q] = req[q]
      BY <3>1 DEF TypeOK
    <3>. QED BY <3>1, <3>2, <3>3, <3>4, <3>5, TakeKeys
  <2>. QED BY <2>1, <2>2
<1>2. CASE StartWrite(r)
  <2>1. CASE End(r)
    BY <1>2, <2>1, EndKeys, UnchangedWorkers DEF StartWrite
  <2>2. CASE ~End(r)
    <3>. DEFINE rs == [req EXCEPT ![r].pc = "t_spawn"]
    <3>1. rs \in [Reqs -> Request]
      BY StepNames, GotoType DEF TypeOK
    <3>2. /\ \A q \in Reqs : rs[q].key = req[q].key
          /\ \A q \in Reqs \ {r} : rs[q].pc = req[q].pc
          /\ rs[r].pc = "t_spawn"
      BY DEF TypeOK, Request
    <3>3. req' = AfterCommit(rs, r) /\ UNCHANGED <<availKeys, worker>>
      BY <1>2, <2>2 DEF StartWrite
    <3>4. "t_spawn" \in KeySteps
      BY DEF KeySteps
    <3>. HIDE DEF rs
    <3>. QED BY <3>1, <3>2, <3>3, <3>4, AfterCommitKeeps, RequestMoves, UnchangedWorkers
  <2>. QED BY <2>1, <2>2
<1>3. CASE StartSpawn(r)
  <2>1. req' = [req EXCEPT ![r] = Idle(AnyWorkload)]
    BY <1>3 DEF StartSpawn, Ended
  <2>2. req'[r].key = NoKey /\ \A q \in Reqs \ {r} : req'[q] = req[q]
    BY <2>1 DEF TypeOK, Idle
  <2>. QED BY <1>3, <2>2, CreateVmRequestKeys, RequestParts DEF StartSpawn
<1>. QED BY <1>1, <1>2, <1>3 DEF StartStep

LEMMA RestartKeys ==
    ASSUME TypeOK, KeyInv, NEW r \in Reqs, RestartStep(r)
    PROVE  KeyInv'
<1>0. req[r].key = NoKey
  BY DEF RestartStep, RestartFind, RestartEnv, RestartAct, RestartWrite, KeyInv, KeySteps
<1>1. CASE RestartFind(r)
  <2>1. CASE End(r)
    BY <1>1, <2>1, EndKeys, UnchangedWorkers DEF RestartFind
  <2>2. CASE ~End(r)
    <3>. DEFINE p == IF req[r].env THEN "r_env" ELSE "r_act"
    <3>1. req' = [req EXCEPT ![r].pc = p, ![r].env = FALSE, ![r].row = rows[req[r].w]]
      BY <1>1, <2>2 DEF RestartFind
    <3>2. UNCHANGED <<availKeys, worker>>
      BY <1>1, <2>2 DEF RestartFind
    <3>. HIDE DEF p
    <3>3. /\ \A q \in Reqs : req'[q].key = req[q].key
          /\ \A q \in Reqs \ {r} : req'[q].pc = req[q].pc
          /\ req'[r].pc = p
      BY <3>1 DEF TypeOK, Request
    <3>. QED BY <1>0, <3>2, <3>3, RequestMoves, UnchangedWorkers
  <2>. QED BY <2>1, <2>2
<1>2. CASE RestartEnv(r)
  <2>1. CASE End(r)
    BY <1>2, <2>1, EndKeys, UnchangedWorkers DEF RestartEnv
  <2>2. CASE ~End(r)
    <3>1. req' = [req EXCEPT ![r].pc = "r_act", ![r].writing = TRUE]
      BY <1>2, <2>2 DEF RestartEnv
    <3>2. UNCHANGED <<availKeys, worker>>
      BY <1>2, <2>2 DEF RestartEnv
    <3>3. /\ \A q \in Reqs : req'[q].key = req[q].key
          /\ \A q \in Reqs \ {r} : req'[q].pc = req[q].pc
          /\ req'[r].pc = "r_act"
      BY <3>1 DEF TypeOK, Request
    <3>. QED BY <1>0, <3>2, <3>3, RequestMoves, UnchangedWorkers
  <2>. QED BY <2>1, <2>2
<1>3. CASE RestartAct(r)
  <2>1. CASE End(r) /\ UNCHANGED worker
    BY <2>1, EndKeys, UnchangedWorkers
  <2>2. CASE Goto(r, "r_write")
    <3>1. /\ \A q \in Reqs : req'[q].key = req[q].key
          /\ \A q \in Reqs \ {r} : req'[q].pc = req[q].pc
          /\ req'[r].pc = "r_write"
      BY <2>2 DEF Goto, TypeOK, Request
    <3>2. CASE \E k \in KeyOrNone : /\ IsWorkloadKey(req[r].w, req[r].row, k)
                                    /\ CreateVm(req[r].w, k, availKeys \ {k})
      <4>1. PICK k \in KeyOrNone : /\ IsWorkloadKey(req[r].w, req[r].row, k)
                                   /\ CreateVm(req[r].w, k, availKeys \ {k})
        BY <3>2
      <4>2. k \in availKeys \/ k = NoKey
        BY <4>1, WorkloadKeyIsFree
      <4>3. \A q \in Reqs : /\ req'[q].key = req[q].key
                            /\ req[q].key # NoKey => req'[q].pc = req[q].pc
        BY <1>0, <3>1
      <4>. QED BY <4>1, <4>2, <4>3, CreateVmFreshKeys, RequestParts
    <3>3. CASE UNCHANGED availKeys /\ worker' = [s \in Slots |->
                   IF s \in Managed(req[r].w)
                   THEN [worker[s] EXCEPT !.restart = TRUE] ELSE worker[s]]
      <4>1. WorkersKeepKeys
        BY <3>3 DEF WorkersKeepKeys, TypeOK, Worker
      <4>. QED BY <1>0, <3>1, <3>3, <4>1, RequestMoves
    <3>4. CASE End(r) /\ UNCHANGED worker
      BY <3>4, EndKeys, UnchangedWorkers
    <3>. QED BY <1>3, <3>2, <3>3, <3>4 DEF RestartAct
  <2>. QED BY <1>3, <2>1, <2>2 DEF RestartAct
<1>4. CASE RestartWrite(r)
  <2>1. CASE End(r)
    BY <1>4, <2>1, EndKeys, UnchangedWorkers DEF RestartWrite
  <2>2. CASE ~End(r)
    <3>1. req' = AfterCommit(Ended(r), r) /\ UNCHANGED <<availKeys, worker>>
      BY <1>4, <2>2 DEF RestartWrite
    <3>2. Ended(r) \in [Reqs -> Request]
      BY AnyWorkloadType, IdleType DEF TypeOK, Ended
    <3>3. /\ \A q \in Reqs : Ended(r)[q].key = req[q].key
          /\ \A q \in Reqs \ {r} : Ended(r)[q].pc = req[q].pc
          /\ Ended(r)[r].pc = "idle"
      BY <1>0 DEF Ended, Idle, TypeOK
    <3>. QED BY <1>0, <3>1, <3>2, <3>3, AfterCommitKeeps, RequestMoves, UnchangedWorkers
  <2>. QED BY <2>1, <2>2
<1>. QED BY <1>1, <1>2, <1>3, <1>4 DEF RestartStep

LEMMA WorkerKeysKept ==
    ASSUME TypeOK, KeyInv, NEW s \in Slots, WorkerStep(s)
    PROVE  KeyInv'
<1>1. CASE WorkerStart(s) \/ WorkerBootstrap(s)
  <2>1. UNCHANGED <<req, availKeys, worker>>
    BY <1>1 DEF WorkerStart, WorkerBootstrap
  <2>. QED BY <2>1, NoKeyMoves, UnchangedWorkers DEF KeyInv
<1>2. CASE WorkerRestart(s)
  <2>1. WorkersKeepKeys
    BY <1>2 DEF WorkerRestart, WorkersKeepKeys, TypeOK, Worker
  <2>. QED BY <1>2, <2>1, NoKeyMoves DEF WorkerRestart, KeyInv
<1>3. CASE WorkerExit(s)
  <2>1. \A t \in Slots : worker'[t] = IF t = s THEN NoWorker ELSE worker[t]
    BY <1>3 DEF WorkerExit, TypeOK
  <2>2. NoWorker.key = NoKey
    BY DEF NoWorker
  <2>3. WorkerKeys' = [WorkerKeys EXCEPT ![s] = NoKey]
    BY <2>1, <2>2 DEF WorkerKeys
  <2>4. ReqKeys' = ReqKeys /\ availKeys' = availKeys \cup KeySet(WorkerKeys[s])
    BY <1>3 DEF WorkerExit, ReqKeys, WorkerKeys
  <2>5. Partition(ReqKeys', WorkerKeys', availKeys')
    BY <2>3, <2>4, WorkerDrops DEF KeyInv
  <2>6. UNCHANGED req
    BY <1>3 DEF WorkerExit
  <2>. QED BY <2>1, <2>2, <2>5, <2>6 DEF KeyInv
<1>. QED BY <1>1, <1>2, <1>3 DEF WorkerStep

(* With nothing in memory, all the keys are in the pool.                   *)
LEMMA AllKeysFree ==
    ASSUME ConstantsAssumption
    PROVE  /\ Init => KeyInv
           /\ LoseMemory => KeyInv'
<1>1. ASSUME NEW rk \in [Reqs -> {NoKey}], NEW wk \in [Slots -> {NoKey}]
      PROVE  Partition(rk, wk, Keys)
  BY NoKeyType DEF Partition
<1>2. ASSUME Init PROVE KeyInv
  <2>1. \A r \in Reqs : req[r].key = NoKey
    BY <1>2 DEF Init, Idle
  <2>2. \A s \in Slots : worker[s].key = NoKey
    BY <1>2 DEF Init, NoWorker
  <2>3. ReqKeys \in [Reqs -> {NoKey}] /\ WorkerKeys \in [Slots -> {NoKey}]
    BY <2>1, <2>2 DEF ReqKeys, WorkerKeys
  <2>. QED BY <1>1, <1>2, <2>1, <2>2, <2>3 DEF KeyInv, Init
<1>3. ASSUME LoseMemory PROVE KeyInv'
  <2>1. \A r \in Reqs : req'[r].key = NoKey
    BY <1>3 DEF LoseMemory, Idle
  <2>2. \A s \in Slots : worker'[s].key = NoKey
    BY <1>3 DEF LoseMemory, NoWorker
  <2>3. ReqKeys' \in [Reqs -> {NoKey}] /\ WorkerKeys' \in [Slots -> {NoKey}]
    BY <2>1, <2>2 DEF ReqKeys, WorkerKeys
  <2>4. availKeys' = Keys
    BY <1>3 DEF LoseMemory
  <2>. QED BY <1>1, <2>1, <2>2, <2>3, <2>4 DEF KeyInv
<1>. QED BY <1>2, <1>3

LEMMA NextKeys == TypeOK /\ KeyInv /\ [Next]_vars => KeyInv'
<1>. SUFFICES ASSUME TypeOK, KeyInv, [Next]_vars
              PROVE  KeyInv'
  OBVIOUS
<1>1. ASSUME NEW r \in Reqs, Arrive(r) \/ Abandon(r)
      PROVE  KeyInv'
  BY <1>1, ArriveKeys
<1>2. ASSUME NEW r \in Reqs, Handler(r)
      PROVE  KeyInv'
  BY <1>2, CreateKeys, DeleteKeys, StopKeys, StartKeys, RestartKeys DEF Handler
<1>3. ASSUME NEW s \in Slots, WorkerStep(s)
      PROVE  KeyInv'
  BY <1>3, WorkerKeysKept
<1>4. ASSUME NEW w \in Workloads, BootWorkload(w)
      PROVE  KeyInv'
  <2>1. CASE LoseMemory
    BY <2>1, AllKeysFree, ConstantsAssumption
  <2>2. CASE ~LoseMemory
    <3>1. PICK k \in KeyOrNone : /\ IsWorkloadKey(w, rows[w], k)
                                 /\ CreateVm(w, k, availKeys \ {k})
      BY <1>4, <2>2 DEF BootWorkload
    <3>2. UNCHANGED req
      BY <1>4, <2>2 DEF BootWorkload
    <3>3. k \in availKeys \/ k = NoKey
      BY <3>1, WorkloadKeyIsFree
    <3>. QED BY <3>1, <3>2, <3>3, CreateVmFreshKeys
  <2>. QED BY <2>1, <2>2
<1>5. CASE Crash
  BY <1>5, AllKeysFree, ConstantsAssumption DEF Crash
<1>6. CASE UNCHANGED <<req, availKeys, worker>>
  BY <1>6, NoKeyMoves, UnchangedWorkers DEF KeyInv
<1>7. ASSUME NEW w \in Workloads, CvmDies(w)
      PROVE  KeyInv'
  BY <1>6, <1>7 DEF CvmDies
<1>8. CASE Boot
  BY <1>6, <1>8 DEF Boot
<1>9. CASE Serve
  BY <1>6, <1>9 DEF Serve
<1>10. CASE UNCHANGED vars
  BY <1>6, <1>10 DEF vars
<1>. QED BY <1>1, <1>2, <1>3, <1>4, <1>5, <1>7, <1>8, <1>9, <1>10 DEF Next

(* The verifier keys are partitioned between the pool, the requests and    *)
(* the VM workers in every reachable state.                                *)
THEOREM KeyInvariant == Spec => []KeyInv
<1>1. Init => KeyInv
  BY AllKeysFree, ConstantsAssumption
<1>2. TypeOK /\ KeyInv /\ [Next]_vars => KeyInv'
  BY NextKeys
<1>. QED BY <1>1, <1>2, TypeCorrect, PTL DEF Spec

(* No verifier key has two owners, whatever requests run, fail or are      *)
(* dropped, and whenever the agent crashes.                                *)
THEOREM KeysOwnedOnce == Spec => []KeyOwnedOnce
<1>1. KeyInv => KeyOwnedOnce
  BY DEF KeyInv, Partition, KeyOwnedOnce, ReqKeys, WorkerKeys
<1>. QED BY <1>1, KeyInvariant, PTL

(* No verifier key is ever lost: what is not in the pool has an owner that *)
(* will give it back.                                                      *)
THEOREM NoKeyLost == Spec => []KeysNotLost
<1>1. KeyInv => KeysNotLost
  BY NoKeyType DEF KeyInv, Partition, KeysNotLost, ReqKeys, WorkerKeys
<1>. QED BY <1>1, KeyInvariant, PTL

-----------------------------------------------------------------------------
(* The wallets of the CVMs.                                                *)

(* The inductive invariant: until the agent crashes, the wallet of a CVM   *)
(* is the key of a worker of its workload, and before it serves for the    *)
(* first time there is nothing to start.                                   *)
WalletInv ==
    /\ phase # "serving" => \A r \in Reqs : req[r].pc = "idle"
    /\ crashes = 0 =>
        /\ phase # "serving" => Stored = {} /\ pending = {}
        /\ \A w \in Workloads : vm[w].wallet # NoKey =>
             \E s \in Slots : /\ worker[s].st # "none" /\ worker[s].w = w
                              /\ worker[s].key = vm[w].wallet

(* Workers that run go on running, for the same workload with the same     *)
(* key.                                                                    *)
WorkersStay ==
    \A s \in Slots : worker[s].st # "none" =>
        /\ worker'[s].st # "none"
        /\ worker'[s].w = worker[s].w
        /\ worker'[s].key = worker[s].key

LEMMA CreateVmStays ==
    ASSUME TypeOK, NEW w, NEW k, NEW ks, CreateVm(w, k, ks)
    PROVE  WorkersStay
  BY DEF TypeOK, WorkersStay, CreateVm

LEMMA DeleteVmStays ==
    ASSUME TypeOK, NEW w, DeleteVm(w)
    PROVE  WorkersStay
  BY DEF TypeOK, WorkersStay, DeleteVm, Managed, Worker

(* A handler neither starts nor stops a CVM, nor ends a worker.            *)
LEMMA HandlerFrame ==
    ASSUME TypeOK, NEW r \in Reqs, Arrive(r) \/ Abandon(r) \/ Handler(r)
    PROVE  UNCHANGED <<phase, pending, vm, crashes>> /\ WorkersStay
<1>0. UNCHANGED worker => WorkersStay
  BY DEF WorkersStay
<1>1. CASE Arrive(r) \/ Abandon(r)
  BY <1>0, <1>1 DEF Arrive, Abandon
<1>2. CASE CreateStep(r)
  BY <1>0, <1>2, CreateVmStays
     DEF CreateStep, CreateLock, CreateInsert, CreateSpawn, CreateCommit, CreateDeduct
<1>3. CASE DeleteStep(r)
  BY <1>0, <1>3, DeleteVmStays DEF DeleteStep, DeleteFind, DeleteErase, DeleteStop, DeleteFree
<1>4. CASE StopStep(r)
  BY <1>0, <1>4, DeleteVmStays DEF StopStep, StopFind, StopWrite, StopVm
<1>5. CASE StartStep(r)
  BY <1>0, <1>5, CreateVmStays DEF StartStep, StartFind, StartWrite, StartSpawn
<1>6. CASE RestartFind(r) \/ RestartEnv(r) \/ RestartWrite(r)
  BY <1>0, <1>6 DEF RestartFind, RestartEnv, RestartWrite
<1>7. CASE RestartAct(r)
  <2>1. UNCHANGED <<phase, pending, vm, crashes>>
    BY <1>7 DEF RestartAct
  <2>2. \/ UNCHANGED worker
        \/ worker' = [s \in Slots |-> IF s \in Managed(req[r].w)
                                      THEN [worker[s] EXCEPT !.restart = TRUE]
                                      ELSE worker[s]]
        \/ \E k : CreateVm(req[r].w, k, availKeys \ {k})
    BY <1>7 DEF RestartAct
  <2>3. CASE worker' = [s \in Slots |-> IF s \in Managed(req[r].w)
                                        THEN [worker[s] EXCEPT !.restart = TRUE]
                                        ELSE worker[s]]
    <3>1. ASSUME NEW s \in Slots
          PROVE  /\ worker'[s].st = worker[s].st /\ worker'[s].w = worker[s].w
                 /\ worker'[s].key = worker[s].key
      BY <2>3 DEF TypeOK, Worker
    <3>. QED BY <2>1, <3>1 DEF WorkersStay
  <2>. QED BY <1>0, <2>1, <2>2, <2>3, CreateVmStays
<1>. QED BY <1>1, <1>2, <1>3, <1>4, <1>5, <1>6, <1>7 DEF Handler, RestartStep

(* A request that is not there takes no step.                              *)
LEMMA HandlerIsActive ==
    ASSUME NEW r \in Reqs, Handler(r)
    PROVE  req[r].pc # "idle"
<1>1. CASE CreateStep(r)
  BY <1>1 DEF CreateStep, CreateLock, CreateInsert, CreateSpawn, CreateCommit, CreateDeduct
<1>2. CASE DeleteStep(r)
  BY <1>2 DEF DeleteStep, DeleteFind, DeleteErase, DeleteStop, DeleteFree
<1>3. CASE StopStep(r)
  BY <1>3 DEF StopStep, StopFind, StopWrite, StopVm
<1>4. CASE StartStep(r)
  BY <1>4 DEF StartStep, StartFind, StartWrite, StartSpawn
<1>5. CASE RestartStep(r)
  BY <1>5 DEF RestartStep, RestartFind, RestartEnv, RestartAct, RestartWrite
<1>. QED BY <1>1, <1>2, <1>3, <1>4, <1>5 DEF Handler

LEMMA NextWallets ==
    ASSUME QmpFails = FALSE
    PROVE  TypeOK /\ KeyInv /\ WalletInv /\ [Next]_vars => WalletInv'
<1>. SUFFICES ASSUME TypeOK, KeyInv, WalletInv, [Next]_vars
              PROVE  WalletInv'
  OBVIOUS
<1>1. ASSUME NEW r \in Reqs, Arrive(r) \/ Abandon(r) \/ Handler(r)
      PROVE  WalletInv'
  <2>1. UNCHANGED <<phase, pending, vm, crashes>> /\ WorkersStay
    BY <1>1, HandlerFrame
  <2>2. CASE phase = "serving"
    BY <2>1, <2>2 DEF WalletInv, WorkersStay
  <2>3. CASE phase # "serving"
    <3>1. req[r].pc = "idle" /\ Abandon(r)
      BY <1>1, <2>3, HandlerIsActive DEF WalletInv, Arrive
    <3>2. \A q \in Reqs : req'[q].pc = "idle"
      BY <2>3, <3>1 DEF WalletInv, Abandon, End, Ended, Idle, TypeOK
    <3>3. Stored' = Stored
      BY <3>1 DEF Abandon, Stored
    <3>. QED BY <2>1, <3>2, <3>3 DEF WalletInv, WorkersStay
  <2>. QED BY <2>2, <2>3
<1>2. ASSUME NEW s \in Slots, WorkerStep(s)
      PROVE  WalletInv'
  <2>. DEFINE v == worker[s].w
  <2>1. /\ UNCHANGED <<phase, pending, req, rows, crashes>> /\ Stored' = Stored
        /\ v \in Workloads /\ worker[s].st # "none"
    BY <1>2 DEF WorkerStep, WorkerStart, WorkerBootstrap, WorkerRestart, WorkerExit,
                Stored, TypeOK, Worker
  <2>2. CASE WorkerStart(s) \/ WorkerBootstrap(s)
    <3>1. PICK c : vm' = [vm EXCEPT ![v] = c] /\ (c.wallet = NoKey \/ c.wallet = worker[s].key)
      <4>1. CASE WorkerStart(s)
        <5>1. PICK c : c = [st |-> "fresh", wallet |-> NoKey]
          OBVIOUS
        <5>2. vm' = [vm EXCEPT ![v] = c] /\ c.wallet = NoKey
          BY <4>1, <5>1 DEF WorkerStart
        <5>. QED BY <5>2
      <4>2. CASE WorkerBootstrap(s)
        <5>1. PICK c : c = [st |-> "bootstrapped",
                            wallet |-> IF v \in Heartbeat THEN worker[s].key ELSE NoKey]
          OBVIOUS
        <5>2. vm' = [vm EXCEPT ![v] = c] /\ (c.wallet = NoKey \/ c.wallet = worker[s].key)
          BY <4>2, <5>1 DEF WorkerBootstrap
        <5>. QED BY <5>2
      <4>. QED BY <2>2, <4>1, <4>2
    <3>2. \A w \in Workloads : vm'[w] = IF w = v THEN c ELSE vm[w]
      BY <2>1, <3>1 DEF TypeOK
    <3>3. UNCHANGED worker
      BY <2>2 DEF WorkerStart, WorkerBootstrap
    <3>. QED BY <2>1, <3>1, <3>2, <3>3 DEF WalletInv
  <2>3. CASE WorkerRestart(s)
    <3>1. WorkersStay
      BY <2>3 DEF WorkerRestart, WorkersStay, TypeOK, Worker
    <3>2. \A w \in Workloads : vm'[w].wallet = NoKey \/ vm'[w] = vm[w]
      BY <2>3 DEF WorkerRestart, TypeOK
    <3>. QED BY <2>1, <3>1, <3>2 DEF WalletInv, WorkersStay
  <2>4. CASE WorkerExit(s)
    <3>1. \A w \in Workloads : vm'[w] = IF w = v THEN Off ELSE vm[w]
      BY <2>1, <2>4 DEF WorkerExit, TypeOK
    <3>2. \A t \in Slots \ {s} : worker'[t] = worker[t]
      BY <2>4 DEF WorkerExit, TypeOK
    <3>. QED BY <2>1, <3>1, <3>2 DEF WalletInv, Off
  <2>. QED BY <1>2, <2>2, <2>3, <2>4 DEF WorkerStep
<1>3. ASSUME NEW w \in Workloads, CvmDies(w)
      PROVE  WalletInv'
  <2>1. \A v \in Workloads : vm'[v] = IF v = w THEN Off ELSE vm[v]
    BY <1>3 DEF CvmDies, TypeOK
  <2>2. UNCHANGED <<phase, pending, req, worker, crashes>> /\ Stored' = Stored
    BY <1>3 DEF CvmDies, Stored
  <2>. QED BY <2>1, <2>2 DEF WalletInv, Off
<1>4. ASSUME NEW w \in Workloads, BootWorkload(w)
      PROVE  WalletInv'
  <2>1. crashes # 0 /\ crashes' = crashes
    BY <1>4 DEF BootWorkload, WalletInv
  <2>2. phase' # "serving" => \A r \in Reqs : req'[r].pc = "idle"
    BY <1>4 DEF BootWorkload, WalletInv, LoseMemory, Idle
  <2>. QED BY <2>1, <2>2 DEF WalletInv
<1>5. CASE Boot
  <2>1. /\ UNCHANGED <<req, worker, vm, crashes>> /\ Stored' = Stored /\ phase # "serving"
        /\ pending' = {w \in Stored : rows[w].enabled}
    BY <1>5 DEF Boot, Stored
  <2>. QED BY <2>1 DEF WalletInv
<1>6. CASE Serve
  BY <1>6 DEF Serve, WalletInv
<1>7. CASE Crash
  <2>1. crashes' # 0 /\ \A r \in Reqs : req'[r].pc = "idle"
    BY <1>7 DEF Crash, LoseMemory, Idle, TypeOK
  <2>. QED BY <2>1 DEF WalletInv
<1>8. CASE UNCHANGED vars
  BY <1>8 DEF vars, WalletInv, Stored
<1>. QED BY <1>1, <1>2, <1>3, <1>4, <1>5, <1>6, <1>7, <1>8 DEF Next

(* No two CVMs send heartbeats from the same wallet, whatever requests     *)
(* overlap, fail or are dropped, for as long as the agent does not crash   *)
(* and `quit` stops the CVMs (VmWorker::delete_vm drops the key after it). *)
THEOREM WalletsExclusive ==
    ASSUME QmpFails = FALSE
    PROVE  Spec => []WalletExclusive
<1>1. Init => WalletInv
  BY DEF Init, WalletInv, Idle, Stored, NoRow, Off
<1>2. TypeOK /\ KeyInv /\ WalletInv /\ [Next]_vars => WalletInv'
  BY NextWallets
<1>3. KeyInv /\ WalletInv => WalletExclusive
  <2>. SUFFICES ASSUME KeyInv, WalletInv, crashes = 0,
                       NEW w \in Workloads, NEW v \in Workloads, w # v,
                       vm[w].wallet = vm[v].wallet, vm[w].wallet # NoKey
                PROVE  FALSE
    BY DEF WalletExclusive
  <2>1. PICK s \in Slots : worker[s].w = w /\ worker[s].key = vm[w].wallet
    BY DEF WalletInv
  <2>2. PICK t \in Slots : worker[t].w = v /\ worker[t].key = vm[v].wallet
    BY DEF WalletInv
  <2>3. WorkerKeys[s] = WorkerKeys[t] /\ s # t
    BY <2>1, <2>2 DEF WorkerKeys
  <2>. QED BY <2>1, <2>3 DEF KeyInv, Partition, WorkerKeys
<1>. QED BY <1>1, <1>2, <1>3, TypeCorrect, KeyInvariant, PTL DEF Spec

-----------------------------------------------------------------------------
(* What clients that wait for a workload's request to end can rely on: the *)
(* GPUs and ports are owned once and none is lost, the workers are those   *)
(* of the enabled rows, and the agent that starts again finds its keys.    *)
(*                                                                         *)
(* Two inductive invariants: ResourceInv, about the mutex, the pools and   *)
(* the rows (UnitInv for GPUs and ports, AmountInv for amounts), and       *)
(* HoldInv, about the map of workers, the rows and the keys that the rows  *)
(* name, on top of UnitInv and KeyInv.                                     *)

(* What a request is to the pools: it has chosen the front of the pools    *)
(* and keeps the mutex, its row is committed and its units are not taken   *)
(* out yet, it has found a row to delete, or it has erased it and not      *)
(* given the units back.                                                   *)
Choosing(q) == q.pc \in {"c_insert", "c_spawn", "c_commit"}
Committing(q) == q.pc = "c_deduct"
Finding(q) == q.pc = "d_erase"
Giving(q) == q.pc \in {"d_stop", "d_free"}
Active(q) == q.pc # "idle"
Inserted(q) == q.pc \in {"c_spawn", "c_commit"}

(* Who holds the mutex, and that clients wait for each other.              *)
ControlInv ==
    /\ \A r \in Reqs : req[r].locked <=> (Choosing(req[r]) \/ Committing(req[r]))
    /\ \A r \in Reqs : Choosing(req[r]) => req[r].row.exists
    /\ \A r \in Reqs : Inserted(req[r]) => req[r].w \notin Stored
    /\ \A q, r \in Reqs : req[q].locked /\ req[r].locked => q = r
    /\ \A q, r \in Reqs : Active(req[q]) /\ Active(req[r]) /\ req[q].w = req[r].w => q = r
    /\ phase # "serving" => \A r \in Reqs : ~Active(req[r])

Apart(s, t) == Elems(s) \cap Elems(t) = {}

(* The units of kind k: the pool, the rows and the deletes in progress     *)
(* own different ones, but for a row just committed, whose units are still *)
(* the front of the pool.                                                  *)
PoolOK(k) == Elems(pool[k]) \subseteq AllUnits[k] /\ Distinct(pool[k])

FrontOK(k, q) ==
    /\ Choosing(q) \/ Committing(q) =>
        /\ Need[q.w][k] <= Len(pool[k])
        /\ q.row.units[k] = SubSeq(pool[k], 1, Need[q.w][k])
    /\ Committing(q) => q.w \in Stored /\ rows[q.w].units[k] = q.row.units[k]
    /\ Finding(q) => q.w \in Stored /\ rows[q.w].units[k] = q.row.units[k]

StoredOK(k) ==
    \A w \in Stored : \/ \E r \in Reqs : Committing(req[r]) /\ req[r].w = w
                      \/ Apart(rows[w].units[k], pool[k])

GivenOK(k, r) ==
    Giving(req[r]) =>
        /\ Elems(req[r].row.units[k]) \subseteq AllUnits[k]
        /\ Distinct(req[r].row.units[k])
        /\ Apart(req[r].row.units[k], pool[k])
        /\ \A w \in Stored : Apart(req[r].row.units[k], rows[w].units[k])
        /\ \A q \in Reqs \ {r} :
            Giving(req[q]) => Apart(req[r].row.units[k], req[q].row.units[k])

(* A delete that has erased its row is not dropped before it has given the *)
(* units back.                                                             *)
NothingDropped == {"d_stop", "d_free"} \cap AbandonAt = {}

(* Every unit of the host is somewhere.                                    *)
CoverOK(k) ==
    \A x \in AllUnits[k] :
        \/ x \in Elems(pool[k])
        \/ \E w \in Stored : x \in Elems(rows[w].units[k])
        \/ \E r \in Reqs : Giving(req[r]) /\ x \in Elems(req[r].row.units[k])

UnitsOK(k) ==
    /\ PoolOK(k)
    /\ \A r \in Reqs : FrontOK(k, req[r])
    /\ StoredOK(k)
    /\ \A r \in Reqs : GivenOK(k, r)
    /\ NothingDropped => CoverOK(k)

(* The inductive invariant.                                                *)
UnitInv ==
    /\ ControlInv
    /\ UnitsExclusive
    /\ phase # "down" => \A k \in Kinds : UnitsOK(k)

(* The amount of s: what is free, what the rows own and what deletes are   *)
(* about to give back make the whole, once what a create has committed     *)
(* and not taken out yet is not counted twice. Whoever has chosen, or      *)
(* committed, found enough and keeps the mutex, so there still is.         *)
Account(s) == free[s] + Committed(s) + AskedBy(Releasing, s) - AskedBy(Deducting, s)

AmountOK(s) ==
    /\ free[s] \in Nat
    /\ \A r \in Reqs : Choosing(req[r]) \/ Committing(req[r]) => Demand[req[r].w][s] <= free[s]
    /\ Account(s) <= Total[s]
    /\ NothingDropped => Account(s) = Total[s]

AmountInv ==
    /\ \A r \in Reqs : Committing(req[r]) \/ Finding(req[r]) => req[r].w \in Stored
    /\ \A s \in Scalars : Committed(s) <= Total[s]
    /\ phase = "down" => free = Total
    /\ phase # "down" => \A s \in Scalars : AmountOK(s)

ResourceInv == UnitInv /\ AmountInv

-----------------------------------------------------------------------------
(* Sequences of units.                                                     *)

LEMMA FrontOfPool ==
    ASSUME NEW s \in Seq(Nat), NEW n \in Nat, n <= Len(s)
    PROVE  /\ Elems(SubSeq(s, 1, n)) \subseteq Elems(s)
           /\ Distinct(s) => Distinct(SubSeq(s, 1, n))
<1>. DEFINE f == SubSeq(s, 1, n)
<1>1. DOMAIN f = 1..n /\ \A i \in 1..n : f[i] = s[i]
  OBVIOUS
<1>2. DOMAIN s = 1..Len(s) /\ 1..n \subseteq 1..Len(s)
  OBVIOUS
<1>. HIDE DEF f
<1>. QED BY <1>1, <1>2 DEF f, Elems, Distinct

LEMMA RestOfPool ==
    ASSUME NEW s \in Seq(Nat), NEW n \in Nat, n <= Len(s), Distinct(s)
    PROVE  /\ Elems(SubSeq(s, n + 1, Len(s))) \subseteq Elems(s)
           /\ Distinct(SubSeq(s, n + 1, Len(s)))
           /\ Apart(SubSeq(s, 1, n), SubSeq(s, n + 1, Len(s)))
           /\ Elems(s) \subseteq Elems(SubSeq(s, 1, n)) \cup Elems(SubSeq(s, n + 1, Len(s)))
<1>. DEFINE f == SubSeq(s, 1, n)
            t == SubSeq(s, n + 1, Len(s))
<1>1. DOMAIN f = 1..n /\ \A i \in 1..n : f[i] = s[i]
  OBVIOUS
<1>2. DOMAIN t = 1..(Len(s) - n) /\ \A i \in 1..(Len(s) - n) : t[i] = s[n + i]
  OBVIOUS
<1>3. DOMAIN s = 1..Len(s) /\ Len(s) \in Nat
  OBVIOUS
<1>. HIDE DEF f, t
<1>8. \A i \in DOMAIN t : i \in Nat /\ n + i \in DOMAIN s /\ n + i > n /\ t[i] = s[n + i]
  BY <1>2, <1>3
<1>9. \A i \in DOMAIN f : i \in DOMAIN s /\ i <= n /\ f[i] = s[i]
  BY <1>1, <1>3
<1>4. Elems(t) \subseteq Elems(s)
  BY <1>8, Zenon DEF Elems
<1>5. Distinct(t)
  <2>. SUFFICES ASSUME NEW i \in DOMAIN t, NEW j \in DOMAIN t, t[i] = t[j]
                PROVE  i = j
    BY DEF Distinct
  <2>1. n + i = n + j
    BY <1>8, Zenon DEF Distinct
  <2>. QED BY <1>8, <2>1
<1>6. Elems(f) \cap Elems(t) = {}
  <2>. SUFFICES ASSUME NEW i \in DOMAIN f, NEW j \in DOMAIN t, f[i] = t[j]
                PROVE  FALSE
    BY DEF Elems
  <2>1. i = n + j
    BY <1>8, <1>9, Zenon DEF Distinct
  <2>. QED BY <1>8, <1>9, <2>1
<1>7. Elems(s) \subseteq Elems(f) \cup Elems(t)
  <2>1. ASSUME NEW i \in 1..Len(s)
        PROVE  s[i] \in Elems(f) \cup Elems(t)
    <3>1. CASE i <= n
      BY <1>1, <3>1 DEF Elems
    <3>2. CASE ~(i <= n)
      <4>1. i - n \in 1..(Len(s) - n) /\ n + (i - n) = i
        BY <1>3, <3>2
      <4>. QED BY <1>2, <4>1 DEF Elems
    <3>. QED BY <3>1, <3>2
  <2>. QED BY <1>3, <2>1 DEF Elems
<1>. QED BY <1>4, <1>5, <1>6, <1>7 DEF f, t, Apart

LEMMA GivenBack ==
    ASSUME NEW s \in Seq(Nat), NEW t \in Seq(Nat), Distinct(s), Distinct(t), Apart(s, t)
    PROVE  /\ Distinct(s \o t)
           /\ Elems(s \o t) = Elems(s) \cup Elems(t)
<1>. DEFINE c == s \o t
<1>1. /\ DOMAIN c = 1..(Len(s) + Len(t))
      /\ \A i \in DOMAIN c : c[i] = IF i <= Len(s) THEN s[i] ELSE t[i - Len(s)]
  OBVIOUS
<1>2. DOMAIN s = 1..Len(s) /\ DOMAIN t = 1..Len(t) /\ Len(s) \in Nat /\ Len(t) \in Nat
  OBVIOUS
<1>. HIDE DEF c
<1>3. ASSUME NEW i \in DOMAIN c
      PROVE  \/ i \in DOMAIN s /\ c[i] = s[i]
             \/ i \notin DOMAIN s /\ i - Len(s) \in DOMAIN t /\ c[i] = t[i - Len(s)]
  <2>1. CASE i <= Len(s)
    BY <1>1, <1>2, <2>1
  <2>2. CASE ~(i <= Len(s))
    BY <1>1, <1>2, <2>2
  <2>. QED BY <2>1, <2>2
<1>4. Elems(c) \subseteq Elems(s) \cup Elems(t)
  BY <1>3 DEF Elems
<1>5. \A i \in DOMAIN s : i \in DOMAIN c /\ c[i] = s[i]
  BY <1>1, <1>2
<1>6. ASSUME NEW j \in DOMAIN t
      PROVE  Len(s) + j \in DOMAIN c /\ c[Len(s) + j] = t[j]
  <2>1. /\ Len(s) + j \in 1..(Len(s) + Len(t)) /\ ~(Len(s) + j <= Len(s))
        /\ (Len(s) + j) - Len(s) = j
    BY <1>2
  <2>. QED BY <1>1, <2>1
<1>7. Elems(s) \cup Elems(t) \subseteq Elems(c)
  BY <1>5, <1>6 DEF Elems
<1>8. Distinct(c)
  <2>. SUFFICES ASSUME NEW i \in DOMAIN c, NEW j \in DOMAIN c, c[i] = c[j]
                PROVE  i = j
    BY DEF Distinct
  <2>1. CASE i \in DOMAIN s /\ j \in DOMAIN s
    BY <1>5, <2>1 DEF Distinct
  <2>2. CASE i \notin DOMAIN s /\ j \notin DOMAIN s
    <3>1. i - Len(s) = j - Len(s)
      BY <1>3, <2>2 DEF Distinct
    <3>. QED BY <1>1, <1>2, <3>1
  <2>3. CASE i \in DOMAIN s /\ j \notin DOMAIN s
    <3>1. c[i] \in Elems(s) /\ c[j] \in Elems(t)
      BY <1>3, <1>5, <2>3 DEF Elems
    <3>. QED BY <3>1 DEF Apart
  <2>4. CASE i \notin DOMAIN s /\ j \in DOMAIN s
    <3>1. c[j] \in Elems(s) /\ c[i] \in Elems(t)
      BY <1>3, <1>5, <2>4 DEF Elems
    <3>. QED BY <3>1 DEF Apart
  <2>. QED BY <2>1, <2>2, <2>3, <2>4
<1>. QED BY <1>4, <1>7, <1>8 DEF c

(* The pools a start-up makes of what no row owns.                         *)
LEMMA AscendingPool ==
    ASSUME NEW S \in SUBSET Nat, IsFiniteSet(S), NEW s \in Ascending(S)
    PROVE  Elems(s) = S /\ Distinct(s)
<1>1. Cardinality(S) \in Nat
  BY FS_CardinalityType
<1>2. s \in [1..Cardinality(S) -> S]
  BY DEF Ascending
<1>3. \A i, j \in 1..Cardinality(S) : i < j => s[i] < s[j]
  BY DEF Ascending
<1>4. ASSUME NEW i \in DOMAIN s, NEW j \in DOMAIN s, s[i] = s[j]
      PROVE  i = j
  <2>1. s[i] \in Nat /\ s[j] \in Nat
    BY <1>2
  <2>3. i \in 1..Cardinality(S) /\ j \in 1..Cardinality(S)
    BY <1>2
  <2>2. ~(i < j) /\ ~(j < i)
    BY <1>3, <1>4, <2>1, <2>3
  <2>. QED BY <1>1, <2>2, <2>3
<1>5. s \in Injection(1..Cardinality(S), S)
  BY <1>2, <1>4 DEF Injection, IsInjective
<1>6. IsFiniteSet(1..Cardinality(S)) /\ Cardinality(1..Cardinality(S)) = Cardinality(S)
  BY <1>1, FS_Interval
<1>7. s \in Surjection(1..Cardinality(S), S)
  BY <1>5, <1>6, FS_Injection
<1>8. \A x \in S : \E i \in DOMAIN s : s[i] = x
  BY <1>2, <1>7 DEF Surjection
<1>9. Elems(s) = S
  BY <1>2, <1>8 DEF Elems
<1>. QED BY <1>4, <1>9 DEF Distinct

-----------------------------------------------------------------------------
(* The mutex and the clients.                                              *)

SameControl(p, q) ==
    /\ p.locked = q.locked
    /\ p.w = q.w
    /\ Choosing(p) <=> Choosing(q)
    /\ Choosing(p) => p.row.exists = q.row.exists
    /\ Inserted(p) => Inserted(q)
    /\ Committing(p) <=> Committing(q)
    /\ Active(p) <=> Active(q)

(* Requests that only move on.                                             *)
LEMMA ControlSame ==
    ASSUME ControlInv, \A q \in Reqs : SameControl(req'[q], req[q]),
           phase' # "serving" => phase # "serving", Stored' \subseteq Stored
    PROVE  ControlInv'
  BY DEF ControlInv, SameControl, Choosing, Committing, Active, Inserted

(* One request takes a step, with the mutex or without.                    *)
LEMMA ControlStep ==
    ASSUME ControlInv, NEW r \in Reqs, UNCHANGED phase, phase = "serving",
           \A q \in Reqs \ {r} : SameControl(req'[q], req[q]),
           req'[r].locked <=> (Choosing(req'[r]) \/ Committing(req'[r])),
           Choosing(req'[r]) => req'[r].row.exists,
           Inserted(req'[r]) => req'[r].w \notin Stored',
           Stored' \subseteq Stored \/ (Active(req[r]) /\ Stored' \subseteq Stored \cup {req[r].w}),
           req'[r].locked => req[r].locked \/ LockFree,
           Active(req'[r]) =>
              \/ Active(req[r]) /\ req'[r].w = req[r].w
              \/ \A q \in Reqs : Active(req[q]) => req[q].w # req'[r].w
    PROVE  ControlInv'
<1>1. \A q \in Reqs : (req[q].locked <=> (Choosing(req[q]) \/ Committing(req[q])))'
  BY DEF ControlInv, SameControl, Choosing, Committing
<1>2. \A p, q \in Reqs : (req[p].locked /\ req[q].locked)' => p = q
  BY DEF ControlInv, SameControl, LockFree
<1>3. \A p, q \in Reqs : (Active(req[p]) /\ Active(req[q]) /\ req[p].w = req[q].w)' => p = q
  BY DEF ControlInv, SameControl, Active
<1>4. \A q \in Reqs : (Choosing(req[q]) => req[q].row.exists)'
  BY DEF ControlInv, SameControl, Choosing
<1>5. \A q \in Reqs : (Inserted(req[q]) => req[q].w \notin Stored)'
  BY DEF ControlInv, SameControl, Inserted, Active
<1>. QED BY <1>1, <1>2, <1>3, <1>4, <1>5 DEF ControlInv

-----------------------------------------------------------------------------
(* The shapes of the steps.                                                *)

SameUnits(p, q) ==
    /\ p.w = q.w
    /\ p.row.units = q.row.units
    /\ Choosing(p) <=> Choosing(q)
    /\ Committing(p) <=> Committing(q)
    /\ Finding(p) <=> Finding(q)
    /\ Giving(p) <=> Giving(q)

WithoutUnits(q) == ~Choosing(q) /\ ~Committing(q) /\ ~Finding(q) /\ ~Giving(q)

(* What a request that ends early must not leave behind.                   *)
MayEnd(q) == ~Committing(q) /\ (NothingDropped => ~Giving(q))

RowsKeepUnits ==
    /\ Stored' = Stored
    /\ \A w \in Workloads : rows'[w].units = rows[w].units

LEMMA RowsKeptExclusive ==
    ASSUME UnitsExclusive, RowsKeepUnits
    PROVE  UnitsExclusive'
  BY DEF UnitsExclusive, RowsKeepUnits, Stored

(* A step that moves no unit: requests move on, or end without having      *)
(* committed a row.                                                        *)
LEMMA UnitsKept ==
    ASSUME UnitInv, ControlInv', UNCHANGED pool, RowsKeepUnits,
           phase' # "down" => phase # "down",
           \A q \in Reqs : \/ SameUnits(req'[q], req[q])
                           \/ WithoutUnits(req'[q]) /\ MayEnd(req[q])
    PROVE  UnitInv'
<1>. SUFFICES ASSUME phase' # "down", NEW k \in Kinds
              PROVE  UnitsOK(k)'
  BY RowsKeptExclusive DEF UnitInv
<1>1. UnitsOK(k)
  BY DEF UnitInv
<1>2. PoolOK(k)'
  BY <1>1 DEF UnitsOK, PoolOK
<1>3. ASSUME NEW r \in Reqs
      PROVE  FrontOK(k, req[r])'
  <2>1. FrontOK(k, req[r])
    BY <1>1 DEF UnitsOK
  <2>2. CASE SameUnits(req'[r], req[r])
    BY <2>1, <2>2 DEF FrontOK, SameUnits, RowsKeepUnits, Stored
  <2>3. CASE WithoutUnits(req'[r])
    BY <2>3 DEF FrontOK, WithoutUnits
  <2>. QED BY <2>2, <2>3
<1>4. StoredOK(k)'
  <2>. SUFFICES ASSUME NEW w \in Stored'
                PROVE  \/ \E r \in Reqs : Committing(req'[r]) /\ req'[r].w = w
                       \/ Apart(rows'[w].units[k], pool'[k])
    BY DEF StoredOK, Apart, Committing
  <2>1. w \in Stored /\ rows'[w].units = rows[w].units
    BY DEF RowsKeepUnits, Stored
  <2>2. CASE Apart(rows[w].units[k], pool[k])
    BY <2>1, <2>2
  <2>3. CASE \E r \in Reqs : Committing(req[r]) /\ req[r].w = w
    BY <2>3 DEF SameUnits, MayEnd
  <2>. QED BY <1>1, <2>1, <2>2, <2>3 DEF UnitsOK, StoredOK
<1>5. ASSUME NEW r \in Reqs
      PROVE  GivenOK(k, r)'
  <2>. SUFFICES ASSUME Giving(req'[r])
                PROVE  GivenOK(k, r)'
    BY DEF GivenOK, Giving
  <2>1. SameUnits(req'[r], req[r])
    BY DEF WithoutUnits
  <2>2. Giving(req[r]) /\ req'[r].row.units = req[r].row.units
    BY <2>1 DEF SameUnits
  <2>3. \A q \in Reqs : Giving(req'[q]) => Giving(req[q]) /\ req'[q].row.units = req[q].row.units
    BY DEF SameUnits, WithoutUnits
  <2>4. GivenOK(k, r)
    BY <1>1 DEF UnitsOK
  <2>5. \A w \in Stored' : w \in Stored /\ rows'[w].units = rows[w].units
    BY DEF RowsKeepUnits, Stored
  <2>. QED BY <2>2, <2>3, <2>4, <2>5 DEF GivenOK, Giving, Apart
<1>6. NothingDropped => CoverOK(k)'
  <2>1. NothingDropped =>
          \A q \in Reqs : Giving(req[q]) => Giving(req'[q]) /\ req'[q].row.units = req[q].row.units
    BY DEF SameUnits, MayEnd
  <2>2. \A w \in Stored : w \in Stored' /\ rows'[w].units = rows[w].units
    BY DEF RowsKeepUnits, Stored
  <2>. QED BY <1>1, <2>1, <2>2 DEF UnitsOK, CoverOK
<1>. QED BY <1>2, <1>3, <1>4, <1>5, <1>6 DEF UnitsOK

(* CreateLock: a request gets the mutex and chooses the front of the pools. *)
LEMMA UnitsChosen ==
    ASSUME TypeOK, UnitInv, ControlInv', UNCHANGED <<pool, rows, phase>>,
           NEW r \in Reqs, \A q \in Reqs \ {r} : req'[q] = req[q],
           Choosing(req'[r]), req'[r].w = req[r].w, req[r].pc = "c_lock",
           Fits(req[r].w), req'[r].row.units = Taken(req[r].w)
    PROVE  UnitInv'
<1>0. UnitsExclusive' /\ Stored' = Stored
  BY DEF UnitInv, UnitsExclusive, Stored
<1>. SUFFICES ASSUME phase' # "down", NEW k \in Kinds
              PROVE  UnitsOK(k)'
  BY <1>0 DEF UnitInv
<1>1. UnitsOK(k)
  BY DEF UnitInv
<1>2. PoolOK(k)'
  BY <1>1 DEF UnitsOK, PoolOK
<1>3. ASSUME NEW q \in Reqs
      PROVE  FrontOK(k, req[q])'
  <2>1. FrontOK(k, req[q])
    BY <1>1 DEF UnitsOK
  <2>2. CASE q # r
    BY <1>0, <2>1, <2>2 DEF FrontOK
  <2>3. CASE q = r
    <3>1. ~Committing(req'[r]) /\ ~Finding(req'[r])
      BY DEF Choosing, Committing, Finding
    <3>2. req'[r].row.units[k] = SubSeq(pool[k], 1, Need[req[r].w][k])
      BY DEF Taken
    <3>. QED BY <2>3, <3>1, <3>2 DEF FrontOK, Fits
  <2>. QED BY <2>2, <2>3
<1>4. StoredOK(k)'
  <2>1. ~Committing(req[r])
    BY DEF Committing
  <2>. QED BY <1>0, <1>1, <2>1 DEF UnitsOK, StoredOK
<1>5. ASSUME NEW q \in Reqs
      PROVE  GivenOK(k, q)'
  <2>1. ~Giving(req'[r])
    BY DEF Choosing, Giving
  <2>2. GivenOK(k, q)
    BY <1>1 DEF UnitsOK
  <2>. QED BY <1>0, <2>1, <2>2 DEF GivenOK
<1>6. NothingDropped => CoverOK(k)'
  <2>1. ~Giving(req[r])
    BY DEF Giving
  <2>. QED BY <1>0, <1>1, <2>1 DEF UnitsOK, CoverOK
<1>. QED BY <1>2, <1>3, <1>4, <1>5, <1>6 DEF UnitsOK

(* CreateCommit: the units chosen are those of the row, and still in the   *)
(* pool.                                                                   *)
LEMMA UnitsCommitted ==
    ASSUME TypeOK, UnitInv, ControlInv', UNCHANGED <<pool, phase>>,
           phase # "down", NEW r \in Reqs, Choosing(req[r]),
           \A q \in Reqs \ {r} : SameUnits(req'[q], req[q]),
           Committing(req'[r]), req'[r].w = req[r].w, req'[r].row.units = req[r].row.units,
           req[r].w \notin Stored, Stored' = Stored \cup {req[r].w},
           \A w \in Workloads \ {req[r].w} : rows'[w].units = rows[w].units,
           rows'[req[r].w].units = req[r].row.units
    PROVE  UnitInv'
<1>. DEFINE v == req[r].w
            u == req[r].row.units
<1>0. v \in Workloads
  BY RequestParts
<1>1. \A k \in Kinds : UnitsOK(k)
  BY DEF UnitInv
<1>2. \A q \in Reqs : ~Committing(req[q])
  BY DEF UnitInv, ControlInv, Choosing, Committing
<1>3. ASSUME NEW k \in Kinds
      PROVE  /\ pool[k] \in Seq(Nat) /\ Need[v][k] \in Nat /\ Need[v][k] <= Len(pool[k])
             /\ u[k] = SubSeq(pool[k], 1, Need[v][k])
  <2>1. FrontOK(k, req[r])
    BY <1>1 DEF UnitsOK
  <2>. QED BY <1>0, <2>1, ConstantsAssumption DEF FrontOK, TypeOK, Units
<1>4. ASSUME NEW k \in Kinds
      PROVE  Elems(u[k]) \subseteq Elems(pool[k]) /\ Distinct(u[k])
  <2>1. Distinct(pool[k])
    BY <1>1 DEF UnitsOK, PoolOK
  <2>. QED BY <1>3, <2>1, FrontOfPool
<1>5. /\ Stored \subseteq Stored'
      /\ \A w \in Stored' : w # v => w \in Stored /\ rows'[w].units = rows[w].units
  BY DEF Stored
<1>. HIDE DEF v, u
<1>6. \A k \in Kinds : \A w \in Stored : Apart(rows[w].units[k], pool[k])
  BY <1>1, <1>2 DEF UnitsOK, StoredOK
<1>7. rows'[v].units = u /\ v \in Stored'
  BY DEF v, u
<1>8. UnitsExclusive'
  <2>. SUFFICES ASSUME NEW k \in Kinds, NEW w \in Stored'
                PROVE  /\ Elems(rows'[w].units[k]) \subseteq AllUnits[k]
                       /\ Distinct(rows'[w].units[k])
                       /\ \A x \in Stored' \ {w} : Apart(rows'[w].units[k], rows'[x].units[k])
    BY DEF UnitsExclusive, Apart, Elems, Distinct
  <2>1. Elems(pool[k]) \subseteq AllUnits[k]
    BY <1>1 DEF UnitsOK, PoolOK
  <2>2. CASE w = v
    BY <1>4, <1>5, <1>6, <1>7, <2>1, <2>2 DEF Apart
  <2>3. CASE w # v
    BY <1>4, <1>5, <1>6, <1>7, <2>3 DEF Apart, UnitInv, UnitsExclusive
  <2>. QED BY <2>2, <2>3
<1>9. ASSUME NEW k \in Kinds
      PROVE  UnitsOK(k)'
  <2>1. PoolOK(k)'
    BY <1>1 DEF UnitsOK, PoolOK
  <2>2. ASSUME NEW q \in Reqs
        PROVE  FrontOK(k, req[q])'
    <3>1. FrontOK(k, req[q])
      BY <1>1 DEF UnitsOK
    <3>2. CASE q = r
      <4>1. ~Finding(req'[r]) /\ req'[r].w = v /\ req'[r].row.units = u
        BY DEF Committing, Finding, v, u
      <4>. QED BY <1>3, <1>7, <3>2, <4>1 DEF FrontOK
    <3>3. CASE q # r
      <4>1. SameUnits(req'[q], req[q])
        BY <3>3
      <4>2. Finding(req[q]) => req[q].w # v
        BY <3>3 DEF UnitInv, ControlInv, Finding, Choosing, Active, v
      <4>. QED BY <1>2, <1>5, <3>1, <4>1, <4>2 DEF FrontOK, SameUnits
    <3>. QED BY <3>2, <3>3
  <2>3. StoredOK(k)'
    <3>. SUFFICES ASSUME NEW w \in Stored', w # v
                  PROVE  Apart(rows'[w].units[k], pool'[k])
      BY DEF StoredOK, Apart, Committing, v
    <3>. QED BY <1>5, <1>6
  <2>4. ASSUME NEW q \in Reqs
        PROVE  GivenOK(k, q)'
    <3>. SUFFICES ASSUME Giving(req'[q])
                  PROVE  GivenOK(k, q)'
      BY DEF GivenOK, Giving
    <3>1. ~Giving(req'[r])
      BY DEF Giving, Committing
    <3>2. \A p \in Reqs : Giving(req'[p]) => Giving(req[p]) /\ req'[p].row.units = req[p].row.units
      BY <3>1 DEF SameUnits
    <3>3. GivenOK(k, q) /\ Giving(req[q])
      BY <1>1, <3>2 DEF UnitsOK
    <3>4. \A w \in Stored' : Apart(req'[q].row.units[k], rows'[w].units[k])
      BY <1>4, <1>5, <1>7, <3>2, <3>3 DEF GivenOK, Apart
    <3>. QED BY <3>2, <3>3, <3>4 DEF GivenOK, Giving, Apart
  <2>5. NothingDropped => CoverOK(k)'
    <3>1. \A w \in Stored : w \in Stored' /\ rows'[w].units = rows[w].units
      BY <1>5 DEF v
    <3>2. ~Giving(req[r])
      BY DEF Giving, Choosing
    <3>3. \A q \in Reqs : Giving(req[q]) => Giving(req'[q]) /\ req'[q].row.units = req[q].row.units
      BY <3>2 DEF SameUnits
    <3>. QED BY <1>1, <3>1, <3>3 DEF UnitsOK, CoverOK
  <2>. QED BY <2>1, <2>2, <2>3, <2>4, <2>5 DEF UnitsOK
<1>. QED BY <1>8, <1>9 DEF UnitInv

(* CreateDeduct: the units of the row leave the pool.                      *)
LEMMA UnitsDeducted ==
    ASSUME TypeOK, UnitInv, ControlInv', UNCHANGED <<rows, phase>>,
           NEW r \in Reqs, Committing(req[r]), WithoutUnits(req'[r]),
           \A q \in Reqs \ {r} : req'[q] = req[q],
           pool' = [k \in Kinds |-> SubSeq(pool[k], Need[req[r].w][k] + 1, Len(pool[k]))]
    PROVE  UnitInv'
<1>0. UnitsExclusive' /\ Stored' = Stored
  BY DEF UnitInv, UnitsExclusive, Stored
<1>. SUFFICES ASSUME phase' # "down", NEW k \in Kinds
              PROVE  UnitsOK(k)'
  BY <1>0 DEF UnitInv
<1>. DEFINE v == req[r].w
            u == req[r].row.units[k]
<1>1. UnitsOK(k)
  BY DEF UnitInv
<1>2. /\ pool[k] \in Seq(Nat) /\ Need[v][k] \in Nat /\ Need[v][k] <= Len(pool[k])
      /\ u = SubSeq(pool[k], 1, Need[v][k])
      /\ rows[v].units[k] = u /\ v \in Stored
      /\ Distinct(pool[k])
      /\ Elems(pool[k]) \subseteq AllUnits[k]
  <2>1. FrontOK(k, req[r])
    BY <1>1 DEF UnitsOK
  <2>2. v \in Workloads
    BY RequestParts
  <2>. QED BY <1>1, <2>1, <2>2, ConstantsAssumption DEF FrontOK, TypeOK, Units, UnitsOK, PoolOK
<1>3. pool'[k] = SubSeq(pool[k], Need[v][k] + 1, Len(pool[k]))
  OBVIOUS
<1>. HIDE DEF v, u
<1>4. Elems(pool'[k]) \subseteq Elems(pool[k]) /\ Distinct(pool'[k]) /\ Apart(u, pool'[k])
  BY <1>2, <1>3, RestOfPool
<1>5. \A q \in Reqs \ {r} : ~Committing(req[q]) /\ ~Choosing(req[q])
  BY DEF UnitInv, ControlInv
<1>6. PoolOK(k)'
  BY <1>2, <1>4 DEF PoolOK
<1>7. ASSUME NEW q \in Reqs
      PROVE  FrontOK(k, req[q])'
  <2>1. FrontOK(k, req[q])
    BY <1>1 DEF UnitsOK
  <2>. QED BY <1>0, <1>5, <2>1 DEF FrontOK, WithoutUnits
<1>8. StoredOK(k)'
  <2>. SUFFICES ASSUME NEW w \in Stored
                PROVE  Apart(rows[w].units[k], pool'[k])
    BY <1>0 DEF StoredOK, Apart
  <2>1. CASE w = v
    BY <1>2, <1>4, <2>1
  <2>2. CASE w # v
    BY <1>1, <1>4, <1>5, <2>2 DEF UnitsOK, StoredOK, Apart, v
  <2>. QED BY <2>1, <2>2
<1>9. ASSUME NEW q \in Reqs
      PROVE  GivenOK(k, q)'
  <2>1. GivenOK(k, q)
    BY <1>1 DEF UnitsOK
  <2>. QED BY <1>0, <1>4, <2>1 DEF GivenOK, Apart, WithoutUnits
<1>10. NothingDropped => CoverOK(k)'
  <2>1. Elems(pool[k]) \subseteq Elems(u) \cup Elems(pool'[k])
    BY <1>2, <1>3, RestOfPool
  <2>2. ~Giving(req[r])
    BY DEF Giving, Committing
  <2>. QED BY <1>0, <1>1, <1>2, <2>1, <2>2 DEF UnitsOK, CoverOK
<1>. QED BY <1>6, <1>7, <1>8, <1>9, <1>10 DEF UnitsOK

(* DeleteFind.                                                             *)
LEMMA UnitsFound ==
    ASSUME TypeOK, UnitInv, ControlInv', UNCHANGED <<pool, rows, phase>>,
           NEW r \in Reqs, \A q \in Reqs \ {r} : req'[q] = req[q],
           WithoutUnits(req[r]), Finding(req'[r]), req[r].w \in Stored,
           req'[r].w = req[r].w, req'[r].row.units = rows[req[r].w].units
    PROVE  UnitInv'
<1>0. UnitsExclusive' /\ Stored' = Stored
  BY DEF UnitInv, UnitsExclusive, Stored
<1>. SUFFICES ASSUME phase' # "down", NEW k \in Kinds
              PROVE  UnitsOK(k)'
  BY <1>0 DEF UnitInv
<1>1. UnitsOK(k)
  BY DEF UnitInv
<1>2. ~Choosing(req'[r]) /\ ~Committing(req'[r]) /\ ~Giving(req'[r])
  BY DEF Choosing, Committing, Finding, Giving
<1>3. PoolOK(k)'
  BY <1>1 DEF UnitsOK, PoolOK
<1>4. ASSUME NEW q \in Reqs
      PROVE  FrontOK(k, req[q])'
  <2>1. FrontOK(k, req[q])
    BY <1>1 DEF UnitsOK
  <2>. QED BY <1>0, <1>2, <2>1 DEF FrontOK
<1>5. StoredOK(k)'
  BY <1>0, <1>1 DEF UnitsOK, StoredOK, WithoutUnits
<1>6. ASSUME NEW q \in Reqs
      PROVE  GivenOK(k, q)'
  <2>1. GivenOK(k, q)
    BY <1>1 DEF UnitsOK
  <2>. QED BY <1>0, <1>2, <2>1 DEF GivenOK
<1>7. NothingDropped => CoverOK(k)'
  BY <1>0, <1>1 DEF UnitsOK, CoverOK, WithoutUnits
<1>. QED BY <1>3, <1>4, <1>5, <1>6, <1>7 DEF UnitsOK

(* DeleteErase: the units of the row are the request's to give back.       *)
LEMMA UnitsErased ==
    ASSUME TypeOK, UnitInv, ControlInv', UNCHANGED <<pool, phase>>,
           phase # "down", NEW r \in Reqs, Finding(req[r]),
           \A q \in Reqs \ {r} : SameUnits(req'[q], req[q]),
           Giving(req'[r]), req'[r].w = req[r].w, req'[r].row.units = req[r].row.units,
           Stored' = Stored \ {req[r].w},
           \A w \in Workloads \ {req[r].w} : rows'[w].units = rows[w].units
    PROVE  UnitInv'
<1>. DEFINE v == req[r].w
            u == req[r].row.units
<1>1. \A k \in Kinds : UnitsOK(k)
  BY DEF UnitInv
<1>2. \A q \in Reqs \ {r} : Active(req[q]) => req[q].w # v
  BY DEF UnitInv, ControlInv, Finding, Active
<1>3. \A w \in Stored' : w # v /\ w \in Stored /\ rows'[w].units = rows[w].units
  BY DEF Stored
<1>4. \A k \in Kinds : v \in Stored /\ rows[v].units[k] = u[k]
  BY <1>1 DEF UnitsOK, FrontOK
<1>5. req'[r].row.units = u /\ \A w \in Stored : w # v => w \in Stored'
  OBVIOUS
<1>. HIDE DEF v, u
<1>6. UnitsExclusive'
  BY <1>3 DEF UnitInv, UnitsExclusive
<1>7. ASSUME NEW k \in Kinds
      PROVE  UnitsOK(k)'
  <2>1. PoolOK(k)'
    BY <1>1 DEF UnitsOK, PoolOK
  <2>2. ASSUME NEW q \in Reqs
        PROVE  FrontOK(k, req[q])'
    <3>1. FrontOK(k, req[q])
      BY <1>1 DEF UnitsOK
    <3>2. CASE q = r
      <4>1. ~Finding(req'[r]) /\ ~Choosing(req'[r]) /\ ~Committing(req'[r])
        BY DEF Committing, Finding, Choosing, Giving
      <4>. QED BY <3>2, <4>1 DEF FrontOK
    <3>3. CASE q # r
      <4>1. SameUnits(req'[q], req[q])
        BY <3>3
      <4>2. Finding(req[q]) \/ Committing(req[q]) => req[q].w # v
        BY <1>2, <3>3 DEF Finding, Committing, Active
      <4>. QED BY <1>3, <1>5, <3>1, <4>1, <4>2 DEF FrontOK, SameUnits
    <3>. QED BY <3>2, <3>3
  <2>3. StoredOK(k)'
    <3>. SUFFICES ASSUME NEW w \in Stored'
                  PROVE  \/ \E q \in Reqs : Committing(req'[q]) /\ req'[q].w = w
                         \/ Apart(rows'[w].units[k], pool'[k])
      BY DEF StoredOK, Apart, Committing
    <3>1. ~Committing(req[r])
      BY DEF Committing, Finding
    <3>2. CASE Apart(rows[w].units[k], pool[k])
      BY <1>3, <3>2
    <3>3. CASE \E q \in Reqs : Committing(req[q]) /\ req[q].w = w
      BY <3>1, <3>3 DEF SameUnits
    <3>. QED BY <1>1, <1>3, <3>2, <3>3 DEF UnitsOK, StoredOK
  <2>4. /\ Elems(u[k]) \subseteq AllUnits[k] /\ Distinct(u[k])
        /\ Apart(u[k], pool[k])
        /\ \A w \in Stored : w # v => Apart(u[k], rows[w].units[k])
        /\ \A q \in Reqs : Giving(req[q]) => Apart(u[k], req[q].row.units[k])
    <3>1. \A q \in Reqs : Committing(req[q]) => req[q].w # v
      BY <1>2 DEF Finding, Committing, Active
    <3>2. Apart(u[k], pool[k])
      BY <1>1, <1>4, <3>1 DEF UnitsOK, StoredOK
    <3>3. \A q \in Reqs : Giving(req[q]) => Apart(u[k], req[q].row.units[k])
      BY <1>1, <1>4 DEF UnitsOK, GivenOK, Apart
    <3>4. /\ Elems(u[k]) \subseteq AllUnits[k] /\ Distinct(u[k])
          /\ \A w \in Stored : w # v => Apart(u[k], rows[w].units[k])
      BY <1>4 DEF UnitInv, UnitsExclusive, Apart
    <3>. QED BY <3>2, <3>3, <3>4
  <2>5. ASSUME NEW q \in Reqs
        PROVE  GivenOK(k, q)'
    <3>. SUFFICES ASSUME Giving(req'[q])
                  PROVE  GivenOK(k, q)'
      BY DEF GivenOK, Giving
    <3>1. \A p \in Reqs \ {r} : Giving(req'[p]) => Giving(req[p]) /\ req'[p].row.units = req[p].row.units
      BY DEF SameUnits
    <3>2. CASE q = r
      BY <1>3, <1>5, <2>4, <3>1, <3>2 DEF GivenOK, Apart
    <3>3. CASE q # r
      <4>1. GivenOK(k, q) /\ Giving(req[q])
        BY <1>1, <3>1, <3>3 DEF UnitsOK
      <4>2. \A p \in Reqs \ {q} : Giving(req'[p]) => Apart(req[q].row.units[k], req'[p].row.units[k])
        BY <1>5, <2>4, <3>1, <4>1 DEF GivenOK, Apart
      <4>. QED BY <1>3, <3>1, <3>3, <4>1, <4>2 DEF GivenOK, Apart, Giving
    <3>. QED BY <3>2, <3>3
  <2>6. NothingDropped => CoverOK(k)'
    <3>1. \A w \in Stored : w # v => w \in Stored' /\ rows'[w].units = rows[w].units
      BY <1>3, <1>5
    <3>2. ~Giving(req[r])
      BY DEF Giving, Finding
    <3>3. \A q \in Reqs : Giving(req[q]) => Giving(req'[q]) /\ req'[q].row.units = req[q].row.units
      BY <3>2 DEF SameUnits
    <3>. QED BY <1>1, <1>4, <1>5, <3>1, <3>3 DEF UnitsOK, CoverOK
  <2>. QED BY <2>1, <2>2, <2>3, <2>5, <2>6 DEF UnitsOK
<1>. QED BY <1>6, <1>7 DEF UnitInv

(* DeleteFree: the units go back to the pool, which nobody is choosing     *)
(* from.                                                                   *)
LEMMA UnitsGivenBack ==
    ASSUME TypeOK, UnitInv, ControlInv', UNCHANGED <<rows, phase>>, LockFree,
           NEW r \in Reqs, Giving(req[r]), WithoutUnits(req'[r]),
           \A q \in Reqs \ {r} : req'[q] = req[q],
           pool' = [k \in Kinds |-> pool[k] \o req[r].row.units[k]]
    PROVE  UnitInv'
<1>0. UnitsExclusive' /\ Stored' = Stored
  BY DEF UnitInv, UnitsExclusive, Stored
<1>. SUFFICES ASSUME phase' # "down", NEW k \in Kinds
              PROVE  UnitsOK(k)'
  BY <1>0 DEF UnitInv
<1>1. UnitsOK(k)
  BY DEF UnitInv
<1>2. \A q \in Reqs : ~Choosing(req[q]) /\ ~Committing(req[q])
  BY DEF UnitInv, ControlInv, LockFree
<1>3. pool[k] \in Seq(Nat) /\ req[r].row.units[k] \in Seq(Nat)
  BY RequestParts DEF TypeOK, Units
<1>4. /\ PoolOK(k) /\ GivenOK(k, r)
      /\ pool'[k] = pool[k] \o req[r].row.units[k]
  BY <1>1 DEF UnitsOK
<1>5. /\ Distinct(pool'[k])
      /\ Elems(pool'[k]) = Elems(pool[k]) \cup Elems(req[r].row.units[k])
  <2>1. Distinct(pool[k]) /\ Distinct(req[r].row.units[k]) /\ Apart(pool[k], req[r].row.units[k])
    BY <1>4 DEF PoolOK, GivenOK, Apart
  <2>. QED BY <1>3, <1>4, <2>1, GivenBack
<1>6. PoolOK(k)'
  BY <1>4, <1>5 DEF PoolOK, GivenOK
<1>7. ASSUME NEW q \in Reqs
      PROVE  FrontOK(k, req[q])'
  <2>1. FrontOK(k, req[q])
    BY <1>1 DEF UnitsOK
  <2>. QED BY <1>0, <1>2, <2>1 DEF FrontOK, WithoutUnits
<1>8. StoredOK(k)'
  <2>. SUFFICES ASSUME NEW w \in Stored
                PROVE  Apart(rows[w].units[k], pool'[k])
    BY <1>0 DEF StoredOK, Apart
  <2>1. Apart(rows[w].units[k], pool[k])
    BY <1>1, <1>2 DEF UnitsOK, StoredOK
  <2>. QED BY <1>4, <1>5, <2>1 DEF GivenOK, Apart
<1>9. ASSUME NEW q \in Reqs
      PROVE  GivenOK(k, q)'
  <2>. SUFFICES ASSUME Giving(req'[q])
                PROVE  GivenOK(k, q)'
    BY DEF GivenOK, Giving
  <2>1. q # r /\ req'[q] = req[q]
    BY DEF WithoutUnits
  <2>2. GivenOK(k, q) /\ Giving(req[q])
    BY <1>1, <2>1 DEF UnitsOK
  <2>3. Apart(req[q].row.units[k], pool'[k])
    BY <1>5, <2>1, <2>2 DEF GivenOK, Apart
  <2>. QED BY <1>0, <2>1, <2>2, <2>3 DEF GivenOK, Apart, WithoutUnits
<1>10. NothingDropped => CoverOK(k)'
  BY <1>0, <1>1, <1>5 DEF UnitsOK, CoverOK
<1>. QED BY <1>6, <1>7, <1>8, <1>9, <1>10 DEF UnitsOK

-----------------------------------------------------------------------------
(* The amounts.                                                            *)

(* What the requests R ask for, when the requests are rq.                  *)
Asked(rq, R, s) == SumFunctionOnSet([r \in Reqs |-> Demand[rq[r].w][s]], R)

LEMMA DemandType ==
    ASSUME NEW w \in Workloads, NEW s \in Scalars
    PROVE  Demand[w][s] \in Nat
  BY ConstantsAssumption

LEMMA AskedType ==
    ASSUME NEW rq, NEW R \in SUBSET Reqs, \A r \in R : rq[r].w \in Workloads, NEW s \in Scalars
    PROVE  Asked(rq, R, s) \in Nat
<1>1. PICK f : f = [r \in Reqs |-> Demand[rq[r].w][s]]
  OBVIOUS
<1>2. \A r \in R : f[r] \in Nat
  BY <1>1, DemandType
<1>3. IsFiniteSet(R)
  BY ConstantsAssumption, FS_Subset
<1>. QED BY <1>1, <1>2, <1>3, SumNat DEF Asked

(* Requests that ask for the same.                                         *)
LEMMA AskedSame ==
    ASSUME NEW rq, NEW rp, NEW R \in SUBSET Reqs, \A r \in R : rq[r].w = rp[r].w, NEW s
    PROVE  Asked(rq, R, s) = Asked(rp, R, s)
<1>1. PICK f : f = [r \in Reqs |-> Demand[rq[r].w][s]]
  OBVIOUS
<1>2. PICK g : g = [r \in Reqs |-> Demand[rp[r].w][s]]
  OBVIOUS
<1>3. \A r \in R : f[r] = g[r]
  BY <1>1, <1>2
<1>4. IsFiniteSet(R)
  BY ConstantsAssumption, FS_Subset
<1>. QED BY <1>1, <1>2, <1>3, <1>4, SumSame DEF Asked

LEMMA AskedAdd ==
    ASSUME NEW rq, NEW R \in SUBSET Reqs, NEW r \in Reqs \ R,
           \A q \in R \cup {r} : rq[q].w \in Workloads, NEW s \in Scalars
    PROVE  Asked(rq, R \cup {r}, s) = Demand[rq[r].w][s] + Asked(rq, R, s)
<1>1. PICK f : f = [q \in Reqs |-> Demand[rq[q].w][s]]
  OBVIOUS
<1>2. \A q \in R \cup {r} : f[q] \in Int
  BY <1>1, DemandType
<1>3. IsFiniteSet(R)
  BY ConstantsAssumption, FS_Subset
<1>4. SumFunctionOnSet(f, R \cup {r}) = f[r] + SumFunctionOnSet(f, R)
  BY <1>2, <1>3, SumAdd
<1>5. f[r] = Demand[rq[r].w][s]
  BY <1>1
<1>. QED BY <1>1, <1>4, <1>5 DEF Asked

LEMMA AskedOne ==
    ASSUME NEW rq, NEW r \in Reqs, rq[r].w \in Workloads, NEW s \in Scalars
    PROVE  Asked(rq, {r}, s) = Demand[rq[r].w][s]
<1>1. PICK f : f = [q \in Reqs |-> Demand[rq[q].w][s]]
  OBVIOUS
<1>2. f[r] = Demand[rq[r].w][s] /\ f[r] \in Int
  BY <1>1, DemandType
<1>. QED BY <1>1, <1>2, SumOne DEF Asked

LEMMA AskedNone == \A rq, s : Asked(rq, {}, s) = 0
  BY SumEmpty DEF Asked

LEMMA AskedSubset ==
    ASSUME NEW rq, NEW R \in SUBSET Reqs, NEW Q \in SUBSET R,
           \A q \in R : rq[q].w \in Workloads, NEW s \in Scalars
    PROVE  Asked(rq, Q, s) <= Asked(rq, R, s)
<1>1. PICK f : f = [q \in Reqs |-> Demand[rq[q].w][s]]
  OBVIOUS
<1>2. \A q \in R : f[q] \in Nat
  BY <1>1, DemandType
<1>3. IsFiniteSet(R)
  BY ConstantsAssumption, FS_Subset
<1>4. SumFunctionOnSet(f, Q) <= SumFunctionOnSet(f, R)
  BY <1>2, <1>3, SumSubset
<1>. QED BY <1>1, <1>4 DEF Asked

(* What the workloads S own.                                               *)
Owned(S, s) == SumFunctionOnSet([w \in Workloads |-> Demand[w][s]], S)

LEMMA OwnedType ==
    ASSUME NEW S \in SUBSET Workloads, NEW s \in Scalars
    PROVE  Owned(S, s) \in Nat
<1>1. PICK f : f = [w \in Workloads |-> Demand[w][s]]
  OBVIOUS
<1>2. \A w \in S : f[w] \in Nat
  BY <1>1, DemandType
<1>3. IsFiniteSet(S)
  BY ConstantsAssumption, FS_Subset
<1>. QED BY <1>1, <1>2, <1>3, SumNat DEF Owned

LEMMA OwnedAdd ==
    ASSUME NEW S \in SUBSET Workloads, NEW w \in Workloads \ S, NEW s \in Scalars
    PROVE  Owned(S \cup {w}, s) = Demand[w][s] + Owned(S, s)
<1>1. PICK f : f = [v \in Workloads |-> Demand[v][s]]
  OBVIOUS
<1>2. \A v \in S \cup {w} : f[v] \in Int
  BY <1>1, DemandType
<1>3. IsFiniteSet(S)
  BY ConstantsAssumption, FS_Subset
<1>4. SumFunctionOnSet(f, S \cup {w}) = f[w] + SumFunctionOnSet(f, S)
  BY <1>2, <1>3, SumAdd
<1>5. f[w] = Demand[w][s]
  BY <1>1
<1>. QED BY <1>1, <1>4, <1>5 DEF Owned

(* The four terms of the account, as numbers.                              *)
LEMMA Terms ==
    ASSUME TypeOK, NEW s \in Scalars
    PROVE  /\ Total[s] \in Nat
           /\ Committed(s) = Owned(Stored, s) /\ Owned(Stored, s) \in Nat
           /\ AskedBy(Releasing, s) = Asked(req, Releasing, s) /\ Asked(req, Releasing, s) \in Nat
           /\ AskedBy(Deducting, s) = Asked(req, Deducting, s) /\ Asked(req, Deducting, s) \in Nat
<1>1. Releasing \in SUBSET Reqs /\ Deducting \in SUBSET Reqs /\ Stored \in SUBSET Workloads
  BY DEF Releasing, Deducting, Stored
<1>2. \A r \in Reqs : req[r].w \in Workloads
  BY RequestParts
<1>3. Asked(req, Releasing, s) \in Nat /\ Asked(req, Deducting, s) \in Nat
  BY <1>1, <1>2, AskedType
<1>4. Owned(Stored, s) \in Nat
  BY <1>1, OwnedType
<1>. QED BY <1>3, <1>4, ConstantsAssumption DEF Committed, AskedBy, Asked, Owned

LEMMA TermsNext ==
    ASSUME NEW s \in Scalars
    PROVE  /\ Committed(s)' = Owned(Stored', s)
           /\ AskedBy(Releasing, s)' = Asked(req', Releasing', s)
           /\ AskedBy(Deducting, s)' = Asked(req', Deducting', s)
  BY DEF Committed, AskedBy, Asked, Owned

(* The account of what a create has chosen leaves room for its row.        *)
LEMMA OneDeducts ==
    ASSUME TypeOK, ControlInv, NEW s \in Scalars, AmountOK(s)
    PROVE  Asked(req, Deducting, s) <= free[s]
<1>1. \A q, r \in Deducting : q = r
  BY DEF ControlInv, Deducting, Committing
<1>2. CASE Deducting = {}
  BY <1>2, AskedNone DEF AmountOK
<1>3. CASE Deducting # {}
  <2>1. PICK r : r \in Deducting
    BY <1>3
  <2>2. Deducting = {r} /\ r \in Reqs /\ Committing(req[r])
    BY <1>1, <2>1 DEF Deducting, Committing
  <2>3. req[r].w \in Workloads
    BY <2>2, RequestParts
  <2>. QED BY <2>2, <2>3, AskedOne DEF AmountOK
<1>. QED BY <1>2, <1>3

LEMMA CommittedFits ==
    ASSUME TypeOK, ControlInv, NEW s \in Scalars, AmountOK(s)
    PROVE  Committed(s) <= Total[s]
<1>1. Asked(req, Deducting, s) <= free[s]
  BY OneDeducts
<1>2. free[s] \in Nat /\ Account(s) <= Total[s]
  BY DEF AmountOK
<1>. QED BY <1>1, <1>2, Terms DEF Account

LEMMA FreeInRange ==
    ASSUME TypeOK, ControlInv, AmountInv, NEW s \in Scalars
    PROVE  free[s] \in 0..Total[s]
<1>1. CASE phase = "down"
  BY <1>1, ConstantsAssumption DEF AmountInv
<1>2. CASE phase # "down"
  <2>1. AmountOK(s)
    BY <1>2 DEF AmountInv
  <2>2. free[s] \in Nat /\ Account(s) <= Total[s]
    BY <2>1 DEF AmountOK
  <2>3. Asked(req, Deducting, s) <= Owned(Stored, s)
    <3>1. \A q, r \in Deducting : q = r
      BY DEF ControlInv, Deducting, Committing
    <3>2. CASE Deducting = {}
      BY <3>2, AskedNone, Terms
    <3>3. CASE Deducting # {}
      <4>1. PICK r : r \in Deducting
        BY <3>3
      <4>2. Deducting = {r} /\ r \in Reqs /\ Committing(req[r])
        BY <3>1, <4>1 DEF Deducting, Committing
      <4>3. req[r].w \in Workloads /\ req[r].w \in Stored
        BY <4>2, RequestParts DEF AmountInv
      <4>4. PICK S : S = Stored \ {req[r].w}
        OBVIOUS
      <4>5. S \in SUBSET Workloads /\ req[r].w \in Workloads \ S /\ Stored = S \cup {req[r].w}
        BY <4>3, <4>4 DEF Stored
      <4>6. Owned(Stored, s) = Demand[req[r].w][s] + Owned(S, s)
        BY <4>5, OwnedAdd
      <4>7. Owned(S, s) \in Nat /\ Demand[req[r].w][s] \in Nat
        BY <4>3, <4>5, OwnedType, DemandType
      <4>8. Asked(req, {r}, s) = Demand[req[r].w][s]
        BY <4>2, <4>3, AskedOne
      <4>. QED BY <4>2, <4>6, <4>7, <4>8
    <3>. QED BY <3>2, <3>3
  <2>. QED BY <2>2, <2>3, Terms DEF Account
<1>. QED BY <1>1, <1>2

(* A step that moves no amount.                                            *)
LEMMA AmountsKept ==
    ASSUME TypeOK, AmountInv, UNCHANGED free, Stored' = Stored,
           (phase' = "down") <=> (phase = "down"),
           \A q \in Reqs : \/ SameUnits(req'[q], req[q])
                           \/ WithoutUnits(req'[q]) /\ MayEnd(req[q])
    PROVE  AmountInv'
<1>1. /\ Releasing \in SUBSET Reqs /\ Deducting \in SUBSET Reqs
      /\ Releasing' \in SUBSET Releasing /\ Deducting' = Deducting
      /\ NothingDropped => Releasing' = Releasing
  BY DEF Releasing, Deducting, SameUnits, WithoutUnits, MayEnd, Giving, Committing
<1>2. \A q \in Releasing' \cup Deducting' : req'[q].w = req[q].w
  BY DEF Releasing, Deducting, SameUnits, WithoutUnits, Giving, Committing
<1>3. \A q \in Reqs : Committing(req'[q]) \/ Finding(req'[q]) => req'[q].w \in Stored'
  BY DEF AmountInv, SameUnits, WithoutUnits
<1>4. ASSUME NEW s \in Scalars
      PROVE  Committed(s)' = Committed(s)
  BY DEF Committed
<1>5. ASSUME NEW s \in Scalars, phase # "down"
      PROVE  AmountOK(s)'
  <2>1. AmountOK(s)
    BY <1>5 DEF AmountInv
  <2>2. PICK R, D : R = Releasing' /\ D = Deducting'
    OBVIOUS
  <2>3. PICK rq : rq = req'
    OBVIOUS
  <2>4. R \in SUBSET Reqs /\ D \in SUBSET Reqs /\ \A q \in R \cup D : rq[q].w = req[q].w
    BY <1>1, <1>2, <2>2, <2>3
  <2>5. Asked(rq, R, s) = Asked(req, R, s) /\ Asked(rq, D, s) = Asked(req, D, s)
    BY <2>4, AskedSame
  <2>6. Asked(req, R, s) <= Asked(req, Releasing, s)
    BY <1>1, <2>2, AskedSubset, RequestParts
  <2>7. Asked(req, R, s) \in Nat
    BY <2>4, AskedType, RequestParts
  <2>8. /\ Account(s)' <= Account(s)
        /\ NothingDropped => Account(s)' = Account(s)
    BY <1>1, <1>4, <2>1, <2>2, <2>3, <2>5, <2>6, <2>7, Terms, TermsNext DEF Account, AmountOK
  <2>9. Account(s) \in Int /\ Account(s)' \in Int /\ Total[s] \in Nat
    BY <1>1, <1>4, <2>1, <2>2, <2>3, <2>5, <2>7, Terms, TermsNext DEF Account, AmountOK
  <2>10. \A q \in Reqs : Choosing(req'[q]) \/ Committing(req'[q]) => Demand[req'[q].w][s] <= free'[s]
    BY <2>1 DEF AmountOK, SameUnits, WithoutUnits
  <2>. QED BY <2>1, <2>8, <2>9, <2>10 DEF AmountOK
<1>. QED BY <1>3, <1>4, <1>5 DEF AmountInv

(* What a step of r does to the sums, when the other requests stay what    *)
(* they were.                                                              *)
OthersStay(r) == \A q \in Reqs \ {r} : SameUnits(req'[q], req[q])

LEMMA OthersAsk ==
    ASSUME TypeOK, NEW r \in Reqs, OthersStay(r), NEW s \in Scalars
    PROVE  /\ Asked(req', Releasing' \ {r}, s) = Asked(req, Releasing \ {r}, s)
           /\ Asked(req', Deducting' \ {r}, s) = Asked(req, Deducting \ {r}, s)
           /\ Asked(req, Releasing \ {r}, s) \in Nat /\ Asked(req, Deducting \ {r}, s) \in Nat
           /\ \A R \in {Releasing, Deducting} :
                Asked(req, R, s) = (IF r \in R THEN Demand[req[r].w][s] ELSE 0)
                                   + Asked(req, R \ {r}, s)
<1>1. PICK R, D : R = Releasing \ {r} /\ D = Deducting \ {r}
  OBVIOUS
<1>2. R \in SUBSET Reqs /\ D \in SUBSET Reqs /\ r \notin R /\ r \notin D
  BY <1>1 DEF Releasing, Deducting
<1>3. Releasing' \ {r} = R /\ Deducting' \ {r} = D
  BY <1>1 DEF Releasing, Deducting, OthersStay, SameUnits, Giving, Committing
<1>4. PICK rq : rq = req'
  OBVIOUS
<1>5. \A q \in R \cup D : rq[q].w = req[q].w
  BY <1>1, <1>2, <1>4 DEF OthersStay, SameUnits
<1>6. Asked(rq, R, s) = Asked(req, R, s) /\ Asked(rq, D, s) = Asked(req, D, s)
  BY <1>2, <1>5, AskedSame
<1>7. Asked(req, R, s) \in Nat /\ Asked(req, D, s) \in Nat
  BY <1>2, AskedType, RequestParts
<1>8. ASSUME NEW T \in SUBSET Reqs
      PROVE  Asked(req, T, s) = (IF r \in T THEN Demand[req[r].w][s] ELSE 0)
                                + Asked(req, T \ {r}, s)
  <2>1. CASE r \in T
    <3>1. PICK Q : Q = T \ {r}
      OBVIOUS
    <3>2. Q \in SUBSET Reqs /\ r \in Reqs \ Q /\ T = Q \cup {r}
      BY <2>1, <3>1
    <3>3. Asked(req, Q \cup {r}, s) = Demand[req[r].w][s] + Asked(req, Q, s)
      BY <3>2, AskedAdd, RequestParts
    <3>. QED BY <2>1, <3>1, <3>2, <3>3
  <2>2. CASE r \notin T
    <3>1. T \ {r} = T
      BY <2>2
    <3>2. Asked(req, T, s) \in Nat
      BY AskedType, RequestParts
    <3>3. Asked(req, T \ {r}, s) = Asked(req, T, s)
      BY <3>1
    <3>. QED BY <2>2, <3>2, <3>3
  <2>. QED BY <2>1, <2>2
<1>9. Releasing \in SUBSET Reqs /\ Deducting \in SUBSET Reqs
  BY DEF Releasing, Deducting
<1>. QED BY <1>1, <1>3, <1>4, <1>6, <1>7, <1>8, <1>9

(* The account after a step of r, from the one before it.                  *)
LEMMA AccountStep ==
    ASSUME TypeOK, NEW r \in Reqs, OthersStay(r), NEW s \in Scalars,
           r \notin Releasing' \/ req'[r].w = req[r].w,
           r \notin Deducting' \/ req'[r].w = req[r].w,
           NEW d, d = Demand[req[r].w][s]
    PROVE  /\ d \in Nat
           /\ \E m, n \in Nat :
                /\ AskedBy(Releasing, s) = (IF r \in Releasing THEN d ELSE 0) + m
                /\ AskedBy(Deducting, s) = (IF r \in Deducting THEN d ELSE 0) + n
                /\ AskedBy(Releasing, s)' = (IF r \in Releasing' THEN d ELSE 0) + m
                /\ AskedBy(Deducting, s)' = (IF r \in Deducting' THEN d ELSE 0) + n
<1>0. d \in Nat
  BY RequestParts, DemandType
<1>1. PICK m, n : /\ m = Asked(req, Releasing \ {r}, s)
                  /\ n = Asked(req, Deducting \ {r}, s)
  OBVIOUS
<1>2. m \in Nat /\ n \in Nat
  BY <1>1, OthersAsk
<1>3. /\ AskedBy(Releasing, s) = (IF r \in Releasing THEN d ELSE 0) + m
      /\ AskedBy(Deducting, s) = (IF r \in Deducting THEN d ELSE 0) + n
  BY <1>1, OthersAsk, Terms
<1>4. PICK rq : rq = req'
  OBVIOUS
<1>5. ASSUME NEW T \in SUBSET Reqs, NEW k \in Nat, Asked(rq, T \ {r}, s) = k,
             \A q \in T \ {r} : req[q].w = rq[q].w, r \notin T \/ rq[r].w = req[r].w
      PROVE  Asked(rq, T, s) = (IF r \in T THEN d ELSE 0) + k
  <2>1. CASE r \in T
    <3>1. PICK Q : Q = T \ {r}
      OBVIOUS
    <3>2. Q \in SUBSET Reqs /\ r \in Reqs \ Q /\ T = Q \cup {r}
      BY <2>1, <3>1
    <3>3. \A q \in Q \cup {r} : rq[q].w \in Workloads
      BY <1>5, <2>1, <3>1, <3>2, RequestParts
    <3>4. Asked(rq, Q \cup {r}, s) = Demand[rq[r].w][s] + Asked(rq, Q, s)
      BY <3>2, <3>3, AskedAdd
    <3>5. Demand[rq[r].w][s] = d /\ Asked(rq, Q, s) = k
      BY <1>5, <2>1, <3>1
    <3>. QED BY <2>1, <3>2, <3>4, <3>5
  <2>2. CASE r \notin T
    <3>1. T \ {r} = T
      BY <2>2
    <3>2. Asked(rq, T, s) = k
      BY <1>5, <3>1
    <3>. QED BY <1>5, <2>2, <3>2
  <2>. QED BY <2>1, <2>2
<1>6. /\ Asked(rq, Releasing' \ {r}, s) = m /\ Asked(rq, Deducting' \ {r}, s) = n
  BY <1>1, <1>4, OthersAsk
<1>7. PICK R, D : R = Releasing' /\ D = Deducting'
  OBVIOUS
<1>8. R \in SUBSET Reqs /\ D \in SUBSET Reqs
  BY <1>7 DEF Releasing, Deducting
<1>9. \A q \in Reqs \ {r} : req[q].w = rq[q].w
  BY <1>4 DEF OthersStay, SameUnits
<1>10. Asked(rq, R, s) = (IF r \in R THEN d ELSE 0) + m
  BY <1>2, <1>4, <1>5, <1>6, <1>7, <1>8, <1>9
<1>11. Asked(rq, D, s) = (IF r \in D THEN d ELSE 0) + n
  BY <1>2, <1>4, <1>5, <1>6, <1>7, <1>8, <1>9
<1>. QED BY <1>0, <1>2, <1>3, <1>4, <1>7, <1>10, <1>11, TermsNext

(* What r is to the account.                                               *)
LEMMA InAccount ==
    ASSUME NEW r \in Reqs
    PROVE  /\ r \in Releasing <=> Giving(req[r])
           /\ r \in Deducting <=> Committing(req[r])
           /\ r \in Releasing' <=> Giving(req'[r])
           /\ r \in Deducting' <=> Committing(req'[r])
  BY DEF Releasing, Deducting, Giving, Committing

(* One request takes a step and moves amounts: its part of the invariant,  *)
(* the rows, and what every amount becomes.                                *)
LEMMA AmountsStep ==
    ASSUME TypeOK, AmountInv, phase # "down", phase' # "down", NEW r \in Reqs, OthersStay(r),
           \A q \in Reqs \ {r} : Committing(req'[q]) \/ Finding(req'[q]) => req'[q].w \in Stored',
           Committing(req'[r]) \/ Finding(req'[r]) => req'[r].w \in Stored',
           \A s \in Scalars : Committed(s)' <= Total[s],
           \A s \in Scalars :
              /\ free'[s] \in Nat
              /\ \A q \in Reqs : Choosing(req'[q]) \/ Committing(req'[q])
                                    => Demand[req'[q].w][s] <= free'[s]
              /\ Account(s)' = Account(s)
    PROVE  AmountInv'
<1>1. \A s \in Scalars : AmountOK(s)'
  BY DEF AmountInv, AmountOK
<1>2. \A q \in Reqs : Committing(req'[q]) \/ Finding(req'[q]) => req'[q].w \in Stored'
  OBVIOUS
<1>. QED BY <1>1, <1>2 DEF AmountInv

(* CreateLock found enough. DeleteFind found the row.                      *)
LEMMA AmountsChosen ==
    ASSUME TypeOK, UnitInv, AmountInv, UNCHANGED <<free, rows, phase>>,
           phase # "down", NEW r \in Reqs, OthersStay(r), WithoutUnits(req[r]),
           req'[r].w = req[r].w,
           \/ Choosing(req'[r]) /\ Fits(req[r].w)
           \/ Finding(req'[r]) /\ req[r].w \in Stored
    PROVE  AmountInv'
<1>1. Stored' = Stored
  BY DEF Stored
<1>2. ~Giving(req'[r]) /\ ~Committing(req'[r])
  BY DEF Choosing, Finding, Giving, Committing
<1>3. ASSUME NEW s \in Scalars
      PROVE  /\ Committed(s)' = Committed(s) /\ free[s] \in Nat /\ Account(s)' = Account(s)
             /\ Committed(s) <= Total[s]
  <2>1. PICK d : d = Demand[req[r].w][s]
    OBVIOUS
  <2>2. Committed(s)' = Committed(s)
    BY <1>1 DEF Committed
  <2>3. AskedBy(Releasing, s)' = AskedBy(Releasing, s) /\ AskedBy(Deducting, s)' = AskedBy(Deducting, s)
    BY <1>2, <2>1, AccountStep, InAccount DEF WithoutUnits
  <2>. QED BY <2>2, <2>3 DEF Account, AmountInv, AmountOK
<1>4. ASSUME NEW s \in Scalars, NEW q \in Reqs, Choosing(req'[q]) \/ Committing(req'[q])
      PROVE  Demand[req'[q].w][s] <= free'[s]
  <2>1. CASE q = r
    <3>1. Choosing(req'[r])
      BY <1>2, <1>4, <2>1
    <3>2. Fits(req[r].w)
      BY <3>1 DEF Choosing, Finding
    <3>. QED BY <2>1, <3>2 DEF Fits
  <2>2. CASE q # r
    BY <1>4, <2>2 DEF OthersStay, SameUnits, AmountInv, AmountOK
  <2>. QED BY <2>1, <2>2
<1>5. \A q \in Reqs \ {r} : Committing(req'[q]) \/ Finding(req'[q]) => req'[q].w \in Stored'
  BY <1>1 DEF OthersStay, SameUnits, AmountInv
<1>6. Committing(req'[r]) \/ Finding(req'[r]) => req'[r].w \in Stored'
  BY <1>1, <1>2 DEF Choosing, Finding
<1>. QED BY <1>3, <1>4, <1>5, <1>6, AmountsStep

(* CreateCommit.                                                           *)
LEMMA AmountsCommitted ==
    ASSUME TypeOK, UnitInv, AmountInv, UNCHANGED <<free, phase>>,
           phase # "down", NEW r \in Reqs, Choosing(req[r]), OthersStay(r),
           Committing(req'[r]), req'[r].w = req[r].w,
           req[r].w \notin Stored, Stored' = Stored \cup {req[r].w}
    PROVE  AmountInv'
<1>1. ~Giving(req[r]) /\ ~Committing(req[r]) /\ ~Giving(req'[r])
  BY DEF Choosing, Giving, Committing
<1>2. req[r].w \in Workloads /\ Stored \in SUBSET Workloads
  BY RequestParts DEF Stored
<1>3. ASSUME NEW s \in Scalars
      PROVE  /\ free[s] \in Nat /\ Account(s)' = Account(s)
             /\ Committed(s)' <= Total[s]
  <2>1. PICK d : d = Demand[req[r].w][s]
    OBVIOUS
  <2>2. Committed(s)' = d + Committed(s)
    <3>1. PICK w, S : w = req[r].w /\ S = Stored
      OBVIOUS
    <3>2. Owned(S \cup {w}, s) = Demand[w][s] + Owned(S, s)
      BY <1>2, <3>1, OwnedAdd
    <3>. QED BY <2>1, <3>1, <3>2, Terms, TermsNext
  <2>3. PICK m, n \in Nat :
            /\ AskedBy(Releasing, s) = m
            /\ AskedBy(Deducting, s) = n
            /\ AskedBy(Releasing, s)' = m
            /\ AskedBy(Deducting, s)' = d + n
    BY <1>1, <2>1, AccountStep, InAccount
  <2>4. d \in Nat
    BY <1>2, <2>1, DemandType
  <2>5. AmountOK(s)
    BY DEF AmountInv
  <2>6. free[s] \in Nat /\ Committed(s) \in Nat /\ Total[s] \in Nat
    BY <2>5, Terms DEF AmountOK
  <2>7. Account(s)' = Account(s)
    BY <2>2, <2>3, <2>4, <2>6 DEF Account
  <2>8. Deducting = {}
    BY DEF UnitInv, ControlInv, Deducting, Choosing, Committing
  <2>9. n = 0
    BY <2>3, <2>8, AskedNone, Terms
  <2>10. d <= free[s] /\ Account(s) <= Total[s]
    BY <2>1, <2>5 DEF AmountOK
  <2>11. Committed(s)' <= Total[s]
    BY <2>2, <2>3, <2>4, <2>6, <2>9, <2>10 DEF Account
  <2>. QED BY <2>6, <2>7, <2>11
<1>4. ASSUME NEW s \in Scalars, NEW q \in Reqs, Choosing(req'[q]) \/ Committing(req'[q])
      PROVE  Demand[req'[q].w][s] <= free'[s]
  BY <1>4 DEF OthersStay, SameUnits, AmountInv, AmountOK
<1>5. \A q \in Reqs \ {r} : Committing(req'[q]) \/ Finding(req'[q]) => req'[q].w \in Stored'
  BY DEF OthersStay, SameUnits, AmountInv
<1>. QED BY <1>3, <1>4, <1>5, AmountsStep

(* CreateDeduct.                                                           *)
LEMMA AmountsDeducted ==
    ASSUME TypeOK, UnitInv, AmountInv, UNCHANGED <<rows, phase>>,
           phase # "down", NEW r \in Reqs, Committing(req[r]), WithoutUnits(req'[r]), OthersStay(r),
           free' = [s \in Scalars |-> free[s] - Demand[req[r].w][s]]
    PROVE  AmountInv'
<1>1. ~Giving(req[r]) /\ ~Giving(req'[r]) /\ ~Committing(req'[r])
      /\ ~Choosing(req'[r]) /\ ~Finding(req'[r])
  BY DEF Giving, Committing, WithoutUnits
<1>2. req[r].w \in Workloads /\ Stored' = Stored
  BY RequestParts DEF Stored
<1>3. ASSUME NEW s \in Scalars
      PROVE  /\ free'[s] \in Nat /\ Account(s)' = Account(s)
             /\ Committed(s)' <= Total[s]
  <2>1. PICK d : d = Demand[req[r].w][s]
    OBVIOUS
  <2>2. Committed(s)' = Committed(s) /\ Committed(s) <= Total[s]
    BY <1>2 DEF Committed, AmountInv
  <2>3. PICK m, n \in Nat :
            /\ AskedBy(Releasing, s) = m
            /\ AskedBy(Deducting, s) = d + n
            /\ AskedBy(Releasing, s)' = m
            /\ AskedBy(Deducting, s)' = n
    BY <1>1, <2>1, AccountStep, InAccount
  <2>4. d \in Nat
    BY <1>2, <2>1, DemandType
  <2>5. AmountOK(s)
    BY DEF AmountInv
  <2>6. free[s] \in Nat /\ Committed(s) \in Nat /\ d <= free[s] /\ free'[s] = free[s] - d
    BY <2>1, <2>5, Terms DEF AmountOK
  <2>7. Account(s)' = Account(s)
    BY <2>2, <2>3, <2>4, <2>6 DEF Account
  <2>. QED BY <2>2, <2>4, <2>6, <2>7
<1>4. \A q \in Reqs : ~Choosing(req'[q]) /\ ~Committing(req'[q])
  <2>1. \A q \in Reqs \ {r} : ~Choosing(req[q]) /\ ~Committing(req[q])
    BY DEF UnitInv, ControlInv
  <2>. QED BY <1>1, <2>1 DEF OthersStay, SameUnits
<1>5. \A q \in Reqs \ {r} : Committing(req'[q]) \/ Finding(req'[q]) => req'[q].w \in Stored'
  BY <1>2 DEF OthersStay, SameUnits, AmountInv
<1>. QED BY <1>1, <1>3, <1>4, <1>5, AmountsStep

(* DeleteErase.                                                            *)
LEMMA AmountsErased ==
    ASSUME TypeOK, UnitInv, AmountInv, UNCHANGED <<free, phase>>,
           phase # "down", NEW r \in Reqs, Finding(req[r]), OthersStay(r),
           Giving(req'[r]), req'[r].w = req[r].w, Stored' = Stored \ {req[r].w}
    PROVE  AmountInv'
<1>1. ~Giving(req[r]) /\ ~Committing(req[r]) /\ ~Committing(req'[r])
      /\ ~Choosing(req'[r]) /\ ~Finding(req'[r])
  BY DEF Choosing, Giving, Committing, Finding
<1>2. req[r].w \in Workloads /\ req[r].w \in Stored
  BY RequestParts DEF AmountInv
<1>3. ASSUME NEW s \in Scalars
      PROVE  /\ free[s] \in Nat /\ Account(s)' = Account(s)
             /\ Committed(s)' <= Total[s]
  <2>1. PICK d : d = Demand[req[r].w][s]
    OBVIOUS
  <2>2. Committed(s) = d + Committed(s)' /\ Committed(s)' \in Nat
    <3>1. PICK w, S : w = req[r].w /\ S = Stored'
      OBVIOUS
    <3>2. S \in SUBSET Workloads /\ w \in Workloads \ S /\ Stored = S \cup {w}
      BY <1>2, <3>1 DEF Stored
    <3>3. Owned(S \cup {w}, s) = Demand[w][s] + Owned(S, s) /\ Owned(S, s) \in Nat
      BY <3>2, OwnedAdd, OwnedType
    <3>. QED BY <2>1, <3>1, <3>2, <3>3, Terms, TermsNext
  <2>3. PICK m, n \in Nat :
            /\ AskedBy(Releasing, s) = m
            /\ AskedBy(Deducting, s) = n
            /\ AskedBy(Releasing, s)' = d + m
            /\ AskedBy(Deducting, s)' = n
    BY <1>1, <2>1, AccountStep, InAccount
  <2>4. d \in Nat
    BY <1>2, <2>1, DemandType
  <2>5. AmountOK(s) /\ Committed(s) <= Total[s] /\ Total[s] \in Nat
    BY Terms DEF AmountInv
  <2>6. free[s] \in Nat
    BY <2>5 DEF AmountOK
  <2>7. Account(s)' = Account(s)
    BY <2>2, <2>3, <2>4, <2>6 DEF Account
  <2>. QED BY <2>2, <2>4, <2>5, <2>6, <2>7
<1>4. ASSUME NEW s \in Scalars, NEW q \in Reqs, Choosing(req'[q]) \/ Committing(req'[q])
      PROVE  Demand[req'[q].w][s] <= free'[s]
  BY <1>1, <1>4 DEF OthersStay, SameUnits, AmountInv, AmountOK
<1>5. \A q \in Reqs \ {r} : Committing(req'[q]) \/ Finding(req'[q]) => req'[q].w \in Stored'
  <2>1. \A q \in Reqs \ {r} : Active(req[q]) => req[q].w # req[r].w
    BY DEF UnitInv, ControlInv, Finding, Active
  <2>. QED BY <2>1 DEF OthersStay, SameUnits, AmountInv, Committing, Finding, Active
<1>. QED BY <1>1, <1>3, <1>4, <1>5, AmountsStep

(* DeleteFree.                                                             *)
LEMMA AmountsGivenBack ==
    ASSUME TypeOK, UnitInv, AmountInv, UNCHANGED <<rows, phase>>,
           phase # "down", NEW r \in Reqs, Giving(req[r]), WithoutUnits(req'[r]), OthersStay(r),
           free' = [s \in Scalars |-> free[s] + Demand[req[r].w][s]]
    PROVE  AmountInv'
<1>1. ~Committing(req[r]) /\ ~Giving(req'[r]) /\ ~Committing(req'[r])
      /\ ~Choosing(req'[r]) /\ ~Finding(req'[r])
  BY DEF Giving, Committing, WithoutUnits
<1>2. req[r].w \in Workloads /\ Stored' = Stored
  BY RequestParts DEF Stored
<1>3. ASSUME NEW s \in Scalars
      PROVE  /\ free'[s] \in Nat /\ free[s] <= free'[s] /\ Account(s)' = Account(s)
             /\ Committed(s)' <= Total[s]
  <2>1. PICK d : d = Demand[req[r].w][s]
    OBVIOUS
  <2>2. Committed(s)' = Committed(s) /\ Committed(s) <= Total[s]
    BY <1>2 DEF Committed, AmountInv
  <2>3. PICK m, n \in Nat :
            /\ AskedBy(Releasing, s) = d + m
            /\ AskedBy(Deducting, s) = n
            /\ AskedBy(Releasing, s)' = m
            /\ AskedBy(Deducting, s)' = n
    BY <1>1, <2>1, AccountStep, InAccount
  <2>4. d \in Nat
    BY <1>2, <2>1, DemandType
  <2>5. AmountOK(s)
    BY DEF AmountInv
  <2>6. free[s] \in Nat /\ Committed(s) \in Nat /\ free'[s] = free[s] + d
    BY <2>1, <2>5, Terms DEF AmountOK
  <2>7. Account(s)' = Account(s)
    BY <2>2, <2>3, <2>4, <2>6 DEF Account
  <2>. QED BY <2>2, <2>4, <2>6, <2>7
<1>4. ASSUME NEW s \in Scalars, NEW q \in Reqs, Choosing(req'[q]) \/ Committing(req'[q])
      PROVE  Demand[req'[q].w][s] <= free'[s]
  <2>1. q # r /\ SameUnits(req'[q], req[q])
    BY <1>1, <1>4 DEF OthersStay
  <2>2. req'[q].w = req[q].w /\ Demand[req[q].w][s] <= free[s] /\ free[s] \in Nat
    BY <1>4, <2>1 DEF SameUnits, AmountInv, AmountOK
  <2>3. Demand[req[q].w][s] \in Nat
    BY RequestParts, DemandType
  <2>. QED BY <1>3, <2>2, <2>3
<1>5. \A q \in Reqs \ {r} : Committing(req'[q]) \/ Finding(req'[q]) => req'[q].w \in Stored'
  BY <1>2 DEF OthersStay, SameUnits, AmountInv
<1>. QED BY <1>1, <1>3, <1>4, <1>5, AmountsStep

-----------------------------------------------------------------------------
(* How the handlers change the requests.                                   *)

Like(p, q) == p.pc = q.pc /\ p.w = q.w /\ p.row = q.row /\ p.locked = q.locked

LEMMA LikeIsSame ==
    ASSUME NEW p, NEW q, Like(p, q)
    PROVE  SameControl(p, q) /\ SameUnits(p, q)
  BY DEF Like, SameControl, SameUnits, Choosing, Committing, Finding, Giving, Active, Inserted

LEMMA AfterCommitLike ==
    ASSUME NEW rs \in [Reqs -> Request], NEW r \in Reqs, NEW q \in Reqs
    PROVE  Like(AfterCommit(rs, r)[q], rs[q]) /\ (q = r => AfterCommit(rs, r)[q] = rs[q])
<1>1. \/ AfterCommit(rs, r)[q] = rs[q]
      \/ AfterCommit(rs, r)[q] = [rs[q] EXCEPT !.stale = TRUE] /\ q # r
  BY DEF AfterCommit
<1>2. Like([rs[q] EXCEPT !.stale = TRUE], rs[q]) /\ Like(rs[q], rs[q])
  BY DEF Request, Like
<1>. QED BY <1>1, <1>2

(* set_enabled and the wallet leave the units of the rows alone.           *)
LEMMA EnabledKeepsUnits ==
    ASSUME TypeOK, NEW v \in Workloads, NEW b, NEW k,
           \/ rows' = [rows EXCEPT ![v].enabled = b, ![v].pk = k]
           \/ rows' = [rows EXCEPT ![v].enabled = b]
           \/ rows' = rows
    PROVE  RowsKeepUnits
<1>1. \A w \in Workloads : rows'[w].exists = rows[w].exists /\ rows'[w].units = rows[w].units
  BY DEF TypeOK, Row
<1>. QED BY <1>1 DEF RowsKeepUnits, Stored

(* A step that moves nothing.                                              *)
LEMMA KeptInvariant ==
    ASSUME TypeOK, ResourceInv, ControlInv', UNCHANGED <<pool, free>>, RowsKeepUnits,
           (phase' = "down") <=> (phase = "down"),
           \A q \in Reqs : \/ SameUnits(req'[q], req[q])
                           \/ WithoutUnits(req'[q]) /\ MayEnd(req[q])
    PROVE  ResourceInv'
<1>1. UnitInv'
  BY UnitsKept DEF ResourceInv
<1>2. AmountInv'
  BY AmountsKept DEF ResourceInv, RowsKeepUnits
<1>. QED BY <1>1, <1>2 DEF ResourceInv

(* A request goes on, with the units it had.                               *)
LEMMA UnitsMove ==
    ASSUME TypeOK, ResourceInv, UNCHANGED <<pool, free, phase>>, RowsKeepUnits,
           NEW r \in Reqs, Active(req[r]),
           \A q \in Reqs \ {r} : Like(req'[q], req[q]),
           SameControl(req'[r], req[r]),
           SameUnits(req'[r], req[r]) \/ (WithoutUnits(req'[r]) /\ WithoutUnits(req[r]))
    PROVE  ResourceInv'
<1>1. ControlInv'
  <2>1. \A q \in Reqs : SameControl(req'[q], req[q])
    BY LikeIsSame
  <2>. QED BY <2>1, ControlSame DEF ResourceInv, UnitInv, RowsKeepUnits
<1>2. \A q \in Reqs : \/ SameUnits(req'[q], req[q])
                      \/ WithoutUnits(req'[q]) /\ MayEnd(req[q])
  BY LikeIsSame DEF WithoutUnits, MayEnd
<1>. QED BY <1>1, <1>2, KeptInvariant

LEMMA IdleHasNothing ==
    ASSUME NEW w
    PROVE  ~Active(Idle(w)) /\ WithoutUnits(Idle(w)) /\ Idle(w).locked = FALSE
           /\ ~Inserted(Idle(w))
  BY DEF Active, Inserted, WithoutUnits, Idle, Choosing, Committing, Finding, Giving

LEMMA EndControl ==
    ASSUME TypeOK, ResourceInv, UNCHANGED phase, NEW r \in Reqs, Active(req[r]),
           \A q \in Reqs \ {r} : Like(req'[q], req[q]),
           req'[r] = Idle(AnyWorkload), RowsKeepUnits
    PROVE  ControlInv'
<1>1. phase = "serving"
  BY DEF ResourceInv, UnitInv, ControlInv
<1>2. \A q \in Reqs \ {r} : SameControl(req'[q], req[q])
  BY LikeIsSame
<1>3. ~Active(req'[r]) /\ ~req'[r].locked /\ ~Choosing(req'[r]) /\ ~Committing(req'[r])
      /\ ~Inserted(req'[r])
  BY IdleHasNothing DEF WithoutUnits
<1>. QED BY <1>1, <1>2, <1>3, ControlStep DEF ResourceInv, UnitInv, RowsKeepUnits

(* A request ends.                                                         *)
LEMMA UnitsEnd ==
    ASSUME TypeOK, ResourceInv, UNCHANGED <<pool, free, phase>>, RowsKeepUnits,
           NEW r \in Reqs, Active(req[r]), MayEnd(req[r]),
           \A q \in Reqs \ {r} : Like(req'[q], req[q]),
           req'[r] = Idle(AnyWorkload)
    PROVE  ResourceInv'
<1>1. \A q \in Reqs : \/ SameUnits(req'[q], req[q])
                      \/ WithoutUnits(req'[q]) /\ MayEnd(req[q])
  BY LikeIsSame, IdleHasNothing
<1>. QED BY <1>1, EndControl, KeptInvariant

LEMMA EndIsIdle ==
    ASSUME TypeOK, NEW r \in Reqs, End(r)
    PROVE  /\ req'[r] = Idle(AnyWorkload)
           /\ \A q \in Reqs \ {r} : req'[q] = req[q] /\ Like(req'[q], req[q])
  BY DEF TypeOK, End, Ended, Like

LEMMA SameRows ==
    ASSUME UNCHANGED rows
    PROVE  RowsKeepUnits
  BY DEF RowsKeepUnits, Stored

LEMMA EndUnits ==
    ASSUME TypeOK, ResourceInv, NEW r \in Reqs, Active(req[r]), MayEnd(req[r]),
           End(r), UNCHANGED <<pool, free, phase, rows>>
    PROVE  ResourceInv'
  BY EndIsIdle, SameRows, UnitsEnd

-----------------------------------------------------------------------------
(* One step per action.                                                    *)

LEMMA ArriveUnits ==
    ASSUME Serialised, "c_deduct" \notin AbandonAt,
           TypeOK, ResourceInv, NEW r \in Reqs, Arrive(r) \/ Abandon(r)
    PROVE  ResourceInv'
<1>1. CASE Arrive(r)
  <2>1. PICK op \in Ops, w \in Workloads, env \in BOOLEAN :
            /\ \A q \in Reqs : req[q].pc # "idle" => req[q].w # w
            /\ req' = [req EXCEPT ![r] = [Idle(w) EXCEPT !.pc = FirstStep[op], !.env = env]]
    BY <1>1 DEF Arrive
  <2>2. /\ req'[r] = [Idle(w) EXCEPT !.pc = FirstStep[op], !.env = env]
        /\ \A q \in Reqs \ {r} : req'[q] = req[q]
    BY <2>1 DEF TypeOK
  <2>3. req'[r].pc = FirstStep[op] /\ req'[r].w = w /\ req'[r].locked = FALSE
    BY <2>2 DEF Idle
  <2>4. FirstStep[op] \in {"c_lock", "d_find", "s_find", "t_find", "r_find"}
    BY ConstantsAssumption DEF FirstStep, AllOps
  <2>5. WithoutUnits(req'[r]) /\ MayEnd(req[r]) /\ ~Inserted(req'[r])
    BY <1>1, <2>3, <2>4 DEF Arrive, Inserted, MayEnd, WithoutUnits, Choosing, Committing, Finding, Giving
  <2>6. \A q \in Reqs \ {r} : SameControl(req'[q], req[q]) /\ SameUnits(req'[q], req[q])
    BY <2>2, LikeIsSame DEF Like
  <2>7. phase = "serving" /\ UNCHANGED <<phase, pool, rows>>
    BY <1>1 DEF Arrive
  <2>8. ControlInv'
    BY <2>1, <2>3, <2>5, <2>6, <2>7, SameRows, ControlStep
       DEF ResourceInv, UnitInv, Active, WithoutUnits, RowsKeepUnits
  <2>9. UNCHANGED free
    BY <1>1 DEF Arrive
  <2>. QED BY <2>5, <2>6, <2>7, <2>8, <2>9, SameRows, KeptInvariant
<1>2. CASE Abandon(r)
  <2>1. End(r) /\ UNCHANGED <<pool, free, phase, rows>> /\ MayEnd(req[r])
    BY <1>2 DEF Abandon, MayEnd, NothingDropped, Committing, Giving
  <2>2. CASE Active(req[r])
    BY <2>1, <2>2, EndUnits
  <2>3. CASE ~Active(req[r])
    <3>1. \A q \in Reqs : \/ SameUnits(req'[q], req[q])
                          \/ WithoutUnits(req'[q]) /\ MayEnd(req[q])
      BY <2>1, EndIsIdle, IdleHasNothing, LikeIsSame
    <3>2. ~req[r].locked
      BY <2>3 DEF ResourceInv, UnitInv, ControlInv, Active, Choosing, Committing
    <3>3. ControlInv'
      <4>1. \A q \in Reqs \ {r} : SameControl(req'[q], req[q])
        BY <2>1, EndIsIdle, LikeIsSame
      <4>2. ~Active(req'[r]) /\ ~req'[r].locked /\ ~Choosing(req'[r]) /\ ~Committing(req'[r])
            /\ ~Inserted(req'[r])
        BY <2>1, EndIsIdle, IdleHasNothing DEF WithoutUnits
      <4>3. Stored' = Stored
        BY <2>1 DEF Stored
      <4>. QED BY <2>1, <4>1, <4>2, <4>3 DEF ResourceInv, UnitInv, ControlInv, SameControl
    <3>. QED BY <2>1, <3>1, <3>3, SameRows, KeptInvariant
  <2>. QED BY <2>2, <2>3
<1>. QED BY <1>1, <1>2

LEMMA CreateUnits ==
    ASSUME TypeOK, ResourceInv, NEW r \in Reqs, CreateStep(r)
    PROVE  ResourceInv'
<1>0. req[r].w \in Workloads
  BY RequestParts
<1>1. CASE CreateLock(r)
  <2>1. Active(req[r]) /\ MayEnd(req[r]) /\ req[r].pc = "c_lock" /\ LockFree
        /\ UNCHANGED <<pool, free, phase, rows>>
    BY <1>1 DEF CreateLock, Active, MayEnd, Committing, Giving
  <2>2. CASE End(r)
    BY <2>1, <2>2, EndUnits
  <2>3. CASE ~End(r)
    <3>1. PICK k \in KeyOrNone :
            /\ Fits(req[r].w)
            /\ req' = [req EXCEPT ![r].pc = "c_insert",
                                  ![r].locked = TRUE,
                                  ![r].key = k,
                                  ![r].row = [exists |-> TRUE, enabled |-> TRUE,
                                              pk |-> k, units |-> Taken(req[r].w)]]
      BY <1>1, <2>3 DEF CreateLock
    <3>2. \A q \in Reqs \ {r} : req'[q] = req[q] /\ Like(req'[q], req[q])
      BY <3>1 DEF TypeOK, Like
    <3>3. /\ req'[r].pc = "c_insert" /\ req'[r].locked = TRUE /\ req'[r].w = req[r].w
          /\ req'[r].row.units = Taken(req[r].w) /\ req'[r].row.exists
      BY <3>1 DEF TypeOK, Request
    <3>4. Choosing(req'[r]) /\ ~Inserted(req'[r])
      BY <3>3 DEF Choosing, Inserted
    <3>5. phase = "serving"
      BY <2>1 DEF ResourceInv, UnitInv, ControlInv
    <3>6. \A q \in Reqs \ {r} : SameControl(req'[q], req[q])
      BY <3>2, LikeIsSame
    <3>7. ControlInv'
      BY <2>1, <3>3, <3>4, <3>5, <3>6, SameRows, ControlStep DEF ResourceInv, UnitInv, RowsKeepUnits
    <3>8. UnitInv'
      BY <2>1, <3>1, <3>2, <3>3, <3>4, <3>7, UnitsChosen DEF ResourceInv
    <3>9. WithoutUnits(req[r]) /\ OthersStay(r)
      BY <2>1, <3>2, LikeIsSame
         DEF OthersStay, WithoutUnits, Choosing, Committing, Finding, Giving
    <3>. QED BY <2>1, <3>1, <3>3, <3>4, <3>5, <3>8, <3>9, AmountsChosen DEF ResourceInv
  <2>. QED BY <2>2, <2>3
<1>2. CASE CreateInsert(r)
  <2>1. Active(req[r]) /\ MayEnd(req[r]) /\ req[r].pc = "c_insert"
        /\ UNCHANGED <<pool, free, phase, rows>>
    BY <1>2 DEF CreateInsert, Active, MayEnd, Committing, Giving
  <2>2. CASE End(r)
    BY <2>1, <2>2, EndUnits
  <2>3. CASE ~End(r)
    <3>1. /\ req' = [req EXCEPT ![r].pc = "c_spawn", ![r].writing = TRUE]
          /\ req[r].w \notin Stored
      BY <1>2, <2>3 DEF CreateInsert, Stored
    <3>2. \A q \in Reqs \ {r} : Like(req'[q], req[q])
      BY <3>1 DEF TypeOK, Like
    <3>3. /\ req'[r].pc = "c_spawn" /\ req'[r].locked = req[r].locked /\ req'[r].w = req[r].w
          /\ req'[r].row = req[r].row
      BY <3>1 DEF TypeOK, Request
    <3>4. SameUnits(req'[r], req[r]) /\ Choosing(req'[r]) /\ Choosing(req[r])
      BY <2>1, <3>3 DEF SameUnits, Choosing, Committing, Finding, Giving
    <3>5. phase = "serving" /\ req[r].locked /\ req'[r].row.exists
      BY <2>1, <3>3, <3>4 DEF ResourceInv, UnitInv, ControlInv
    <3>6. ControlInv'
      BY <2>1, <3>1, <3>2, <3>3, <3>4, <3>5, LikeIsSame, SameRows, ControlStep
         DEF ResourceInv, UnitInv, RowsKeepUnits
    <3>. QED BY <2>1, <3>2, <3>4, <3>6, LikeIsSame, SameRows, KeptInvariant
  <2>. QED BY <2>2, <2>3
<1>3. CASE CreateSpawn(r)
  <2>1. Active(req[r]) /\ req[r].pc = "c_spawn" /\ UNCHANGED <<pool, free, phase, rows>>
    BY <1>3 DEF CreateSpawn, Active
  <2>2. req' = [req EXCEPT ![r].pc = "c_commit", ![r].key = NoKey]
    BY <1>3 DEF CreateSpawn
  <2>3. \A q \in Reqs \ {r} : Like(req'[q], req[q])
    BY <2>2 DEF TypeOK, Like
  <2>4. /\ req'[r].pc = "c_commit" /\ req'[r].locked = req[r].locked /\ req'[r].w = req[r].w
        /\ req'[r].row = req[r].row
    BY <2>2 DEF TypeOK, Request
  <2>5. SameControl(req'[r], req[r]) /\ SameUnits(req'[r], req[r])
    BY <2>1, <2>4 DEF SameControl, SameUnits, Choosing, Committing, Finding, Giving, Active, Inserted
  <2>. QED BY <2>1, <2>3, <2>5, SameRows, UnitsMove
<1>4. CASE CreateCommit(r)
  <2>. DEFINE rs == [req EXCEPT ![r].pc = "c_deduct", ![r].writing = FALSE]
  <2>1. req[r].pc = "c_commit" /\ req' = AfterCommit(rs, r) /\ UNCHANGED <<pool, free, phase>>
        /\ rows' = [rows EXCEPT ![req[r].w] = req[r].row]
    BY <1>4 DEF CreateCommit
  <2>2. rs \in [Reqs -> Request]
    BY StepNames, GotoWritingType DEF TypeOK
  <2>3. /\ \A q \in Reqs \ {r} : rs[q] = req[q]
        /\ rs[r].pc = "c_deduct" /\ rs[r].locked = req[r].locked /\ rs[r].w = req[r].w
        /\ rs[r].row = req[r].row
    BY DEF TypeOK, Request
  <2>. HIDE DEF rs
  <2>4. /\ \A q \in Reqs \ {r} : Like(req'[q], req[q])
        /\ req'[r].pc = "c_deduct" /\ req'[r].locked = req[r].locked /\ req'[r].w = req[r].w
        /\ req'[r].row = req[r].row
    BY <2>1, <2>2, <2>3, AfterCommitLike
  <2>5. /\ Choosing(req[r]) /\ Committing(req'[r]) /\ Active(req[r]) /\ Active(req'[r])
        /\ req[r].locked
    BY <2>1, <2>4 DEF Choosing, Committing, Active, ResourceInv, UnitInv, ControlInv
  <2>6. phase = "serving"
    BY <2>5 DEF ResourceInv, UnitInv, ControlInv
  <2>7. req[r].row.exists
    BY <2>5 DEF ResourceInv, UnitInv, ControlInv
  <2>8. Stored' = Stored \cup {req[r].w}
    BY <1>0, <2>1, <2>7 DEF Stored, TypeOK
  <2>9. /\ \A w \in Workloads \ {req[r].w} : rows'[w].units = rows[w].units
        /\ rows'[req[r].w].units = req[r].row.units
    BY <1>0, <2>1 DEF TypeOK
  <2>10. ControlInv'
    <3>1. ~Choosing(req'[r]) /\ ~Inserted(req'[r])
      BY <2>4 DEF Choosing, Inserted
    <3>. QED BY <2>1, <2>4, <2>5, <2>6, <2>8, <3>1, ControlStep, LikeIsSame DEF ResourceInv, UnitInv
  <2>11. req[r].w \notin Stored
    BY <2>1 DEF ResourceInv, UnitInv, ControlInv, Inserted
  <2>12. UnitInv'
    BY <2>1, <2>4, <2>5, <2>6, <2>8, <2>9, <2>10, <2>11, LikeIsSame, UnitsCommitted
       DEF ResourceInv
  <2>13. OthersStay(r)
    BY <2>4, LikeIsSame DEF OthersStay
  <2>. QED BY <2>1, <2>4, <2>5, <2>6, <2>8, <2>11, <2>12, <2>13, AmountsCommitted
           DEF ResourceInv
<1>5. CASE CreateDeduct(r)
  <2>1. Active(req[r]) /\ Committing(req[r]) /\ UNCHANGED <<phase, rows>> /\ End(r)
        /\ pool' = [k \in Kinds |-> SubSeq(pool[k], Need[req[r].w][k] + 1, Len(pool[k]))]
        /\ free' = [s \in Scalars |-> free[s] - Demand[req[r].w][s]]
    BY <1>5 DEF CreateDeduct, Active, Committing
  <2>2. /\ req'[r] = Idle(AnyWorkload)
        /\ \A q \in Reqs \ {r} : req'[q] = req[q] /\ Like(req'[q], req[q])
    BY <2>1, EndIsIdle
  <2>3. WithoutUnits(req'[r])
    BY <2>2, IdleHasNothing
  <2>4. ControlInv'
    BY <2>1, <2>2, SameRows, EndControl
  <2>5. UnitInv'
    BY <2>1, <2>2, <2>3, <2>4, UnitsDeducted DEF ResourceInv
  <2>6. OthersStay(r) /\ phase # "down"
    BY <2>1, <2>2, LikeIsSame DEF OthersStay, ResourceInv, UnitInv, ControlInv
  <2>. QED BY <2>1, <2>3, <2>5, <2>6, AmountsDeducted DEF ResourceInv
<1>. QED BY <1>1, <1>2, <1>3, <1>4, <1>5 DEF CreateStep

LEMMA DeleteUnits ==
    ASSUME TypeOK, ResourceInv, NEW r \in Reqs, DeleteStep(r)
    PROVE  ResourceInv'
<1>0. req[r].w \in Workloads
  BY RequestParts
<1>1. CASE DeleteFind(r)
  <2>1. Active(req[r]) /\ MayEnd(req[r]) /\ req[r].pc = "d_find"
        /\ UNCHANGED <<pool, free, phase, rows>>
    BY <1>1 DEF DeleteFind, Active, MayEnd, Committing, Giving
  <2>2. CASE End(r)
    BY <2>1, <2>2, EndUnits
  <2>3. CASE ~End(r)
    <3>1. /\ rows[req[r].w].exists
          /\ req' = [req EXCEPT ![r].pc = "d_erase", ![r].row = rows[req[r].w]]
      BY <1>1, <2>3 DEF DeleteFind
    <3>2. \A q \in Reqs \ {r} : req'[q] = req[q] /\ Like(req'[q], req[q])
      BY <3>1 DEF TypeOK, Like
    <3>3. /\ req'[r].pc = "d_erase" /\ req'[r].locked = req[r].locked /\ req'[r].w = req[r].w
          /\ req'[r].row = rows[req[r].w]
      BY <3>1 DEF TypeOK, Request
    <3>4. SameControl(req'[r], req[r]) /\ WithoutUnits(req[r]) /\ Finding(req'[r])
      BY <2>1, <3>3
         DEF SameControl, WithoutUnits, Choosing, Committing, Finding, Giving, Active, Inserted
    <3>5. ControlInv'
      BY <2>1, <3>2, <3>4, LikeIsSame, SameRows, ControlSame DEF ResourceInv, UnitInv, RowsKeepUnits
    <3>6. req[r].w \in Stored
      BY <1>0, <3>1 DEF Stored
    <3>7. UnitInv'
      BY <2>1, <3>2, <3>3, <3>4, <3>5, <3>6, UnitsFound DEF ResourceInv
    <3>8. OthersStay(r) /\ phase # "down"
      BY <2>1, <3>2, LikeIsSame DEF OthersStay, ResourceInv, UnitInv, ControlInv
    <3>. QED BY <2>1, <3>3, <3>4, <3>6, <3>7, <3>8, AmountsChosen DEF ResourceInv
  <2>. QED BY <2>2, <2>3
<1>2. CASE DeleteErase(r)
  <2>. DEFINE rs == [req EXCEPT ![r].pc = "d_stop"]
  <2>1. /\ req[r].pc = "d_erase" /\ (req' = AfterCommit(rs, r) \/ req' = rs)
        /\ UNCHANGED <<pool, free, phase>> /\ rows' = [rows EXCEPT ![req[r].w] = NoRow]
    BY <1>2 DEF DeleteErase
  <2>2. rs \in [Reqs -> Request]
    BY StepNames, GotoType DEF TypeOK
  <2>3. /\ \A q \in Reqs \ {r} : rs[q] = req[q]
        /\ rs[r].pc = "d_stop" /\ rs[r].locked = req[r].locked /\ rs[r].w = req[r].w
        /\ rs[r].row = req[r].row
    BY DEF TypeOK, Request
  <2>. HIDE DEF rs
  <2>4. /\ \A q \in Reqs \ {r} : Like(req'[q], req[q])
        /\ req'[r].pc = "d_stop" /\ req'[r].locked = req[r].locked /\ req'[r].w = req[r].w
        /\ req'[r].row = req[r].row
    <3>1. CASE req' = rs
      BY <2>3, <3>1 DEF Like
    <3>2. CASE req' = AfterCommit(rs, r)
      BY <2>2, <2>3, <3>2, AfterCommitLike
    <3>. QED BY <2>1, <3>1, <3>2
  <2>5. SameControl(req'[r], req[r]) /\ Finding(req[r]) /\ Giving(req'[r]) /\ Active(req[r])
    BY <2>1, <2>4 DEF SameControl, Choosing, Committing, Finding, Giving, Active, Inserted
  <2>7. Stored' = Stored \ {req[r].w}
    BY <1>0, <2>1 DEF Stored, TypeOK, NoRow
  <2>6. ControlInv' /\ phase # "down"
    BY <2>1, <2>4, <2>5, <2>7, LikeIsSame, ControlSame DEF ResourceInv, UnitInv, ControlInv
  <2>8. \A w \in Workloads \ {req[r].w} : rows'[w].units = rows[w].units
    BY <1>0, <2>1 DEF TypeOK
  <2>9. UnitInv'
    BY <2>1, <2>4, <2>5, <2>6, <2>7, <2>8, LikeIsSame, UnitsErased DEF ResourceInv
  <2>10. OthersStay(r)
    BY <2>4, LikeIsSame DEF OthersStay
  <2>. QED BY <2>1, <2>4, <2>5, <2>6, <2>7, <2>9, <2>10, AmountsErased DEF ResourceInv
<1>3. CASE DeleteStop(r)
  <2>1. req[r].pc = "d_stop" /\ UNCHANGED <<pool, free, phase, rows>> /\ req' = [req EXCEPT ![r].pc = "d_free"]
    BY <1>3 DEF DeleteStop, Goto
  <2>2. \A q \in Reqs \ {r} : Like(req'[q], req[q])
    BY <2>1 DEF TypeOK, Like
  <2>3. /\ req'[r].pc = "d_free" /\ req'[r].locked = req[r].locked /\ req'[r].w = req[r].w
        /\ req'[r].row = req[r].row
    BY <2>1 DEF TypeOK, Request
  <2>4. SameControl(req'[r], req[r]) /\ SameUnits(req'[r], req[r]) /\ Active(req[r])
    BY <2>1, <2>3 DEF SameControl, SameUnits, Choosing, Committing, Finding, Giving, Active, Inserted
  <2>. QED BY <2>1, <2>2, <2>4, SameRows, UnitsMove
<1>4. CASE DeleteFree(r)
  <2>1. Active(req[r]) /\ Giving(req[r]) /\ UNCHANGED <<phase, rows>> /\ End(r) /\ LockFree
        /\ pool' = [k \in Kinds |-> pool[k] \o req[r].row.units[k]]
        /\ free' = [s \in Scalars |-> free[s] + Demand[req[r].w][s]]
    BY <1>4 DEF DeleteFree, Active, Giving
  <2>2. /\ req'[r] = Idle(AnyWorkload)
        /\ \A q \in Reqs \ {r} : req'[q] = req[q] /\ Like(req'[q], req[q])
    BY <2>1, EndIsIdle
  <2>3. WithoutUnits(req'[r])
    BY <2>2, IdleHasNothing
  <2>4. ControlInv'
    BY <2>1, <2>2, SameRows, EndControl
  <2>5. UnitInv'
    BY <2>1, <2>2, <2>3, <2>4, UnitsGivenBack DEF ResourceInv
  <2>6. OthersStay(r) /\ phase # "down"
    BY <2>1, <2>2, LikeIsSame DEF OthersStay, ResourceInv, UnitInv, ControlInv
  <2>. QED BY <2>1, <2>3, <2>5, <2>6, AmountsGivenBack DEF ResourceInv
<1>. QED BY <1>1, <1>2, <1>3, <1>4 DEF DeleteStep

(* Steps of a request that neither has units nor gets any: it goes to      *)
(* another such step, or ends.                                             *)
OtherSteps == Steps \ {"idle", "c_insert", "c_spawn", "c_commit", "c_deduct",
                       "d_erase", "d_stop", "d_free"}

LEMMA OtherStepUnits ==
    ASSUME TypeOK, ResourceInv, UNCHANGED <<pool, free, phase>>, RowsKeepUnits,
           NEW r \in Reqs, req[r].pc \in OtherSteps,
           \A q \in Reqs \ {r} : Like(req'[q], req[q]),
           \/ /\ req'[r].pc \in OtherSteps
              /\ req'[r].w = req[r].w /\ req'[r].locked = req[r].locked
           \/ req'[r] = Idle(AnyWorkload)
    PROVE  ResourceInv'
<1>1. Active(req[r]) /\ WithoutUnits(req[r])
  BY DEF OtherSteps, Active, WithoutUnits, Choosing, Committing, Finding, Giving
<1>2. CASE req'[r] = Idle(AnyWorkload)
  BY <1>1, <1>2, UnitsEnd DEF WithoutUnits, MayEnd
<1>3. CASE /\ req'[r].pc \in OtherSteps
           /\ req'[r].w = req[r].w /\ req'[r].locked = req[r].locked
  <2>1. Active(req'[r]) /\ WithoutUnits(req'[r])
    BY <1>3 DEF OtherSteps, Active, WithoutUnits, Choosing, Committing, Finding, Giving
  <2>2. SameControl(req'[r], req[r])
    BY <1>1, <1>3, <2>1 DEF SameControl, WithoutUnits, Inserted, Choosing
  <2>. QED BY <1>1, <2>1, <2>2, UnitsMove
<1>. QED BY <1>2, <1>3

(* What a request that goes on to pc p, or commits and does so, looks like. *)
LEMMA GoesOn ==
    ASSUME TypeOK, NEW r \in Reqs, NEW p \in Steps,
           \/ req' = [req EXCEPT ![r].pc = p]
           \/ \E k \in KeyOrNone : req' = [req EXCEPT ![r].pc = p, ![r].key = k]
           \/ req' = [req EXCEPT ![r].pc = p, ![r].writing = TRUE]
           \/ \E row \in Row :
                req' = [req EXCEPT ![r].pc = p, ![r].env = FALSE, ![r].row = row]
           \/ req' = AfterCommit([req EXCEPT ![r].pc = p], r)
    PROVE  /\ \A q \in Reqs \ {r} : Like(req'[q], req[q])
           /\ req'[r].pc = p /\ req'[r].w = req[r].w /\ req'[r].locked = req[r].locked
<1>1. CASE req' = AfterCommit([req EXCEPT ![r].pc = p], r)
  <2>. DEFINE rs == [req EXCEPT ![r].pc = p]
  <2>1. rs \in [Reqs -> Request]
    BY GotoType DEF TypeOK
  <2>2. /\ \A q \in Reqs \ {r} : rs[q] = req[q]
        /\ rs[r].pc = p /\ rs[r].locked = req[r].locked /\ rs[r].w = req[r].w
    BY DEF TypeOK, Request
  <2>. HIDE DEF rs
  <2>. QED BY <1>1, <2>1, <2>2, AfterCommitLike DEF rs
<1>2. CASE ~(req' = AfterCommit([req EXCEPT ![r].pc = p], r))
  <2>1. \A q \in Reqs \ {r} : req'[q] = req[q]
    BY <1>2 DEF TypeOK
  <2>2. req'[r].pc = p /\ req'[r].w = req[r].w /\ req'[r].locked = req[r].locked
    BY <1>2 DEF TypeOK, Request
  <2>. QED BY <2>1, <2>2 DEF Like
<1>. QED BY <1>1, <1>2

LEMMA StopUnits ==
    ASSUME TypeOK, ResourceInv, NEW r \in Reqs, StopStep(r)
    PROVE  ResourceInv'
<1>0. req[r].w \in Workloads /\ req[r].pc \in OtherSteps
      /\ "s_write" \in OtherSteps /\ "s_vm" \in OtherSteps
      /\ UNCHANGED <<pool, free, phase>>
  BY RequestParts DEF OtherSteps, Steps, StopStep, StopFind, StopWrite, StopVm
<1>1. CASE End(r) /\ UNCHANGED rows
  BY <1>0, <1>1, EndIsIdle, SameRows, OtherStepUnits
<1>2. CASE StopFind(r) /\ ~End(r)
  <2>1. req' = [req EXCEPT ![r].pc = "s_write"] /\ UNCHANGED rows
    BY <1>2 DEF StopFind
  <2>9. /\ \A q \in Reqs \ {r} : Like(req'[q], req[q])
        /\ req'[r].pc \in OtherSteps
        /\ req'[r].w = req[r].w /\ req'[r].locked = req[r].locked
    BY <1>0, <2>1, StepNames, GoesOn
  <2>. QED BY <1>0, <2>9, <2>1, SameRows, OtherStepUnits
<1>3. CASE StopWrite(r) /\ ~(End(r) /\ UNCHANGED rows)
  <2>1. /\ rows' = [rows EXCEPT ![req[r].w].enabled = FALSE, ![req[r].w].pk = NoKey]
        /\ req' = AfterCommit([req EXCEPT ![r].pc = "s_vm"], r)
    BY <1>3 DEF StopWrite
  <2>2. RowsKeepUnits
    BY <1>0, <2>1, EnabledKeepsUnits
  <2>9. /\ \A q \in Reqs \ {r} : Like(req'[q], req[q])
        /\ req'[r].pc \in OtherSteps
        /\ req'[r].w = req[r].w /\ req'[r].locked = req[r].locked
    BY <1>0, <2>1, <2>2, StepNames, GoesOn
  <2>. QED BY <1>0, <2>9, <2>1, <2>2, OtherStepUnits
<1>. QED BY <1>1, <1>2, <1>3 DEF StopStep, StopFind, StopVm

LEMMA StartUnits ==
    ASSUME TypeOK, ResourceInv, NEW r \in Reqs, StartStep(r)
    PROVE  ResourceInv'
<1>0. req[r].w \in Workloads /\ req[r].pc \in OtherSteps
      /\ "t_write" \in OtherSteps /\ "t_spawn" \in OtherSteps
      /\ UNCHANGED <<pool, free, phase>>
  BY RequestParts DEF OtherSteps, Steps, StartStep, StartFind, StartWrite, StartSpawn
<1>1. CASE End(r) /\ UNCHANGED rows
  BY <1>0, <1>1, EndIsIdle, SameRows, OtherStepUnits
<1>2. CASE StartFind(r) /\ ~End(r)
  <2>1. PICK k \in availKeys : req' = [req EXCEPT ![r].pc = "t_write", ![r].key = k]
    BY <1>2 DEF StartFind
  <2>2. k \in KeyOrNone /\ UNCHANGED rows
    BY <1>2, <2>1 DEF StartFind, TypeOK, KeyOrNone
  <2>9. /\ \A q \in Reqs \ {r} : Like(req'[q], req[q])
        /\ req'[r].pc \in OtherSteps
        /\ req'[r].w = req[r].w /\ req'[r].locked = req[r].locked
    BY <1>0, <2>1, <2>2, StepNames, GoesOn
  <2>. QED BY <1>0, <2>9, <2>1, <2>2, SameRows, OtherStepUnits
<1>3. CASE StartWrite(r) /\ ~(End(r) /\ UNCHANGED rows)
  <2>1. PICK k : k = IF req[r].w \in Heartbeat THEN req[r].key ELSE rows[req[r].w].pk
    OBVIOUS
  <2>2. /\ rows' = [rows EXCEPT ![req[r].w].enabled = TRUE, ![req[r].w].pk = k]
        /\ req' = AfterCommit([req EXCEPT ![r].pc = "t_spawn"], r)
    BY <1>3, <2>1 DEF StartWrite, TypeOK, Row
  <2>3. RowsKeepUnits
    BY <1>0, <2>2, EnabledKeepsUnits
  <2>9. /\ \A q \in Reqs \ {r} : Like(req'[q], req[q])
        /\ req'[r].pc \in OtherSteps
        /\ req'[r].w = req[r].w /\ req'[r].locked = req[r].locked
    BY <1>0, <2>2, <2>3, StepNames, GoesOn
  <2>. QED BY <1>0, <2>9, <2>2, <2>3, OtherStepUnits
<1>4. CASE StartSpawn(r)
  <2>1. req' = Ended(r) /\ UNCHANGED rows
    BY <1>4 DEF StartSpawn
  <2>2. req'[r] = Idle(AnyWorkload) /\ \A q \in Reqs \ {r} : Like(req'[q], req[q])
    BY <2>1 DEF Ended, TypeOK, Like
  <2>. QED BY <1>0, <2>1, <2>2, SameRows, OtherStepUnits
<1>. QED BY <1>1, <1>2, <1>3, <1>4 DEF StartStep, StartFind

LEMMA RestartUnits ==
    ASSUME TypeOK, ResourceInv, NEW r \in Reqs, RestartStep(r)
    PROVE  ResourceInv'
<1>0. req[r].w \in Workloads /\ req[r].pc \in OtherSteps
      /\ {"r_env", "r_act", "r_write"} \subseteq OtherSteps
      /\ UNCHANGED <<pool, free, phase>>
  BY RequestParts
     DEF OtherSteps, Steps, RestartStep, RestartFind, RestartEnv, RestartAct, RestartWrite
<1>1. CASE End(r) /\ UNCHANGED rows
  BY <1>0, <1>1, EndIsIdle, SameRows, OtherStepUnits
<1>2. CASE RestartFind(r) /\ ~End(r)
  <2>1. PICK p : p = IF req[r].env THEN "r_env" ELSE "r_act"
    OBVIOUS
  <2>2. /\ req' = [req EXCEPT ![r].pc = p, ![r].env = FALSE, ![r].row = rows[req[r].w]]
        /\ UNCHANGED rows
    BY <1>2, <2>1 DEF RestartFind
  <2>3. rows[req[r].w] \in Row /\ p \in Steps /\ p \in OtherSteps
    BY <1>0, <2>1, StepNames DEF TypeOK
  <2>9. /\ \A q \in Reqs \ {r} : Like(req'[q], req[q])
        /\ req'[r].pc \in OtherSteps
        /\ req'[r].w = req[r].w /\ req'[r].locked = req[r].locked
    BY <1>0, <2>2, <2>3, GoesOn
  <2>. QED BY <1>0, <2>9, <2>2, <2>3, SameRows, OtherStepUnits
<1>3. CASE RestartEnv(r) /\ ~End(r)
  <2>1. req' = [req EXCEPT ![r].pc = "r_act", ![r].writing = TRUE] /\ UNCHANGED rows
    BY <1>3 DEF RestartEnv
  <2>9. /\ \A q \in Reqs \ {r} : Like(req'[q], req[q])
        /\ req'[r].pc \in OtherSteps
        /\ req'[r].w = req[r].w /\ req'[r].locked = req[r].locked
    BY <1>0, <2>1, StepNames, GoesOn
  <2>. QED BY <1>0, <2>9, <2>1, SameRows, OtherStepUnits
<1>4. CASE RestartAct(r) /\ ~End(r)
  <2>1. req' = [req EXCEPT ![r].pc = "r_write"] /\ UNCHANGED rows
    BY <1>4 DEF RestartAct, Goto
  <2>9. /\ \A q \in Reqs \ {r} : Like(req'[q], req[q])
        /\ req'[r].pc \in OtherSteps
        /\ req'[r].w = req[r].w /\ req'[r].locked = req[r].locked
    BY <1>0, <2>1, StepNames, GoesOn
  <2>. QED BY <1>0, <2>9, <2>1, SameRows, OtherStepUnits
<1>5. CASE RestartWrite(r) /\ ~(End(r) /\ UNCHANGED rows)
  <2>1. /\ rows' = [rows EXCEPT ![req[r].w].enabled = TRUE]
        /\ req' = AfterCommit(Ended(r), r)
    BY <1>5 DEF RestartWrite
  <2>2. RowsKeepUnits
    BY <1>0, <2>1, EnabledKeepsUnits
  <2>3. Ended(r) \in [Reqs -> Request]
    BY AnyWorkloadType, IdleType DEF Ended, TypeOK
  <2>4. Ended(r)[r] = Idle(AnyWorkload) /\ \A q \in Reqs \ {r} : Ended(r)[q] = req[q]
    BY DEF Ended, TypeOK
  <2>5. req'[r] = Idle(AnyWorkload) /\ \A q \in Reqs \ {r} : Like(req'[q], req[q])
    BY <2>1, <2>3, <2>4, AfterCommitLike
  <2>. QED BY <1>0, <2>2, <2>5, OtherStepUnits
<1>. QED BY <1>1, <1>2, <1>3, <1>4, <1>5
     DEF RestartStep, RestartFind, RestartEnv, RestartAct

-----------------------------------------------------------------------------
(* Start-up and crash.                                                     *)

LEMMA NobodyActive ==
    ASSUME \A r \in Reqs : req[r] = Idle(AnyWorkload)
    PROVE  ControlInv /\ \A r \in Reqs : WithoutUnits(req[r])
<1>1. \A r \in Reqs : ~Active(req[r]) /\ WithoutUnits(req[r]) /\ ~req[r].locked
                      /\ ~Inserted(req[r])
  BY IdleHasNothing
<1>. QED BY <1>1 DEF ControlInv, WithoutUnits

LEMMA LoseMemoryUnits ==
    ASSUME TypeOK, ResourceInv, LoseMemory, UNCHANGED rows
    PROVE  ResourceInv'
<1>1. \A r \in Reqs : req'[r] = Idle(AnyWorkload)
  BY DEF LoseMemory
<1>2. \A r \in Reqs : ~Active(req'[r]) /\ WithoutUnits(req'[r]) /\ ~req'[r].locked
                      /\ ~Inserted(req'[r])
  BY <1>1, IdleHasNothing
<1>3. ControlInv'
  BY <1>2 DEF ControlInv, WithoutUnits
<1>4. phase' = "down"
  BY DEF LoseMemory
<1>5. UnitInv'
  BY <1>3, <1>4, RowsKeptExclusive, SameRows DEF ResourceInv, UnitInv
<1>6. AmountInv'
  <2>1. \A s \in Scalars : Committed(s)' = Committed(s)
    BY SameRows DEF Committed, RowsKeepUnits
  <2>2. free' = Total
    BY DEF LoseMemory
  <2>. QED BY <1>2, <1>4, <2>1, <2>2 DEF ResourceInv, AmountInv, WithoutUnits
<1>. QED BY <1>5, <1>6 DEF ResourceInv

LEMMA BootUnits ==
    ASSUME TypeOK, ResourceInv, Boot
    PROVE  ResourceInv'
<1>1. \A r \in Reqs : ~Active(req[r]) /\ WithoutUnits(req[r])
  BY DEF ResourceInv, UnitInv, ControlInv, Boot, WithoutUnits, Active, Choosing, Committing, Finding, Giving
<1>2. UNCHANGED <<req, rows>> /\ Stored' = Stored /\ phase' = "booting"
  BY DEF Boot, Stored
<1>3. ControlInv'
  BY <1>1, <1>2 DEF ResourceInv, UnitInv, ControlInv
<1>4. UnitsExclusive'
  BY <1>2, RowsKeptExclusive, SameRows DEF ResourceInv, UnitInv
<1>5. ASSUME NEW k \in Kinds
      PROVE  UnitsOK(k)'
  <2>1. pool'[k] \in Ascending(AllUnits[k] \ UsedUnits(k))
    BY DEF Boot
  <2>2. AllUnits[k] \ UsedUnits(k) \in SUBSET Nat /\ IsFiniteSet(AllUnits[k] \ UsedUnits(k))
    BY ConstantsAssumption, FS_Subset
  <2>3. Elems(pool'[k]) = AllUnits[k] \ UsedUnits(k) /\ Distinct(pool'[k])
    BY <2>1, <2>2, AscendingPool
  <2>4. PoolOK(k)'
    BY <2>3 DEF PoolOK
  <2>5. \A r \in Reqs : FrontOK(k, req[r])' /\ GivenOK(k, r)'
    BY <1>1, <1>2 DEF FrontOK, GivenOK, WithoutUnits
  <2>6. \A w \in Stored : Elems(rows[w].units[k]) \subseteq UsedUnits(k)
    BY DEF UsedUnits
  <2>7. StoredOK(k)'
    BY <1>2, <2>3, <2>6 DEF StoredOK, Apart
  <2>8. CoverOK(k)'
    BY <1>2, <2>3 DEF CoverOK, UsedUnits
  <2>. QED BY <2>4, <2>5, <2>7, <2>8 DEF UnitsOK
<1>6. AmountInv'
  <2>1. Releasing' = {} /\ Deducting' = {}
    BY <1>1, <1>2 DEF Releasing, Deducting, WithoutUnits, Giving, Committing
  <2>2. ASSUME NEW s \in Scalars
        PROVE  AmountOK(s)' /\ Committed(s)' <= Total[s]
    <3>1. Committed(s)' = Committed(s)
      BY <1>2 DEF Committed
    <3>2. free'[s] = Total[s] - Committed(s) /\ Committed(s) \in 0..Total[s]
      BY DEF Boot, Bootable
    <3>3. AskedBy(Releasing, s)' = 0 /\ AskedBy(Deducting, s)' = 0
      BY <2>1, TermsNext, AskedNone
    <3>4. Total[s] \in Nat
      BY Terms
    <3>5. \A q \in Reqs : ~Choosing(req'[q]) /\ ~Committing(req'[q])
      BY <1>1, <1>2 DEF WithoutUnits
    <3>6. free'[s] \in Nat /\ Account(s)' = Total[s] /\ Committed(s)' <= Total[s]
      BY <3>1, <3>2, <3>3, <3>4 DEF Account
    <3>. QED BY <3>4, <3>5, <3>6 DEF AmountOK
  <2>. QED BY <1>1, <1>2, <2>2 DEF AmountInv, WithoutUnits
<1>. QED BY <1>3, <1>4, <1>5, <1>6 DEF ResourceInv, UnitInv

LEMMA InitUnits == Init => ResourceInv
<1>. SUFFICES ASSUME Init PROVE ResourceInv
  OBVIOUS
<1>1. \A r \in Reqs : req[r] = Idle(AnyWorkload)
  BY DEF Init
<1>2. Stored = {} /\ phase = "down"
  BY DEF Init, Stored, NoRow
<1>3. UnitInv /\ \A r \in Reqs : WithoutUnits(req[r])
  BY <1>1, <1>2, NobodyActive DEF UnitInv, UnitsExclusive
<1>4. ASSUME NEW s \in Scalars
      PROVE  Committed(s) <= Total[s]
  <2>1. Committed(s) = 0
    BY <1>2, SumEmpty DEF Committed
  <2>. QED BY <2>1, ConstantsAssumption
<1>5. AmountInv
  BY <1>2, <1>3, <1>4 DEF AmountInv, WithoutUnits, Init
<1>. QED BY <1>3, <1>5 DEF ResourceInv

LEMMA NextUnits ==
    ASSUME Serialised, "c_deduct" \notin AbandonAt
    PROVE  TypeOK /\ ResourceInv /\ [Next]_vars => ResourceInv'
<1>. SUFFICES ASSUME TypeOK, ResourceInv, [Next]_vars
              PROVE  ResourceInv'
  OBVIOUS
<1>1. ASSUME NEW r \in Reqs, Arrive(r) \/ Abandon(r)
      PROVE  ResourceInv'
  BY <1>1, ArriveUnits
<1>2. ASSUME NEW r \in Reqs, Handler(r)
      PROVE  ResourceInv'
  BY <1>2, CreateUnits, DeleteUnits, StopUnits, StartUnits, RestartUnits DEF Handler
<1>3. ASSUME UNCHANGED <<req, rows, pool, free>>, phase' = phase \/ phase' = "serving",
             (phase' = "down") <=> (phase = "down")
      PROVE  ResourceInv'
  <2>1. \A q \in Reqs : SameControl(req'[q], req[q]) /\ SameUnits(req'[q], req[q])
    BY <1>3, LikeIsSame DEF Like
  <2>2. ControlInv'
    BY <1>3, <2>1, SameRows, ControlSame DEF ResourceInv, UnitInv, ControlInv, SameControl, RowsKeepUnits
  <2>. QED BY <1>3, <2>1, <2>2, SameRows, KeptInvariant
<1>4. ASSUME NEW s \in Slots, WorkerStep(s)
      PROVE  ResourceInv'
  BY <1>3, <1>4 DEF WorkerStep, WorkerStart, WorkerBootstrap, WorkerRestart, WorkerExit
<1>5. ASSUME NEW w \in Workloads, CvmDies(w)
      PROVE  ResourceInv'
  BY <1>3, <1>5 DEF CvmDies
<1>6. ASSUME NEW w \in Workloads, BootWorkload(w)
      PROVE  ResourceInv'
  <2>1. CASE LoseMemory
    BY <1>6, <2>1, LoseMemoryUnits DEF BootWorkload
  <2>2. CASE ~LoseMemory
    BY <1>3, <1>6, <2>2 DEF BootWorkload
  <2>. QED BY <2>1, <2>2
<1>7. CASE Boot
  BY <1>7, BootUnits
<1>8. CASE Serve
  BY <1>3, <1>8 DEF Serve
<1>9. CASE Crash
  BY <1>9, LoseMemoryUnits DEF Crash
<1>10. CASE UNCHANGED vars
  BY <1>3, <1>10 DEF vars
<1>. QED BY <1>1, <1>2, <1>4, <1>5, <1>6, <1>7, <1>8, <1>9, <1>10 DEF Next

(* No two stored workloads own the same GPU or port, whatever calls fail   *)
(* and whenever the agent crashes, as long as the requests for one         *)
(* workload do not overlap and no create is dropped between its commit and *)
(* the deduction of its resources, where no call can fail                  *)
(* (create_workload, delete_workload).                                     *)
THEOREM UnitsOwnedOnce ==
    ASSUME Serialised, "c_deduct" \notin AbandonAt
    PROVE  Spec => []UnitsExclusive
<1>1. Init => ResourceInv
  BY InitUnits
<1>2. TypeOK /\ ResourceInv /\ [Next]_vars => ResourceInv'
  BY NextUnits
<1>3. ResourceInv => UnitsExclusive
  BY DEF ResourceInv, UnitInv
<1>. QED BY <1>1, <1>2, <1>3, TypeCorrect, PTL DEF Spec

(* While the agent runs, every GPU and port of the host is in the pool, in *)
(* a row or in the hands of a delete.                                      *)
LEMMA UnitsAccounted ==
    ASSUME NothingDropped, UnitInv, phase # "down"
    PROVE  UnitsConserved
<1>. SUFFICES ASSUME NEW k \in Kinds
              PROVE  /\ AllUnits[k] = Elems(pool[k]) \cup UsedUnits(k)
                                      \cup UNION {Elems(req[r].row.units[k]) : r \in Releasing}
                     /\ Distinct(pool[k])
                     /\ Deducting = {} => Elems(pool[k]) \cap UsedUnits(k) = {}
  BY DEF UnitsConserved
<1>1. UnitsOK(k) /\ UnitsExclusive
  BY DEF UnitInv
<1>2. Elems(pool[k]) \subseteq AllUnits[k] /\ Distinct(pool[k])
  BY <1>1 DEF UnitsOK, PoolOK
<1>3. \A w \in Stored : Elems(rows[w].units[k]) \subseteq AllUnits[k]
  BY <1>1 DEF UnitsExclusive
<1>4. \A r \in Releasing : Elems(req[r].row.units[k]) \subseteq AllUnits[k]
  BY <1>1 DEF UnitsOK, GivenOK, Giving, Releasing
<1>5. CoverOK(k)
  BY <1>1 DEF UnitsOK
<1>6. AllUnits[k] \subseteq Elems(pool[k]) \cup UsedUnits(k)
                            \cup UNION {Elems(req[r].row.units[k]) : r \in Releasing}
  BY <1>5 DEF CoverOK, UsedUnits, Releasing, Giving
<1>7. Elems(pool[k]) \cup UsedUnits(k)
      \cup UNION {Elems(req[r].row.units[k]) : r \in Releasing} \subseteq AllUnits[k]
  BY <1>2, <1>3, <1>4 DEF UsedUnits
<1>8. ASSUME Deducting = {}
      PROVE  Elems(pool[k]) \cap UsedUnits(k) = {}
  <2>1. \A r \in Reqs : ~Committing(req[r])
    BY <1>8 DEF Deducting, Committing
  <2>2. \A w \in Stored : Apart(rows[w].units[k], pool[k])
    BY <1>1, <2>1 DEF UnitsOK, StoredOK
  <2>. QED BY <2>2 DEF Apart, UsedUnits
<1>. QED BY <1>2, <1>6, <1>7, <1>8

(* The amounts stay between zero and what the host has, so that `-=` on a  *)
(* u32 never wraps around, whatever calls fail and whenever the agent      *)
(* crashes, under the conditions of UnitsOwnedOnce (create_workload checks *)
(* the amounts, and keeps the mutex until it deducts them).                *)
THEOREM AmountsNeverWrap ==
    ASSUME Serialised, "c_deduct" \notin AbandonAt
    PROVE  Spec => []AmountsInRange
<1>1. Init => ResourceInv
  BY InitUnits
<1>2. TypeOK /\ ResourceInv /\ [Next]_vars => ResourceInv'
  BY NextUnits
<1>3. TypeOK /\ ResourceInv => AmountsInRange
  BY FreeInRange DEF AmountsInRange, ResourceInv, UnitInv
<1>. QED BY <1>1, <1>2, <1>3, TypeCorrect, PTL DEF Spec

(* Whenever the agent dies, DefaultWorkloadService::new accepts the table  *)
(* that it leaves: the rows never ask for more than the host has and never *)
(* share a GPU or a port, under the conditions of UnitsOwnedOnce.          *)
THEOREM TableAlwaysBootable ==
    ASSUME Serialised, "c_deduct" \notin AbandonAt
    PROVE  Spec => []AlwaysBootable
<1>1. Init => ResourceInv
  BY InitUnits
<1>2. TypeOK /\ ResourceInv /\ [Next]_vars => ResourceInv'
  BY NextUnits
<1>3. TypeOK /\ ResourceInv => AlwaysBootable
  <2>. SUFFICES ASSUME TypeOK, ResourceInv
                PROVE  Bootable
    BY DEF AlwaysBootable
  <2>1. ASSUME NEW s \in Scalars
        PROVE  Committed(s) \in 0..Total[s]
    <3>1. Committed(s) <= Total[s]
      BY DEF ResourceInv, AmountInv
    <3>. QED BY <3>1, Terms
  <2>. QED BY <2>1 DEF Bootable, ResourceInv, UnitInv
<1>. QED BY <1>1, <1>2, <1>3, TypeCorrect, PTL DEF Spec

(* Nothing of the host leaks and nothing is lent twice: while the agent    *)
(* runs, the free amounts, GPUs and ports, those of the stored workloads   *)
(* and those that a delete is about to give back are all that the host     *)
(* has, whatever calls fail and whenever the agent crashes, as long as the *)
(* requests for one workload do not overlap and none is dropped between    *)
(* its commit and what it does to the pools afterwards.                    *)
THEOREM NothingLeaks ==
    ASSUME Serialised, {"c_deduct", "d_stop", "d_free"} \cap AbandonAt = {}
    PROVE  Spec => []ResourcesConserved
<1>0. "c_deduct" \notin AbandonAt /\ NothingDropped
  BY DEF NothingDropped
<1>1. Init => ResourceInv
  BY InitUnits
<1>2. TypeOK /\ ResourceInv /\ [Next]_vars => ResourceInv'
  BY <1>0, NextUnits
<1>3. ResourceInv => ResourcesConserved
  <2>. SUFFICES ASSUME ResourceInv, phase # "down"
                PROVE  AmountsConserved /\ UnitsConserved
    BY DEF ResourcesConserved
  <2>1. UnitsConserved
    BY <1>0, UnitsAccounted DEF ResourceInv
  <2>2. AmountsConserved
    BY <1>0 DEF AmountsConserved, ResourceInv, AmountInv, AmountOK, Account
  <2>. QED BY <2>1, <2>2
<1>. QED BY <1>1, <1>2, <1>3, TypeCorrect, PTL DEF Spec

-----------------------------------------------------------------------------
(* Workers and rows. The worker of an enabled workload is in the map and   *)
(* holds the key the row names, but for the requests between a commit and  *)
(* what they do to the worker.                                             *)

RestartSteps == {"r_find", "r_env", "r_act", "r_write"}

EnabledRow(w) == w \in Stored /\ rows[w].enabled
Leaving(q) == q.pc \in {"c_commit", "d_stop", "s_vm"}
Spawning(q) == q.pc = "t_spawn"

WorkersOK(w) ==
    /\ \A s \in Managed(w) :
        \/ /\ EnabledRow(w) /\ w \notin pending
           /\ \A r \in Reqs : ~(Spawning(req[r]) /\ req[r].w = w)
        \/ \E r \in Reqs : Leaving(req[r]) /\ req[r].w = w
    /\ EnabledRow(w) => \/ w \in pending
                        \/ Managed(w) # {}
                        \/ \E r \in Reqs : Spawning(req[r]) /\ req[r].w = w
    /\ \A s, t \in Managed(w) : s = t
    /\ EnabledRow(w) /\ w \in Heartbeat => \A s \in Managed(w) : worker[s].key = rows[w].pk
    /\ w \in pending => EnabledRow(w) /\ (w \in Heartbeat => rows[w].pk \in availKeys)

RequestOK(q) ==
    /\ q.pc \notin RestartSteps
    /\ q.pc \in {"c_insert", "c_spawn"} =>
        q.row.enabled /\ q.row.pk = q.key /\ (q.w \in Heartbeat => q.key \in Keys)
    /\ q.pc = "c_commit" =>
        /\ q.row.enabled /\ Managed(q.w) # {}
        /\ q.w \in Heartbeat => /\ q.row.pk \in Keys
                                /\ \A s \in Managed(q.w) : worker[s].key = q.row.pk
    /\ q.pc = "t_write" => q.w \in Stored /\ ~rows[q.w].enabled /\ q.key \in Keys
    /\ q.pc = "t_spawn" =>
        EnabledRow(q.w) /\ (q.w \in Heartbeat => q.key = rows[q.w].pk)
    /\ q.pc \in {"d_stop", "s_vm"} => ~EnabledRow(q.w)

(* The keys that the enabled rows name.                                    *)
RowKeysOK ==
    /\ \A w \in Workloads : EnabledRow(w) /\ w \in Heartbeat => rows[w].pk \in Keys
    /\ \A w, v \in Workloads :
        EnabledRow(w) /\ EnabledRow(v) /\ w \in Heartbeat /\ v \in Heartbeat
            /\ rows[w].pk = rows[v].pk => w = v

(* The inductive invariant, on top of UnitInv and KeyInv.                  *)
HoldInv ==
    /\ \A r \in Reqs : RequestOK(req[r])
    /\ phase # "down" => \A w \in Workloads : WorkersOK(w)
    /\ RowKeysOK
    /\ phase = "down" => availKeys = Keys /\ \A s \in Slots : worker[s].st = "none"
    /\ phase = "serving" => pending = {}

Alike(p, q) == Like(p, q) /\ p.key = q.key

(* The part a request has in the workers of w.                             *)
SamePart(p, q, w) ==
    /\ (Spawning(p) /\ p.w = w) <=> (Spawning(q) /\ q.w = w)
    /\ (Leaving(p) /\ p.w = w) <=> (Leaving(q) /\ q.w = w)

(* The step leaves the workers that the map has for w.                     *)
SameMap(w) ==
    /\ Managed(w)' = Managed(w)
    /\ \A s \in Managed(w) : worker'[s].key = worker[s].key

(* A workload that the step is not about.                                  *)
LEMMA OtherWorkersOK ==
    ASSUME NEW w \in Workloads, WorkersOK(w), w \in pending' <=> w \in pending,
           rows'[w] = rows[w], SameMap(w),
           \A r \in Reqs : SamePart(req'[r], req[r], w),
           w \in pending /\ w \in Heartbeat /\ rows[w].pk \in availKeys => rows[w].pk \in availKeys'
    PROVE  WorkersOK(w)'
<1>1. EnabledRow(w)' <=> EnabledRow(w)
  BY DEF EnabledRow, Stored
<1>. QED BY <1>1 DEF WorkersOK, SameMap, SamePart

(* The workers of w as its only request q sees them.                       *)
MineOK(w, q) ==
    /\ Managed(w) # {} => (EnabledRow(w) /\ ~Spawning(q)) \/ Leaving(q)
    /\ EnabledRow(w) => Managed(w) # {} \/ Spawning(q)
    /\ \A s, t \in Managed(w) : s = t
    /\ EnabledRow(w) /\ w \in Heartbeat => \A s \in Managed(w) : worker[s].key = rows[w].pk

LEMMA MineHolds ==
    ASSUME ResourceInv, HoldInv, NEW r \in Reqs, Active(req[r]), req[r].w \in Workloads
    PROVE  MineOK(req[r].w, req[r]) /\ phase = "serving" /\ pending = {}
<1>1. phase = "serving" /\ pending = {} /\ WorkersOK(req[r].w)
  BY DEF ResourceInv, UnitInv, ControlInv, HoldInv
<1>2. \A q \in Reqs : (Leaving(req[q]) \/ Spawning(req[q])) /\ req[q].w = req[r].w => q = r
  BY DEF ResourceInv, UnitInv, ControlInv, Active, Leaving, Spawning
<1>. QED BY <1>1, <1>2 DEF MineOK, WorkersOK

(* In a serving agent the key of an enabled row is held by its worker or   *)
(* by the request that is about to spawn it, so no two rows name one key.  *)
LEMMA HeldRowKeys ==
    ASSUME KeyInv', \A w \in Workloads : WorkersOK(w)', \A q \in Reqs : RequestOK(req[q])',
           pending' = {},
           \A w \in Workloads : EnabledRow(w)' /\ w \in Heartbeat => rows'[w].pk \in Keys
    PROVE  RowKeysOK'
<1>. SUFFICES ASSUME NEW w \in Workloads, NEW v \in Workloads,
                     EnabledRow(w)', EnabledRow(v)', w \in Heartbeat, v \in Heartbeat,
                     rows'[w].pk = rows'[v].pk
              PROVE  w = v
  BY DEF RowKeysOK
<1>1. ASSUME NEW u \in Workloads, EnabledRow(u)', u \in Heartbeat
      PROVE  \/ \E s \in Slots : worker'[s].w = u /\ worker'[s].key = rows'[u].pk
             \/ \E q \in Reqs : req'[q].w = u /\ req'[q].key = rows'[u].pk
  <2>1. WorkersOK(u)'
    OBVIOUS
  <2>2. \/ Managed(u)' # {}
        \/ \E q \in Reqs : Spawning(req'[q]) /\ req'[q].w = u
    BY <1>1, <2>1 DEF WorkersOK
  <2>3. CASE Managed(u)' # {}
    BY <1>1, <2>1, <2>3 DEF WorkersOK, Managed
  <2>4. CASE \E q \in Reqs : Spawning(req'[q]) /\ req'[q].w = u
    BY <1>1, <2>4 DEF RequestOK, Spawning
  <2>. QED BY <2>2, <2>3, <2>4
<1>2. rows'[w].pk \in Keys /\ rows'[w].pk # NoKey
  BY NoKeyType
<1>3. /\ \A p, q \in Reqs : req'[p].key = req'[q].key /\ req'[p].key # NoKey => p = q
      /\ \A s, t \in Slots : worker'[s].key = worker'[t].key /\ worker'[s].key # NoKey => s = t
      /\ \A q \in Reqs, s \in Slots : req'[q].key = worker'[s].key => req'[q].key = NoKey
  BY DEF KeyInv, Partition, ReqKeys, WorkerKeys
<1>. QED BY <1>1, <1>2, <1>3

(* One request takes a step that touches only its own workload.            *)
LEMMA HoldStep ==
    ASSUME TypeOK, ResourceInv, HoldInv, KeyInv', UNCHANGED <<phase, pending>>,
           NEW r \in Reqs, Active(req[r]), NEW v \in Workloads, req[r].w = v,
           \A q \in Reqs \ {r} : Alike(req'[q], req[q]),
           Active(req'[r]) => req'[r].w = v,
           \A w \in Workloads \ {v} : rows'[w] = rows[w] /\ SameMap(w),
           RequestOK(req[r])', MineOK(v, req[r])',
           EnabledRow(v)' /\ v \in Heartbeat => rows'[v].pk \in Keys
    PROVE  HoldInv'
<1>1. phase = "serving" /\ pending = {}
  BY MineHolds
<1>2. \A q \in Reqs \ {r} : /\ Active(req[q]) => req[q].w \in Workloads \ {v}
                            /\ req'[q].pc = req[q].pc /\ req'[q].w = req[q].w
  BY RequestParts DEF ResourceInv, UnitInv, ControlInv, Alike, Like
<1>3. ASSUME NEW q \in Reqs PROVE RequestOK(req[q])'
  <2>1. CASE q = r
    BY <2>1
  <2>2. CASE q # r
    <3>1. RequestOK(req[q]) /\ Alike(req'[q], req[q])
      BY <2>2 DEF HoldInv
    <3>2. PICK u : u = req[q].w
      OBVIOUS
    <3>3. /\ req'[q].w = u /\ req'[q].pc = req[q].pc
          /\ req'[q].row = req[q].row /\ req'[q].key = req[q].key
      BY <3>1, <3>2 DEF Alike, Like
    <3>4. CASE ~Active(req[q])
      BY <3>3, <3>4 DEF RequestOK, Active, RestartSteps
    <3>5. CASE Active(req[q])
      <4>1. u \in Workloads /\ rows'[u] = rows[u] /\ SameMap(u)
        BY <1>2, <2>2, <3>2, <3>5
      <4>2. (u \in Stored' <=> u \in Stored) /\ (EnabledRow(u)' <=> EnabledRow(u))
        BY <4>1 DEF Stored, EnabledRow
      <4>. QED BY <3>1, <3>2, <3>3, <4>1, <4>2 DEF RequestOK, SameMap
    <3>. QED BY <3>4, <3>5
  <2>. QED BY <2>1, <2>2
<1>4. ASSUME NEW w \in Workloads PROVE WorkersOK(w)'
  <2>1. CASE w # v
    <3>1. ASSUME NEW q \in Reqs PROVE SamePart(req'[q], req[q], w)
      BY <1>2, <2>1 DEF SamePart, Spawning, Leaving, Active
    <3>2. WorkersOK(w)
      BY <1>1 DEF HoldInv
    <3>. QED BY <1>1, <2>1, <3>1, <3>2, OtherWorkersOK
  <2>2. CASE w = v
    <3>1. /\ Spawning(req'[r]) => req'[r].w = v
          /\ Leaving(req'[r]) => req'[r].w = v
      BY DEF Spawning, Leaving, Active
    <3>2. \A q \in Reqs : Spawning(req'[q]) /\ req'[q].w = v => q = r
      BY <1>2 DEF Spawning, Active
    <3>. QED BY <1>1, <2>2, <3>1, <3>2 DEF WorkersOK, MineOK, Spawning, Leaving
  <2>. QED BY <2>1, <2>2
<1>5. ASSUME NEW w \in Workloads, EnabledRow(w)', w \in Heartbeat
      PROVE  rows'[w].pk \in Keys
  <2>1. CASE w = v
    BY <1>5, <2>1
  <2>2. CASE w # v
    BY <1>5, <2>2 DEF HoldInv, RowKeysOK, EnabledRow, Stored
  <2>. QED BY <2>1, <2>2
<1>6. RowKeysOK'
  BY <1>1, <1>3, <1>4, <1>5, HeldRowKeys
<1>. QED BY <1>1, <1>3, <1>4, <1>6 DEF HoldInv

LEMMA MapUnchanged ==
    ASSUME UNCHANGED worker
    PROVE  \A w : SameMap(w)
  BY DEF SameMap, Managed

LEMMA CreateVmMap ==
    ASSUME TypeOK, NEW v \in Workloads, NEW k, NEW ks, CreateVm(v, k, ks), Managed(v) = {}
    PROVE  /\ \A w \in Workloads \ {v} : SameMap(w)
           /\ \E s \in Slots : Managed(v)' = {s} /\ worker'[s].key = k
           /\ availKeys' = ks
<1>1. PICK c : c = [st |-> "managed", w |-> v, key |-> k, restart |-> FALSE]
  OBVIOUS
<1>2. PICK s \in Slots : worker[s].st = "none" /\ worker' = [worker EXCEPT ![s] = c]
  BY <1>1 DEF CreateVm
<1>3. worker'[s] = c /\ \A t \in Slots \ {s} : worker'[t] = worker[t]
  BY <1>2 DEF TypeOK
<1>4. c.st = "managed" /\ c.w = v /\ c.key = k
  BY <1>1
<1>5. ASSUME NEW w \in Workloads \ {v} PROVE SameMap(w)
  BY <1>2, <1>3, <1>4 DEF SameMap, Managed
<1>6. Managed(v)' = {s}
  BY <1>2, <1>3, <1>4 DEF Managed
<1>. QED BY <1>3, <1>4, <1>5, <1>6 DEF CreateVm

LEMMA DeleteVmMap ==
    ASSUME TypeOK, NEW v \in Workloads, DeleteVm(v)
    PROVE  Managed(v)' = {} /\ \A w \in Workloads \ {v} : SameMap(w)
<1>1. \A s \in Slots : /\ s \in Managed(v) => worker'[s].st = "exiting"
                       /\ s \notin Managed(v) => worker'[s] = worker[s]
  BY DEF DeleteVm, TypeOK, Worker
<1>. QED BY <1>1 DEF Managed, SameMap

LEMMA AfterCommitAlike ==
    ASSUME NEW rs \in [Reqs -> Request], NEW r \in Reqs, NEW q \in Reqs
    PROVE  Alike(AfterCommit(rs, r)[q], rs[q])
  BY AfterCommitLike, AfterCommitKeeps DEF Alike

(* A step that leaves the table and the map alone.                         *)
LEMMA HoldQuiet ==
    ASSUME TypeOK, ResourceInv, HoldInv, KeyInv', UNCHANGED <<phase, pending, rows, worker>>,
           NEW r \in Reqs, Active(req[r]), ~Leaving(req[r]), ~Spawning(req[r]),
           \A q \in Reqs \ {r} : Alike(req'[q], req[q]),
           Active(req'[r]) => req'[r].w = req[r].w,
           ~Leaving(req'[r]), ~Spawning(req'[r]), RequestOK(req[r])'
    PROVE  HoldInv'
<1>1. PICK v \in Workloads : v = req[r].w
  BY RequestParts
<1>2. MineOK(v, req[r])
  BY <1>1, MineHolds
<1>3. EnabledRow(v)' <=> EnabledRow(v)
  BY DEF EnabledRow, Stored
<1>4. SameMap(v) /\ \A w \in Workloads \ {v} : rows'[w] = rows[w] /\ SameMap(w)
  BY MapUnchanged
<1>5. MineOK(v, req[r])'
  BY <1>2, <1>3, <1>4 DEF MineOK, SameMap, Spawning, Leaving
<1>6. EnabledRow(v)' /\ v \in Heartbeat => rows'[v].pk \in Keys
  BY <1>3 DEF HoldInv, RowKeysOK
<1>. QED BY <1>1, <1>4, <1>5, <1>6, HoldStep

LEMMA IdleRequestOK == \A w : /\ Idle(w).pc = "idle" /\ ~Active(Idle(w))
                              /\ ~Leaving(Idle(w)) /\ ~Spawning(Idle(w))
  BY DEF Idle, Active, Leaving, Spawning

LEMMA HoldEnd ==
    ASSUME TypeOK, ResourceInv, HoldInv, KeyInv', UNCHANGED <<phase, pending, rows, worker>>,
           NEW r \in Reqs, Active(req[r]), ~Leaving(req[r]), ~Spawning(req[r]), End(r)
    PROVE  HoldInv'
<1>1. req'[r] = Idle(AnyWorkload) /\ \A q \in Reqs \ {r} : Alike(req'[q], req[q])
  BY EndIsIdle DEF Alike
<1>2. req'[r].pc = "idle" /\ ~Active(req'[r]) /\ ~Leaving(req'[r]) /\ ~Spawning(req'[r])
  BY <1>1, IdleRequestOK
<1>3. RequestOK(req[r])'
  BY <1>2 DEF RequestOK, RestartSteps
<1>. QED BY <1>1, <1>2, <1>3, HoldQuiet

LEMMA CreateHold ==
    ASSUME TypeOK, ResourceInv, KeyInv, HoldInv, KeyInv', NEW r \in Reqs, CreateStep(r)
    PROVE  HoldInv'
<1>0. PICK v \in Workloads : v = req[r].w
  BY RequestParts
<1>1. RequestOK(req[r])
  BY DEF HoldInv
<1>2. CASE CreateLock(r) \/ CreateInsert(r) \/ CreateDeduct(r)
  <2>1. UNCHANGED <<phase, pending, rows, worker>>
    BY <1>2 DEF CreateLock, CreateInsert, CreateDeduct
  <2>2. req[r].pc \in {"c_lock", "c_insert", "c_deduct"}
    BY <1>2 DEF CreateLock, CreateInsert, CreateDeduct
  <2>3. Active(req[r]) /\ ~Leaving(req[r]) /\ ~Spawning(req[r])
    BY <2>2 DEF Active, Leaving, Spawning
  <2>4. CASE End(r)
    BY <2>1, <2>3, <2>4, HoldEnd
  <2>5. CASE CreateLock(r) /\ ~End(r)
    <3>1. PICK k, row :
            /\ v \in Heartbeat => k \in Keys
            /\ row = [exists |-> TRUE, enabled |-> TRUE, pk |-> k, units |-> Taken(v)]
            /\ req' = [req EXCEPT ![r].pc = "c_insert", ![r].locked = TRUE,
                                  ![r].key = k, ![r].row = row]
      BY <1>0, <2>5 DEF CreateLock, IsNextKey, TypeOK
    <3>2. \A q \in Reqs \ {r} : Alike(req'[q], req[q])
      BY <3>1 DEF TypeOK, Alike, Like
    <3>3. /\ req'[r].pc = "c_insert" /\ req'[r].w = v /\ req'[r].key = k
          /\ req'[r].row = row
      BY <1>0, <3>1 DEF TypeOK, Request
    <3>4. row.enabled /\ row.pk = k
      BY <3>1
    <3>5. RequestOK(req[r])' /\ ~Leaving(req'[r]) /\ ~Spawning(req'[r])
      BY <3>1, <3>3, <3>4 DEF RequestOK, RestartSteps, Leaving, Spawning
    <3>. QED BY <1>0, <2>1, <2>3, <3>2, <3>3, <3>5, HoldQuiet
  <2>6. CASE CreateInsert(r) /\ ~End(r)
    <3>1. req' = [req EXCEPT ![r].pc = "c_spawn", ![r].writing = TRUE] /\ req[r].pc = "c_insert"
      BY <2>6 DEF CreateInsert
    <3>2. \A q \in Reqs \ {r} : Alike(req'[q], req[q])
      BY <3>1 DEF TypeOK, Alike, Like
    <3>3. /\ req'[r].pc = "c_spawn" /\ req'[r].w = v /\ req'[r].key = req[r].key
          /\ req'[r].row = req[r].row
      BY <1>0, <3>1 DEF TypeOK, Request
    <3>5. RequestOK(req[r])' /\ ~Leaving(req'[r]) /\ ~Spawning(req'[r])
      BY <1>0, <1>1, <3>1, <3>3 DEF RequestOK, RestartSteps, Leaving, Spawning
    <3>. QED BY <1>0, <2>1, <2>3, <3>2, <3>3, <3>5, HoldQuiet
  <2>. QED BY <1>2, <2>4, <2>5, <2>6 DEF CreateDeduct
<1>3. CASE CreateSpawn(r)
  <2>1. /\ req[r].pc = "c_spawn" /\ UNCHANGED <<phase, pending, rows>>
        /\ CreateVm(v, req[r].key, availKeys)
        /\ req' = [req EXCEPT ![r].pc = "c_commit", ![r].key = NoKey]
    BY <1>0, <1>3 DEF CreateSpawn
  <2>2. Active(req[r]) /\ ~Leaving(req[r]) /\ v \notin Stored
    BY <1>0, <2>1 DEF Active, Leaving, ResourceInv, UnitInv, ControlInv, Inserted
  <2>3. Managed(v) = {}
    BY <1>0, <2>2, MineHolds DEF MineOK, EnabledRow
  <2>4. PICK s \in Slots : Managed(v)' = {s} /\ worker'[s].key = req[r].key
    BY <2>1, <2>3, CreateVmMap
  <2>5. \A w \in Workloads \ {v} : rows'[w] = rows[w] /\ SameMap(w)
    BY <2>1, <2>3, CreateVmMap
  <2>6. \A q \in Reqs \ {r} : Alike(req'[q], req[q])
    BY <2>1 DEF TypeOK, Alike, Like
  <2>7. req'[r].pc = "c_commit" /\ req'[r].w = v /\ req'[r].row = req[r].row
    BY <1>0, <2>1 DEF TypeOK, Request
  <2>8. RequestOK(req[r])'
    BY <1>0, <1>1, <2>1, <2>4, <2>7 DEF RequestOK, RestartSteps
  <2>9. ~EnabledRow(v)'
    BY <2>1, <2>2 DEF EnabledRow, Stored
  <2>10. MineOK(v, req[r])'
    BY <2>4, <2>7, <2>9 DEF MineOK, Leaving
  <2>. QED BY <1>0, <2>1, <2>2, <2>5, <2>6, <2>7, <2>8, <2>9, <2>10, HoldStep
<1>4. CASE CreateCommit(r)
  <2>. DEFINE rs == [req EXCEPT ![r].pc = "c_deduct", ![r].writing = FALSE]
  <2>1. /\ req[r].pc = "c_commit" /\ req' = AfterCommit(rs, r)
        /\ UNCHANGED <<phase, pending, worker>>
        /\ rows' = [rows EXCEPT ![v] = req[r].row]
    BY <1>0, <1>4 DEF CreateCommit
  <2>2. rs \in [Reqs -> Request]
    BY StepNames, GotoWritingType DEF TypeOK
  <2>3. /\ \A q \in Reqs \ {r} : rs[q] = req[q]
        /\ rs[r].pc = "c_deduct" /\ rs[r].w = v
    BY <1>0 DEF TypeOK, Request
  <2>. HIDE DEF rs
  <2>4. /\ \A q \in Reqs \ {r} : Alike(req'[q], req[q])
        /\ req'[r].pc = "c_deduct" /\ req'[r].w = v
    BY <2>1, <2>2, <2>3, AfterCommitAlike, AfterCommitLike DEF Like
  <2>5. Active(req[r]) /\ ~Spawning(req[r])
    BY <2>1 DEF Active, Spawning
  <2>6. rows'[v] = req[r].row /\ \A w \in Workloads \ {v} : rows'[w] = rows[w] /\ SameMap(w)
    BY <2>1, MapUnchanged DEF TypeOK
  <2>7. RequestOK(req[r])'
    BY <2>4 DEF RequestOK, RestartSteps
  <2>8. SameMap(v) /\ MineOK(v, req[r])
    BY <1>0, <2>1, <2>5, MapUnchanged, MineHolds
  <2>9. /\ req[r].row.enabled /\ Managed(v) # {}
        /\ v \in Heartbeat => /\ req[r].row.pk \in Keys
                              /\ \A s \in Managed(v) : worker[s].key = req[r].row.pk
    BY <1>0, <1>1, <2>1 DEF RequestOK
  <2>10. EnabledRow(v)'
    <3>1. req[r].row.exists
      BY <2>1 DEF ResourceInv, UnitInv, ControlInv, Choosing
    <3>. QED BY <2>6, <2>9, <3>1 DEF EnabledRow, Stored
  <2>11. MineOK(v, req[r])'
    BY <2>4, <2>6, <2>8, <2>9, <2>10 DEF MineOK, SameMap, Spawning
  <2>. QED BY <1>0, <2>1, <2>4, <2>5, <2>6, <2>7, <2>9, <2>11, HoldStep
<1>. QED BY <1>2, <1>3, <1>4 DEF CreateStep

LEMMA DeleteHold ==
    ASSUME TypeOK, ResourceInv, KeyInv, HoldInv, KeyInv', NEW r \in Reqs, DeleteStep(r)
    PROVE  HoldInv'
<1>0. PICK v \in Workloads : v = req[r].w
  BY RequestParts
<1>1. RequestOK(req[r])
  BY DEF HoldInv
<1>2. CASE DeleteFind(r) \/ DeleteFree(r)
  <2>1. UNCHANGED <<phase, pending, rows, worker>>
    BY <1>2 DEF DeleteFind, DeleteFree
  <2>2. req[r].pc \in {"d_find", "d_free"}
    BY <1>2 DEF DeleteFind, DeleteFree
  <2>3. Active(req[r]) /\ ~Leaving(req[r]) /\ ~Spawning(req[r])
    BY <2>2 DEF Active, Leaving, Spawning
  <2>4. CASE End(r)
    BY <2>1, <2>3, <2>4, HoldEnd
  <2>5. CASE DeleteFind(r) /\ ~End(r)
    <3>1. req' = [req EXCEPT ![r].pc = "d_erase", ![r].row = rows[v]]
      BY <1>0, <2>5 DEF DeleteFind
    <3>2. \A q \in Reqs \ {r} : Alike(req'[q], req[q])
      BY <3>1 DEF TypeOK, Alike, Like
    <3>3. req'[r].pc = "d_erase" /\ req'[r].w = v
      BY <1>0, <3>1 DEF TypeOK, Request
    <3>5. RequestOK(req[r])' /\ ~Leaving(req'[r]) /\ ~Spawning(req'[r])
      BY <3>3 DEF RequestOK, RestartSteps, Leaving, Spawning
    <3>. QED BY <1>0, <2>1, <2>3, <3>2, <3>3, <3>5, HoldQuiet
  <2>. QED BY <1>2, <2>4, <2>5 DEF DeleteFree
<1>3. CASE DeleteErase(r)
  <2>. DEFINE rs == [req EXCEPT ![r].pc = "d_stop"]
  <2>1. /\ req[r].pc = "d_erase" /\ (req' = AfterCommit(rs, r) \/ req' = rs)
        /\ UNCHANGED <<phase, pending, worker>> /\ rows' = [rows EXCEPT ![v] = NoRow]
    BY <1>0, <1>3 DEF DeleteErase
  <2>2. rs \in [Reqs -> Request]
    BY StepNames, GotoType DEF TypeOK
  <2>3. /\ \A q \in Reqs \ {r} : rs[q] = req[q]
        /\ rs[r].pc = "d_stop" /\ rs[r].w = v
    BY <1>0 DEF TypeOK, Request
  <2>. HIDE DEF rs
  <2>4. /\ \A q \in Reqs \ {r} : Alike(req'[q], req[q])
        /\ req'[r].pc = "d_stop" /\ req'[r].w = v
    <3>1. CASE req' = rs
      BY <2>3, <3>1 DEF Alike, Like
    <3>2. CASE req' = AfterCommit(rs, r)
      BY <2>2, <2>3, <3>2, AfterCommitAlike, AfterCommitLike DEF Like
    <3>. QED BY <2>1, <3>1, <3>2
  <2>5. Active(req[r])
    BY <2>1 DEF Active
  <2>6. rows'[v] = NoRow /\ \A w \in Workloads \ {v} : rows'[w] = rows[w] /\ SameMap(w)
    BY <2>1, MapUnchanged DEF TypeOK
  <2>7. ~EnabledRow(v)'
    BY <2>6 DEF EnabledRow, Stored, NoRow
  <2>8. RequestOK(req[r])'
    BY <2>4, <2>7 DEF RequestOK, RestartSteps
  <2>9. SameMap(v) /\ MineOK(v, req[r])
    BY <1>0, <2>1, <2>5, MapUnchanged, MineHolds
  <2>10. MineOK(v, req[r])'
    BY <2>4, <2>7, <2>9 DEF MineOK, SameMap, Leaving
  <2>. QED BY <1>0, <2>1, <2>4, <2>5, <2>6, <2>7, <2>8, <2>10, HoldStep
<1>4. CASE DeleteStop(r)
  <2>1. /\ req[r].pc = "d_stop" /\ UNCHANGED <<phase, pending, rows>> /\ DeleteVm(v)
        /\ req' = [req EXCEPT ![r].pc = "d_free"]
    BY <1>0, <1>4 DEF DeleteStop, Goto
  <2>2. \A q \in Reqs \ {r} : Alike(req'[q], req[q])
    BY <2>1 DEF TypeOK, Alike, Like
  <2>3. req'[r].pc = "d_free" /\ req'[r].w = v
    BY <1>0, <2>1 DEF TypeOK, Request
  <2>4. ~EnabledRow(v)'
    BY <1>0, <1>1, <2>1 DEF RequestOK, EnabledRow, Stored
  <2>5. Managed(v)' = {} /\ \A w \in Workloads \ {v} : rows'[w] = rows[w] /\ SameMap(w)
    BY <2>1, DeleteVmMap
  <2>6. RequestOK(req[r])' /\ MineOK(v, req[r])' /\ Active(req[r])
    BY <2>1, <2>3, <2>4, <2>5 DEF RequestOK, RestartSteps, MineOK, Active
  <2>. QED BY <1>0, <2>1, <2>2, <2>3, <2>4, <2>5, <2>6, HoldStep
<1>. QED BY <1>2, <1>3, <1>4 DEF DeleteStep

LEMMA StopHold ==
    ASSUME TypeOK, ResourceInv, KeyInv, HoldInv, KeyInv', NEW r \in Reqs, StopStep(r)
    PROVE  HoldInv'
<1>0. PICK v \in Workloads : v = req[r].w
  BY RequestParts
<1>1. RequestOK(req[r])
  BY DEF HoldInv
<1>2. UNCHANGED <<phase, pending>> /\ Active(req[r])
  BY DEF StopStep, StopFind, StopWrite, StopVm, Active
<1>3. CASE ~StopVm(r) /\ End(r) /\ UNCHANGED rows
  <2>1. req[r].pc \in {"s_find", "s_write"} /\ UNCHANGED worker
    BY <1>3 DEF StopStep, StopFind, StopWrite
  <2>. QED BY <1>2, <1>3, <2>1, HoldEnd DEF Leaving, Spawning
<1>4. CASE StopFind(r) /\ ~End(r)
  <2>1. /\ req' = [req EXCEPT ![r].pc = "s_write"] /\ UNCHANGED <<rows, worker>>
        /\ req[r].pc = "s_find"
    BY <1>4 DEF StopFind
  <2>2. \A q \in Reqs \ {r} : Alike(req'[q], req[q])
    BY <2>1 DEF TypeOK, Alike, Like
  <2>3. req'[r].pc = "s_write" /\ req'[r].w = v
    BY <1>0, <2>1 DEF TypeOK, Request
  <2>4. RequestOK(req[r])' /\ ~Leaving(req'[r]) /\ ~Spawning(req'[r])
    BY <2>3 DEF RequestOK, RestartSteps, Leaving, Spawning
  <2>5. ~Leaving(req[r]) /\ ~Spawning(req[r])
    BY <2>1 DEF Leaving, Spawning
  <2>. QED BY <1>0, <1>2, <2>1, <2>2, <2>3, <2>4, <2>5, HoldQuiet
<1>5. CASE StopWrite(r) /\ ~(End(r) /\ UNCHANGED rows)
  <2>. DEFINE rs == [req EXCEPT ![r].pc = "s_vm"]
  <2>1. /\ req' = AfterCommit(rs, r) /\ UNCHANGED worker
        /\ rows' = [rows EXCEPT ![v].enabled = FALSE, ![v].pk = NoKey]
    BY <1>0, <1>5 DEF StopWrite
  <2>2. rs \in [Reqs -> Request]
    BY StepNames, GotoType DEF TypeOK
  <2>3. /\ \A q \in Reqs \ {r} : rs[q] = req[q]
        /\ rs[r].pc = "s_vm" /\ rs[r].w = v
    BY <1>0 DEF TypeOK, Request
  <2>. HIDE DEF rs
  <2>4. /\ \A q \in Reqs \ {r} : Alike(req'[q], req[q])
        /\ req'[r].pc = "s_vm" /\ req'[r].w = v
    BY <2>1, <2>2, <2>3, AfterCommitAlike, AfterCommitLike DEF Like
  <2>5. \A w \in Workloads \ {v} : rows'[w] = rows[w] /\ SameMap(w)
    BY <2>1, MapUnchanged DEF TypeOK
  <2>6. ~EnabledRow(v)'
    BY <2>1 DEF EnabledRow, TypeOK, Row
  <2>7. RequestOK(req[r])'
    BY <2>4, <2>6 DEF RequestOK, RestartSteps
  <2>8. SameMap(v) /\ MineOK(v, req[r])
    BY <1>0, <1>2, <2>1, MapUnchanged, MineHolds
  <2>9. MineOK(v, req[r])'
    BY <2>4, <2>6, <2>8 DEF MineOK, SameMap, Leaving
  <2>. QED BY <1>0, <1>2, <2>4, <2>5, <2>6, <2>7, <2>9, HoldStep
<1>6. CASE StopVm(r)
  <2>1. req[r].pc = "s_vm" /\ UNCHANGED rows /\ DeleteVm(v) /\ End(r)
    BY <1>0, <1>6 DEF StopVm
  <2>2. req'[r] = Idle(AnyWorkload) /\ \A q \in Reqs \ {r} : Alike(req'[q], req[q])
    BY <2>1, EndIsIdle DEF Alike, End, Ended, TypeOK
  <2>3. ~Active(req'[r]) /\ req'[r].pc = "idle"
    BY <2>2, IdleRequestOK
  <2>4. ~EnabledRow(v)'
    BY <1>0, <1>1, <2>1 DEF RequestOK, EnabledRow, Stored
  <2>5. Managed(v)' = {} /\ \A w \in Workloads \ {v} : rows'[w] = rows[w] /\ SameMap(w)
    BY <2>1, DeleteVmMap
  <2>6. RequestOK(req[r])' /\ MineOK(v, req[r])'
    BY <2>3, <2>4, <2>5 DEF RequestOK, RestartSteps, MineOK
  <2>. QED BY <1>0, <1>2, <2>2, <2>3, <2>4, <2>5, <2>6, HoldStep
<1>. QED BY <1>3, <1>4, <1>5, <1>6 DEF StopStep, StopFind

LEMMA StartHold ==
    ASSUME TypeOK, ResourceInv, KeyInv, HoldInv, KeyInv', NEW r \in Reqs, StartStep(r)
    PROVE  HoldInv'
<1>0. PICK v \in Workloads : v = req[r].w
  BY RequestParts
<1>1. RequestOK(req[r])
  BY DEF HoldInv
<1>2. UNCHANGED <<phase, pending>> /\ Active(req[r])
  BY DEF StartStep, StartFind, StartWrite, StartSpawn, Active
<1>3. CASE ~StartSpawn(r) /\ End(r) /\ UNCHANGED rows
  <2>1. req[r].pc \in {"t_find", "t_write"} /\ UNCHANGED worker
    BY <1>3 DEF StartStep, StartFind, StartWrite
  <2>. QED BY <1>2, <1>3, <2>1, HoldEnd DEF Leaving, Spawning
<1>4. CASE StartFind(r) /\ ~End(r)
  <2>1. PICK k \in availKeys : req' = [req EXCEPT ![r].pc = "t_write", ![r].key = k]
    BY <1>4 DEF StartFind
  <2>2. /\ UNCHANGED <<rows, worker>> /\ rows[v].exists /\ ~rows[v].enabled
        /\ req[r].pc = "t_find"
    BY <1>0, <1>4 DEF StartFind
  <2>3. \A q \in Reqs \ {r} : Alike(req'[q], req[q])
    BY <2>1 DEF TypeOK, Alike, Like
  <2>4. req'[r].pc = "t_write" /\ req'[r].w = v /\ req'[r].key \in Keys
    BY <1>0, <2>1 DEF TypeOK, Request
  <2>5. RequestOK(req[r])' /\ ~Leaving(req'[r]) /\ ~Spawning(req'[r])
    BY <2>2, <2>4 DEF RequestOK, RestartSteps, Leaving, Spawning, Stored
  <2>6. ~Leaving(req[r]) /\ ~Spawning(req[r])
    BY <2>2 DEF Leaving, Spawning
  <2>. QED BY <1>0, <1>2, <2>2, <2>3, <2>4, <2>5, <2>6, HoldQuiet
<1>5. CASE StartWrite(r) /\ ~(End(r) /\ UNCHANGED rows)
  <2>. DEFINE rs == [req EXCEPT ![r].pc = "t_spawn"]
  <2>1. PICK k : k = IF v \in Heartbeat THEN req[r].key ELSE rows[v].pk
    OBVIOUS
  <2>2. /\ req' = AfterCommit(rs, r) /\ UNCHANGED worker /\ req[r].pc = "t_write"
        /\ rows' = [rows EXCEPT ![v].enabled = TRUE, ![v].pk = k]
    BY <1>0, <1>5, <2>1 DEF StartWrite, TypeOK, Row
  <2>3. rs \in [Reqs -> Request]
    BY StepNames, GotoType DEF TypeOK
  <2>4. /\ \A q \in Reqs \ {r} : rs[q] = req[q]
        /\ rs[r].pc = "t_spawn" /\ rs[r].w = v /\ rs[r].key = req[r].key
    BY <1>0 DEF TypeOK, Request
  <2>. HIDE DEF rs
  <2>5. /\ \A q \in Reqs \ {r} : Alike(req'[q], req[q])
        /\ req'[r].pc = "t_spawn" /\ req'[r].w = v /\ req'[r].key = req[r].key
    BY <2>2, <2>3, <2>4, AfterCommitAlike, AfterCommitLike DEF Like
  <2>6. \A w \in Workloads \ {v} : rows'[w] = rows[w] /\ SameMap(w)
    BY <2>2, MapUnchanged DEF TypeOK
  <2>7. /\ rows'[v].enabled /\ rows'[v].pk = k /\ rows'[v].exists = rows[v].exists
    BY <2>2 DEF TypeOK, Row
  <2>8. v \in Stored /\ ~rows[v].enabled /\ req[r].key \in Keys
    BY <1>0, <1>1, <2>2 DEF RequestOK
  <2>9. EnabledRow(v)' /\ (v \in Heartbeat => rows'[v].pk = req[r].key)
    BY <2>1, <2>7, <2>8 DEF EnabledRow, Stored
  <2>10. RequestOK(req[r])'
    BY <2>5, <2>9 DEF RequestOK, RestartSteps
  <2>11. SameMap(v) /\ Managed(v) = {}
    <3>1. ~Leaving(req[r]) /\ ~EnabledRow(v)
      BY <2>2, <2>8 DEF Leaving, EnabledRow
    <3>. QED BY <1>0, <1>2, <2>2, <3>1, MapUnchanged, MineHolds DEF MineOK
  <2>12. MineOK(v, req[r])'
    BY <2>5, <2>11 DEF MineOK, SameMap, Spawning
  <2>. QED BY <1>0, <1>2, <2>5, <2>6, <2>8, <2>9, <2>10, <2>12, HoldStep
<1>6. CASE StartSpawn(r)
  <2>1. /\ req[r].pc = "t_spawn" /\ UNCHANGED rows /\ req' = Ended(r)
        /\ CreateVm(v, req[r].key, availKeys)
    BY <1>0, <1>6 DEF StartSpawn
  <2>2. Managed(v) = {}
    BY <1>0, <1>2, <2>1, MineHolds DEF MineOK, Spawning, Leaving
  <2>3. PICK s \in Slots : Managed(v)' = {s} /\ worker'[s].key = req[r].key
    BY <2>1, <2>2, CreateVmMap
  <2>4. \A w \in Workloads \ {v} : rows'[w] = rows[w] /\ SameMap(w)
    BY <2>1, <2>2, CreateVmMap
  <2>5. req'[r] = Idle(AnyWorkload) /\ \A q \in Reqs \ {r} : Alike(req'[q], req[q])
    BY <2>1 DEF Ended, TypeOK, Alike, Like
  <2>6. ~Active(req'[r]) /\ ~Spawning(req'[r]) /\ req'[r].pc = "idle"
    BY <2>5, IdleRequestOK
  <2>7. EnabledRow(v)' /\ EnabledRow(v) /\ (v \in Heartbeat => rows'[v].pk = req[r].key)
    BY <1>0, <1>1, <2>1 DEF RequestOK, EnabledRow, Stored
  <2>8. v \in Heartbeat => rows'[v].pk \in Keys
    BY <2>1, <2>7 DEF HoldInv, RowKeysOK
  <2>9. RequestOK(req[r])' /\ MineOK(v, req[r])'
    BY <2>3, <2>6, <2>7 DEF RequestOK, RestartSteps, MineOK
  <2>. QED BY <1>0, <1>2, <2>4, <2>5, <2>6, <2>8, <2>9, HoldStep
<1>. QED BY <1>3, <1>4, <1>5, <1>6 DEF StartStep, StartFind

(* The table stays, the map too, and no request changes its part in it.    *)
LEMMA HoldFrame ==
    ASSUME HoldInv, UNCHANGED <<pending, rows>>,
           phase # "down", phase' = phase \/ (phase' = "serving" /\ pending = {}),
           \A w \in Workloads : SameMap(w) /\ \A q \in Reqs : SamePart(req'[q], req[q], w),
           \A q \in Reqs : RequestOK(req[q])',
           availKeys \subseteq availKeys'
    PROVE  HoldInv'
<1>1. ASSUME NEW w \in Workloads PROVE WorkersOK(w)'
  BY OtherWorkersOK DEF HoldInv
<1>2. RowKeysOK'
  BY DEF HoldInv, RowKeysOK, EnabledRow, Stored
<1>. QED BY <1>1, <1>2 DEF HoldInv

LEMMA SameRequestOK ==
    ASSUME HoldInv, UNCHANGED <<req, rows>>, \A w \in Workloads : SameMap(w), TypeOK
    PROVE  \A q \in Reqs : RequestOK(req[q])' /\ \A w : SamePart(req'[q], req[q], w)
<1>. SUFFICES ASSUME NEW q \in Reqs PROVE RequestOK(req[q])'
  BY DEF SamePart
<1>1. req[q].w \in Workloads /\ RequestOK(req[q])
  BY RequestParts DEF HoldInv
<1>. QED BY <1>1 DEF RequestOK, SameMap, EnabledRow, Stored

(* The steps at which a request that ends leaves the worker and the row of *)
(* its workload in disagreement, or the pools and the row.                 *)
CommittedSteps == {"c_commit", "c_deduct", "t_spawn", "d_stop", "s_vm"}

LEMMA ArriveHold ==
    ASSUME Serialised, "restart" \notin Ops, CommittedSteps \cap AbandonAt = {},
           TypeOK, ResourceInv, KeyInv, HoldInv, KeyInv', NEW r \in Reqs, Arrive(r) \/ Abandon(r)
    PROVE  HoldInv'
<1>0. UNCHANGED <<phase, pending, rows, worker>> /\ \A w : SameMap(w)
  BY MapUnchanged DEF Arrive, Abandon
<1>1. CASE Arrive(r)
  <2>1. PICK op \in Ops, w \in Workloads, env \in BOOLEAN :
            req' = [req EXCEPT ![r] = [Idle(w) EXCEPT !.pc = FirstStep[op], !.env = env]]
    BY <1>1 DEF Arrive
  <2>2. /\ req'[r] = [Idle(w) EXCEPT !.pc = FirstStep[op], !.env = env]
        /\ \A q \in Reqs \ {r} : req'[q] = req[q]
    BY <2>1 DEF TypeOK
  <2>3. req'[r].pc = FirstStep[op]
    BY <2>2 DEF Idle
  <2>4. FirstStep[op] \in {"c_lock", "d_find", "s_find", "t_find"}
    BY ConstantsAssumption DEF FirstStep, AllOps
  <2>5. ~Leaving(req'[r]) /\ ~Spawning(req'[r]) /\ ~Leaving(req[r]) /\ ~Spawning(req[r])
    BY <1>1, <2>3, <2>4 DEF Leaving, Spawning, Arrive
  <2>6. \A q \in Reqs, u \in Workloads : SamePart(req'[q], req[q], u)
    BY <2>2, <2>5 DEF SamePart
  <2>7. ASSUME NEW q \in Reqs PROVE RequestOK(req[q])'
    <3>1. CASE q = r
      BY <2>3, <2>4, <3>1 DEF RequestOK, RestartSteps
    <3>2. CASE q # r
      <4>1. RequestOK(req[q]) /\ req'[q] = req[q] /\ SameMap(req[q].w)
        BY <1>0, <2>2, <3>2 DEF HoldInv
      <4>. QED BY <1>0, <4>1 DEF RequestOK, SameMap, EnabledRow, Stored
    <3>. QED BY <3>1, <3>2
  <2>. QED BY <1>0, <1>1, <2>6, <2>7, HoldFrame DEF Arrive
<1>2. CASE Abandon(r)
  <2>1. End(r) /\ req[r].pc \notin CommittedSteps
    BY <1>2 DEF Abandon
  <2>2. ~Leaving(req[r]) /\ ~Spawning(req[r])
    BY <2>1 DEF CommittedSteps, Leaving, Spawning
  <2>3. CASE Active(req[r])
    BY <1>0, <2>1, <2>2, <2>3, HoldEnd
  <2>4. CASE ~Active(req[r])
    <3>1. req'[r] = Idle(AnyWorkload) /\ \A q \in Reqs \ {r} : req'[q] = req[q]
      BY <2>1, EndIsIdle
    <3>2. req'[r].pc = "idle" /\ ~Leaving(req'[r]) /\ ~Spawning(req'[r])
      BY <3>1, IdleRequestOK
    <3>3. \A q \in Reqs, u \in Workloads : SamePart(req'[q], req[q], u)
      BY <2>2, <3>1, <3>2 DEF SamePart
    <3>4. ASSUME NEW q \in Reqs PROVE RequestOK(req[q])'
      <4>1. CASE q = r
        BY <3>2, <4>1 DEF RequestOK, RestartSteps
      <4>2. CASE q # r
        <5>1. RequestOK(req[q]) /\ req'[q] = req[q] /\ SameMap(req[q].w)
          BY <1>0, <3>1, <4>2 DEF HoldInv
        <5>. QED BY <1>0, <5>1 DEF RequestOK, SameMap, EnabledRow, Stored
      <4>. QED BY <4>1, <4>2
    <3>5. availKeys' = availKeys
      BY <2>1, <2>4 DEF End, KeySet, KeyInv, KeySteps, Active
    <3>6. CASE phase # "down"
      BY <1>0, <3>3, <3>4, <3>5, <3>6, HoldFrame
    <3>7. CASE phase = "down"
      <4>1. RowKeysOK'
        BY <1>0 DEF HoldInv, RowKeysOK, EnabledRow, Stored
      <4>. QED BY <1>0, <3>4, <3>5, <3>7, <4>1 DEF HoldInv
    <3>. QED BY <3>6, <3>7
  <2>. QED BY <2>3, <2>4
<1>. QED BY <1>1, <1>2

LEMMA WorkerHold ==
    ASSUME TypeOK, HoldInv, NEW s \in Slots, WorkerStep(s)
    PROVE  HoldInv'
<1>1. UNCHANGED <<phase, pending, req, rows>> /\ phase # "down"
  BY DEF WorkerStep, WorkerStart, WorkerBootstrap, WorkerRestart, WorkerExit, HoldInv
<1>2. /\ availKeys \subseteq availKeys'
      /\ \A t \in Slots : \/ /\ worker'[t].st = worker[t].st /\ worker'[t].w = worker[t].w
                             /\ worker'[t].key = worker[t].key
                          \/ worker'[t].st # "managed" /\ worker[t].st # "managed"
  <2>1. CASE WorkerStart(s) \/ WorkerBootstrap(s)
    BY <2>1 DEF WorkerStart, WorkerBootstrap
  <2>2. CASE WorkerRestart(s)
    BY <2>2 DEF WorkerRestart, TypeOK, Worker
  <2>3. CASE WorkerExit(s)
    BY <2>3 DEF WorkerExit, TypeOK, NoWorker
  <2>. QED BY <2>1, <2>2, <2>3 DEF WorkerStep
<1>3. \A w \in Workloads : SameMap(w)
  BY <1>2 DEF SameMap, Managed
<1>. QED BY <1>1, <1>2, <1>3, SameRequestOK, HoldFrame

(* With nothing in memory, only what the rows name matters.                *)
LEMMA LoseMemoryHold ==
    ASSUME HoldInv, LoseMemory, UNCHANGED rows
    PROVE  HoldInv'
<1>1. ASSUME NEW q \in Reqs PROVE RequestOK(req[q])'
  BY IdleRequestOK DEF LoseMemory, RequestOK, RestartSteps
<1>2. RowKeysOK'
  BY DEF HoldInv, RowKeysOK, EnabledRow, Stored
<1>3. phase' = "down" /\ availKeys' = Keys /\ \A s \in Slots : worker'[s].st = "none"
  BY DEF LoseMemory, NoWorker
<1>. QED BY <1>1, <1>2, <1>3 DEF HoldInv

LEMMA BootHold ==
    ASSUME ResourceInv, HoldInv, Boot
    PROVE  HoldInv'
<1>1. /\ UNCHANGED <<req, rows, availKeys, worker>> /\ phase = "down" /\ phase' = "booting"
      /\ pending' = {w \in Stored : rows[w].enabled}
  BY DEF Boot
<1>2. \A q \in Reqs : req[q].pc = "idle"
  BY <1>1 DEF ResourceInv, UnitInv, ControlInv, Active
<1>3. \A w : Managed(w)' = {}
  BY <1>1 DEF Managed, HoldInv
<1>4. ASSUME NEW q \in Reqs PROVE RequestOK(req[q])'
  BY <1>1, <1>2 DEF RequestOK, RestartSteps
<1>5. RowKeysOK'
  BY <1>1 DEF HoldInv, RowKeysOK, EnabledRow, Stored
<1>6. ASSUME NEW w \in Workloads PROVE WorkersOK(w)'
  <2>1. EnabledRow(w)' <=> w \in pending'
    BY <1>1 DEF EnabledRow, Stored
  <2>2. w \in pending' /\ w \in Heartbeat => rows'[w].pk \in availKeys'
    BY <1>1, <1>5, <2>1 DEF RowKeysOK, HoldInv
  <2>. QED BY <1>3, <2>1, <2>2 DEF WorkersOK
<1>. QED BY <1>1, <1>4, <1>5, <1>6 DEF HoldInv

(* bootstrap finds the key that the row names and gives it to the worker.  *)
LEMMA BootWorkloadHold ==
    ASSUME TypeOK, ResourceInv, HoldInv, NEW v \in Workloads, BootWorkload(v)
    PROVE  HoldInv'
<1>1. phase = "booting" /\ v \in pending /\ UNCHANGED rows
  BY DEF BootWorkload
<1>2. WorkersOK(v) /\ RowKeysOK
  BY <1>1 DEF HoldInv
<1>3. EnabledRow(v) /\ (v \in Heartbeat => rows[v].pk \in availKeys /\ rows[v].pk # NoKey)
  BY <1>1, <1>2, NoKeyType DEF WorkersOK, RowKeysOK
<1>4. ~NoWorkloadKey(v, rows[v])
  BY <1>3 DEF NoWorkloadKey
<1>5. PICK k \in KeyOrNone : IsWorkloadKey(v, rows[v], k) /\ CreateVm(v, k, availKeys \ {k})
  BY <1>4 DEF BootWorkload
<1>6. UNCHANGED <<phase, req>> /\ pending' = pending \ {v}
  BY <1>4 DEF BootWorkload
<1>7. IF v \in Heartbeat THEN k = rows[v].pk ELSE k = NoKey
  BY <1>3, <1>5 DEF IsWorkloadKey
<1>8. \A q \in Reqs : req[q].pc = "idle"
  BY <1>1 DEF ResourceInv, UnitInv, ControlInv, Active
<1>9. Managed(v) = {}
  BY <1>1, <1>2, <1>8 DEF WorkersOK, Leaving
<1>10. PICK s \in Slots : Managed(v)' = {s} /\ worker'[s].key = k
  BY <1>5, <1>9, CreateVmMap
<1>11. (\A w \in Workloads \ {v} : SameMap(w)) /\ availKeys' = availKeys \ {k}
  BY <1>5, <1>9, CreateVmMap
<1>12. ASSUME NEW q \in Reqs PROVE RequestOK(req[q])'
  BY <1>6, <1>8 DEF RequestOK, RestartSteps
<1>13. RowKeysOK'
  BY <1>1, <1>2 DEF RowKeysOK, EnabledRow, Stored
<1>14. ASSUME NEW w \in Workloads PROVE WorkersOK(w)'
  <2>1. CASE w = v
    <3>1. EnabledRow(v)' /\ v \notin pending' /\ rows'[v] = rows[v]
      BY <1>1, <1>3, <1>6 DEF EnabledRow, Stored
    <3>2. \A q \in Reqs : ~Spawning(req'[q]) /\ ~Leaving(req'[q])
      BY <1>6, <1>8 DEF Spawning, Leaving
    <3>. QED BY <1>7, <1>10, <2>1, <3>1, <3>2 DEF WorkersOK, Spawning, Leaving
  <2>2. CASE w # v
    <3>1. WorkersOK(w)
      BY <1>1 DEF HoldInv
    <3>2. \A q \in Reqs : SamePart(req'[q], req[q], w)
      BY <1>6 DEF SamePart
    <3>3. w \in pending /\ w \in Heartbeat => rows[w].pk # k
      BY <1>2, <1>3, <1>7, <2>2, <3>1, NoKeyType DEF WorkersOK, RowKeysOK
    <3>4. rows'[w] = rows[w] /\ SameMap(w) /\ (w \in pending' <=> w \in pending)
      BY <1>1, <1>6, <1>11, <2>2
    <3>5. w \in pending /\ w \in Heartbeat /\ rows[w].pk \in availKeys => rows[w].pk \in availKeys'
      BY <1>11, <3>3
    <3>. QED BY <3>1, <3>2, <3>4, <3>5, OtherWorkersOK
  <2>. QED BY <2>1, <2>2
<1>. QED BY <1>1, <1>6, <1>12, <1>13, <1>14 DEF HoldInv

LEMMA NextHold ==
    ASSUME Serialised, "restart" \notin Ops, CommittedSteps \cap AbandonAt = {}
    PROVE  TypeOK /\ ResourceInv /\ KeyInv /\ HoldInv /\ [Next]_vars => HoldInv'
<1>. SUFFICES ASSUME TypeOK, ResourceInv, KeyInv, HoldInv, [Next]_vars
              PROVE  HoldInv'
  OBVIOUS
<1>0. KeyInv'
  BY NextKeys
<1>1. ASSUME NEW r \in Reqs, Arrive(r) \/ Abandon(r)
      PROVE  HoldInv'
  BY <1>0, <1>1, ArriveHold
<1>2. ASSUME NEW r \in Reqs, RestartStep(r)
      PROVE  FALSE
  BY <1>2 DEF RestartStep, RestartFind, RestartEnv, RestartAct, RestartWrite,
              HoldInv, RequestOK, RestartSteps
<1>3. ASSUME NEW r \in Reqs, Handler(r)
      PROVE  HoldInv'
  BY <1>0, <1>2, <1>3, CreateHold, DeleteHold, StopHold, StartHold DEF Handler
<1>4. ASSUME NEW s \in Slots, WorkerStep(s)
      PROVE  HoldInv'
  BY <1>4, WorkerHold
<1>5. ASSUME UNCHANGED <<phase, pending, req, rows, worker, availKeys>>
      PROVE  HoldInv'
  <2>1. \A w : SameMap(w) /\ (WorkersOK(w)' <=> WorkersOK(w))
    BY <1>5 DEF SameMap, WorkersOK, Managed, EnabledRow, Stored
  <2>2. \A q \in Reqs : RequestOK(req[q])'
    BY <1>5, <2>1, SameRequestOK
  <2>3. RowKeysOK'
    BY <1>5 DEF HoldInv, RowKeysOK, EnabledRow, Stored
  <2>. QED BY <1>5, <2>1, <2>2, <2>3 DEF HoldInv
<1>6. ASSUME NEW w \in Workloads, CvmDies(w)
      PROVE  HoldInv'
  BY <1>5, <1>6 DEF CvmDies
<1>7. ASSUME NEW w \in Workloads, BootWorkload(w)
      PROVE  HoldInv'
  BY <1>7, BootWorkloadHold
<1>8. CASE Boot
  BY <1>8, BootHold
<1>9. CASE Serve
  <2>1. /\ UNCHANGED <<pending, req, rows, worker, availKeys>> /\ phase # "down"
        /\ phase' = "serving" /\ pending = {}
    BY <1>9 DEF Serve
  <2>2. \A w : SameMap(w)
    BY <2>1, MapUnchanged
  <2>. QED BY <2>1, <2>2, SameRequestOK, HoldFrame
<1>10. CASE Crash
  BY <1>10, LoseMemoryHold DEF Crash
<1>11. CASE UNCHANGED vars
  BY <1>5, <1>11 DEF vars
<1>. QED BY <1>1, <1>3, <1>4, <1>6, <1>7, <1>8, <1>9, <1>10, <1>11 DEF Next

LEMMA InitHold == Init => HoldInv
<1>. SUFFICES ASSUME Init PROVE HoldInv
  OBVIOUS
<1>1. Stored = {} /\ phase = "down" /\ availKeys = Keys /\ \A s \in Slots : worker[s].st = "none"
  BY DEF Init, Stored, NoRow, NoWorker
<1>2. \A q \in Reqs : req[q].pc = "idle"
  BY DEF Init, Idle
<1>3. \A q \in Reqs : RequestOK(req[q])
  BY <1>2 DEF RequestOK, RestartSteps
<1>. QED BY <1>1, <1>3 DEF HoldInv, RowKeysOK, EnabledRow

LEMMA HoldInvariant ==
    ASSUME Serialised, "restart" \notin Ops, CommittedSteps \cap AbandonAt = {}
    PROVE  Spec => [](TypeOK /\ HoldInv)
<1>0. "c_deduct" \notin AbandonAt
  BY DEF CommittedSteps
<1>1. Init => ResourceInv /\ HoldInv
  BY InitUnits, InitHold
<1>2. TypeOK /\ ResourceInv /\ [Next]_vars => ResourceInv'
  BY <1>0, NextUnits
<1>3. TypeOK /\ ResourceInv /\ KeyInv /\ HoldInv /\ [Next]_vars => HoldInv'
  BY NextHold
<1>. QED BY <1>1, <1>2, <1>3, TypeCorrect, KeyInvariant, PTL DEF Spec

(* When no request runs, the workers are those of the enabled workloads,   *)
(* whatever earlier calls failed before their commit and whenever the      *)
(* agent crashed: as long as nobody restarts a workload (that stores no    *)
(* key), the requests for one workload do not overlap, and none is dropped *)
(* between a commit and the call to the VM service that goes with it.      *)
THEOREM WorkersAgreeWithRows ==
    ASSUME Serialised, "restart" \notin Ops, CommittedSteps \cap AbandonAt = {}
    PROVE  Spec => []WorkersMatchRows
<1>1. TypeOK /\ HoldInv => WorkersMatchRows
  <2>. SUFFICES ASSUME HoldInv, phase = "serving", \A r \in Reqs : req[r].pc = "idle",
                       NEW w \in Workloads
                PROVE  (Managed(w) # {}) <=> (rows[w].exists /\ rows[w].enabled)
    BY DEF WorkersMatchRows
  <2>1. WorkersOK(w) /\ pending = {}
    BY DEF HoldInv
  <2>2. \A r \in Reqs : ~Leaving(req[r]) /\ ~Spawning(req[r])
    BY DEF Leaving, Spawning
  <2>. QED BY <2>1, <2>2 DEF WorkersOK, EnabledRow, Stored
<1>. QED BY <1>1, HoldInvariant, PTL

(* The agent that starts again finds the key of every workload it has to   *)
(* start in the pool: no two enabled rows name one key, and the pool of a  *)
(* new process has all of them (bootstrap, workload_key). Under the same   *)
(* assumptions.                                                            *)
THEOREM BootstrapFindsItsKeys ==
    ASSUME Serialised, "restart" \notin Ops, CommittedSteps \cap AbandonAt = {}
    PROVE  Spec => []BootstrapFindsKeys
<1>1. TypeOK /\ HoldInv => BootstrapFindsKeys
  <2>. SUFFICES ASSUME TypeOK, HoldInv, phase = "booting", NEW w \in pending
                PROVE  ~NoWorkloadKey(w, rows[w])
    BY DEF BootstrapFindsKeys
  <2>1. w \in Workloads
    BY DEF TypeOK
  <2>2. WorkersOK(w) /\ RowKeysOK
    BY <2>1 DEF HoldInv
  <2>. QED BY <2>1, <2>2, NoKeyType DEF WorkersOK, RowKeysOK, NoWorkloadKey
<1>. QED BY <1>1, HoldInvariant, PTL

-----------------------------------------------------------------------------
(* The validator, which looks at the text before the first colon of a port *)
(* and at the first part of a path, agrees with what docker compose does   *)
(* with them.                                                              *)

(* The ports of a service as the parser of the compose file delivers them. *)
PortsParsed(service) ==
    /\ \A spec \in service.ports : spec.fields \in Seq(Seq(Int)) /\ Understood(spec)
    /\ \A spec \in service.longPorts : spec.published \in Seq(Int)

(* A field that validate accepts names none of the reserved ports.         *)
LEMMA PublishedPortsFree ==
    ASSUME NEW field \in Seq(Int), PublishedValid(field)
    PROVE  PortsOf(field) \cap RESERVED_PORTS = {}
<1>1. CASE Len(field) > 0 /\ \A i \in 1..Len(field) : field[i] \in U16
  <2>1. PortsOf(field) = field[1]..field[Len(field)]
    BY <1>1 DEF PortsOf
  <2> QED
    BY <2>1 DEF PublishedValid
<1>2. CASE ~(Len(field) > 0 /\ \A i \in 1..Len(field) : field[i] \in U16)
  <2>1. PortsOf(field) = {}
    BY <1>2, Zenon DEF PortsOf
  <2> QED
    BY <2>1
<1> QED
  BY <1>1, <1>2

(* NotANumber is no port: an address in front of a port is refused.        *)
LEMMA AddressRefused == ~PublishedValid(<<NotANumber>>)
<1>1. Len(<<NotANumber>>) = 1 /\ <<NotANumber>>[1] = NotANumber
  OBVIOUS
<1>2. NotANumber \notin U16
  BY DEF NotANumber, U16
<1> QED
  BY <1>1, <1>2 DEF PublishedValid

(* The field the validator looks at, the first, is the one docker          *)
(* publishes, the last but one, because one with an address is refused.    *)
LEMMA ShortPortsFree ==
    ASSUME NEW spec, spec.fields \in Seq(Seq(Int)), Understood(spec), ShortPortValid(spec)
    PROVE  ShortHostPorts(spec) \cap RESERVED_PORTS = {}
<1>1. CASE Len(spec.fields) < 2
  BY <1>1 DEF ShortHostPorts
<1>2. CASE Len(spec.fields) = 2
  <2>1. PublishedValid(spec.fields[1]) /\ spec.fields[1] \in Seq(Int)
    BY <1>2 DEF ShortPortValid
  <2>2. ShortHostPorts(spec) = PortsOf(spec.fields[1])
    BY <1>2 DEF ShortHostPorts
  <2> QED
    BY <2>1, <2>2, PublishedPortsFree
<1>3. CASE Len(spec.fields) > 2
  <2>1. spec.fields[1] = <<NotANumber>> /\ PublishedValid(spec.fields[1])
    BY <1>3 DEF Understood, ShortPortValid
  <2> QED
    BY <2>1, AddressRefused
<1>4. Len(spec.fields) < 2 \/ Len(spec.fields) = 2 \/ Len(spec.fields) > 2
  <2>1. Len(spec.fields) \in Nat
    OBVIOUS
  <2>2. \A k \in Nat : k < 2 \/ k = 2 \/ k > 2
    OBVIOUS
  <2> QED
    BY <2>1, <2>2, Zenon
<1> QED
  BY <1>1, <1>2, <1>3, <1>4, Zenon

(* A long form without `published` publishes nothing.                      *)
LEMMA LongPortsFree ==
    ASSUME NEW spec, spec.published \in Seq(Int), LongPortValid(spec)
    PROVE  PortsOf(spec.published) \cap RESERVED_PORTS = {}
<1>1. CASE spec.published = << >>
  <2>1. PortsOf(<< >>) = {}
    BY DEF PortsOf
  <2> QED
    BY <1>1, <2>1
<1>2. CASE spec.published # << >>
  BY <1>2, PublishedPortsFree DEF LongPortValid
<1> QED
  BY <1>1, <1>2

(* No service that validate_ports accepts binds a reserved port.           *)
LEMMA ServicePortsFree ==
    ASSUME NEW service, PortsParsed(service), validate_ports(service)
    PROVE  HostPorts(service) \cap RESERVED_PORTS = {}
<1>1. \A spec \in service.ports : ShortHostPorts(spec) \cap RESERVED_PORTS = {}
  BY ShortPortsFree DEF PortsParsed, validate_ports
<1>2. \A spec \in service.longPorts : PortsOf(spec.published) \cap RESERVED_PORTS = {}
  BY LongPortsFree DEF PortsParsed, validate_ports
<1> QED
  BY <1>1, <1>2, Zenon DEF HostPorts

(* Whatever its services, volumes and networks are, a compose file that    *)
(* validate_docker_compose accepts leaves nilCC's containers their names   *)
(* and ports, asks for no rights, merges and mounts nothing from outside   *)
(* and has the public container.                                           *)
THEOREM AcceptedContained ==
    ASSUME NEW compose, NEW public, NEW files,
           \A n \in DOMAIN compose.services : PortsParsed(compose.services[n]),
           validate_docker_compose(compose, public, files)
    PROVE  Contained(compose, public, files)
<1>1. ASSUME NEW n \in DOMAIN compose.services
      PROVE  /\ HostPorts(compose.services[n]) \cap RESERVED_PORTS = {}
             /\ compose.services[n].options \cap ForbiddenOptions = {}
             /\ \A name \in ContainerNames(compose, n) : ~ContainsReserved(name)
  <2>1. /\ \A name \in ContainerNames(compose, n) : ~ContainsReserved(name)
        /\ validate_service(compose.services[n], DOMAIN compose.volumes, files)
    BY Zenon DEF validate_docker_compose
  <2>2. /\ validate_ports(compose.services[n])
        /\ compose.services[n].options \cap ForbiddenOptions = {}
    BY <2>1, Zenon DEF validate_service
  <2> QED
    BY <2>1, <2>2, ServicePortsFree
<1>2. SelfContained(compose)
  <2>1. "include" \notin compose.options
    BY DEF validate_docker_compose
  <2>2. \A n \in DOMAIN compose.services : "file" \notin compose.services[n].extends
    BY Zenon DEF validate_docker_compose, validate_service, validate_extends
  <2> QED
    BY <2>1, <2>2, Zenon DEF SelfContained
<1>3. MountsOwn(compose, files)
  <2>1. \A v \in DOMAIN compose.volumes : compose.volumes[v] = {}
    BY Zenon DEF validate_docker_compose, validate_top_level_volumes
  <2>2. ASSUME NEW n \in DOMAIN compose.services
        PROVE  /\ \A volume \in compose.services[n].volumes :
                   validate_volumes(volume, DOMAIN compose.volumes, files)
               /\ \A path \in compose.services[n].envFiles :
                   validate_volume_path(path, files)
    BY Zenon DEF validate_docker_compose, validate_service, validate_env_file
  <2>3. ASSUME NEW path, validate_volume_path(path, files)
        PROVE  Uploaded(path, files)
    BY <2>3, Zenon DEF validate_volume_path, Uploaded
  <2> QED
    BY <2>1, <2>2, <2>3, Zenon DEF MountsOwn, validate_volumes
<1>4. \E n \in DOMAIN compose.services : public \in ContainerNames(compose, n)
  BY Zenon DEF validate_docker_compose
<1> QED
  BY <1>1, <1>2, <1>3, <1>4, Zenon DEF Contained

-----------------------------------------------------------------------------
(* The GPUs of the host, when their addresses have changed.                *)

(* A list without repetitions is as long as it has elements.               *)
LEMMA DistinctLength ==
    ASSUME NEW T, NEW s \in Seq(T), \A a, b \in DOMAIN s : s[a] = s[b] => a = b
    PROVE  IsFiniteSet(Range(s)) /\ Cardinality(Range(s)) = Len(s)
<1>1. Len(s) \in Nat /\ DOMAIN s = 1..Len(s)
  OBVIOUS
<1>2. PICK n : n = Len(s)
  OBVIOUS
<1>3. PICK D : D = 1..n
  OBVIOUS
<1>4. IsFiniteSet(D) /\ Cardinality(D) = n
  <2>1. n \in Int /\ 1 \in Int /\ n >= 0
    BY <1>1, <1>2
  <2>2. IsFiniteSet(1..n) /\ Cardinality(1..n) = IF 1 > n THEN 0 ELSE n - 1 + 1
    BY <2>1, FS_Interval
  <2>. QED BY <1>3, <2>1, <2>2
<1>5. PICK R : R = Range(s)
  OBVIOUS
<1>6. s \in [D -> R] /\ \A y \in R : \E x \in D : s[x] = y
  BY <1>1, <1>2, <1>3, <1>5 DEF Range
<1>7. \A a, b \in D : s[a] = s[b] => a = b
  BY <1>1, <1>2, <1>3
<1>8. ExistsBijection(D, R)
  BY <1>6, <1>7 DEF ExistsBijection, Bijection, Injection, IsInjective, Surjection
<1>9. IsFiniteSet(R) /\ Cardinality(R) = Cardinality(D)
  BY <1>4, <1>8, FS_Bijection
<1>. QED BY <1>2, <1>4, <1>5, <1>9

(* What the workloads in front of one have taken.                          *)
LEMMA TakenParts ==
    ASSUME NEW lists \in Seq(Seq(Nat)), NEW i \in 1..Len(lists)
    PROVE  /\ TakenBefore(lists, 1) = 0
           /\ TakenBefore(lists, i) \in Nat
           /\ TakenBefore(lists, i + 1) = TakenBefore(lists, i) + Len(lists[i])
           /\ \A k \in 1..Len(lists) : i < k => TakenBefore(lists, i + 1) <= TakenBefore(lists, k)
           /\ TakenBefore(lists, i + 1) <= TakenBefore(lists, Len(lists) + 1)
<1>1. PICK f : f = [k \in DOMAIN lists |-> Len(lists[k])]
  OBVIOUS
<1>2. DOMAIN lists = 1..Len(lists) /\ Len(lists) \in Nat /\ i \in Nat
  OBVIOUS
<1>3. \A k \in 1..Len(lists) : f[k] = Len(lists[k]) /\ f[k] \in Nat
  BY <1>1, <1>2
<1>4. \A m : TakenBefore(lists, m) = SumFunctionOnSet(f, 1..(m - 1))
  BY <1>1 DEF TakenBefore
<1>5. ASSUME NEW m \in Nat, m <= Len(lists)
      PROVE  IsFiniteSet(1..m) /\ \A x \in 1..m : f[x] \in Nat
  <2>1. 1 \in Int /\ m \in Int
    OBVIOUS
  <2>2. IsFiniteSet(1..m)
    BY <2>1, FS_Interval
  <2>3. \A x \in 1..m : x \in 1..Len(lists)
    BY <1>2, <1>5
  <2>. QED BY <1>3, <2>2, <2>3
<1>6. TakenBefore(lists, 1) = 0
  <2>1. 1..(1 - 1) = {}
    OBVIOUS
  <2>. QED BY <1>4, <2>1, SumEmpty
<1>7. ASSUME NEW m \in Nat, m <= Len(lists)
      PROVE  TakenBefore(lists, m + 1) = SumFunctionOnSet(f, 1..m)
  <2>1. 1..((m + 1) - 1) = 1..m
    OBVIOUS
  <2>. QED BY <1>4, <2>1
<1>8. PICK A, B : A = 1..(i - 1) /\ B = 1..i
  OBVIOUS
<1>9. /\ IsFiniteSet(A) /\ (\A x \in A : f[x] \in Nat)
      /\ B = A \cup {i} /\ i \notin A
      /\ \A x \in B : f[x] \in Int
  <2>1. i - 1 \in Nat /\ i - 1 <= Len(lists)
    BY <1>2
  <2>2. IsFiniteSet(A) /\ \A x \in A : f[x] \in Nat
    BY <1>5, <1>8, <2>1
  <2>3. B = A \cup {i} /\ i \notin A
    BY <1>2, <1>8
  <2>4. \A x \in B : f[x] \in Int
    BY <1>2, <1>3, <1>8
  <2>. QED BY <2>2, <2>3, <2>4
<1>10. TakenBefore(lists, i) = SumFunctionOnSet(f, A) /\ SumFunctionOnSet(f, A) \in Nat
  BY <1>4, <1>8, <1>9, SumNat
<1>11. SumFunctionOnSet(f, B) = f[i] + SumFunctionOnSet(f, A)
  BY <1>9, SumAdd
<1>12. TakenBefore(lists, i + 1) = SumFunctionOnSet(f, B)
  BY <1>2, <1>7, <1>8
<1>13. TakenBefore(lists, i + 1) = TakenBefore(lists, i) + Len(lists[i])
  <2>1. f[i] = Len(lists[i]) /\ f[i] \in Nat
    BY <1>3
  <2>. QED BY <1>10, <1>11, <1>12, <2>1
<1>14. ASSUME NEW m \in Nat, i <= m, m <= Len(lists)
       PROVE  TakenBefore(lists, i + 1) <= TakenBefore(lists, m + 1)
  <2>1. PICK C : C = 1..m
    OBVIOUS
  <2>2. IsFiniteSet(C) /\ (\A x \in C : f[x] \in Nat)
    BY <1>5, <1>14, <2>1
  <2>3. B \subseteq C
    BY <1>2, <1>8, <1>14, <2>1
  <2>4. SumFunctionOnSet(f, B) <= SumFunctionOnSet(f, C)
    BY <2>2, <2>3, SumSubset
  <2>5. TakenBefore(lists, m + 1) = SumFunctionOnSet(f, C)
    BY <1>7, <1>14, <2>1
  <2>. QED BY <1>12, <2>4, <2>5
<1>15. ASSUME NEW k \in 1..Len(lists), i < k
       PROVE  TakenBefore(lists, i + 1) <= TakenBefore(lists, k)
  <2>1. k - 1 \in Nat /\ i <= k - 1 /\ k - 1 <= Len(lists) /\ (k - 1) + 1 = k
    BY <1>2, <1>15
  <2>. QED BY <1>14, <2>1
<1>16. TakenBefore(lists, i + 1) <= TakenBefore(lists, Len(lists) + 1)
  BY <1>2, <1>14
<1>. QED BY <1>6, <1>10, <1>13, <1>15, <1>16

(* Lists that share nothing hold as many GPUs as their lengths add up to.  *)
LEMMA DistinctAssigned ==
    ASSUME NEW lists \in Seq(Seq(Nat)), Exclusive(lists)
    PROVE  /\ IsFiniteSet(Assigned(lists))
           /\ Cardinality(Assigned(lists)) = TakenBefore(lists, Len(lists) + 1)
<1>. DEFINE U(n) == UNION {Range(lists[i]) : i \in 1..n}
            G == {n \in Nat : n <= Len(lists) =>
                    IsFiniteSet(U(n)) /\ Cardinality(U(n)) = TakenBefore(lists, n + 1)}
<1>1. DOMAIN lists = 1..Len(lists) /\ Len(lists) \in Nat
  OBVIOUS
<1>2. 0 \in G
  <2>1. U(0) = {}
    OBVIOUS
  <2>2. TakenBefore(lists, 0 + 1) = 0
    <3>1. TakenBefore(lists, 0 + 1) =
            SumFunctionOnSet([k \in DOMAIN lists |-> Len(lists[k])], {})
      <4>1. 1..((0 + 1) - 1) = {}
        OBVIOUS
      <4>. QED BY <4>1 DEF TakenBefore
    <3>. QED BY <3>1, SumEmpty
  <2>. QED BY <2>1, <2>2, FS_EmptySet
<1>3. ASSUME NEW n \in Nat, n \in G, n + 1 <= Len(lists)
      PROVE  IsFiniteSet(U(n + 1)) /\ Cardinality(U(n + 1)) = TakenBefore(lists, (n + 1) + 1)
  <2>1. PICK S, i : S = U(n) /\ i = n + 1
    OBVIOUS
  <2>2. i \in 1..Len(lists) /\ n <= Len(lists)
    BY <1>1, <1>3, <2>1
  <2>3. IsFiniteSet(S) /\ Cardinality(S) = TakenBefore(lists, i)
    BY <1>3, <2>1, <2>2
  <2>4. PICK T, s : T = Range(s) /\ s = lists[i]
    OBVIOUS
  <2>5. s \in Seq(Nat) /\ \A a, b \in DOMAIN s : s[a] = s[b] => a = b
    <3>1. i \in DOMAIN lists
      BY <1>1, <2>2
    <3>2. s \in Seq(Nat)
      BY <2>4, <3>1
    <3>3. \A a, b \in DOMAIN s : s[a] = s[b] => a = b
      BY <2>4, <3>1, Zenon DEF Exclusive
    <3>. QED BY <3>2, <3>3
  <2>6. IsFiniteSet(T) /\ Cardinality(T) = Len(s)
    BY <2>4, <2>5, DistinctLength
  <2>7. U(i) = S \cup T
    <3>1. 1..i = (1..n) \cup {i}
      BY <2>1
    <3>. QED BY <2>1, <2>4, <3>1
  <2>8. S \cap T = {}
    <3>. SUFFICES ASSUME NEW x \in S \cap T
                  PROVE  FALSE
      OBVIOUS
    <3>1. PICK k \in 1..n : x \in Range(lists[k])
      BY <2>1
    <3>2. k \in DOMAIN lists /\ i \in DOMAIN lists /\ k # i
      BY <1>1, <2>1, <2>2, <3>1
    <3>3. PICK a \in DOMAIN lists[k] : lists[k][a] = x
      BY <3>1 DEF Range
    <3>4. PICK b \in DOMAIN lists[i] : lists[i][b] = x
      BY <2>4 DEF Range
    <3>. QED BY <3>2, <3>3, <3>4, Zenon DEF Exclusive
  <2>. HIDE DEF U, G
  <2>9. IsFiniteSet(U(i)) /\ Cardinality(U(i)) = Cardinality(S) + Cardinality(T)
    <3>1. /\ IsFiniteSet(S \cup T)
          /\ Cardinality(S \cup T) = Cardinality(S) + Cardinality(T) - Cardinality(S \cap T)
      BY <2>3, <2>6, FS_Union
    <3>2. Cardinality(S \cap T) = 0
      BY <2>8, FS_EmptySet
    <3>3. Cardinality(S) \in Nat /\ Cardinality(T) \in Nat
      BY <2>3, <2>6, FS_CardinalityType
    <3>. QED BY <2>7, <3>1, <3>2, <3>3
  <2>10. TakenBefore(lists, i + 1) = TakenBefore(lists, i) + Len(s)
    BY <2>2, <2>4, TakenParts
  <2>. QED BY <2>1, <2>3, <2>6, <2>9, <2>10
<1>4. ASSUME NEW n \in Nat, n \in G
      PROVE  n + 1 \in G
  <2>1. n + 1 <= Len(lists) =>
            IsFiniteSet(U(n + 1)) /\ Cardinality(U(n + 1)) = TakenBefore(lists, (n + 1) + 1)
    BY <1>3, <1>4
  <2>. HIDE DEF U
  <2>. QED BY <2>1
<1>5. Len(lists) \in G
  <2>. HIDE DEF G
  <2>. QED BY <1>1, <1>2, <1>4, NumberInduction
<1>6. Assigned(lists) = U(Len(lists))
  BY <1>1 DEF Assigned
<1>. QED BY <1>1, <1>5, <1>6

(* What every workload gets when the addresses have changed.               *)
LEMMA ReassignParts ==
    ASSUME NEW gpus \in Seq(Nat), \A a, b \in DOMAIN gpus : gpus[a] = gpus[b] => a = b,
           NEW lists \in Seq(Seq(Nat)), Exclusive(lists), ~GpusMissing(gpus, lists)
    PROVE  /\ DOMAIN Reassign(gpus, lists) = DOMAIN lists
           /\ \A i \in DOMAIN lists :
                LET new == Reassign(gpus, lists)[i]
                    before == TakenBefore(lists, i)
                IN  /\ DOMAIN new = 1..Len(lists[i]) /\ Len(new) = Len(lists[i])
                    /\ \A a \in 1..Len(lists[i]) :
                        before + a \in DOMAIN gpus /\ new[a] = gpus[before + a]
<1>1. DOMAIN lists = 1..Len(lists) /\ Len(lists) \in Nat
  OBVIOUS
<1>2. TakenBefore(lists, Len(lists) + 1) <= Len(gpus)
  <2>1. IsFiniteSet(Range(gpus)) /\ Cardinality(Range(gpus)) = Len(gpus)
    BY DistinctLength
  <2>2. IsFiniteSet(Assigned(lists))
        /\ Cardinality(Assigned(lists)) = TakenBefore(lists, Len(lists) + 1)
    BY DistinctAssigned
  <2>3. Cardinality(Assigned(lists)) \in Nat /\ Cardinality(Range(gpus)) \in Nat
    BY <2>1, <2>2, FS_CardinalityType
  <2>. QED BY <2>1, <2>2, <2>3 DEF GpusMissing
<1>3. ASSUME NEW i \in DOMAIN lists
      PROVE  LET new == Reassign(gpus, lists)[i]
                 before == TakenBefore(lists, i)
             IN  /\ DOMAIN new = 1..Len(lists[i]) /\ Len(new) = Len(lists[i])
                 /\ \A a \in 1..Len(lists[i]) :
                     before + a \in DOMAIN gpus /\ new[a] = gpus[before + a]
  <2>1. PICK before, n, size : before = TakenBefore(lists, i) /\ n = Len(lists[i]) /\ size = Len(gpus)
    OBVIOUS
  <2>2. n \in Nat /\ size \in Nat /\ DOMAIN gpus = 1..size
    BY <1>1, <2>1
  <2>3. before \in Nat /\ before + n <= size
    <3>1. /\ before \in Nat
          /\ TakenBefore(lists, i + 1) = before + n
          /\ TakenBefore(lists, i + 1) <= TakenBefore(lists, Len(lists) + 1)
      BY <1>1, <2>1, TakenParts
    <3>2. TakenBefore(lists, Len(lists) + 1) \in Nat
      <4>1. IsFiniteSet(Assigned(lists))
            /\ Cardinality(Assigned(lists)) = TakenBefore(lists, Len(lists) + 1)
        BY DistinctAssigned
      <4>. QED BY <4>1, FS_CardinalityType
    <3>. QED BY <1>2, <2>1, <2>2, <3>1, <3>2
  <2>4. Min({before + n, size}) = before + n
    BY <2>2, <2>3 DEF Min
  <2>5. PICK new : new = SubSeq(gpus, before + 1, before + n)
    OBVIOUS
  <2>6. Reassign(gpus, lists)[i] = new
    BY <2>1, <2>4, <2>5 DEF Reassign
  <2>7. DOMAIN new = 1..n /\ Len(new) = n
    BY <2>2, <2>3, <2>5
  <2>8. ASSUME NEW a \in 1..n
        PROVE  before + a \in DOMAIN gpus /\ new[a] = gpus[before + a]
    BY <2>2, <2>3, <2>5, <2>8
  <2>. QED BY <2>1, <2>6, <2>7, <2>8
<1>4. DOMAIN Reassign(gpus, lists) = DOMAIN lists
  BY DEF Reassign
<1>. QED BY <1>3, <1>4

(* When the host comes up with other addresses no GPU is lost, doubled or  *)
(* invented (adjust_gpu_assignment), for any host, whose addresses are     *)
(* listed once each, and any table of workloads.                           *)
THEOREM AdjustmentKeepsGpus ==
    ASSUME NEW gpus \in Seq(Nat), \A a, b \in DOMAIN gpus : gpus[a] = gpus[b] => a = b,
           NEW lists \in Seq(Seq(Nat))
    PROVE  AdjustmentSound(gpus, lists)
<1>. SUFFICES ASSUME Exclusive(lists), ~GpusMissing(gpus, lists)
              PROVE  LET new == adjust_gpu_assignment(gpus, lists) IN
                     /\ Exclusive(new)
                     /\ Assigned(new) \subseteq Range(gpus)
                     /\ \A i \in DOMAIN lists : Len(new[i]) = Len(lists[i])
                     /\ adjust_gpu_assignment(gpus, new) = new
  BY DEF AdjustmentSound
<1>1. CASE Assigned(lists) \subseteq Range(gpus)
  BY <1>1 DEF adjust_gpu_assignment
<1>2. CASE ~(Assigned(lists) \subseteq Range(gpus))
  <2>1. PICK new : new = Reassign(gpus, lists)
    OBVIOUS
  <2>2. adjust_gpu_assignment(gpus, lists) = new
    BY <1>2, <2>1 DEF adjust_gpu_assignment
  <2>3. /\ DOMAIN new = DOMAIN lists
        /\ \A i \in DOMAIN lists :
            /\ DOMAIN new[i] = 1..Len(lists[i]) /\ Len(new[i]) = Len(lists[i])
            /\ \A a \in 1..Len(lists[i]) :
                /\ TakenBefore(lists, i) + a \in DOMAIN gpus
                /\ new[i][a] = gpus[TakenBefore(lists, i) + a]
    BY <2>1, ReassignParts
  <2>4. Assigned(new) \subseteq Range(gpus)
    <3>. SUFFICES ASSUME NEW x \in Assigned(new)
                  PROVE  x \in Range(gpus)
      OBVIOUS
    <3>1. PICK i \in DOMAIN new : x \in Range(new[i])
      BY DEF Assigned
    <3>2. PICK a \in DOMAIN new[i] : x = new[i][a]
      BY <3>1 DEF Range
    <3>3. i \in DOMAIN lists /\ a \in 1..Len(lists[i])
      <4>1. i \in DOMAIN lists
        BY <2>3
      <4>2. DOMAIN new[i] = 1..Len(lists[i])
        BY <2>3, <4>1, Zenon
      <4>. QED BY <4>1, <4>2
    <3>4. TakenBefore(lists, i) + a \in DOMAIN gpus /\ x = gpus[TakenBefore(lists, i) + a]
      BY <2>3, <3>2, <3>3, Zenon
    <3>. QED BY <3>4 DEF Range
  <2>5. ASSUME NEW i \in DOMAIN lists, NEW k \in DOMAIN lists, i < k,
               NEW a \in DOMAIN new[i], NEW b \in DOMAIN new[k]
        PROVE  new[i][a] # new[k][b]
    <3>1. PICK s, t : s = TakenBefore(lists, i) /\ t = TakenBefore(lists, k)
      OBVIOUS
    <3>2. i \in 1..Len(lists) /\ k \in 1..Len(lists)
      OBVIOUS
    <3>3. s \in Nat /\ t \in Nat /\ s + Len(lists[i]) <= t
      BY <2>5, <3>1, <3>2, TakenParts
    <3>4. a \in 1..Len(lists[i]) /\ b \in 1..Len(lists[k])
      BY <2>3, Zenon
    <3>5. Len(lists[i]) \in Nat /\ a \in Int /\ b \in Int /\ a <= Len(lists[i]) /\ 1 <= b
      BY <3>4
    <3>6. /\ s + a \in DOMAIN gpus /\ new[i][a] = gpus[s + a]
          /\ t + b \in DOMAIN gpus /\ new[k][b] = gpus[t + b]
      BY <2>3, <3>1, <3>4, Zenon
    <3>7. s + a # t + b
      BY <3>3, <3>5
    <3>. QED BY <3>6, <3>7
  <2>6. ASSUME NEW i \in DOMAIN lists, NEW a \in DOMAIN new[i], NEW b \in DOMAIN new[i],
               new[i][a] = new[i][b]
        PROVE  a = b
    <3>1. PICK s : s = TakenBefore(lists, i)
      OBVIOUS
    <3>2. a \in 1..Len(lists[i]) /\ b \in 1..Len(lists[i])
      BY <2>3, Zenon
    <3>3. /\ s + a \in DOMAIN gpus /\ new[i][a] = gpus[s + a]
          /\ s + b \in DOMAIN gpus /\ new[i][b] = gpus[s + b]
      BY <2>3, <3>1, <3>2, Zenon
    <3>4. s + a = s + b
      BY <2>6, <3>3
    <3>5. s \in Nat
      BY <3>1, TakenParts
    <3>. QED BY <3>2, <3>4, <3>5
  <2>7. Exclusive(new)
    <3>. SUFFICES ASSUME NEW i \in DOMAIN new, NEW k \in DOMAIN new,
                         NEW a \in DOMAIN new[i], NEW b \in DOMAIN new[k],
                         new[i][a] = new[k][b]
                  PROVE  i = k /\ a = b
      BY DEF Exclusive
    <3>1. i \in DOMAIN lists /\ k \in DOMAIN lists
      BY <2>3
    <3>2. ~(i < k) /\ ~(k < i)
      BY <2>5, <3>1
    <3>3. i = k
      BY <3>1, <3>2
    <3>. QED BY <2>6, <3>1, <3>3
  <2>8. adjust_gpu_assignment(gpus, new) = new
    BY <2>4 DEF adjust_gpu_assignment
  <2>. QED BY <2>2, <2>3, <2>4, <2>7, <2>8
<1>. QED BY <1>1, <1>2

=============================================================================
