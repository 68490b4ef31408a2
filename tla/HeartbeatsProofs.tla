-------------------------- MODULE HeartbeatsProofs --------------------------
(***************************************************************************)
(* The funder never gives a wallet more than the target, for every set of  *)
(* agents, wallets and thresholds, but for the transfers that it sent and  *)
(* whose receipts were lost.                                               *)
(***************************************************************************)
EXTENDS Heartbeats, FiniteSetTheorems, WellFoundedInduction, TLAPS

-----------------------------------------------------------------------------
(* Induction, over a set of the numbers, or of the sets, that have the     *)
(* property.                                                               *)

LEMMA NumberInduction ==
    ASSUME NEW G, 0 \in G, \A n \in Nat : n \in G => n + 1 \in G
    PROVE  Nat \subseteq G
<1>. DEFINE R == OpToRel(<, Nat)
            N == Nat \ G
<1>. SUFFICES ASSUME N # {}
              PROVE  FALSE
  OBVIOUS
<1>1. IsWellFoundedOn(R, Nat)
  BY NatLessThanWellFounded
<1>2. \A x, y \in Nat : <<x, y>> \in R <=> x < y
  BY DEF OpToRel
<1>3. N \subseteq Nat
  OBVIOUS
<1>. HIDE DEF R
<1>4. \E n \in N : \A m \in N : ~(<<m, n>> \in R)
  <2>. HIDE DEF N
  <2>. QED BY <1>1, <1>3, WFMin, Zenon
<1>5. PICK n \in N : \A m \in N : ~(<<m, n>> \in R)
  BY <1>4
<1>6. n \in Nat /\ n \notin G
  OBVIOUS
<1>7. n # 0 /\ n - 1 \in Nat /\ (n - 1) + 1 = n
  BY <1>6
<1>8. n - 1 \notin G
  BY <1>6, <1>7
<1>9. n - 1 \in N /\ <<n - 1, n>> \in R
  BY <1>2, <1>6, <1>7, <1>8
<1>. QED BY <1>5, <1>9

(* Induction on the subsets of a finite set: what holds of a set when it   *)
(* holds of the set without any one of its elements holds of all.          *)
LEMMA SubsetInduction ==
    ASSUME NEW S, IsFiniteSet(S), NEW G, {} \in G,
           \A s \in SUBSET S : s # {} /\ (\A x \in s : s \ {x} \in G) => s \in G
    PROVE  SUBSET S \subseteq G
<1>. DEFINE N == {n \in Nat : \A s \in SUBSET S : Cardinality(s) = n => s \in G}
<1>1. \A s \in SUBSET S : IsFiniteSet(s) /\ Cardinality(s) \in Nat
  BY FS_Subset, FS_CardinalityType
<1>2. 0 \in N
  BY <1>1, FS_EmptySet
<1>3. ASSUME NEW n \in Nat, n \in N, NEW s \in SUBSET S, Cardinality(s) = n + 1
      PROVE  s \in G
  <2>1. s # {}
    BY <1>3, FS_EmptySet
  <2>2. ASSUME NEW x \in s
        PROVE  s \ {x} \in G
    <3>1. Cardinality(s \ {x}) = n
      BY <1>1, <1>3, FS_RemoveElement
    <3>. QED BY <1>3, <3>1
  <2>. QED BY <2>1, <2>2
<1>4. Nat \subseteq N
  <2>1. \A n \in Nat : n \in N => n + 1 \in N
    BY <1>3
  <2>. HIDE DEF N
  <2>. QED BY <1>2, <2>1, NumberInduction
<1>. QED BY <1>1, <1>4

-----------------------------------------------------------------------------
(* Sums. SumFunctionOnSet is a recursive function on the subsets of its    *)
(* argument; it exists for a finite set, and neither the order in which it *)
(* takes the elements nor the set it is a function of matters.             *)
Some(s) == CHOOSE x \in s : TRUE
IsSum(g, f, S) ==
    g = [s \in SUBSET S |-> IF s = {} THEN 0 ELSE f[Some(s)] + g[s \ {Some(s)}]]

LEMMA SomeMember == ASSUME NEW s, s # {} PROVE Some(s) \in s
  BY DEF Some

LEMMA SumIsSum == ASSUME NEW f, NEW S PROVE SumFunctionOnSet(f, S) = (CHOOSE g : IsSum(g, f, S))[S]
  BY DEF SumFunctionOnSet, FoldFunctionOnSet, MapThenFoldSet, IsSum, Some

(* The function exists: on the sets of n elements, for every n.            *)
UpTo(S, n) == {s \in SUBSET S : Cardinality(s) <= n}
IsSumUpTo(g, f, S, n) ==
    g = [s \in UpTo(S, n) |-> IF s = {} THEN 0 ELSE f[Some(s)] + g[s \ {Some(s)}]]

LEMMA SumExists ==
    ASSUME NEW f, NEW S, IsFiniteSet(S)
    PROVE  \E g : IsSum(g, f, S)
<1>. DEFINE N == {n \in Nat : \E g : IsSumUpTo(g, f, S, n)}
<1>1. \A s \in SUBSET S : IsFiniteSet(s) /\ Cardinality(s) \in Nat
  BY FS_Subset, FS_CardinalityType
<1>2. 0 \in N
  <2>1. PICK g : g = [s \in UpTo(S, 0) |-> 0]
    OBVIOUS
  <2>2. \A s \in UpTo(S, 0) : s = {}
    BY <1>1, FS_EmptySet DEF UpTo
  <2>. QED BY <2>1, <2>2 DEF IsSumUpTo
<1>3. ASSUME NEW n \in Nat, n \in N
      PROVE  n + 1 \in N
  <2>1. PICK g : IsSumUpTo(g, f, S, n)
    BY <1>3
  <2>2. PICK h : h = [s \in UpTo(S, n + 1) |->
                        IF s = {} THEN 0 ELSE f[Some(s)] + g[s \ {Some(s)}]]
    OBVIOUS
  <2>3. ASSUME NEW s \in UpTo(S, n + 1), s # {}
        PROVE  g[s \ {Some(s)}] = h[s \ {Some(s)}]
    <3>1. PICK t : t = s \ {Some(s)}
      OBVIOUS
    <3>2. t \in SUBSET S /\ Cardinality(t) = Cardinality(s) - 1
      BY <1>1, <2>3, <3>1, SomeMember, FS_RemoveElement DEF UpTo
    <3>3. Cardinality(s) <= n + 1 /\ Cardinality(s) \in Nat
      BY <1>1 DEF UpTo
    <3>4. t \in UpTo(S, n) /\ t \in UpTo(S, n + 1)
      BY <3>2, <3>3 DEF UpTo
    <3>5. h[t] = IF t = {} THEN 0 ELSE f[Some(t)] + g[t \ {Some(t)}]
      BY <2>2, <3>4
    <3>6. g[t] = IF t = {} THEN 0 ELSE f[Some(t)] + g[t \ {Some(t)}]
      BY <2>1, <3>4 DEF IsSumUpTo
    <3>. QED BY <3>1, <3>5, <3>6
  <2>4. h = [s \in UpTo(S, n + 1) |->
               IF s = {} THEN 0 ELSE f[Some(s)] + h[s \ {Some(s)}]]
    BY <2>2, <2>3
  <2>. QED BY <2>4 DEF IsSumUpTo
<1>4. Cardinality(S) \in N
  <2>. HIDE DEF N
  <2>1. \A n \in Nat : n \in N => n + 1 \in N
    BY <1>3
  <2>. QED BY <1>1, <1>2, <2>1, NumberInduction
<1>5. UpTo(S, Cardinality(S)) = SUBSET S
  BY FS_Subset DEF UpTo
<1>. QED BY <1>4, <1>5 DEF IsSum, IsSumUpTo

SumFcn(f, S) == CHOOSE g : IsSum(g, f, S)

LEMMA SumFcnSums ==
    ASSUME NEW f, NEW S, IsFiniteSet(S)
    PROVE  IsSum(SumFcn(f, S), f, S)
  BY SumExists DEF SumFcn

LEMMA SumValue == ASSUME NEW f, NEW S PROVE SumFunctionOnSet(f, S) = SumFcn(f, S)[S]
  BY SumIsSum DEF SumFcn

(* Functions that sum f, or functions that agree with it, agree.           *)
LEMMA SumsAgree ==
    ASSUME NEW S, IsFiniteSet(S), NEW f, NEW e, \A x \in S : f[x] = e[x],
           NEW T, NEW U, S \subseteq T, S \subseteq U,
           NEW g, IsSum(g, f, T), NEW h, IsSum(h, e, U)
    PROVE  g[S] = h[S]
<1>. DEFINE G == {s \in SUBSET S : g[s] = h[s]}
<1>1. ASSUME NEW s \in SUBSET S
      PROVE  /\ g[s] = IF s = {} THEN 0 ELSE f[Some(s)] + g[s \ {Some(s)}]
             /\ h[s] = IF s = {} THEN 0 ELSE e[Some(s)] + h[s \ {Some(s)}]
  <2>1. s \in SUBSET T /\ s \in SUBSET U
    OBVIOUS
  <2>. QED BY <2>1 DEF IsSum
<1>2. {} \in G
  BY <1>1
<1>3. ASSUME NEW s \in SUBSET S, s # {}, \A x \in s : s \ {x} \in G
      PROVE  s \in G
  <2>1. Some(s) \in s
    BY <1>3, SomeMember
  <2>. QED BY <1>1, <1>3, <2>1
<1>. HIDE DEF G
<1>4. S \in G
  BY <1>2, <1>3, SubsetInduction
<1>. QED BY <1>4 DEF G

LEMMA SumEmpty == ASSUME NEW f PROVE SumFunctionOnSet(f, {}) = 0
<1>1. PICK g : g = SumFcn(f, {})
  OBVIOUS
<1>2. IsSum(g, f, {})
  BY <1>1, SumFcnSums, FS_EmptySet
<1>3. g[{}] = 0
  BY <1>2 DEF IsSum
<1>. QED BY <1>1, <1>3, SumValue

(* The sum of a set depends on the values of its elements only.            *)
LEMMA SumSame ==
    ASSUME NEW S, IsFiniteSet(S), NEW f, NEW e, \A x \in S : f[x] = e[x]
    PROVE  SumFunctionOnSet(f, S) = SumFunctionOnSet(e, S)
<1>1. PICK g, h : g = SumFcn(f, S) /\ h = SumFcn(e, S)
  OBVIOUS
<1>2. IsSum(g, f, S) /\ IsSum(h, e, S)
  BY <1>1, SumFcnSums
<1>3. g[S] = h[S]
  BY <1>2, SumsAgree
<1>. QED BY <1>1, <1>3, SumValue

LEMMA SumSome ==
    ASSUME NEW f, NEW S, IsFiniteSet(S), S # {}
    PROVE  SumFunctionOnSet(f, S) = f[Some(S)] + SumFunctionOnSet(f, S \ {Some(S)})
<1>1. PICK T : T = S \ {Some(S)}
  OBVIOUS
<1>2. IsFiniteSet(T) /\ T \subseteq S
  BY <1>1, FS_RemoveElement
<1>3. PICK g, h : g = SumFcn(f, S) /\ h = SumFcn(f, T)
  OBVIOUS
<1>4. IsSum(g, f, S) /\ IsSum(h, f, T)
  BY <1>2, <1>3, SumFcnSums
<1>5. g[T] = h[T]
  BY <1>2, <1>4, SumsAgree
<1>6. g[S] = f[Some(S)] + g[T]
  BY <1>1, <1>4 DEF IsSum
<1>. QED BY <1>1, <1>3, <1>5, <1>6, SumValue

(* The sum of integers is an integer, of naturals a natural.               *)
LEMMA SumInt ==
    ASSUME NEW S, IsFiniteSet(S), NEW f, \A x \in S : f[x] \in Int
    PROVE  SumFunctionOnSet(f, S) \in Int
<1>. DEFINE G == {s \in SUBSET S : SumFunctionOnSet(f, s) \in Int}
<1>1. {} \in G
  BY SumEmpty
<1>2. ASSUME NEW s \in SUBSET S, s # {}, \A x \in s : s \ {x} \in G
      PROVE  s \in G
  <2>1. IsFiniteSet(s) /\ Some(s) \in s
    BY <1>2, SomeMember, FS_Subset
  <2>2. SumFunctionOnSet(f, s) = f[Some(s)] + SumFunctionOnSet(f, s \ {Some(s)})
    BY <1>2, <2>1, SumSome
  <2>. QED BY <1>2, <2>1, <2>2
<1>. HIDE DEF G
<1>3. S \in G
  BY <1>1, <1>2, SubsetInduction
<1>. QED BY <1>3 DEF G

LEMMA SumNat ==
    ASSUME NEW S, IsFiniteSet(S), NEW f, \A x \in S : f[x] \in Nat
    PROVE  SumFunctionOnSet(f, S) \in Nat
<1>. DEFINE G == {s \in SUBSET S : SumFunctionOnSet(f, s) \in Nat}
<1>1. {} \in G
  BY SumEmpty
<1>2. ASSUME NEW s \in SUBSET S, s # {}, \A x \in s : s \ {x} \in G
      PROVE  s \in G
  <2>1. IsFiniteSet(s) /\ Some(s) \in s
    BY <1>2, SomeMember, FS_Subset
  <2>2. SumFunctionOnSet(f, s) = f[Some(s)] + SumFunctionOnSet(f, s \ {Some(s)})
    BY <1>2, <2>1, SumSome
  <2>. QED BY <1>2, <2>1, <2>2
<1>. HIDE DEF G
<1>3. S \in G
  BY <1>1, <1>2, SubsetInduction
<1>. QED BY <1>3 DEF G

(* Any element can be taken out first.                                     *)
LEMMA SumWithout ==
    ASSUME NEW S, IsFiniteSet(S), NEW f, \A x \in S : f[x] \in Int
    PROVE  \A x \in S : SumFunctionOnSet(f, S) = f[x] + SumFunctionOnSet(f, S \ {x})
<1>. DEFINE G == {s \in SUBSET S : \A x \in s : SumFunctionOnSet(f, s) = f[x] + SumFunctionOnSet(f, s \ {x})}
<1>1. {} \in G
  OBVIOUS
<1>2. ASSUME NEW s \in SUBSET S, s # {}, \A x \in s : s \ {x} \in G, NEW x \in s
      PROVE  SumFunctionOnSet(f, s) = f[x] + SumFunctionOnSet(f, s \ {x})
  <2>1. PICK y : y = Some(s)
    OBVIOUS
  <2>2. y \in s /\ IsFiniteSet(s)
    BY <1>2, <2>1, SomeMember, FS_Subset
  <2>3. SumFunctionOnSet(f, s) = f[y] + SumFunctionOnSet(f, s \ {y})
    BY <1>2, <2>1, <2>2, SumSome
  <2>4. CASE x = y
    BY <2>3, <2>4
  <2>5. CASE x # y
    <3>1. PICK t : t = (s \ {x}) \ {y}
      OBVIOUS
    <3>2. t = (s \ {y}) \ {x} /\ x \in s \ {y} /\ y \in s \ {x}
      BY <2>2, <2>5, <3>1
    <3>3. SumFunctionOnSet(f, s \ {y}) = f[x] + SumFunctionOnSet(f, t)
      BY <1>2, <2>2, <3>2
    <3>4. SumFunctionOnSet(f, s \ {x}) = f[y] + SumFunctionOnSet(f, t)
      BY <1>2, <3>1, <3>2
    <3>5. t \subseteq S /\ IsFiniteSet(t)
      BY <2>2, <3>1, FS_Subset
    <3>6. SumFunctionOnSet(f, t) \in Int
      BY <3>5, SumInt
    <3>7. f[x] \in Int /\ f[y] \in Int
      BY <2>2
    <3>. HIDE DEF G
    <3>. QED BY <2>3, <3>3, <3>4, <3>6, <3>7
  <2>. QED BY <2>4, <2>5
<1>3. ASSUME NEW s \in SUBSET S, s # {}, \A x \in s : s \ {x} \in G
      PROVE  s \in G
  BY <1>2, <1>3
<1>. HIDE DEF G
<1>4. S \in G
  BY <1>1, <1>3, SubsetInduction
<1>. QED BY <1>4 DEF G

LEMMA SumAdd ==
    ASSUME NEW S, IsFiniteSet(S), NEW y, y \notin S, NEW f, \A x \in S \cup {y} : f[x] \in Int
    PROVE  SumFunctionOnSet(f, S \cup {y}) = f[y] + SumFunctionOnSet(f, S)
<1>1. PICK T : T = S \cup {y}
  OBVIOUS
<1>2. IsFiniteSet(T) /\ y \in T /\ T \ {y} = S
  BY <1>1, FS_AddElement
<1>. QED BY <1>1, <1>2, SumWithout

(* The sum over a range of indices does not depend on where it starts.     *)
LEMMA SumShift ==
    ASSUME NEW n \in Nat, NEW f, NEW g,
           \A i \in 1..n : f[i] = g[i + 1] /\ f[i] \in Int
    PROVE  SumFunctionOnSet(f, 1..n) = SumFunctionOnSet(g, 2..(n + 1))
<1>. DEFINE G == {m \in Nat : m <= n =>
                    SumFunctionOnSet(f, 1..m) = SumFunctionOnSet(g, 2..(m + 1))}
<1>1. 0 \in G
  <2>1. 1..0 = {} /\ 2..(0 + 1) = {}
    OBVIOUS
  <2>. QED BY <2>1, SumEmpty
<1>2. ASSUME NEW m \in Nat, m \in G, m + 1 <= n
      PROVE  SumFunctionOnSet(f, 1..(m + 1)) = SumFunctionOnSet(g, 2..((m + 1) + 1))
  <2>1. 1..(m + 1) = (1..m) \cup {m + 1} /\ 2..((m + 1) + 1) = (2..(m + 1)) \cup {m + 2}
    OBVIOUS
  <2>2. IsFiniteSet(1..m) /\ IsFiniteSet(2..(m + 1)) /\ m + 1 \notin 1..m /\ m + 2 \notin 2..(m + 1)
    <3>1. 1 \in Int /\ 2 \in Int /\ m \in Int /\ m + 1 \in Int
      OBVIOUS
    <3>2. IsFiniteSet(1..m) /\ IsFiniteSet(2..(m + 1))
      BY <3>1, FS_Interval
    <3>. QED BY <3>2
  <2>3. \A i \in (1..m) \cup {m + 1} : f[i] \in Int
    BY <1>2
  <2>4. \A i \in (2..(m + 1)) \cup {m + 2} : g[i] \in Int
    <3>1. ASSUME NEW i \in (2..(m + 1)) \cup {m + 2}
          PROVE  i - 1 \in 1..n /\ (i - 1) + 1 = i
      BY <1>2
    <3>. QED BY <3>1
  <2>5. SumFunctionOnSet(f, (1..m) \cup {m + 1}) = f[m + 1] + SumFunctionOnSet(f, 1..m)
    BY <2>2, <2>3, SumAdd
  <2>6. SumFunctionOnSet(g, (2..(m + 1)) \cup {m + 2}) = g[m + 2] + SumFunctionOnSet(g, 2..(m + 1))
    BY <2>2, <2>4, SumAdd
  <2>7. f[m + 1] = g[m + 2]
    <3>1. m + 1 \in 1..n /\ (m + 1) + 1 = m + 2
      BY <1>2
    <3>. QED BY <3>1
  <2>8. SumFunctionOnSet(f, 1..m) = SumFunctionOnSet(g, 2..(m + 1))
    BY <1>2
  <2>. QED BY <2>1, <2>5, <2>6, <2>7, <2>8
<1>3. \A m \in Nat : m \in G => m + 1 \in G
  BY <1>2
<1>. HIDE DEF G
<1>4. n \in G
  BY <1>1, <1>3, NumberInduction
<1>. QED BY <1>4 DEF G

-----------------------------------------------------------------------------
(* What a queue q of transfers brings to wallet k.                         *)

Counts(t, s, k) == t.asset = s /\ t.to = k
Part(q, s, k) == [i \in DOMAIN q |-> IF Counts(q[i], s, k) THEN q[i].amount ELSE 0]
Under(q, s, k) == SumFunctionOnSet(Part(q, s, k), DOMAIN q)

(* The amounts of the transfers to wallets are natural numbers.            *)
Amounts(q) == \A i \in DOMAIN q : q[i].to \in Addresses => q[i].amount \in Nat

LEMMA UnderWayIsUnder == \A s, k : UnderWay(s, k) = Under(inflight, s, k)
<1>. SUFFICES ASSUME NEW s, NEW k
              PROVE  UnderWay(s, k) = Under(inflight, s, k)
  OBVIOUS
<1>1. DOMAIN Part(inflight, s, k) = DOMAIN inflight
  BY DEF Part
<1>2. UnderWay(s, k) = SumFunctionOnSet(Part(inflight, s, k), DOMAIN Part(inflight, s, k))
  BY DEF UnderWay, Part, SumFunction, Counts
<1>. QED BY <1>1, <1>2 DEF Under

LEMMA PartNat ==
    ASSUME NEW q, Amounts(q), NEW s, NEW k \in Addresses
    PROVE  \A i \in DOMAIN q : Part(q, s, k)[i] \in Nat
  BY DEF Amounts, Part, Counts

LEMMA UnderNat ==
    ASSUME NEW S, NEW q \in Seq(S), Amounts(q), NEW s, NEW k \in Addresses
    PROVE  Under(q, s, k) \in Nat
<1>1. IsFiniteSet(DOMAIN q)
  BY FS_Interval
<1>. QED BY <1>1, PartNat, SumNat DEF Under

LEMMA UnderNone == \A s, k : Under(<< >>, s, k) = 0
<1>1. DOMAIN << >> = {}
  OBVIOUS
<1>. QED BY <1>1, SumEmpty DEF Under

LEMMA UnderAppend ==
    ASSUME NEW S, NEW q \in Seq(S), NEW t, Amounts(Append(q, t)), NEW s, NEW k \in Addresses
    PROVE  Under(Append(q, t), s, k)
              = (IF Counts(t, s, k) THEN t.amount ELSE 0) + Under(q, s, k)
<1>1. PICK n : n = Len(q)
  OBVIOUS
<1>2. PICK p : p = Append(q, t)
  OBVIOUS
<1>3. /\ n \in Nat /\ DOMAIN q = 1..n /\ DOMAIN p = (1..n) \cup {n + 1}
      /\ p[n + 1] = t /\ \A i \in 1..n : p[i] = q[i]
  BY <1>1, <1>2
<1>4. PICK f : f = Part(p, s, k)
  OBVIOUS
<1>5. PICK g : g = Part(q, s, k)
  OBVIOUS
<1>6. /\ f[n + 1] = IF Counts(t, s, k) THEN t.amount ELSE 0
      /\ \A i \in 1..n : f[i] = g[i]
  BY <1>3, <1>4, <1>5 DEF Part
<1>7. \A i \in (1..n) \cup {n + 1} : f[i] \in Nat
  BY <1>2, <1>3, <1>4, PartNat
<1>8. IsFiniteSet(1..n) /\ n + 1 \notin 1..n
  <2>1. 1 \in Int /\ n \in Int
    BY <1>3
  <2>2. IsFiniteSet(1..n)
    BY <2>1, FS_Interval
  <2>. QED BY <1>3, <2>2
<1>9. SumFunctionOnSet(f, (1..n) \cup {n + 1}) = f[n + 1] + SumFunctionOnSet(f, 1..n)
  <2>1. \A i \in (1..n) \cup {n + 1} : f[i] \in Int
    BY <1>7
  <2>2. PICK T, y : T = 1..n /\ y = n + 1
    OBVIOUS
  <2>. QED BY <1>8, <2>1, <2>2, SumAdd
<1>10. SumFunctionOnSet(f, 1..n) = SumFunctionOnSet(g, 1..n)
  BY <1>6, <1>8, SumSame
<1>. QED BY <1>2, <1>3, <1>4, <1>5, <1>6, <1>9, <1>10 DEF Under

LEMMA UnderTail ==
    ASSUME NEW S, NEW q \in Seq(S), q # << >>, Amounts(q), NEW s, NEW k \in Addresses
    PROVE  Under(q, s, k) = (IF Counts(Head(q), s, k) THEN Head(q).amount ELSE 0)
                            + Under(Tail(q), s, k)
<1>1. PICK n : n = Len(q) - 1
  OBVIOUS
<1>2. PICK p : p = Tail(q)
  OBVIOUS
<1>3. /\ n \in Nat /\ DOMAIN q = (2..(n + 1)) \cup {1} /\ DOMAIN p = 1..n
      /\ Head(q) = q[1] /\ \A i \in 1..n : p[i] = q[i + 1]
  BY <1>1, <1>2
<1>4. PICK f : f = Part(p, s, k)
  OBVIOUS
<1>5. PICK g : g = Part(q, s, k)
  OBVIOUS
<1>6. \A i \in (2..(n + 1)) \cup {1} : g[i] \in Nat
  BY <1>3, <1>5, PartNat
<1>7. \A i \in 1..n : i + 1 \in 2..(n + 1) /\ i + 1 \in DOMAIN q
  BY <1>3
<1>8. \A i \in 1..n : f[i] = g[i + 1] /\ f[i] \in Int
  <2>1. ASSUME NEW i \in 1..n
        PROVE  f[i] = g[i + 1] /\ f[i] \in Int
    <3>1. PICK j : j = i + 1
      OBVIOUS
    <3>2. j \in DOMAIN q /\ g[j] \in Int /\ p[i] = q[j]
      BY <1>3, <1>6, <1>7, <3>1
    <3>3. f[i] = g[j]
      BY <1>3, <1>4, <1>5, <3>2 DEF Part
    <3>. QED BY <3>1, <3>2, <3>3
  <2>. QED BY <2>1
<1>9. SumFunctionOnSet(f, 1..n) = SumFunctionOnSet(g, 2..(n + 1))
  BY <1>3, <1>8, SumShift
<1>10. IsFiniteSet(2..(n + 1)) /\ 1 \notin 2..(n + 1)
  <2>1. 2 \in Int /\ n + 1 \in Int
    BY <1>3
  <2>2. IsFiniteSet(2..(n + 1))
    BY <2>1, FS_Interval
  <2>. QED BY <1>3, <2>2
<1>11. SumFunctionOnSet(g, (2..(n + 1)) \cup {1}) = g[1] + SumFunctionOnSet(g, 2..(n + 1))
  <2>1. \A i \in (2..(n + 1)) \cup {1} : g[i] \in Int
    BY <1>6
  <2>2. PICK T, y : T = 2..(n + 1) /\ y = 1
    OBVIOUS
  <2>. QED BY <1>10, <2>1, <2>2, SumAdd
<1>12. g[1] = IF Counts(Head(q), s, k) THEN Head(q).amount ELSE 0
  BY <1>3, <1>5 DEF Part
<1>. QED BY <1>2, <1>3, <1>4, <1>5, <1>9, <1>11, <1>12 DEF Under

-----------------------------------------------------------------------------
(* The inductive invariant. What a wallet has, what is under way to it and *)
(* what the funder is about to send to it are together no more than the    *)
(* target, once more for every receipt that was lost; and what is under    *)
(* way is what was lost track of, and the transfer that is watched.        *)

At(tk, pc, s, k) == tk.pc = pc /\ tk.asset = s /\ Head(tk.todo) = k

WalletOK(tk, has, under, n, s, k) ==
    /\ has + under + (IF At(tk, "send", s, k) THEN tk.missing ELSE 0) <= Target[s] + Target[s] * n
    /\ under <= Target[s] * n + (IF At(tk, "watch", s, k) THEN Target[s] ELSE 0)
    /\ At(tk, "send", s, k) => tk.missing \in 0..Target[s]

WalletsOK ==
    \A s \in Assets, k \in Addresses :
        WalletOK(task, balance[s][k], Under(inflight, s, k), lost, s, k)

TaskShape(tk) ==
    /\ tk = [pc |-> tk.pc, todo |-> tk.todo, asset |-> tk.asset, missing |-> tk.missing]
    /\ tk.asset \in Assets

FundShape ==
    /\ lost \in Nat
    /\ TaskShape(task)
    /\ balance \in [Assets -> [Addresses -> Nat]]
    /\ \E S : inflight \in Seq(S)
    /\ Amounts(inflight)

FundInv == FundShape /\ WalletsOK

(* The target, n times over.                                               *)
LEMMA Products ==
    ASSUME NEW s \in Assets, NEW n \in Nat
    PROVE  /\ Target[s] \in Nat
           /\ Target[s] * n \in Nat
           /\ Target[s] * (1 + n) = Target[s] + Target[s] * n
           /\ Target[s] * (n + 1) = Target[s] + Target[s] * n
<1>1. PICK d : d = Target[s]
  OBVIOUS
<1>2. d \in Nat
  BY <1>1, ThresholdsType
<1>3. d * n \in Nat /\ d * (1 + n) = d + d * n /\ d * (n + 1) = d + d * n
  BY <1>2
<1>. QED BY <1>1, <1>2, <1>3

LEMMA FundStarts == Init => FundInv
<1>. SUFFICES ASSUME Init
              PROVE  FundInv
  OBVIOUS
<1>1. FundShape
  <2>1. lost = 0 /\ task = Idle /\ inflight = << >> /\ balance = [s \in Assets |-> [a \in Addresses |-> 0]]
    BY DEF Init, InitFunder
  <2>2. TaskShape(task)
    BY <2>1 DEF TaskShape, Idle, Assets
  <2>3. \E S : inflight \in Seq(S)
    BY <2>1
  <2>4. Amounts(inflight)
    BY <2>1 DEF Amounts
  <2>. QED BY <2>1, <2>2, <2>3, <2>4 DEF FundShape
<1>2. ASSUME NEW s \in Assets, NEW k \in Addresses
      PROVE  WalletOK(task, balance[s][k], Under(inflight, s, k), lost, s, k)
  <2>1. balance[s][k] = 0 /\ lost = 0 /\ task.pc = "idle" /\ Under(inflight, s, k) = 0
    BY UnderNone DEF Init, InitFunder, Idle
  <2>. QED BY <2>1, Products DEF WalletOK, At
<1>. QED BY <1>1, <1>2 DEF FundInv, WalletsOK

(* A step that changes nothing but what the funder is doing: the wallets   *)
(* stay as they are if the funder gives up, goes on to another one, or to  *)
(* another asset, with nothing under way that it watched.                  *)
Onward(tk) == TaskShape(tk) /\ tk.pc \in {"idle", "read"}

LEMMA IdleOnward == Onward(Idle)
  BY DEF Onward, TaskShape, Idle, Assets

LEMMA StartOnward == \A todo : Onward(Start(todo))
<1>. SUFFICES ASSUME NEW todo
              PROVE  Onward(Start(todo))
  OBVIOUS
<1>1. CASE todo = << >>
  BY <1>1, IdleOnward DEF Start
<1>2. CASE todo # << >>
  BY <1>2 DEF Start, Onward, TaskShape, Idle, Assets
<1>. QED BY <1>1, <1>2

LEMMA FollowingOnward == TaskShape(task) => Onward(Following)
<1>. SUFFICES ASSUME TaskShape(task)
              PROVE  Onward(Following)
  OBVIOUS
<1>1. CASE task.asset = "eth" /\ Target["nil"] # 0
  <2>1. Following = [pc |-> "read", todo |-> task.todo, asset |-> "nil", missing |-> task.missing]
    BY <1>1 DEF Following, TaskShape
  <2>. QED BY <2>1 DEF Onward, TaskShape, Assets
<1>2. CASE ~(task.asset = "eth" /\ Target["nil"] # 0)
  <2>1. Following = Start(Tail(task.todo))
    BY <1>2 DEF Following
  <2>. QED BY <2>1, StartOnward
<1>. QED BY <1>1, <1>2

LEMMA OnwardKeeps ==
    ASSUME FundInv, Onward(task'), task.pc # "watch" \/ inflight = << >>,
           UNCHANGED <<lost, chainVars>>
    PROVE  FundInv'
<1>1. FundShape'
  <2>1. lost' = lost /\ balance' = balance /\ inflight' = inflight
    BY DEF chainVars
  <2>2. Amounts(inflight)' <=> Amounts(inflight)
    BY <2>1 DEF Amounts
  <2>. QED BY <2>1, <2>2 DEF FundInv, FundShape, Onward
<1>2. ASSUME NEW s \in Assets, NEW k \in Addresses
      PROVE  WalletOK(task', balance'[s][k], Under(inflight', s, k), lost', s, k)
  <2>1. PICK u : u = Under(inflight, s, k)
    OBVIOUS
  <2>2. PICK has : has = balance[s][k]
    OBVIOUS
  <2>3. u \in Nat /\ has \in Nat /\ lost \in Nat
    BY <2>1, <2>2, UnderNat DEF FundInv, FundShape
  <2>4. PICK d : d = Target[s]
    OBVIOUS
  <2>5. PICK m : m = Target[s] * lost
    OBVIOUS
  <2>6. d \in Nat /\ m \in Nat
    BY <2>3, <2>4, <2>5, Products
  <2>7. WalletOK(task, has, u, lost, s, k)
    BY <2>1, <2>2 DEF FundInv, WalletsOK
  <2>8. has + u <= d + m
    <3>1. PICK x : x = IF At(task, "send", s, k) THEN task.missing ELSE 0
      OBVIOUS
    <3>2. x \in Nat
      BY <2>4, <2>6, <2>7, <3>1 DEF WalletOK
    <3>3. has + u + x <= d + m
      BY <2>4, <2>5, <2>7, <3>1 DEF WalletOK
    <3>. QED BY <2>3, <2>6, <3>2, <3>3
  <2>9. u <= m
    <3>1. CASE task.pc # "watch"
      BY <2>3, <2>5, <2>6, <2>7, <3>1 DEF WalletOK, At
    <3>2. CASE inflight = << >>
      BY <2>1, <2>6, <3>2, UnderNone
    <3>. QED BY <3>1, <3>2
  <2>10. task'.pc # "send" /\ task'.pc # "watch"
    BY DEF Onward
  <2>11. WalletOK(task', has, u, lost, s, k)
    BY <2>3, <2>4, <2>5, <2>6, <2>8, <2>9, <2>10 DEF WalletOK, At
  <2>. QED BY <2>1, <2>2, <2>11 DEF chainVars
<1>. QED BY <1>1, <1>2 DEF FundInv, WalletsOK

(* The funder reads a balance that is too low.                             *)
LEMMA ReadKeeps ==
    ASSUME FundInv, task.pc = "read", UNCHANGED <<lost, chainVars>>,
           task' = [task EXCEPT !.pc = "send",
                                !.missing = Missing(balance[task.asset][Head(task.todo)], task.asset)]
    PROVE  FundInv'
<1>1. PICK a : a = task.asset
  OBVIOUS
<1>2. PICK h : h = Head(task.todo)
  OBVIOUS
<1>3. PICK x : x = Missing(balance[a][h], a)
  OBVIOUS
<1>4. task' = [pc |-> "send", todo |-> task.todo, asset |-> task.asset, missing |-> x]
  BY <1>1, <1>2, <1>3 DEF FundInv, FundShape, TaskShape
<1>5. FundShape'
  <2>1. lost' = lost /\ balance' = balance /\ inflight' = inflight
    BY DEF chainVars
  <2>2. Amounts(inflight)' <=> Amounts(inflight)
    BY <2>1 DEF Amounts
  <2>3. TaskShape(task')
    BY <1>4 DEF FundInv, FundShape, TaskShape
  <2>. QED BY <2>1, <2>2, <2>3 DEF FundInv, FundShape
<1>6. ASSUME NEW s \in Assets, NEW k \in Addresses
      PROVE  WalletOK(task', balance'[s][k], Under(inflight', s, k), lost', s, k)
  <2>1. PICK u : u = Under(inflight, s, k)
    OBVIOUS
  <2>2. PICK has : has = balance[s][k]
    OBVIOUS
  <2>3. u \in Nat /\ has \in Nat /\ lost \in Nat
    BY <2>1, <2>2, UnderNat DEF FundInv, FundShape
  <2>4. PICK d : d = Target[s]
    OBVIOUS
  <2>5. PICK m : m = Target[s] * lost
    OBVIOUS
  <2>6. d \in Nat /\ m \in Nat
    BY <2>3, <2>4, <2>5, Products
  <2>7. WalletOK(task, has, u, lost, s, k)
    BY <2>1, <2>2 DEF FundInv, WalletsOK
  <2>8. has + u <= d + m /\ u <= m
    BY <2>3, <2>4, <2>5, <2>6, <2>7 DEF WalletOK, At
  <2>9. WalletOK(task', has, u, lost, s, k)
    <3>1. CASE a = s /\ h = k
      <4>1. x = IF d > has THEN d - has ELSE 0
        BY <1>3, <2>2, <2>4, <3>1 DEF Missing
      <4>2. x \in 0..d /\ has + u + x <= d + m
        <5>1. CASE d > has
          <6>1. x = d - has
            BY <4>1, <5>1
          <6>2. x \in Nat /\ x <= d /\ has + u + x = d + u
            BY <2>3, <2>6, <5>1, <6>1
          <6>3. d + u <= d + m
            BY <2>3, <2>6, <2>8
          <6>. QED BY <2>6, <6>2, <6>3
        <5>2. CASE ~(d > has)
          <6>1. x = 0
            BY <4>1, <5>2
          <6>. QED BY <2>3, <2>6, <2>8, <6>1
        <5>. QED BY <5>1, <5>2
      <4>3. At(task', "send", s, k) /\ ~At(task', "watch", s, k) /\ task'.missing = x
        <5>1. task'.pc = "send" /\ task'.asset = a /\ Head(task'.todo) = h /\ task'.missing = x
          <6>1. PICK tk : tk = [pc |-> "send", todo |-> task.todo, asset |-> task.asset, missing |-> x]
            OBVIOUS
          <6>2. tk.pc = "send" /\ tk.asset = a /\ Head(tk.todo) = h /\ tk.missing = x
            BY <1>1, <1>2, <6>1
          <6>. QED BY <1>4, <6>1, <6>2
        <5>. QED BY <3>1, <5>1 DEF At
      <4>4. has + u + (IF At(task', "send", s, k) THEN task'.missing ELSE 0) <= Target[s] + Target[s] * lost
        BY <2>4, <2>5, <4>2, <4>3
      <4>5. u <= Target[s] * lost + (IF At(task', "watch", s, k) THEN Target[s] ELSE 0)
        BY <2>3, <2>5, <2>6, <2>8, <4>3
      <4>. QED BY <2>4, <4>2, <4>3, <4>4, <4>5 DEF WalletOK
    <3>2. CASE ~(a = s /\ h = k)
      <4>1. ~At(task', "send", s, k) /\ ~At(task', "watch", s, k)
        BY <1>1, <1>2, <1>4, <3>2 DEF At
      <4>. QED BY <2>3, <2>4, <2>5, <2>6, <2>8, <4>1 DEF WalletOK
    <3>. QED BY <3>1, <3>2
  <2>. QED BY <2>1, <2>2, <2>9 DEF chainVars
<1>. QED BY <1>5, <1>6 DEF FundInv, WalletsOK

LEMMA SendKeeps == FundInv /\ EnsureSend => FundInv'
<1>. SUFFICES ASSUME FundInv, EnsureSend
              PROVE  FundInv'
  OBVIOUS
<1>1. PICK a : a = task.asset
  OBVIOUS
<1>2. PICK h : h = Head(task.todo)
  OBVIOUS
<1>3. PICK x : x = task.missing
  OBVIOUS
<1>4. PICK t : t = [asset |-> a, to |-> h, amount |-> x]
  OBVIOUS
<1>5. /\ task' = [pc |-> "watch", todo |-> task.todo, asset |-> task.asset, missing |-> task.missing]
      /\ inflight' = Append(inflight, t)
      /\ task.pc = "send" /\ lost' = lost /\ balance' = balance
  BY <1>1, <1>2, <1>3, <1>4 DEF EnsureSend, FundInv, FundShape, TaskShape
<1>6. a \in Assets /\ (h \in Addresses => x \in 0..Target[a])
  BY <1>1, <1>2, <1>3, <1>5 DEF FundInv, FundShape, TaskShape, WalletsOK, WalletOK, At
<1>7. PICK S : inflight \in Seq(S)
  BY DEF FundInv, FundShape
<1>8. Amounts(Append(inflight, t))
  <2>1. h \in Addresses => x \in Nat
    BY <1>6, ThresholdsType
  <2>2. PICK p : p = Append(inflight, t)
    OBVIOUS
  <2>3. \A i \in DOMAIN p : p[i] = t \/ (i \in DOMAIN inflight /\ p[i] = inflight[i])
    BY <1>7, <2>2
  <2>. QED BY <1>4, <2>1, <2>2, <2>3 DEF Amounts, FundInv, FundShape
<1>9. FundShape'
  <2>1. TaskShape(task')
    BY <1>5 DEF FundInv, FundShape, TaskShape
  <2>2. inflight' \in Seq(S \cup {t})
    BY <1>5, <1>7
  <2>3. Amounts(inflight)'
    BY <1>5, <1>8 DEF Amounts
  <2>. QED BY <1>5, <2>1, <2>2, <2>3 DEF FundInv, FundShape
<1>10. ASSUME NEW s \in Assets, NEW k \in Addresses
       PROVE  WalletOK(task', balance'[s][k], Under(inflight', s, k), lost', s, k)
  <2>1. PICK u : u = Under(inflight, s, k)
    OBVIOUS
  <2>2. PICK has : has = balance[s][k]
    OBVIOUS
  <2>3. u \in Nat /\ has \in Nat /\ lost \in Nat
    BY <2>1, <2>2, UnderNat DEF FundInv, FundShape
  <2>4. PICK d : d = Target[s]
    OBVIOUS
  <2>5. PICK m : m = Target[s] * lost
    OBVIOUS
  <2>6. d \in Nat /\ m \in Nat
    BY <2>3, <2>4, <2>5, Products
  <2>7. WalletOK(task, has, u, lost, s, k)
    BY <2>1, <2>2 DEF FundInv, WalletsOK
  <2>8. Under(Append(inflight, t), s, k) = (IF Counts(t, s, k) THEN t.amount ELSE 0) + u
    BY <1>7, <1>8, <2>1, UnderAppend
  <2>9. ~At(task', "send", s, k) /\ ~At(task, "watch", s, k)
    BY <1>5 DEF At
  <2>10. CASE a = s /\ h = k
    <3>1. Under(Append(inflight, t), s, k) = x + u
      BY <1>4, <2>8, <2>10 DEF Counts
    <3>2. At(task, "send", s, k) /\ At(task', "watch", s, k)
      BY <1>1, <1>2, <1>5, <2>10 DEF At
    <3>3. x \in 0..d /\ has + u + x <= d + m /\ u <= m
      BY <1>3, <2>3, <2>4, <2>5, <2>6, <2>7, <2>9, <3>2 DEF WalletOK
    <3>4. WalletOK(task', has, x + u, lost, s, k)
      BY <2>3, <2>4, <2>5, <2>6, <2>9, <3>2, <3>3 DEF WalletOK
    <3>. QED BY <1>5, <2>2, <3>1, <3>4
  <2>11. CASE ~(a = s /\ h = k)
    <3>1. Under(Append(inflight, t), s, k) = u
      BY <1>4, <2>3, <2>8, <2>11 DEF Counts
    <3>2. ~At(task, "send", s, k) /\ ~At(task', "watch", s, k)
      BY <1>1, <1>2, <1>5, <2>11 DEF At
    <3>3. WalletOK(task', has, u, lost, s, k)
      BY <2>3, <2>4, <2>5, <2>6, <2>7, <2>9, <3>2 DEF WalletOK
    <3>. QED BY <1>5, <2>2, <3>1, <3>3
  <2>. QED BY <2>10, <2>11
<1>. QED BY <1>9, <1>10 DEF FundInv, WalletsOK

(* The receipt is lost: from now on the transfer counts as one of the lost *)
(* ones.                                                                   *)
LEMMA LostKeeps == FundInv /\ WatchFails => FundInv'
<1>. SUFFICES ASSUME FundInv, WatchFails
              PROVE  FundInv'
  OBVIOUS
<1>1. lost' = lost + 1 /\ task' = Idle /\ balance' = balance /\ inflight' = inflight
  BY DEF WatchFails, chainVars
<1>2. FundShape'
  <2>1. Amounts(inflight)' <=> Amounts(inflight)
    BY <1>1 DEF Amounts
  <2>2. TaskShape(task')
    BY <1>1, IdleOnward DEF Onward
  <2>. QED BY <1>1, <2>1, <2>2 DEF FundInv, FundShape
<1>3. ASSUME NEW s \in Assets, NEW k \in Addresses
      PROVE  WalletOK(task', balance'[s][k], Under(inflight', s, k), lost', s, k)
  <2>1. PICK u : u = Under(inflight, s, k)
    OBVIOUS
  <2>2. PICK has : has = balance[s][k]
    OBVIOUS
  <2>3. u \in Nat /\ has \in Nat /\ lost \in Nat
    BY <2>1, <2>2, UnderNat DEF FundInv, FundShape
  <2>4. PICK d : d = Target[s]
    OBVIOUS
  <2>5. PICK m : m = Target[s] * lost
    OBVIOUS
  <2>6. d \in Nat /\ m \in Nat /\ Target[s] * (lost + 1) = d + m
    BY <2>3, <2>4, <2>5, Products
  <2>7. WalletOK(task, has, u, lost, s, k)
    BY <2>1, <2>2 DEF FundInv, WalletsOK
  <2>8. ~At(task, "send", s, k) /\ ~At(task', "send", s, k) /\ ~At(task', "watch", s, k)
    BY <1>1 DEF WatchFails, At, Idle
  <2>9. has + u <= d + m /\ u <= m + d
    BY <2>3, <2>4, <2>5, <2>6, <2>7, <2>8 DEF WalletOK
  <2>10. WalletOK(task', has, u, lost + 1, s, k)
    BY <2>3, <2>4, <2>6, <2>8, <2>9 DEF WalletOK
  <2>. QED BY <1>1, <2>1, <2>2, <2>10
<1>. QED BY <1>2, <1>3 DEF FundInv, WalletsOK

(* The chain executes a transfer: it moves from the one side to the other. *)
LEMMA MineKeeps == FundInv /\ Mine => FundInv'
<1>. SUFFICES ASSUME FundInv, Mine
              PROVE  FundInv'
  OBVIOUS
<1>1. PICK t : t = Head(inflight)
  OBVIOUS
<1>2. /\ inflight # << >> /\ inflight' = Tail(inflight)
      /\ balance' = [balance EXCEPT ![t.asset][t.to] = @ + t.amount]
      /\ task' = task /\ lost' = lost
  BY <1>1 DEF Mine, funderVars
<1>3. PICK S : inflight \in Seq(S)
  BY DEF FundInv, FundShape
<1>4. t.to \in Addresses => t.amount \in Nat
  <2>1. 1 \in DOMAIN inflight /\ inflight[1] = t
    BY <1>1, <1>2, <1>3
  <2>. QED BY <2>1 DEF FundInv, FundShape, Amounts
<1>5. balance \in [Assets -> [Addresses -> Nat]]
  BY DEF FundInv, FundShape
<1>6. balance' \in [Assets -> [Addresses -> Nat]]
  <2>1. CASE t.to \in Addresses
    <3>1. CASE t.asset \in Assets
      <4>1. PICK b : b = [balance[t.asset] EXCEPT ![t.to] = @ + t.amount]
        OBVIOUS
      <4>2. b \in [Addresses -> Nat]
        BY <1>4, <1>5, <2>1, <3>1, <4>1
      <4>3. balance' = [balance EXCEPT ![t.asset] = b]
        BY <1>2, <1>5, <4>1
      <4>. QED BY <1>5, <4>2, <4>3
    <3>2. CASE t.asset \notin Assets
      BY <1>2, <1>5, <3>2
    <3>. QED BY <3>1, <3>2
  <2>2. CASE t.to \notin Addresses
    <3>1. [balance EXCEPT ![t.asset][t.to] = @ + t.amount] = balance
      BY <1>5, <2>2
    <3>. QED BY <1>2, <1>5, <3>1
  <2>. QED BY <2>1, <2>2
<1>7. \A s \in Assets, k \in Addresses :
          balance'[s][k] = (IF Counts(t, s, k) THEN t.amount ELSE 0) + balance[s][k]
  BY <1>2, <1>4, <1>5 DEF Counts
<1>8. Amounts(Tail(inflight))
  <2>1. PICK p : p = Tail(inflight)
    OBVIOUS
  <2>2. \A i \in DOMAIN p : i + 1 \in DOMAIN inflight /\ p[i] = inflight[i + 1]
    BY <1>2, <1>3, <2>1
  <2>. QED BY <2>1, <2>2 DEF FundInv, FundShape, Amounts
<1>9. FundShape'
  <2>1. Amounts(inflight)'
    BY <1>2, <1>8 DEF Amounts
  <2>2. inflight' \in Seq(S)
    BY <1>2, <1>3
  <2>. QED BY <1>2, <1>6, <2>1, <2>2 DEF FundInv, FundShape
<1>10. ASSUME NEW s \in Assets, NEW k \in Addresses
       PROVE  WalletOK(task', balance'[s][k], Under(inflight', s, k), lost', s, k)
  <2>1. PICK u : u = Under(Tail(inflight), s, k)
    OBVIOUS
  <2>2. PICK has : has = balance[s][k]
    OBVIOUS
  <2>3. PICK x : x = IF Counts(t, s, k) THEN t.amount ELSE 0
    OBVIOUS
  <2>4. u \in Nat /\ has \in Nat /\ lost \in Nat /\ x \in Nat
    <3>1. Tail(inflight) \in Seq(S)
      BY <1>2, <1>3
    <3>2. u \in Nat
      BY <1>8, <2>1, <3>1, UnderNat
    <3>3. x \in Nat
      BY <1>4, <2>3 DEF Counts
    <3>. QED BY <1>5, <2>2, <3>2, <3>3 DEF FundInv, FundShape
  <2>5. Under(inflight, s, k) = x + u
    BY <1>1, <1>2, <1>3, <2>1, <2>3, UnderTail DEF FundInv, FundShape
  <2>6. balance'[s][k] = x + has
    BY <1>7, <2>2, <2>3
  <2>7. PICK d : d = Target[s]
    OBVIOUS
  <2>8. PICK m : m = Target[s] * lost
    OBVIOUS
  <2>9. d \in Nat /\ m \in Nat
    BY <2>4, <2>7, <2>8, Products
  <2>10. WalletOK(task, has, x + u, lost, s, k)
    BY <2>2, <2>5 DEF FundInv, WalletsOK
  <2>11. PICK y : y = IF At(task, "send", s, k) THEN task.missing ELSE 0
    OBVIOUS
  <2>12. PICK z : z = IF At(task, "watch", s, k) THEN Target[s] ELSE 0
    OBVIOUS
  <2>13. y \in Nat /\ z \in Nat
    BY <2>7, <2>9, <2>10, <2>11, <2>12 DEF WalletOK
  <2>14. has + (x + u) + y <= d + m /\ x + u <= m + z
    BY <2>7, <2>8, <2>10, <2>11, <2>12 DEF WalletOK
  <2>15. (x + has) + u + y <= d + m /\ u <= m + z
    BY <2>4, <2>9, <2>13, <2>14
  <2>16. WalletOK(task, x + has, u, lost, s, k)
    BY <2>7, <2>8, <2>10, <2>11, <2>12, <2>15 DEF WalletOK
  <2>. QED BY <1>2, <2>1, <2>6, <2>16
<1>. QED BY <1>9, <1>10 DEF FundInv, WalletsOK

(* The workloads, their emitters and the configuration: they spend, and    *)
(* touch nothing else that the funder's account depends on.                *)
Spends ==
    /\ UNCHANGED <<task, inflight, lost>>
    /\ balance' \in [Assets -> [Addresses -> Nat]]
    /\ \A s \in Assets, k \in Addresses : balance'[s][k] <= balance[s][k]

LEMMA SpendingKeeps == FundInv /\ Spends => FundInv'
<1>. SUFFICES ASSUME FundInv, Spends
              PROVE  FundInv'
  OBVIOUS
<1>1. task' = task /\ inflight' = inflight /\ lost' = lost
  BY DEF Spends
<1>2. FundShape'
  <2>1. Amounts(inflight)' <=> Amounts(inflight)
    BY <1>1 DEF Amounts
  <2>. QED BY <1>1, <2>1 DEF FundInv, FundShape, Spends
<1>3. ASSUME NEW s \in Assets, NEW k \in Addresses
      PROVE  WalletOK(task', balance'[s][k], Under(inflight', s, k), lost', s, k)
  <2>1. PICK u : u = Under(inflight, s, k)
    OBVIOUS
  <2>2. PICK has, now : has = balance[s][k] /\ now = balance'[s][k]
    OBVIOUS
  <2>3. u \in Nat /\ has \in Nat /\ now \in Nat /\ now <= has /\ lost \in Nat
    BY <2>1, <2>2, UnderNat DEF FundInv, FundShape, Spends
  <2>4. PICK d : d = Target[s]
    OBVIOUS
  <2>5. PICK m : m = Target[s] * lost
    OBVIOUS
  <2>6. d \in Nat /\ m \in Nat
    BY <2>3, <2>4, <2>5, Products
  <2>7. WalletOK(task, has, u, lost, s, k)
    BY <2>1, <2>2 DEF FundInv, WalletsOK
  <2>8. PICK y : y = IF At(task, "send", s, k) THEN task.missing ELSE 0
    OBVIOUS
  <2>9. y \in Nat
    BY <2>4, <2>6, <2>7, <2>8 DEF WalletOK
  <2>10. has + u + y <= d + m
    BY <2>4, <2>5, <2>7, <2>8 DEF WalletOK
  <2>11. now + u + y <= d + m
    BY <2>3, <2>6, <2>9, <2>10
  <2>12. WalletOK(task, now, u, lost, s, k)
    BY <2>4, <2>5, <2>7, <2>8, <2>11 DEF WalletOK
  <2>. QED BY <1>1, <2>1, <2>2, <2>12
<1>. QED BY <1>2, <1>3 DEF FundInv, WalletsOK

(* What an emitter pays, a wallet has.                                     *)
LEMMA PaySpends ==
    ASSUME balance \in [Assets -> [Addresses -> Nat]],
           NEW e \in Nat, NEW n \in Nat, NEW k, Pay(e, n, k)
    PROVE  /\ balance' \in [Assets -> [Addresses -> Nat]]
           /\ \A s \in Assets, j \in Addresses : balance'[s][j] <= balance[s][j]
<1>1. PICK b, c : b = balance["eth"] /\ c = balance["nil"]
  OBVIOUS
<1>2. PICK b1 : b1 = [b EXCEPT ![k] = @ - e]
  OBVIOUS
<1>3. PICK c1 : c1 = [c EXCEPT ![k] = @ - n]
  OBVIOUS
<1>4. b \in [Addresses -> Nat] /\ c \in [Addresses -> Nat] /\ b[k] >= e /\ c[k] >= n
  BY <1>1 DEF Pay, Assets
<1>5. b1 \in [Addresses -> Nat] /\ \A j \in Addresses : b1[j] <= b[j]
  <2>1. CASE k \in Addresses
    BY <1>2, <1>4, <2>1
  <2>2. CASE k \notin Addresses
    <3>1. b1 = b
      BY <1>2, <1>4, <2>2
    <3>. QED BY <1>4, <3>1
  <2>. QED BY <2>1, <2>2
<1>6. c1 \in [Addresses -> Nat] /\ \A j \in Addresses : c1[j] <= c[j]
  <2>1. CASE k \in Addresses
    BY <1>3, <1>4, <2>1
  <2>2. CASE k \notin Addresses
    <3>1. c1 = c
      BY <1>3, <1>4, <2>2
    <3>. QED BY <1>4, <3>1
  <2>. QED BY <2>1, <2>2
<1>7. balance' = [balance EXCEPT !["eth"] = b1, !["nil"] = c1]
  BY <1>1, <1>2, <1>3 DEF Pay, Assets
<1>8. balance'["eth"] = b1 /\ balance'["nil"] = c1 /\ DOMAIN balance' = Assets
  BY <1>7 DEF Assets
<1>. QED BY <1>1, <1>4, <1>5, <1>6, <1>7, <1>8 DEF Assets

LEMMA FundKept == FundInv /\ [Next]_vars => FundInv'
<1>. SUFFICES ASSUME FundInv, [Next]_vars
              PROVE  FundInv'
  OBVIOUS
<1>1. balance \in [Assets -> [Addresses -> Nat]] /\ TaskShape(task)
  BY DEF FundInv, FundShape
<1>2. CASE FunderStep
  <2>1. CASE HandleTick
    BY <2>1, OnwardKeeps, StartOnward DEF HandleTick, chainVars
  <2>2. CASE HandleCommand
    <3>1. CASE Head(queue).op = "add"
      BY <2>2, <3>1, OnwardKeeps, StartOnward DEF HandleCommand, chainVars
    <3>2. CASE Head(queue).op # "add"
      <4>1. UNCHANGED <<task, lost, chainVars>> /\ task.pc = "idle"
        BY <2>2, <3>2 DEF HandleCommand
      <4>2. Onward(task')
        BY <1>1, <4>1 DEF Onward
      <4>. QED BY <4>1, <4>2, OnwardKeeps DEF chainVars
    <3>. QED BY <3>1, <3>2
  <2>3. CASE EnsureRead
    <3>1. task.pc = "read" /\ UNCHANGED <<lost, chainVars>>
      BY <2>3 DEF EnsureRead
    <3>2. CASE task' = Following
      BY <1>1, <3>1, <3>2, FollowingOnward, OnwardKeeps
    <3>3. CASE task' = [task EXCEPT !.pc = "send",
                          !.missing = Missing(balance[task.asset][Head(task.todo)], task.asset)]
      BY <3>1, <3>3, ReadKeeps
    <3>. QED BY <2>3, <3>2, <3>3 DEF EnsureRead
  <2>4. CASE EnsureSend
    BY <2>4, SendKeeps
  <2>5. CASE EnsureWatch
    <3>1. task' = Following /\ inflight = << >> /\ UNCHANGED <<lost, chainVars>>
      BY <2>5 DEF EnsureWatch
    <3>. QED BY <1>1, <3>1, FollowingOnward, OnwardKeeps
  <2>6. CASE EnsureRefused \/ EnsureFails
    <3>1. task' = Idle /\ task.pc # "watch" /\ UNCHANGED <<lost, chainVars>>
      BY <2>6 DEF EnsureRefused, EnsureFails
    <3>. QED BY <3>1, IdleOnward, OnwardKeeps
  <2>7. CASE WatchFails
    BY <2>7, LostKeeps
  <2>8. CASE Mine
    BY <2>8, MineKeeps
  <2>. QED BY <1>2, <2>1, <2>2, <2>3, <2>4, <2>5, <2>6, <2>7, <2>8 DEF FunderStep
<1>3. CASE MonitorStep
  <2>1. UNCHANGED <<task, inflight, lost, balance>>
    BY <1>3 DEF MonitorStep, ApiPoll, AgentPoll, AgentSend, funderVars, chainVars
  <2>2. Spends
    BY <1>1, <2>1 DEF Spends
  <2>. QED BY <2>2, SpendingKeeps
<1>4. ASSUME NEW k \in Wallets, Deploy(k) \/ Undeploy(k) \/ EmitterStep(k)
      PROVE  FundInv'
  <2>1. CASE UNCHANGED <<task, inflight, lost, balance>>
    BY <1>1, <2>1, SpendingKeeps DEF Spends
  <2>2. CASE UNCHANGED <<task, inflight, lost>> /\ Pay(1, 0, k)
    <3>1. Spends
      BY <1>1, <2>2, PaySpends DEF Spends
    <3>. QED BY <3>1, SpendingKeeps
  <2>3. CASE UNCHANGED <<task, inflight, lost>> /\ Pay(1, 1, k)
    <3>1. Spends
      BY <1>1, <2>3, PaySpends DEF Spends
    <3>. QED BY <3>1, SpendingKeeps
  <2>4. CASE Deploy(k) \/ Undeploy(k)
    BY <2>1, <2>4 DEF Deploy, Undeploy, funderVars, chainVars
  <2>5. CASE Spawn(k) \/ WaitCertificate(k) \/ Connect(k) \/ BeatFails(k)
    BY <2>1, <2>5 DEF Spawn, WaitCertificate, Connect, BeatFails, varsFunder, funderVars, chainVars
  <2>6. CASE Approve(k)
    BY <2>1, <2>2, <2>6 DEF Approve
  <2>7. CASE BeatSent(k)
    BY <2>3, <2>7 DEF BeatSent, funderVars
  <2>8. CASE BeatReverted(k)
    BY <2>2, <2>8 DEF BeatReverted
  <2>. QED BY <1>4, <2>4, <2>5, <2>6, <2>7, <2>8 DEF EmitterStep
<1>5. ASSUME NEW i \in Intervals, NEW D \in SUBSET Wallets, SyncHeartbeatConfig(i, D)
      PROVE  FundInv'
  <2>1. Spends
    BY <1>1, <1>5 DEF Spends, SyncHeartbeatConfig, varsFunder, funderVars, chainVars
  <2>. QED BY <2>1, SpendingKeeps
<1>6. CASE UNCHANGED vars
  <2>1. Spends
    BY <1>1, <1>6 DEF Spends, vars, varsFunder, funderVars, chainVars
  <2>. QED BY <2>1, SpendingKeeps
<1>. QED BY <1>2, <1>3, <1>4, <1>5, <1>6 DEF Next

LEMMA FundedWhenKept == FundInv => FundedOnce
<1>. SUFFICES ASSUME FundInv, NEW s \in Assets, NEW k \in Addresses
              PROVE  balance[s][k] + UnderWay(s, k) <= Target[s] * (1 + lost)
  BY DEF FundedOnce
<1>1. PICK u : u = Under(inflight, s, k)
  OBVIOUS
<1>2. PICK has : has = balance[s][k]
  OBVIOUS
<1>3. u \in Nat /\ has \in Nat /\ lost \in Nat
  BY <1>1, <1>2, UnderNat DEF FundInv, FundShape
<1>4. PICK d : d = Target[s]
  OBVIOUS
<1>5. PICK m : m = Target[s] * lost
  OBVIOUS
<1>6. d \in Nat /\ m \in Nat /\ Target[s] * (1 + lost) = d + m
  BY <1>3, <1>4, <1>5, Products
<1>7. WalletOK(task, has, u, lost, s, k)
  BY <1>1, <1>2 DEF FundInv, WalletsOK
<1>8. PICK y : y = IF At(task, "send", s, k) THEN task.missing ELSE 0
  OBVIOUS
<1>9. y \in Nat /\ has + u + y <= d + m
  BY <1>4, <1>5, <1>6, <1>7, <1>8 DEF WalletOK
<1>10. has + u <= d + m
  BY <1>3, <1>6, <1>9
<1>. QED BY <1>1, <1>2, <1>6, <1>10, UnderWayIsUnder

(* A wallet never gets more than the target, whatever it spends between    *)
(* the funder's look at its balance and the transfer, and once more for    *)
(* every transfer whose receipt was lost: for any thresholds, wallets and  *)
(* monitors, any number of errors and any order of the funder's, the       *)
(* chain's and the emitters' steps.                                        *)
THEOREM NeverOverfunded == Spec => []FundedOnce
<1>1. FundInv /\ [Next]_vars => FundInv'
  BY FundKept
<1>. QED BY <1>1, FundStarts, FundedWhenKept, PTL DEF Spec

=============================================================================
