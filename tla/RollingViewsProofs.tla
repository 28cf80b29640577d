------------------------- MODULE RollingViewsProofs -------------------------
(***************************************************************************)
(* Proofs about the rolling windows of a device and the timers that move   *)
(* them, for any horizons, ticks and flows.                                *)
(***************************************************************************)
EXTENDS RollingViews, FiniteSetTheorems, SequenceTheorems, WellFoundedInduction, TLAPS

-----------------------------------------------------------------------------
(* Numbers and finite sets.                                                *)

(* Min and Max pick the extrema of sets of numbers that have them. *)
LEMMA LeastPicked ==
  ASSUME NEW S \in SUBSET Nat, S # {}
  PROVE  Min(S) \in S /\ \A y \in S : Min(S) <= y
<1>1. PICK x \in S : \A y \in S : ~(<<y, x>> \in OpToRel(<, Nat))
  BY NatLessThanWellFounded, WFMin, Zenon
<1>2. \A y \in S : ~(y < x)
  BY <1>1, Zenon DEF OpToRel
<1>3. \A y \in S : x <= y
  BY <1>2
<1> QED
  BY <1>3 DEF Min

LEMMA GreatestPicked ==
  ASSUME NEW n \in Nat, NEW S \in SUBSET (0 .. n), S # {}
  PROVE  Max(S) \in S /\ \A y \in S : y <= Max(S)
<1> DEFINE T == {n - y : y \in S}
<1>1. T \in SUBSET Nat /\ T # {}
  <2>1. \A y \in S : n - y \in Nat
    OBVIOUS
  <2>2. PICK y \in S : TRUE
    OBVIOUS
  <2>3. n - y \in T
    OBVIOUS
  <2> QED
    BY <2>1, <2>3
<1>2. Min(T) \in T /\ \A t \in T : Min(T) <= t
  BY <1>1, LeastPicked
<1>3. PICK x \in S : Min(T) = n - x
  BY <1>2
<1>4. \A y \in S : x >= y
  <2> TAKE y \in S
  <2>1. x \in 0 .. n /\ y \in 0 .. n
    OBVIOUS
  <2>2. n - y \in T
    OBVIOUS
  <2>3. n - x <= n - y
    BY <1>2, <1>3, <2>2
  <2> QED
    BY <2>1, <2>3
<1>5. Max(S) \in S /\ \A y \in S : Max(S) >= y
  BY <1>4 DEF Max
<1>6. \A y \in S : y <= Max(S)
  <2> TAKE y \in S
  <2>1. Max(S) \in 0 .. n /\ y \in 0 .. n /\ Max(S) >= y
    BY <1>5
  <2> QED
    BY <2>1
<1> QED
  BY <1>5, <1>6

(* The parts of an interval are finite. *)
LEMMA PartFinite ==
  ASSUME NEW n \in Nat, NEW S \in SUBSET (1 .. n)
  PROVE  IsFiniteSet(S) /\ Cardinality(S) \in Nat
<1>1. 1 \in Int /\ n \in Int
  OBVIOUS
<1>2. IsFiniteSet(1 .. n)
  BY <1>1, FS_Interval, Zenon
<1>3. IsFiniteSet(S)
  BY <1>2, FS_Subset
<1> QED
  BY <1>3, FS_CardinalityType

(* An injective function keeps the size of a set. *)
LEMMA ImageSize ==
  ASSUME NEW S, IsFiniteSet(S), NEW g, S \subseteq DOMAIN g,
         \A i, j \in S : g[i] = g[j] => i = j
  PROVE  Cardinality({g[i] : i \in S}) = Cardinality(S) /\ IsFiniteSet({g[i] : i \in S})
<1> DEFINE T == {g[i] : i \in S}
           f == [i \in S |-> g[i]]
<1>1. f \in Bijection(S, T)
  <2>1. f \in [S -> T]
    OBVIOUS
  <2>2. \A i, j \in S : f[i] = f[j] => i = j
    OBVIOUS
  <2>3. \A x \in T : \E i \in S : f[i] = x
    OBVIOUS
  <2> HIDE DEF T, f
  <2>4. DOMAIN f = S
    BY <2>1
  <2>5. f \in Injection(S, T)
    BY <2>1, <2>2, <2>4 DEF Injection, IsInjective
  <2>6. f \in Surjection(S, T)
    BY <2>1, <2>3 DEF Surjection
  <2> QED
    BY <2>5, <2>6 DEF Bijection
<1>2. ExistsBijection(S, T)
  BY <1>1 DEF ExistsBijection
<1> QED
  BY <1>2, FS_Bijection

LEMMA DisjointSize ==
  ASSUME NEW S, NEW T, IsFiniteSet(S), IsFiniteSet(T), S \cap T = {}
  PROVE  /\ IsFiniteSet(S \cup T) /\ Cardinality(S \cup T) = Cardinality(S) + Cardinality(T)
         /\ Cardinality(S) \in Nat /\ Cardinality(T) \in Nat
<1>1. Cardinality(S \cup T) = Cardinality(S) + Cardinality(T) - Cardinality(S \cap T)
  BY FS_Union
<1>2. Cardinality(S) \in Nat /\ Cardinality(T) \in Nat /\ IsFiniteSet(S \cup T)
  BY FS_CardinalityType, FS_Union
<1>3. Cardinality(S \cap T) = 0
  BY FS_EmptySet
<1> QED
  BY <1>1, <1>2, <1>3

-----------------------------------------------------------------------------
(* Contributions in time order.                                            *)

LEMMA ConstantTypes ==
  /\ ShortHorizon \in Nat /\ LongHorizon \in Nat /\ ShortHorizon < LongHorizon
  /\ FirstTick \in Nat /\ Tick \in Nat /\ TimerDelay \in Nat /\ MaxNow \in Nat
  /\ Length[1] = ShortHorizon /\ Length[2] = LongHorizon
BY ViewsAssumption DEF ViewsAssumption, Length

LEMMA FlowTypes ==
  ASSUME NEW c \in Flow
  PROVE  c.time \in Nat /\ c.target \in Target /\ c.failed \in BOOLEAN
BY ConstantTypes DEF Flow

(* A sequence of flows is a function on an interval, and the other way round. *)
LEMMA AsFunction ==
  ASSUME NEW q \in Seq(Flow)
  PROVE  \E k \in Nat : q \in [1 .. k -> Flow] /\ Len(q) = k
BY LenProperties

LEMMA AsSequence ==
  ASSUME NEW k \in Nat, NEW q \in [1 .. k -> Flow]
  PROVE  q \in Seq(Flow) /\ Len(q) = k /\ DOMAIN q = 1 .. k
<1>1. q \in Seq(Flow)
  BY SeqDef
<1>2. PICK m \in Nat : q \in [1 .. m -> Flow] /\ Len(q) = m
  BY <1>1, AsFunction
<1>3. 1 .. k = 1 .. m
  BY <1>2
<1>4. m = k
  <2>1. ~(m > k)
    <3>1. SUFFICES ASSUME m > k PROVE FALSE
      OBVIOUS
    <3>2. m \in 1 .. m
      BY <3>1
    <3> QED
      BY <1>3, <3>1, <3>2
  <2>2. ~(k > m)
    <3>1. SUFFICES ASSUME k > m PROVE FALSE
      OBVIOUS
    <3>2. k \in 1 .. k
      BY <3>1
    <3> QED
      BY <1>3, <3>1, <3>2
  <2> QED
    BY <2>1, <2>2
<1> QED
  BY <1>1, <1>2, <1>4

(* What SubSeq keeps of contributions. *)
PartOf(u, q, m, n) == u \in [1 .. n - m -> Flow] /\ \A i \in 1 .. n - m : u[i] = q[m + i]

LEMMA PartIs ==
  ASSUME NEW k \in Nat, NEW q \in [1 .. k -> Flow], NEW m \in 0 .. k, NEW n \in m .. k
  PROVE  PartOf(SubSeq(q, m + 1, n), q, m, n)
<1> DEFINE u == SubSeq(q, m + 1, n)
<1>0. PICK h \in Nat : h = n - m
  OBVIOUS
<1>1. PICK a \in Int : a = m + 1
  OBVIOUS
<1>2. a \in Int /\ n \in Int /\ \A i \in a .. n : q[i] \in Flow
  BY <1>1
<1>3. /\ SubSeq(q, a, n) \in Seq(Flow)
      /\ Len(SubSeq(q, a, n)) = IF a <= n THEN n - a + 1 ELSE 0
      /\ \A i \in 1 .. n - a + 1 : SubSeq(q, a, n)[i] = q[a + i - 1]
  BY <1>2, SubSeqProperties
<1>4. u = SubSeq(q, a, n)
  BY <1>1
<1> HIDE DEF u
<1>5. PICK l \in Nat : u \in [1 .. l -> Flow] /\ Len(u) = l
  BY <1>3, <1>4, AsFunction
<1>6. l = h
  <2>1. l = IF a <= n THEN n - a + 1 ELSE 0
    BY <1>3, <1>4, <1>5, Zenon
  <2> QED
    BY <1>0, <1>1, <2>1
<1>7. \A i \in 1 .. n - a + 1 : u[i] = q[a + i - 1]
  BY <1>3, <1>4
<1>8. ASSUME NEW i \in 1 .. h PROVE u[i] = q[m + i]
  <2>1. i \in 1 .. n - a + 1 /\ a + i - 1 = m + i
    BY <1>0, <1>1
  <2> QED
    BY <1>7, <2>1
<1>9. PartOf(u, q, m, n)
  BY <1>0, <1>5, <1>6, <1>8 DEF PartOf
<1> QED
  BY <1>9 DEF u

(* Inserted(q, c) is q with c behind the flows that are not newer. *)
SortedTo(q, k) == \A i, j \in 1 .. k : i < j => q[i].time <= q[j].time

LEMMA PlaceOK ==
  ASSUME NEW k \in Nat, NEW q \in [1 .. k -> Flow], SortedTo(q, k), NEW c \in Flow,
         NEW p, p = Place(q, c)
  PROVE  p \in 0 .. k /\ \A i \in 1 .. k : i <= p <=> q[i].time <= c.time
<1> DEFINE S == {0} \cup {i \in DOMAIN q : q[i].time <= c.time}
<1>1. DOMAIN q = 1 .. k /\ c.time \in Nat /\ \A i \in 1 .. k : q[i].time \in Nat
  BY FlowTypes
<1>2. S \in SUBSET (0 .. k) /\ S # {}
  BY <1>1
<1>3. /\ \A i \in 1 .. k : i \in S <=> q[i].time <= c.time
      /\ p = Max(S)
  BY <1>1 DEF Place
<1> HIDE DEF S
<1>4. Max(S) \in S /\ \A y \in S : y <= Max(S)
  BY <1>2, GreatestPicked
<1>5. p \in 0 .. k /\ p \in S /\ \A y \in S : y <= p
  BY <1>2, <1>3, <1>4
<1>6. ASSUME NEW i \in 1 .. k, i <= p PROVE q[i].time <= c.time
  <2>1. p \in 1 .. k /\ q[p].time <= c.time
    BY <1>3, <1>5, <1>6
  <2>2. i = p \/ (i < p /\ q[i].time <= q[p].time)
    BY <1>5, <1>6, <2>1 DEF SortedTo
  <2> QED
    BY <1>1, <2>1, <2>2
<1> QED
  BY <1>3, <1>5, <1>6

LEMMA InsertedIs ==
  ASSUME NEW k \in Nat, NEW q \in [1 .. k -> Flow], NEW c \in Flow,
         NEW p \in 0 .. k, p = Place(q, c), NEW u, u = Inserted(q, c)
  PROVE  /\ u \in [1 .. k + 1 -> Flow] /\ u[p + 1] = c
         /\ \A i \in 1 .. k : i <= p => u[i] = q[i]
         /\ \A i \in 1 .. k : i > p => u[i + 1] = q[i]
<1>1. Len(q) = k
  BY AsSequence
<1>2. PICK a : a = SubSeq(q, 0 + 1, p)
  OBVIOUS
<1>3. PICK b : b = SubSeq(q, p + 1, k)
  OBVIOUS
<1>4. a \in [1 .. p -> Flow] /\ \A i \in 1 .. p : a[i] = q[0 + i]
  <2>1. 0 \in 0 .. k /\ p \in 0 .. k
    OBVIOUS
  <2>2. PartOf(a, q, 0, p)
    BY <1>2, <2>1, PartIs
  <2> QED
    BY <2>2 DEF PartOf
<1>5. PICK l \in Nat : l = k - p
  OBVIOUS
<1>6. \A i \in 1 .. p : a[i] = q[i]
  BY <1>4
<1>7. b \in [1 .. l -> Flow] /\ \A i \in 1 .. l : b[i] = q[p + i]
  <2>1. k \in p .. k
    OBVIOUS
  <2>2. PartOf(b, q, p, k)
    BY <1>3, <2>1, PartIs
  <2> QED
    BY <1>5, <2>2 DEF PartOf
<1>8. a \in Seq(Flow) /\ Len(a) = p /\ b \in Seq(Flow) /\ Len(b) = l
  <2>1. l \in Nat
    BY <1>5
  <2> QED
    BY <2>1, <1>4, <1>7, AsSequence
<1>9. u = (a \o <<c>>) \o b
  <2>1. SubSeq(q, 0 + 1, p) = SubSeq(q, 1, p)
    OBVIOUS
  <2> QED
    BY <1>1, <1>2, <1>3, <2>1 DEF Inserted
<1>10. PICK d : d = a \o <<c>>
  OBVIOUS
<1>11. d \in Seq(Flow) /\ Len(d) = p + 1 /\ d[p + 1] = c /\ \A i \in 1 .. p : d[i] = q[i]
  <2>1. <<c>> \in Seq(Flow) /\ Len(<<c>>) = 1 /\ <<c>>[1] = c
    OBVIOUS
  <2>2. /\ d \in Seq(Flow) /\ Len(d) = Len(a) + Len(<<c>>)
        /\ \A i \in 1 .. Len(a) + Len(<<c>>) :
             d[i] = IF i <= Len(a) THEN a[i] ELSE <<c>>[i - Len(a)]
    BY <1>8, <1>10, <2>1, ConcatProperties
  <2>3. Len(d) = p + 1 /\ \A i \in 1 .. p + 1 : d[i] = IF i <= p THEN a[i] ELSE <<c>>[i - p]
    BY <1>8, <2>1, <2>2
  <2>4. d[p + 1] = c
    <3>1. PICK e \in Nat : e = p + 1
      OBVIOUS
    <3>2. e \in 1 .. e /\ ~(e <= p) /\ e - p = 1
      BY <3>1
    <3>3. d[e] = <<c>>[e - p]
      BY <2>3, <3>1, <3>2
    <3> QED
      BY <2>1, <3>1, <3>2, <3>3
  <2>5. \A i \in 1 .. p : d[i] = q[i]
    BY <1>6, <2>3
  <2> QED
    BY <2>2, <2>3, <2>4, <2>5
<1>12. PICK e \in Nat : e = p + 1
  OBVIOUS
<1>13. /\ u \in Seq(Flow) /\ Len(u) = Len(d) + Len(b)
       /\ \A i \in 1 .. Len(d) + Len(b) : u[i] = IF i <= Len(d) THEN d[i] ELSE b[i - Len(d)]
  <2>1. u = d \o b
    BY <1>9, <1>10
  <2>2. d \in Seq(Flow) /\ b \in Seq(Flow)
    BY <1>8, <1>11
  <2>3. /\ d \o b \in Seq(Flow) /\ Len(d \o b) = Len(d) + Len(b)
        /\ \A i \in 1 .. Len(d) + Len(b) :
             (d \o b)[i] = IF i <= Len(d) THEN d[i] ELSE b[i - Len(d)]
    BY <2>2, ConcatProperties
  <2> QED
    BY <2>1, <2>3, Zenon
<1>14. /\ u \in Seq(Flow) /\ Len(u) = e + l
       /\ \A i \in 1 .. e + l : u[i] = IF i <= e THEN d[i] ELSE b[i - e]
  BY <1>8, <1>11, <1>12, <1>13
<1>15. u \in [1 .. k + 1 -> Flow]
  <2>1. PICK m \in Nat : u \in [1 .. m -> Flow] /\ Len(u) = m
    BY <1>14, AsFunction
  <2>2. m = k + 1
    BY <1>5, <1>12, <1>14, <2>1
  <2> QED
    BY <2>1, <2>2
<1>16. u[p + 1] = c
  <2>1. e \in 1 .. e + l /\ e <= e
    BY <1>5, <1>12
  <2> QED
    BY <1>11, <1>12, <1>14, <2>1
<1>17. ASSUME NEW i \in 1 .. k, i <= p PROVE u[i] = q[i]
  <2>1. i \in 1 .. e + l /\ i <= e /\ i \in 1 .. p
    BY <1>5, <1>12, <1>17
  <2> QED
    BY <1>11, <1>14, <2>1
<1>18. ASSUME NEW i \in 1 .. k, i > p PROVE u[i + 1] = q[i]
  <2>0. PICK j \in Nat : j = i + 1
    OBVIOUS
  <2>1. PICK x \in Nat : x = i - p
    BY <1>18
  <2>2. j \in 1 .. e + l /\ ~(j <= e) /\ j - e = x
    BY <1>5, <1>12, <1>18, <2>0, <2>1
  <2>3. x \in 1 .. l /\ p + x = i
    BY <1>5, <1>12, <1>18, <2>1
  <2>4. u[j] = b[x]
    BY <1>14, <2>2
  <2>5. b[x] = q[i]
    BY <1>7, <2>3
  <2> QED
    BY <2>0, <2>4, <2>5
<1> QED
  BY <1>15, <1>16, <1>17, <1>18

(* Expiring(q, cutoff) flows from the first on are at or before the cutoff. *)
LEMMA ExpiringOK ==
  ASSUME NEW k \in Nat, NEW q \in [1 .. k -> Flow], SortedTo(q, k), NEW cutoff \in Int,
         NEW n, n = Expiring(q, cutoff)
  PROVE  n \in 0 .. k /\ \A i \in 1 .. k : i <= n <=> q[i].time <= cutoff
<1> DEFINE S == {k} \cup {i - 1 : i \in {j \in 1 .. k : ~Expired(q[j], cutoff)}}
<1>1. \A i \in 1 .. k : q[i].time \in Nat
  BY FlowTypes
<1>2. S \in SUBSET (0 .. k) /\ S # {} /\ k \in S
  OBVIOUS
<1>3. n = Min(S)
  <2>1. Len(q) = k /\ DOMAIN q = 1 .. k
    BY AsSequence
  <2> QED
    BY <2>1 DEF Expiring
<1>4. \A i \in 1 .. k : q[i].time > cutoff => i - 1 \in S
  BY <1>1 DEF Expired
<1>5. \A x \in S : x = k \/ \E i \in 1 .. k : x = i - 1 /\ q[i].time > cutoff
  BY <1>1 DEF Expired
<1> HIDE DEF S
<1>6. n \in S /\ \A y \in S : n <= y
  <2>1. S \in SUBSET Nat
    BY <1>2
  <2> QED
    BY <1>2, <1>3, <2>1, LeastPicked
<1>7. n \in 0 .. k
  BY <1>2, <1>6
<1>8. ASSUME NEW i \in 1 .. k, i <= n PROVE q[i].time <= cutoff
  <2>1. SUFFICES ASSUME q[i].time > cutoff PROVE FALSE
    BY <1>1
  <2>2. i - 1 \in S /\ n <= i - 1
    BY <1>4, <1>6, <2>1
  <2> QED
    BY <1>7, <1>8, <2>2
<1>9. ASSUME NEW i \in 1 .. k, i > n PROVE q[i].time > cutoff
  <2>1. n # k
    BY <1>7, <1>9
  <2>2. PICK j \in 1 .. k : n = j - 1 /\ q[j].time > cutoff
    BY <1>5, <1>6, <2>1
  <2>3. j = i \/ (j < i /\ q[j].time <= q[i].time)
    BY <1>7, <1>9, <2>2 DEF SortedTo
  <2> QED
    BY <1>1, <2>2, <2>3
<1>10. ASSUME NEW i \in 1 .. k PROVE i <= n <=> q[i].time <= cutoff
  <2>1. i <= n \/ i > n
    BY <1>7
  <2>2. q[i].time > cutoff => ~(q[i].time <= cutoff)
    BY <1>1
  <2>3. i > n => ~(i <= n)
    BY <1>7
  <2> QED
    BY <1>8, <1>9, <2>1, <2>2, <2>3
<1> QED
  BY <1>7, <1>10

LEMMA TailIs ==
  ASSUME NEW k \in Nat, NEW q \in [1 .. k -> Flow], NEW n \in 0 .. k
  PROVE  PartOf(SubSeq(q, n + 1, Len(q)), q, n, k)
<1>1. Len(q) = k
  BY AsSequence
<1>2. k \in n .. k
  OBVIOUS
<1>3. PartOf(SubSeq(q, n + 1, k), q, n, k)
  BY <1>2, PartIs
<1> QED
  BY <1>1, <1>3

-----------------------------------------------------------------------------
(* The flows of a target, by their places.                                 *)

LatestOf(q, t, m) == m \in Of(q, t) /\ \A i \in Of(q, t) : i <= m

LEMMA OfTypes ==
  ASSUME NEW k \in Nat, NEW q \in [1 .. k -> Flow], NEW t
  PROVE  /\ Of(q, t) \in SUBSET (1 .. k) /\ IsFiniteSet(Of(q, t))
         /\ Cardinality(Of(q, t)) \in Nat
         /\ \A i \in 1 .. k : i \in Of(q, t) <=> q[i].target = t
         /\ Of(q, t) # {} => \E m \in 1 .. k : LatestOf(q, t, m)
<1>1. /\ Of(q, t) \in SUBSET (1 .. k)
      /\ \A i \in 1 .. k : i \in Of(q, t) <=> q[i].target = t
  BY DEF Of
<1>2. IsFiniteSet(Of(q, t)) /\ Cardinality(Of(q, t)) \in Nat
  BY <1>1, PartFinite
<1>3. ASSUME Of(q, t) # {} PROVE \E m \in 1 .. k : LatestOf(q, t, m)
  <2>1. Of(q, t) \in SUBSET (0 .. k)
    BY <1>1
  <2>2. Max(Of(q, t)) \in Of(q, t) /\ \A i \in Of(q, t) : i <= Max(Of(q, t))
    BY <1>3, <2>1, GreatestPicked
  <2> QED
    BY <1>1, <2>2 DEF LatestOf
<1> QED
  BY <1>1, <1>2, <1>3

(* The latest place is unique, and it is the greatest. *)
LEMMA LatestUnique ==
  ASSUME NEW k \in Nat, NEW q \in [1 .. k -> Flow], NEW t, NEW m, LatestOf(q, t, m)
  PROVE  m \in 1 .. k /\ Max(Of(q, t)) = m /\ \A n : LatestOf(q, t, n) => n = m
<1>1. /\ Of(q, t) \in SUBSET (1 .. k) /\ m \in Of(q, t) /\ m \in 1 .. k
      /\ \A i \in Of(q, t) : i <= m
  BY OfTypes DEF LatestOf
<1>2. ASSUME NEW n, LatestOf(q, t, n) PROVE n = m
  <2>1. n \in Of(q, t) /\ n \in 1 .. k /\ m <= n /\ n <= m
    BY <1>1, <1>2 DEF LatestOf
  <2> QED
    BY <1>1, <2>1
<1>3. LatestOf(q, t, Max(Of(q, t)))
  <2>1. Of(q, t) \in SUBSET (0 .. k) /\ Of(q, t) # {}
    BY <1>1
  <2>2. Max(Of(q, t)) \in Of(q, t) /\ \A i \in Of(q, t) : i <= Max(Of(q, t))
    BY <2>1, GreatestPicked
  <2> QED
    BY <2>2 DEF LatestOf
<1> QED
  BY <1>1, <1>2, <1>3

(* Only the empty set has no elements. *)
LEMMA NoneCounted ==
  ASSUME NEW S, IsFiniteSet(S)
  PROVE  Cardinality(S) = 0 <=> S = {}
BY FS_EmptySet

(* What u has more than q: c at place p + 1. *)
InsertedAt(u, q, k, c, p) ==
  /\ p \in 0 .. k /\ u \in [1 .. k + 1 -> Flow] /\ u[p + 1] = c
  /\ \A i \in 1 .. k : i <= p => u[i] = q[i]
  /\ \A i \in 1 .. k : i > p => u[i + 1] = q[i]

Shift(i, p) == IF i <= p THEN i ELSE i + 1

LEMMA InsertedPlaces ==
  ASSUME NEW k \in Nat, NEW q \in [1 .. k -> Flow], NEW c \in Flow, NEW p, NEW u,
         InsertedAt(u, q, k, c, p)
  PROVE  /\ \A i \in 1 .. k : Shift(i, p) \in 1 .. k + 1 /\ Shift(i, p) # p + 1 /\ u[Shift(i, p)] = q[i]
         /\ \A j \in 1 .. k + 1 : j = p + 1 \/ \E i \in 1 .. k : j = Shift(i, p)
         /\ \A i, j \in 1 .. k : (i < j => Shift(i, p) < Shift(j, p))
         /\ \A i, j \in 1 .. k : Shift(i, p) = Shift(j, p) => i = j
<1>1. p \in 0 .. k
  BY DEF InsertedAt
<1>2. ASSUME NEW i \in 1 .. k
      PROVE  Shift(i, p) \in 1 .. k + 1 /\ Shift(i, p) # p + 1 /\ u[Shift(i, p)] = q[i]
  <2>1. CASE i <= p
    <3>1. Shift(i, p) = i
      BY <2>1 DEF Shift
    <3>2. i \in 1 .. k + 1 /\ i # p + 1
      BY <1>1, <2>1
    <3> QED
      BY <2>1, <3>1, <3>2 DEF InsertedAt
  <2>2. CASE i > p
    <3>1. Shift(i, p) = i + 1
      BY <1>1, <2>2 DEF Shift
    <3>2. i + 1 \in 1 .. k + 1 /\ i + 1 # p + 1
      BY <1>1, <2>2
    <3> QED
      BY <2>2, <3>1, <3>2 DEF InsertedAt
  <2> QED
    BY <1>1, <2>1, <2>2
<1>3. ASSUME NEW j \in 1 .. k + 1, j # p + 1 PROVE \E i \in 1 .. k : j = Shift(i, p)
  <2>1. CASE j <= p
    <3>1. j \in 1 .. k
      BY <1>1, <2>1
    <3> QED
      BY <2>1, <3>1 DEF Shift
  <2>2. CASE j > p
    <3>1. j - 1 \in 1 .. k /\ ~(j - 1 <= p) /\ j - 1 + 1 = j
      BY <1>1, <1>3, <2>2
    <3> QED
      BY <3>1 DEF Shift
  <2> QED
    BY <1>1, <2>1, <2>2
<1>4. \A i, j \in 1 .. k : (i < j => Shift(i, p) < Shift(j, p))
  BY <1>1 DEF Shift
<1>5. \A i, j \in 1 .. k : Shift(i, p) = Shift(j, p) => i = j
  BY <1>1 DEF Shift
<1> QED
  BY <1>2, <1>3, <1>4, <1>5

(* The places of a target after c came in. *)
LEMMA InsertedOf ==
  ASSUME NEW k \in Nat, NEW q \in [1 .. k -> Flow], NEW c \in Flow, NEW p, NEW u,
         InsertedAt(u, q, k, c, p), NEW t
  PROVE  /\ t # c.target =>
              /\ Cardinality(Of(u, t)) = Cardinality(Of(q, t))
              /\ \A m : LatestOf(q, t, m) => LatestOf(u, t, Shift(m, p))
         /\ t = c.target =>
              /\ Cardinality(Of(u, t)) = Cardinality(Of(q, t)) + 1
              /\ \A m : LatestOf(q, t, m) =>
                   LatestOf(u, t, IF m <= p THEN p + 1 ELSE Shift(m, p))
              /\ Of(q, t) = {} => LatestOf(u, t, p + 1)
<1> DEFINE g == [i \in 1 .. k |-> Shift(i, p)]
           B == {g[i] : i \in Of(q, t)}
<1>1. /\ k + 1 \in Nat /\ u \in [1 .. k + 1 -> Flow] /\ p \in 0 .. k /\ u[p + 1] = c
      /\ p + 1 \in 1 .. k + 1
  BY DEF InsertedAt
<1>2. /\ \A i \in 1 .. k : Shift(i, p) \in 1 .. k + 1 /\ Shift(i, p) # p + 1 /\ u[Shift(i, p)] = q[i]
      /\ \A j \in 1 .. k + 1 : j = p + 1 \/ \E i \in 1 .. k : j = Shift(i, p)
      /\ \A i, j \in 1 .. k : (i < j => Shift(i, p) < Shift(j, p))
      /\ \A i, j \in 1 .. k : Shift(i, p) = Shift(j, p) => i = j
  BY InsertedPlaces
<1>3. /\ Of(q, t) \in SUBSET (1 .. k) /\ IsFiniteSet(Of(q, t)) /\ Cardinality(Of(q, t)) \in Nat
      /\ \A i \in 1 .. k : i \in Of(q, t) <=> q[i].target = t
  BY OfTypes
<1>4. /\ Of(u, t) \in SUBSET (1 .. k + 1)
      /\ \A i \in 1 .. k + 1 : i \in Of(u, t) <=> u[i].target = t
  BY <1>1, OfTypes
<1>5. Cardinality(B) = Cardinality(Of(q, t)) /\ IsFiniteSet(B)
  <2>1. Of(q, t) \subseteq DOMAIN g /\ \A i, j \in Of(q, t) : g[i] = g[j] => i = j
    BY <1>2, <1>3
  <2> HIDE DEF g
  <2> QED
    BY <1>3, <2>1, ImageSize
<1>6. \A j : j \in B <=> \E i \in Of(q, t) : j = Shift(i, p)
  BY <1>3
<1> HIDE DEF B, g
<1>7. \A j \in 1 .. k + 1 : j # p + 1 => (j \in Of(u, t) <=> j \in B)
  <2> TAKE j \in 1 .. k + 1
  <2> HAVE j # p + 1
  <2>1. PICK i \in 1 .. k : j = Shift(i, p)
    BY <1>2
  <2>2. j \in Of(u, t) <=> i \in Of(q, t)
    BY <1>2, <1>3, <1>4, <2>1
  <2>3. j \in B <=> i \in Of(q, t)
    BY <1>2, <1>3, <1>6, <2>1
  <2> QED
    BY <2>2, <2>3
<1>8. p + 1 \notin B /\ B \subseteq 1 .. k + 1
  BY <1>2, <1>3, <1>6
<1>9. \A m : LatestOf(q, t, m) =>
        m \in 1 .. k /\ Shift(m, p) \in B /\ \A j \in B : j <= Shift(m, p)
  <2> SUFFICES ASSUME NEW m, LatestOf(q, t, m)
               PROVE  m \in 1 .. k /\ Shift(m, p) \in B /\ \A j \in B : j <= Shift(m, p)
    OBVIOUS
  <2>1. m \in 1 .. k /\ m \in Of(q, t) /\ \A i \in Of(q, t) : i <= m
    BY <1>3 DEF LatestOf
  <2>2. ASSUME NEW j \in B PROVE j <= Shift(m, p)
    <3>1. PICK i \in Of(q, t) : j = Shift(i, p)
      BY <1>6
    <3>2. i \in 1 .. k /\ i <= m
      BY <1>3, <2>1, <3>1
    <3>3. i = m \/ i < m
      BY <2>1, <3>2
    <3>4. Shift(i, p) = Shift(m, p) \/ Shift(i, p) < Shift(m, p)
      BY <1>2, <2>1, <3>2, <3>3
    <3>5. Shift(m, p) \in 1 .. k + 1 /\ Shift(i, p) \in 1 .. k + 1
      BY <1>2, <2>1, <3>2
    <3> QED
      BY <3>1, <3>4, <3>5
  <2> QED
    BY <1>6, <2>1, <2>2
<1>10. ASSUME t # c.target
       PROVE  /\ Cardinality(Of(u, t)) = Cardinality(Of(q, t))
              /\ \A m : LatestOf(q, t, m) => LatestOf(u, t, Shift(m, p))
  <2>1. p + 1 \notin Of(u, t)
    BY <1>1, <1>4, <1>10
  <2>2. Of(u, t) = B
    BY <1>4, <1>7, <1>8, <2>1
  <2> QED
    BY <1>5, <1>9, <2>2 DEF LatestOf
<1>11. ASSUME t = c.target
       PROVE  /\ Cardinality(Of(u, t)) = Cardinality(Of(q, t)) + 1
              /\ \A m : LatestOf(q, t, m) =>
                   LatestOf(u, t, IF m <= p THEN p + 1 ELSE Shift(m, p))
              /\ Of(q, t) = {} => LatestOf(u, t, p + 1)
  <2>1. p + 1 \in Of(u, t)
    BY <1>1, <1>4, <1>11
  <2>2. Of(u, t) = B \cup {p + 1}
    BY <1>4, <1>7, <1>8, <2>1
  <2>3. Cardinality(Of(u, t)) = Cardinality(Of(q, t)) + 1
    BY <1>5, <1>8, <2>2, FS_AddElement
  <2>4. ASSUME NEW m, LatestOf(q, t, m)
        PROVE  LatestOf(u, t, IF m <= p THEN p + 1 ELSE Shift(m, p))
    <3>1. m \in 1 .. k /\ Shift(m, p) \in B /\ \A j \in B : j <= Shift(m, p)
      BY <1>9, <2>4
    <3>2. CASE m <= p
      <4>1. Shift(m, p) <= p + 1
        BY <1>1, <3>1, <3>2 DEF Shift
      <4>2. ASSUME NEW j \in B PROVE j <= p + 1
        <5>1. j \in 1 .. k + 1 /\ Shift(m, p) \in 1 .. k + 1 /\ j <= Shift(m, p)
          BY <1>8, <3>1
        <5> QED
          BY <1>1, <4>1, <5>1
      <4> QED
        BY <1>1, <2>2, <3>2, <4>2 DEF LatestOf
    <3>3. CASE m > p
      <4>1. p + 1 <= Shift(m, p) /\ ~(m <= p)
        BY <1>1, <3>1, <3>3 DEF Shift
      <4>2. LatestOf(u, t, Shift(m, p))
        BY <2>2, <3>1, <4>1 DEF LatestOf
      <4> QED
        BY <4>1, <4>2
    <3> QED
      BY <1>1, <3>1, <3>2, <3>3
  <2>5. ASSUME Of(q, t) = {} PROVE LatestOf(u, t, p + 1)
    <3>1. B = {}
      BY <1>6, <2>5
    <3> QED
      BY <1>1, <2>2, <3>1 DEF LatestOf
  <2> QED
    BY <2>3, <2>4, <2>5
<1> QED
  BY <1>10, <1>11

-----------------------------------------------------------------------------
(* The aggregates of a horizon, as a function of its contributions.        *)

TargetIs(r, q, t) ==
  \E m : /\ LatestOf(q, t, m)
         /\ r = [refs |-> Cardinality(Of(q, t)), latest |-> q[m].time, failed |-> q[m].failed]

TargetsOf(q, k) == {q[i].target : i \in 1 .. k}
FailedOf(g) == {t \in DOMAIN g : g[t].failed}

AggregateOf(g, f, q, k) ==
  /\ g = [t \in TargetsOf(q, k) |-> g[t]]
  /\ \A t \in TargetsOf(q, k) : TargetIs(g[t], q, t)
  /\ f = Cardinality(FailedOf(g))

LEMMA TargetsFinite ==
  ASSUME NEW k \in Nat, NEW q \in [1 .. k -> Flow]
  PROVE  IsFiniteSet(TargetsOf(q, k))
<1> DEFINE f == [i \in 1 .. k |-> q[i].target]
<1>1. IsFiniteSet(1 .. k)
  BY PartFinite
<1>2. f \in Surjection(1 .. k, TargetsOf(q, k))
  BY DEF Surjection, TargetsOf
<1> HIDE DEF f
<1> QED
  BY <1>1, <1>2, FS_Surjection

LEMMA TargetIsTyped ==
  ASSUME NEW k \in Nat, NEW q \in [1 .. k -> Flow], NEW t, NEW r, TargetIs(r, q, t)
  PROVE  /\ r.refs = Cardinality(Of(q, t)) /\ r.refs \in Nat \ {0}
         /\ r.latest \in Nat /\ r.failed \in BOOLEAN
         /\ r = [refs |-> r.refs, latest |-> r.latest, failed |-> r.failed]
         /\ \E m \in 1 .. k : LatestOf(q, t, m) /\ r.latest = q[m].time /\ r.failed = q[m].failed
<1>1. PICK m : /\ LatestOf(q, t, m)
               /\ r = [refs |-> Cardinality(Of(q, t)), latest |-> q[m].time, failed |-> q[m].failed]
  BY DEF TargetIs
<1>2. m \in 1 .. k /\ m \in Of(q, t)
  BY <1>1, OfTypes DEF LatestOf
<1>3. q[m].time \in Nat /\ q[m].failed \in BOOLEAN
  <2>1. q[m] \in Flow
    BY <1>2
  <2> QED
    BY <2>1, FlowTypes
<1>4. Cardinality(Of(q, t)) \in Nat \ {0}
  BY <1>2, OfTypes, NoneCounted
<1> QED
  BY <1>1, <1>2, <1>3, <1>4

(* One entry of the targets is enough to know it. *)
LEMMA TargetUnique ==
  ASSUME NEW k \in Nat, NEW q \in [1 .. k -> Flow], NEW t, NEW r, NEW s,
         TargetIs(r, q, t), TargetIs(s, q, t)
  PROVE  r = s
<1>1. PICK m : /\ LatestOf(q, t, m)
               /\ r = [refs |-> Cardinality(Of(q, t)), latest |-> q[m].time, failed |-> q[m].failed]
  BY DEF TargetIs
<1>2. PICK n : /\ LatestOf(q, t, n)
               /\ s = [refs |-> Cardinality(Of(q, t)), latest |-> q[n].time, failed |-> q[n].failed]
  BY DEF TargetIs
<1>3. n = m
  BY <1>1, <1>2, LatestUnique
<1> QED
  BY <1>1, <1>2, <1>3

LEMMA AggregateUnique ==
  ASSUME NEW k \in Nat, NEW q \in [1 .. k -> Flow], NEW g, NEW f, NEW g2, NEW f2,
         AggregateOf(g, f, q, k), AggregateOf(g2, f2, q, k)
  PROVE  g = g2 /\ f = f2
<1>1. \A t \in TargetsOf(q, k) : g[t] = g2[t]
  BY TargetUnique DEF AggregateOf
<1>2. g = [t \in TargetsOf(q, k) |-> g[t]] /\ g2 = [t \in TargetsOf(q, k) |-> g2[t]]
  BY DEF AggregateOf
<1>3. g = g2
  BY <1>1, <1>2
<1> QED
  BY <1>3 DEF AggregateOf

(* Horizon.add: the target of c has the outcome of its latest flow again. *)
LEMMA TargetAdded ==
  ASSUME NEW k \in Nat, NEW q \in [1 .. k -> Flow], NEW c \in Flow, NEW p, NEW u,
         InsertedAt(u, q, k, c, p), \A i \in 1 .. k : i <= p <=> q[i].time <= c.time,
         NEW old, TargetIs(old, q, c.target) \/ (Of(q, c.target) = {} /\ old = NewTarget)
  PROVE  TargetIs(TargetWith(old, c), u, c.target)
<1> DEFINE t == c.target
<1>0. \A i \in 1 .. k : Shift(i, p) \in 1 .. k + 1 /\ u[Shift(i, p)] = q[i]
  BY InsertedPlaces
<1>1. /\ p \in 0 .. k /\ u[p + 1] = c /\ c.time \in Nat
      /\ \A i \in 1 .. k : Shift(i, p) \in 1 .. k + 1 /\ u[Shift(i, p)] = q[i]
  BY <1>0, FlowTypes DEF InsertedAt
<1>2. /\ Cardinality(Of(u, t)) = Cardinality(Of(q, t)) + 1
      /\ \A m : LatestOf(q, t, m) => LatestOf(u, t, IF m <= p THEN p + 1 ELSE Shift(m, p))
      /\ Of(q, t) = {} => LatestOf(u, t, p + 1)
  BY InsertedOf
<1>3. CASE Of(q, t) = {} /\ old = NewTarget
  <2>1. old.refs = 0 /\ old.latest = -1 /\ Cardinality(Of(q, t)) = 0
    BY <1>3, FS_EmptySet DEF NewTarget, None
  <2>2. TargetWith(old, c) = [refs |-> 0 + 1, latest |-> c.time, failed |-> c.failed]
    BY <1>1, <2>1 DEF TargetWith
  <2>3. LatestOf(u, t, p + 1) /\ Cardinality(Of(u, t)) = 0 + 1
    BY <1>2, <1>3, <2>1
  <2> QED
    BY <1>1, <2>2, <2>3 DEF TargetIs
<1>4. CASE TargetIs(old, q, t)
  <2>1. PICK m : /\ LatestOf(q, t, m)
                 /\ old = [refs |-> Cardinality(Of(q, t)), latest |-> q[m].time, failed |-> q[m].failed]
    BY <1>4 DEF TargetIs
  <2>2. m \in 1 .. k /\ q[m] \in Flow /\ q[m].time \in Nat
    <3>1. m \in 1 .. k
      BY <2>1, LatestUnique
    <3> QED
      BY <3>1, FlowTypes
  <2>3. CASE m <= p
    <3>1. q[m].time <= c.time
      BY <2>2, <2>3
    <3>2. TargetWith(old, c) = [refs |-> Cardinality(Of(q, t)) + 1, latest |-> c.time, failed |-> c.failed]
      BY <1>1, <2>1, <2>2, <3>1 DEF TargetWith
    <3>3. LatestOf(u, t, p + 1)
      BY <1>2, <2>1, <2>3
    <3> QED
      BY <1>1, <1>2, <3>2, <3>3 DEF TargetIs
  <2>4. CASE ~(m <= p)
    <3>1. ~(c.time >= q[m].time)
      BY <1>1, <2>2, <2>4
    <3>2. TargetWith(old, c) =
            [refs |-> Cardinality(Of(q, t)) + 1, latest |-> q[m].time, failed |-> q[m].failed]
      BY <2>1, <3>1 DEF TargetWith
    <3>3. LatestOf(u, t, Shift(m, p)) /\ u[Shift(m, p)] = q[m]
      BY <1>1, <1>2, <2>1, <2>2, <2>4
    <3> QED
      BY <1>2, <3>2, <3>3 DEF TargetIs
  <2> QED
    BY <2>3, <2>4
<1> QED
  BY <1>3, <1>4

LEMMA TargetKept ==
  ASSUME NEW k \in Nat, NEW q \in [1 .. k -> Flow], NEW c \in Flow, NEW p, NEW u,
         InsertedAt(u, q, k, c, p), NEW t, t # c.target, NEW r, TargetIs(r, q, t)
  PROVE  TargetIs(r, u, t)
<1>1. PICK m : /\ LatestOf(q, t, m)
               /\ r = [refs |-> Cardinality(Of(q, t)), latest |-> q[m].time, failed |-> q[m].failed]
  BY DEF TargetIs
<1>2. m \in 1 .. k
  BY <1>1, LatestUnique
<1>3. u[Shift(m, p)] = q[m]
  BY <1>2, InsertedPlaces
<1>4. LatestOf(u, t, Shift(m, p)) /\ Cardinality(Of(u, t)) = Cardinality(Of(q, t))
  BY <1>1, InsertedOf
<1> QED
  BY <1>1, <1>3, <1>4 DEF TargetIs

LEMMA TargetsAdded ==
  ASSUME NEW k \in Nat, NEW q \in [1 .. k -> Flow], NEW c \in Flow, NEW p, NEW u,
         InsertedAt(u, q, k, c, p)
  PROVE  TargetsOf(u, k + 1) = TargetsOf(q, k) \cup {c.target}
<1>1. /\ \A i \in 1 .. k : Shift(i, p) \in 1 .. k + 1 /\ u[Shift(i, p)] = q[i]
      /\ \A j \in 1 .. k + 1 : j = p + 1 \/ \E i \in 1 .. k : j = Shift(i, p)
      /\ p + 1 \in 1 .. k + 1 /\ u[p + 1] = c
  <2>1. p + 1 \in 1 .. k + 1 /\ u[p + 1] = c
    BY DEF InsertedAt
  <2> QED
    BY <2>1, InsertedPlaces
<1>2. ASSUME NEW j \in 1 .. k + 1 PROVE u[j].target \in TargetsOf(q, k) \cup {c.target}
  <2>1. CASE j = p + 1
    BY <1>1, <2>1
  <2>2. CASE \E i \in 1 .. k : j = Shift(i, p)
    BY <1>1, <2>2 DEF TargetsOf
  <2> QED
    BY <1>1, <2>1, <2>2
<1>3. ASSUME NEW i \in 1 .. k PROVE q[i].target \in TargetsOf(u, k + 1)
  <2>1. Shift(i, p) \in 1 .. k + 1 /\ u[Shift(i, p)].target = q[i].target
    BY <1>1
  <2> QED
    BY <2>1 DEF TargetsOf
<1>4. c.target \in TargetsOf(u, k + 1)
  BY <1>1 DEF TargetsOf
<1>5. TargetsOf(u, k + 1) \subseteq TargetsOf(q, k) \cup {c.target}
  BY <1>2 DEF TargetsOf
<1>6. TargetsOf(q, k) \subseteq TargetsOf(u, k + 1)
  BY <1>3 DEF TargetsOf
<1> QED
  BY <1>4, <1>5, <1>6

(* Counting one element in or out. *)
LEMMA OneCounted ==
  ASSUME NEW S, IsFiniteSet(S), NEW x, NEW T, T \ {x} = S \ {x}
  PROVE  Cardinality(T) = Cardinality(S) + (IF x \in T THEN 1 ELSE 0) - (IF x \in S THEN 1 ELSE 0)
<1>1. Cardinality(S) \in Nat
  BY FS_CardinalityType
<1>2. CASE x \in T /\ x \in S
  <2>1. T = S
    BY <1>2
  <2> QED
    BY <1>1, <1>2, <2>1
<1>3. CASE x \in T /\ x \notin S
  <2>1. T = S \cup {x}
    BY <1>3
  <2> QED
    BY <1>1, <1>3, <2>1, FS_AddElement
<1>4. CASE x \notin T /\ x \in S
  <2>1. T = S \ {x}
    BY <1>4
  <2> QED
    BY <1>1, <1>4, <2>1, FS_RemoveElement
<1>5. CASE x \notin T /\ x \notin S
  <2>1. T = S
    BY <1>5
  <2> QED
    BY <1>1, <1>5, <2>1
<1> QED
  BY <1>2, <1>3, <1>4, <1>5

(* Horizon.add keeps the aggregates those of the contributions. *)
LEMMA AggregateAdded ==
  ASSUME NEW k \in Nat, NEW q \in [1 .. k -> Flow], NEW c \in Flow, NEW p, NEW u,
         InsertedAt(u, q, k, c, p), \A i \in 1 .. k : i <= p <=> q[i].time <= c.time,
         NEW g, NEW f, AggregateOf(g, f, q, k),
         NEW old, old = IF c.target \in DOMAIN g THEN g[c.target] ELSE NewTarget,
         NEW new, new = TargetWith(old, c),
         NEW g2, g2 = [t \in DOMAIN g \cup {c.target} |-> IF t = c.target THEN new ELSE g[t]],
         NEW f2, f2 = f + One(new.failed) - One(old.failed)
  PROVE  AggregateOf(g2, f2, u, k + 1)
<1>1. DOMAIN g = TargetsOf(q, k) /\ \A t \in TargetsOf(q, k) : TargetIs(g[t], q, t)
  BY DEF AggregateOf
<1>2. TargetIs(old, q, c.target) \/ (Of(q, c.target) = {} /\ old = NewTarget)
  <2>1. CASE c.target \in DOMAIN g
    BY <1>1, <2>1
  <2>2. CASE c.target \notin DOMAIN g
    <3>1. \A i \in 1 .. k : q[i].target \in DOMAIN g
      BY <1>1 DEF TargetsOf
    <3>2. /\ Of(q, c.target) \in SUBSET (1 .. k)
          /\ \A i \in 1 .. k : i \in Of(q, c.target) <=> q[i].target = c.target
      BY OfTypes
    <3>3. Of(q, c.target) = {}
      BY <2>2, <3>1, <3>2
    <3> QED
      BY <2>2, <3>3
  <2> QED
    BY <2>1, <2>2
<1>3. TargetIs(new, u, c.target)
  BY <1>2, TargetAdded
<1>4. k + 1 \in Nat /\ u \in [1 .. k + 1 -> Flow] /\ TargetsOf(u, k + 1) = DOMAIN g \cup {c.target}
  <2>1. k + 1 \in Nat /\ u \in [1 .. k + 1 -> Flow]
    BY DEF InsertedAt
  <2>2. TargetsOf(u, k + 1) = TargetsOf(q, k) \cup {c.target}
    BY TargetsAdded
  <2> QED
    BY <1>1, <2>1, <2>2
<1>5. \A t \in DOMAIN g : t # c.target => TargetIs(g[t], u, t)
  BY <1>1, TargetKept
<1>6. g2 = [t \in TargetsOf(u, k + 1) |-> g2[t]]
  BY <1>4
<1>7. \A t \in TargetsOf(u, k + 1) : TargetIs(g2[t], u, t)
  BY <1>3, <1>4, <1>5
<1>8. \A t \in DOMAIN g2 : t # c.target => g2[t] = g[t]
  OBVIOUS
<1>9. FailedOf(g2) \ {c.target} = FailedOf(g) \ {c.target}
  BY DEF FailedOf
<1>10. One(new.failed) = (IF c.target \in FailedOf(g2) THEN 1 ELSE 0)
  <2>1. c.target \in DOMAIN g2 /\ g2[c.target] = new
    OBVIOUS
  <2>2. (c.target \in FailedOf(g2)) <=> new.failed
    BY <2>1, Zenon DEF FailedOf
  <2> QED
    BY <2>2 DEF One
<1>14. One(old.failed) = (IF c.target \in FailedOf(g) THEN 1 ELSE 0)
  <2>1. CASE c.target \in DOMAIN g
    <3>1. (c.target \in FailedOf(g)) <=> old.failed
      BY <2>1, Zenon DEF FailedOf
    <3> QED
      BY <3>1 DEF One
  <2>2. CASE c.target \notin DOMAIN g
    <3>1. c.target \notin FailedOf(g) /\ old.failed = FALSE
      BY <2>2 DEF FailedOf, NewTarget
    <3> QED
      BY <3>1 DEF One
  <2> QED
    BY <2>1, <2>2
<1>11. IsFiniteSet(FailedOf(g))
  <2>1. FailedOf(g) \in SUBSET TargetsOf(q, k)
    BY <1>1 DEF FailedOf
  <2> QED
    BY <2>1, TargetsFinite, FS_Subset
<1>12. Cardinality(FailedOf(g2)) = Cardinality(FailedOf(g)) + One(new.failed) - One(old.failed)
  <2>1. Cardinality(FailedOf(g2)) = Cardinality(FailedOf(g))
          + (IF c.target \in FailedOf(g2) THEN 1 ELSE 0) - (IF c.target \in FailedOf(g) THEN 1 ELSE 0)
    <3>1. PICK S, T, x : S = FailedOf(g) /\ T = FailedOf(g2) /\ x = c.target
      OBVIOUS
    <3>2. IsFiniteSet(S) /\ T \ {x} = S \ {x}
      BY <1>9, <1>11, <3>1
    <3>3. Cardinality(T) = Cardinality(S) + (IF x \in T THEN 1 ELSE 0) - (IF x \in S THEN 1 ELSE 0)
      BY <3>2, OneCounted
    <3> QED
      BY <3>1, <3>3, Zenon
  <2> QED
    BY <1>10, <1>14, <2>1, Zenon
<1>13. f = Cardinality(FailedOf(g))
  BY DEF AggregateOf
<1> QED
  BY <1>6, <1>7, <1>12, <1>13 DEF AggregateOf

-----------------------------------------------------------------------------
(* Horizon.expire.                                                         *)

TailAt(u, q, k, n, l) ==
  /\ n \in 0 .. k /\ l \in Nat /\ l = k - n
  /\ u \in [1 .. l -> Flow] /\ \A i \in 1 .. l : u[i] = q[n + i]

Without(r, n) == [r EXCEPT !.refs = @ - n]

FailedAmong(g, S) == {t \in S : g[t].failed}

Gone(q, n, t) == Cardinality({i \in Of(q, t) : i <= n})

Dead(g, q, n) == {t \in DOMAIN g : g[t].refs = Gone(q, n, t)}
Remaining(g, q, n) == [t \in DOMAIN g \ Dead(g, q, n) |-> Without(g[t], Gone(q, n, t))]

(* The places of a target once the first n flows are gone. *)
LEMMA TailOf ==
  ASSUME NEW k \in Nat, NEW q \in [1 .. k -> Flow], NEW n, NEW l, NEW u,
         TailAt(u, q, k, n, l), NEW t
  PROVE  /\ Cardinality(Of(u, t)) = Cardinality(Of(q, t)) - Gone(q, n, t)
         /\ Gone(q, n, t) \in Nat
         /\ Cardinality(Of(q, t)) = Gone(q, n, t) <=> Of(u, t) = {}
         /\ \A m : LatestOf(q, t, m) /\ Of(u, t) # {} =>
              LatestOf(u, t, m - n) /\ u[m - n] = q[m]
<1> DEFINE A == {i \in Of(q, t) : i <= n}
           B == {i \in Of(q, t) : i > n}
           g == [i \in 1 .. k |-> i - n]
           D == {g[i] : i \in B}
<1>1. n \in 0 .. k /\ l \in Nat /\ l = k - n /\ u \in [1 .. l -> Flow]
  BY DEF TailAt
<1>2. \A i \in 1 .. l : n + i \in 1 .. k /\ n + i > n /\ u[i] = q[n + i] /\ n + i - n = i
  BY <1>1 DEF TailAt
<1>3. \A i \in 1 .. k : i > n => i - n \in 1 .. l /\ n + (i - n) = i
  BY <1>1
<1>4. /\ Of(q, t) \in SUBSET (1 .. k)
      /\ \A i \in 1 .. k : i \in Of(q, t) <=> q[i].target = t
  BY OfTypes
<1>5. /\ Of(u, t) \in SUBSET (1 .. l) /\ IsFiniteSet(Of(u, t)) /\ Cardinality(Of(u, t)) \in Nat
      /\ \A i \in 1 .. l : i \in Of(u, t) <=> u[i].target = t
  BY <1>1, OfTypes
<1>6. A \in SUBSET (1 .. k) /\ B \in SUBSET (1 .. k)
  BY <1>4
<1>7. IsFiniteSet(A) /\ IsFiniteSet(B)
  BY <1>6, PartFinite
<1>8. A \cap B = {} /\ A \cup B = Of(q, t)
  <2>1. \A i \in Of(q, t) : i <= n \/ i > n
    BY <1>1, <1>4
  <2>2. \A i \in Of(q, t) : ~(i <= n /\ i > n)
    BY <1>1, <1>4
  <2> QED
    BY <2>1, <2>2
<1>9. /\ Cardinality(Of(q, t)) = Cardinality(A) + Cardinality(B)
      /\ Cardinality(A) \in Nat /\ Cardinality(B) \in Nat
  BY <1>7, <1>8, DisjointSize
<1>10. Cardinality(D) = Cardinality(B)
  <2>1. B \subseteq DOMAIN g
    BY <1>6
  <2>2. \A i, j \in B : g[i] = g[j] => i = j
    <3> TAKE i, j \in B
    <3>1. i \in 1 .. k /\ j \in 1 .. k
      BY <1>6
    <3>2. g[i] = i - n /\ g[j] = j - n
      BY <3>1
    <3> HIDE DEF g
    <3> QED
      BY <1>1, <3>1, <3>2
  <2> HIDE DEF g, B
  <2> QED
    BY <1>7, <2>1, <2>2, ImageSize
<1>11. \A j : j \in D <=> \E i \in B : j = i - n
  BY <1>6
<1>12. Of(u, t) = D
  <2>1. ASSUME NEW j \in Of(u, t) PROVE j \in D
    <3>1. j \in 1 .. l /\ u[j].target = t
      BY <1>5, <2>1
    <3>2. PICK i : i = n + j
      OBVIOUS
    <3>5. n + j \in 1 .. k /\ n + j > n /\ u[j] = q[n + j]
      BY <1>2, <3>1
    <3>6. i \in 1 .. k /\ i > n /\ q[i].target = t
      BY <3>1, <3>2, <3>5, Zenon
    <3>7. j = i - n
      BY <1>1, <3>1, <3>2
    <3>3. i \in 1 .. k /\ i > n /\ q[i].target = t /\ j = i - n
      BY <3>6, <3>7, Zenon
    <3>4. i \in B
      BY <1>4, <3>3
    <3> HIDE DEF B, D
    <3> QED
      BY <1>11, <3>3, <3>4, Zenon
  <2>2. ASSUME NEW j \in D PROVE j \in Of(u, t)
    <3>1. PICK i \in B : j = i - n
      BY <1>11, <2>2
    <3>2. i \in 1 .. k /\ i > n /\ q[i].target = t
      BY <1>4, <1>6, <3>1
    <3>3. j \in 1 .. l /\ n + j = i
      BY <1>3, <3>1, <3>2
    <3>4. u[j] = q[i]
      BY <1>2, <3>3
    <3> QED
      BY <1>5, <3>2, <3>3, <3>4
  <2> QED
    BY <2>1, <2>2
<1>13. Gone(q, n, t) = Cardinality(A)
  BY DEF Gone
<1>14. ASSUME NEW m, LatestOf(q, t, m), Of(u, t) # {}
       PROVE  LatestOf(u, t, m - n) /\ u[m - n] = q[m]
  <2>1. m \in 1 .. k /\ m \in Of(q, t) /\ \A i \in Of(q, t) : i <= m
    BY <1>4, <1>14 DEF LatestOf
  <2>2. PICK i \in B : TRUE
    BY <1>11, <1>12, <1>14
  <2>3. i \in Of(q, t) /\ i > n /\ i \in 1 .. k /\ i <= m
    BY <1>6, <2>1, <2>2
  <2>4. m > n
    BY <1>1, <2>1, <2>3
  <2>5. m \in B
    BY <2>1, <2>4
  <2>6. m - n \in Of(u, t)
    BY <1>11, <1>12, <2>5
  <2>7. ASSUME NEW j \in Of(u, t) PROVE j <= m - n
    <3>1. PICK h \in B : j = h - n
      BY <1>11, <1>12, <2>7
    <3>2. h \in 1 .. k /\ h <= m
      BY <1>6, <2>1, <3>1
    <3> QED
      BY <1>1, <2>1, <3>1, <3>2
  <2>8. u[m - n] = q[m]
    <3>1. m - n \in 1 .. l /\ n + (m - n) = m
      BY <1>3, <2>1, <2>4
    <3> QED
      BY <1>2, <3>1
  <2> QED
    BY <2>6, <2>7, <2>8 DEF LatestOf
<1>15. Cardinality(Of(u, t)) = Cardinality(Of(q, t)) - Gone(q, n, t)
  BY <1>9, <1>10, <1>12, <1>13
<1>16. Cardinality(Of(q, t)) = Gone(q, n, t) <=> Of(u, t) = {}
  <2>1. Cardinality(Of(q, t)) = Gone(q, n, t) <=> Cardinality(Of(u, t)) = 0
    BY <1>5, <1>9, <1>13, <1>15
  <2> QED
    BY <1>5, <2>1, NoneCounted
<1> QED
  BY <1>9, <1>13, <1>14, <1>15, <1>16

(* Horizon.expire keeps the aggregates those of the contributions. *)
LEMMA AggregateExpired ==
  ASSUME NEW k \in Nat, NEW q \in [1 .. k -> Flow], NEW n, NEW l, NEW u,
         TailAt(u, q, k, n, l),
         NEW g, NEW f, AggregateOf(g, f, q, k)
  PROVE  AggregateOf(Remaining(g, q, n), f - Cardinality(FailedAmong(g, Dead(g, q, n))), u, l)
<1>8. PICK dead : dead = Dead(g, q, n)
  OBVIOUS
<1>9. PICK g2 : g2 = Remaining(g, q, n)
  OBVIOUS
<1>10. PICK f2 : f2 = f - Cardinality(FailedAmong(g, dead))
  OBVIOUS
<1>11. dead = {t \in DOMAIN g : g[t].refs = Gone(q, n, t)}
  BY <1>8 DEF Dead
<1>12. g2 = [t \in DOMAIN g \ dead |-> Without(g[t], Gone(q, n, t))]
  BY <1>8, <1>9 DEF Remaining
<1>1. DOMAIN g = TargetsOf(q, k) /\ \A t \in TargetsOf(q, k) : TargetIs(g[t], q, t)
  BY DEF AggregateOf
<1>2. n \in 0 .. k /\ l \in Nat /\ l = k - n /\ u \in [1 .. l -> Flow]
  BY DEF TailAt
<1>3. \A t \in DOMAIN g : t \in dead <=> Of(u, t) = {}
  <2> TAKE t \in DOMAIN g
  <2>1. g[t].refs = Cardinality(Of(q, t))
    BY <1>1, TargetIsTyped
  <2>2. Cardinality(Of(q, t)) = Gone(q, n, t) <=> Of(u, t) = {}
    BY TailOf
  <2> QED
    BY <1>11, <2>1, <2>2
<1>4. DOMAIN g \ dead = TargetsOf(u, l)
  <2>1. ASSUME NEW t \in DOMAIN g \ dead PROVE t \in TargetsOf(u, l)
    <3>1. Of(u, t) # {}
      BY <1>3, <2>1
    <3>2. PICK i \in 1 .. l : u[i].target = t
      <4>1. /\ Of(u, t) \in SUBSET (1 .. l)
            /\ \A i \in 1 .. l : i \in Of(u, t) <=> u[i].target = t
        BY <1>2, OfTypes
      <4> QED
        BY <3>1, <4>1
    <3> QED
      BY <3>2 DEF TargetsOf
  <2>2. ASSUME NEW t \in TargetsOf(u, l) PROVE t \in DOMAIN g \ dead
    <3>1. PICK i \in 1 .. l : u[i].target = t
      BY <2>2 DEF TargetsOf
    <3>2. n + i \in 1 .. k /\ q[n + i] = u[i]
      BY <1>2, <3>1 DEF TailAt
    <3>3. t \in DOMAIN g
      BY <1>1, <3>1, <3>2 DEF TargetsOf
    <3>4. i \in Of(u, t)
      BY <1>2, <3>1, OfTypes
    <3> QED
      BY <1>3, <3>3, <3>4
  <2> QED
    BY <2>1, <2>2
<1>5. \A t \in TargetsOf(u, l) : TargetIs(g2[t], u, t)
  <2> TAKE t \in TargetsOf(u, l)
  <2>1. t \in DOMAIN g /\ t \notin dead /\ Of(u, t) # {}
    BY <1>3, <1>4
  <2>2. PICK m : /\ LatestOf(q, t, m)
                 /\ g[t] = [refs |-> Cardinality(Of(q, t)), latest |-> q[m].time, failed |-> q[m].failed]
    BY <1>1, <2>1 DEF TargetIs
  <2>3. LatestOf(u, t, m - n) /\ u[m - n] = q[m]
    BY <2>1, <2>2, TailOf
  <2>4. Cardinality(Of(u, t)) = Cardinality(Of(q, t)) - Gone(q, n, t)
    BY TailOf
  <2>5. g2[t] = [refs |-> Cardinality(Of(q, t)) - Gone(q, n, t), latest |-> q[m].time, failed |-> q[m].failed]
    <3>1. g2[t] = Without(g[t], Gone(q, n, t))
      BY <1>12, <2>1
    <3> QED
      BY <2>2, <3>1 DEF Without
  <2>6. g2[t] = [refs |-> Cardinality(Of(u, t)), latest |-> u[m - n].time, failed |-> u[m - n].failed]
    BY <2>3, <2>4, <2>5, Zenon
  <2> QED
    BY <2>3, <2>6 DEF TargetIs
<1>6. g2 = [t \in TargetsOf(u, l) |-> g2[t]]
  BY <1>4, <1>12
<1>7. f2 = Cardinality(FailedOf(g2))
  <2> DEFINE A == FailedAmong(g, dead)
  <2>1. \A t \in DOMAIN g2 : t \in DOMAIN g /\ t \notin dead /\ g2[t].failed = g[t].failed
    <3> TAKE t \in DOMAIN g2
    <3>1. t \in DOMAIN g /\ t \notin dead /\ g2[t] = Without(g[t], Gone(q, n, t))
      BY <1>12
    <3>2. PICK a, b, c : g[t] = [refs |-> a, latest |-> b, failed |-> c]
      BY <1>1, <3>1 DEF TargetIs
    <3>3. g2[t] = [refs |-> a - Gone(q, n, t), latest |-> b, failed |-> c]
      BY <3>1, <3>2 DEF Without
    <3> QED
      BY <3>1, <3>2, <3>3
  <2>2. DOMAIN g2 = DOMAIN g \ dead
    BY <1>12
  <2>3. FailedOf(g) = A \cup FailedOf(g2) /\ A \cap FailedOf(g2) = {}
    BY <1>11, <2>1, <2>2 DEF FailedOf, FailedAmong
  <2>4. IsFiniteSet(FailedOf(g))
    <3>1. FailedOf(g) \in SUBSET TargetsOf(q, k)
      BY <1>1 DEF FailedOf
    <3> QED
      BY <3>1, TargetsFinite, FS_Subset
  <2> HIDE DEF A
  <2>5. IsFiniteSet(A) /\ IsFiniteSet(FailedOf(g2))
    BY <2>3, <2>4, FS_Subset
  <2>6. /\ Cardinality(FailedOf(g)) = Cardinality(A) + Cardinality(FailedOf(g2))
        /\ Cardinality(A) \in Nat /\ Cardinality(FailedOf(g2)) \in Nat
    BY <2>3, <2>5, DisjointSize
  <2>7. f = Cardinality(FailedOf(g))
    BY DEF AggregateOf
  <2> QED
    BY <1>10, <2>6, <2>7 DEF A
<1> QED
  BY <1>8, <1>9, <1>10, <1>5, <1>6, <1>7 DEF AggregateOf

-----------------------------------------------------------------------------
(* Horizons.                                                               *)

HorizonOf(h, k) ==
  /\ h = [contributions |-> h.contributions, targets |-> h.targets,
          failedTargets |-> h.failedTargets]
  /\ k \in Nat /\ h.contributions \in [1 .. k -> Flow]
  /\ SortedTo(h.contributions, k)
  /\ AggregateOf(h.targets, h.failedTargets, h.contributions, k)

LEMMA ItemsAre ==
  ASSUME NEW h, NEW k, HorizonOf(h, k)
  PROVE  /\ Items(h) = {h.contributions[i] : i \in 1 .. k} /\ Items(h) \subseteq Flow
         /\ DOMAIN h.contributions = 1 .. k /\ Len(h.contributions) = k
         /\ h.contributions = <<>> <=> k = 0
         /\ Items(h) = {} <=> k = 0
<1>1. k \in Nat /\ h.contributions \in [1 .. k -> Flow]
  BY DEF HorizonOf
<1>2. DOMAIN h.contributions = 1 .. k /\ Len(h.contributions) = k /\ h.contributions \in Seq(Flow)
  BY <1>1, AsSequence
<1>3. h.contributions = <<>> <=> k = 0
  BY <1>1, <1>2, EmptySeq
<1>4. Items(h) = {h.contributions[i] : i \in 1 .. k}
  BY <1>2 DEF Items
<1>5. Items(h) \subseteq Flow
  BY <1>1, <1>4
<1>6. Items(h) = {} <=> k = 0
  <2>1. k # 0 => 1 \in 1 .. k
    BY <1>1
  <2>2. k = 0 => 1 .. k = {}
    OBVIOUS
  <2> QED
    BY <1>4, <2>1, <2>2
<1> QED
  BY <1>2, <1>3, <1>4, <1>5, <1>6

LEMMA EmptyIs == HorizonOf(EmptyHorizon, 0)
<1> DEFINE e == [t \in {} |-> 0]
<1>1. EmptyHorizon = [contributions |-> <<>>, targets |-> e, failedTargets |-> 0]
  BY DEF EmptyHorizon
<1>2. <<>> \in [1 .. 0 -> Flow] /\ SortedTo(<<>>, 0)
  BY DEF SortedTo
<1>3. TargetsOf(<<>>, 0) = {} /\ FailedOf(e) = {}
  BY DEF TargetsOf, FailedOf
<1>4. AggregateOf(e, 0, <<>>, 0)
  BY <1>3, FS_EmptySet DEF AggregateOf
<1> HIDE DEF e
<1> QED
  BY <1>1, <1>2, <1>4 DEF HorizonOf

(* Two horizons with the same contributions are the same. *)
LEMMA HorizonUnique ==
  ASSUME NEW h, NEW k, HorizonOf(h, k), NEW v, NEW l, HorizonOf(v, l),
         h.contributions = v.contributions
  PROVE  h = v
<1>1. k = l
  BY ItemsAre
<1>2. h.targets = v.targets /\ h.failedTargets = v.failedTargets
  BY <1>1, AggregateUnique DEF HorizonOf
<1> QED
  BY <1>2 DEF HorizonOf

(* Horizon.add: one flow more, in its place. *)
LEMMA HorizonAdded ==
  ASSUME NEW h, NEW k, HorizonOf(h, k), NEW c \in Flow, NEW v, v = HorizonAdd(h, c)
  PROVE  HorizonOf(v, k + 1) /\ Items(v) = Items(h) \cup {c}
         /\ v.contributions = Inserted(h.contributions, c)
<1>1. PICK q, g, f : h = [contributions |-> q, targets |-> g, failedTargets |-> f]
  BY DEF HorizonOf
<1>2. /\ k \in Nat /\ q \in [1 .. k -> Flow] /\ SortedTo(q, k) /\ AggregateOf(g, f, q, k)
      /\ h.contributions = q
  BY <1>1 DEF HorizonOf
<1>3. PICK p : p = Place(q, c)
  OBVIOUS
<1>4. PICK u : u = Inserted(q, c)
  OBVIOUS
<1>5. p \in 0 .. k /\ \A i \in 1 .. k : i <= p <=> q[i].time <= c.time
  BY <1>2, <1>3, PlaceOK
<1>6. InsertedAt(u, q, k, c, p)
  BY <1>2, <1>3, <1>4, <1>5, InsertedIs DEF InsertedAt
<1>7. PICK old : old = IF c.target \in DOMAIN g THEN g[c.target] ELSE NewTarget
  OBVIOUS
<1>8. PICK new : new = TargetWith(old, c)
  OBVIOUS
<1>9. PICK g2 : g2 = [t \in DOMAIN g \cup {c.target} |-> IF t = c.target THEN new ELSE g[t]]
  OBVIOUS
<1>10. PICK f2 : f2 = f + One(new.failed) - One(old.failed)
  OBVIOUS
<1>11. AggregateOf(g2, f2, u, k + 1)
  BY <1>2, <1>5, <1>6, <1>7, <1>8, <1>9, <1>10, AggregateAdded
<1>12. v = [contributions |-> u, targets |-> g2, failedTargets |-> f2]
  BY <1>1, <1>4, <1>7, <1>8, <1>9, <1>10 DEF HorizonAdd
<1>13. /\ \A i \in 1 .. k : Shift(i, p) \in 1 .. k + 1 /\ u[Shift(i, p)] = q[i]
       /\ \A j \in 1 .. k + 1 : j = p + 1 \/ \E i \in 1 .. k : j = Shift(i, p)
       /\ \A i, j \in 1 .. k : (i < j => Shift(i, p) < Shift(j, p))
       /\ \A i, j \in 1 .. k : Shift(i, p) = Shift(j, p) => i = j
  BY <1>2, <1>6, InsertedPlaces
<1>14. u[p + 1] = c /\ p + 1 \in 1 .. k + 1 /\ u \in [1 .. k + 1 -> Flow] /\ k + 1 \in Nat
  BY <1>2, <1>6 DEF InsertedAt
<1>15. SortedTo(u, k + 1)
  <2> SUFFICES ASSUME NEW a \in 1 .. k + 1, NEW b \in 1 .. k + 1, a < b
               PROVE  u[a].time <= u[b].time
    BY DEF SortedTo
  <2>1. /\ c.time \in Nat /\ u[a].time \in Nat /\ u[b].time \in Nat
        /\ \A i \in 1 .. k : q[i].time \in Nat
    BY <1>2, <1>14, FlowTypes
  <2>2. CASE a = p + 1
    <3>1. b # p + 1
      BY <2>2
    <3>2. PICK i \in 1 .. k : b = Shift(i, p)
      BY <1>13, <3>1
    <3>3. ~(i <= p)
      BY <1>5, <2>2, <3>2 DEF Shift
    <3>4. ~(q[i].time <= c.time) /\ u[b] = q[i]
      BY <1>5, <1>13, <3>2, <3>3
    <3> QED
      BY <1>14, <2>1, <2>2, <3>4
  <2>3. CASE b = p + 1
    <3>1. a # p + 1
      BY <2>3
    <3>2. PICK i \in 1 .. k : a = Shift(i, p)
      BY <1>13, <3>1
    <3>3. i <= p
      BY <1>5, <2>3, <3>2 DEF Shift
    <3>4. q[i].time <= c.time /\ u[a] = q[i]
      BY <1>5, <1>13, <3>2, <3>3
    <3> QED
      BY <1>14, <2>3, <3>4
  <2>4. CASE a # p + 1 /\ b # p + 1
    <3>1. PICK i \in 1 .. k : a = Shift(i, p)
      BY <1>13, <2>4
    <3>2. PICK j \in 1 .. k : b = Shift(j, p)
      BY <1>13, <2>4
    <3>3. i < j
      <4>1. i = j => a = b
        BY <3>1, <3>2
      <4>2. j < i => b < a
        BY <1>13, <3>1, <3>2
      <4> QED
        BY <4>1, <4>2
    <3>4. q[i].time <= q[j].time /\ u[a] = q[i] /\ u[b] = q[j]
      BY <1>2, <1>13, <3>1, <3>2, <3>3 DEF SortedTo
    <3> QED
      BY <3>4
  <2> QED
    BY <2>2, <2>3, <2>4
<1>16. v.contributions = u /\ v.targets = g2 /\ v.failedTargets = f2
  BY <1>12
<1>17. HorizonOf(v, k + 1)
  BY <1>11, <1>12, <1>14, <1>15, <1>16 DEF HorizonOf
<1>18. Items(v) = Items(h) \cup {c}
  <2>1. Items(h) = {q[i] : i \in 1 .. k}
    BY <1>2, ItemsAre
  <2>2. Items(v) = {u[i] : i \in 1 .. k + 1}
    BY <1>16, <1>17, ItemsAre
  <2>3. ASSUME NEW j \in 1 .. k + 1 PROVE u[j] \in Items(h) \cup {c}
    BY <1>13, <1>14, <2>1
  <2>4. ASSUME NEW i \in 1 .. k PROVE q[i] \in Items(v)
    BY <1>13, <2>2
  <2>5. c \in Items(v)
    BY <1>14, <2>2
  <2>6. Items(v) \subseteq Items(h) \cup {c}
    BY <2>2, <2>3
  <2>7. Items(h) \subseteq Items(v)
    BY <2>1, <2>4
  <2> QED
    BY <2>5, <2>6, <2>7
<1> QED
  BY <1>2, <1>4, <1>16, <1>17, <1>18

(* Horizon.expire: what is at or before the cutoff is gone. *)
LEMMA HorizonExpired ==
  ASSUME NEW h, NEW k, HorizonOf(h, k), NEW cutoff \in Int, NEW v, v = HorizonExpire(h, cutoff)
  PROVE  /\ \E l : HorizonOf(v, l)
         /\ Items(v) = {c \in Items(h) : c.time > cutoff}
<1>1. PICK q, g, f : h = [contributions |-> q, targets |-> g, failedTargets |-> f]
  BY DEF HorizonOf
<1>2. /\ k \in Nat /\ q \in [1 .. k -> Flow] /\ SortedTo(q, k) /\ AggregateOf(g, f, q, k)
      /\ h.contributions = q
  BY <1>1 DEF HorizonOf
<1>3. PICK n : n = Expiring(q, cutoff)
  OBVIOUS
<1>4. n \in 0 .. k /\ \A i \in 1 .. k : i <= n <=> q[i].time <= cutoff
  BY <1>2, <1>3, ExpiringOK
<1>5. PICK l \in Nat : l = k - n
  BY <1>2, <1>4
<1>6. PICK u : u = SubSeq(q, n + 1, Len(q))
  OBVIOUS
<1>7. TailAt(u, q, k, n, l)
  <2>1. l \in Nat /\ l = k - n
    BY <1>5
  <2>2. u \in [1 .. l -> Flow] /\ \A i \in 1 .. l : u[i] = q[n + i]
    <3>1. PartOf(u, q, n, k)
      BY <1>2, <1>4, <1>6, TailIs
    <3> QED
      BY <2>1, <3>1 DEF PartOf
  <2> QED
    BY <1>4, <2>1, <2>2 DEF TailAt
<1>8. PICK g2 : g2 = Remaining(g, q, n)
  OBVIOUS
<1>9. PICK f2 : f2 = f - Cardinality(FailedAmong(g, Dead(g, q, n)))
  OBVIOUS
<1>10. AggregateOf(Remaining(g, q, n), f - Cardinality(FailedAmong(g, Dead(g, q, n))), u, l)
  BY <1>2, <1>7, AggregateExpired
<1>11. AggregateOf(g2, f2, u, l)
  BY <1>8, <1>9, <1>10
<1>12. v = [contributions |-> u, targets |-> g2, failedTargets |-> f2]
  BY <1>1, <1>3, <1>6, <1>8, <1>9 DEF HorizonExpire, Gone, Without, FailedAmong, Dead, Remaining
<1>13. v.contributions = u /\ v.targets = g2 /\ v.failedTargets = f2
  BY <1>12
<1>14. /\ \A i \in 1 .. l : n + i \in 1 .. k /\ n + i > n /\ u[i] = q[n + i]
       /\ u \in [1 .. l -> Flow] /\ l \in Nat
  BY <1>2, <1>4, <1>5, <1>7 DEF TailAt
<1>15. \A i \in 1 .. k : q[i].time \in Nat
  BY <1>2, FlowTypes
<1>16. SortedTo(u, l)
  <2> SUFFICES ASSUME NEW a \in 1 .. l, NEW b \in 1 .. l, a < b
               PROVE  u[a].time <= u[b].time
    BY DEF SortedTo
  <2>1. n + a \in 1 .. k /\ n + b \in 1 .. k /\ n + a < n + b
    BY <1>4, <1>14
  <2>2. q[n + a].time <= q[n + b].time
    BY <1>2, <2>1 DEF SortedTo
  <2> QED
    BY <1>14, <2>2
<1>17. HorizonOf(v, l)
  BY <1>11, <1>12, <1>13, <1>14, <1>16 DEF HorizonOf
<1>18. Items(v) = {c \in Items(h) : c.time > cutoff}
  <2>1. Items(h) = {q[i] : i \in 1 .. k}
    BY <1>2, ItemsAre
  <2>2. Items(v) = {u[i] : i \in 1 .. l}
    BY <1>13, <1>17, ItemsAre
  <2>3. ASSUME NEW j \in 1 .. l PROVE u[j] \in Items(h) /\ u[j].time > cutoff
    <3>1. n + j \in 1 .. k /\ n + j > n /\ u[j] = q[n + j]
      BY <1>14
    <3>2. ~(n + j <= n)
      BY <1>4, <3>1
    <3>3. ~(q[n + j].time <= cutoff) /\ q[n + j].time \in Nat
      BY <1>4, <1>15, <3>1, <3>2
    <3>4. q[n + j].time > cutoff
      BY <3>3
    <3>5. q[n + j] \in Items(h)
      BY <2>1, <3>1
    <3> QED
      BY <3>1, <3>4, <3>5, Zenon
  <2>4. ASSUME NEW i \in 1 .. k, q[i].time > cutoff PROVE q[i] \in Items(v)
    <3>1. ~(i <= n)
      BY <1>4, <1>15, <2>4
    <3>2. PICK j : j = i - n
      OBVIOUS
    <3>5. i - n \in 1 .. l /\ n + (i - n) = i
      BY <1>2, <1>4, <1>5, <3>1
    <3>3. j \in 1 .. l /\ n + j = i
      BY <3>2, <3>5
    <3>4. u[j] = q[i]
      BY <1>14, <3>3
    <3> QED
      BY <2>2, <3>3, <3>4
  <2>5. Items(v) \subseteq {c \in Items(h) : c.time > cutoff}
    BY <2>2, <2>3
  <2>6. {c \in Items(h) : c.time > cutoff} \subseteq Items(v)
    BY <2>1, <2>4
  <2> QED
    BY <2>5, <2>6
<1> QED
  BY <1>17, <1>18

-----------------------------------------------------------------------------
(* Windows: two horizons up to a clock, of the flows taken.                *)

WindowsOf(w, T) ==
  /\ w = [clock |-> w.clock, horizons |-> w.horizons]
  /\ w.clock \in Nat \cup {None}
  /\ w.horizons = [i \in 1 .. 2 |-> w.horizons[i]]
  /\ \A i \in 1 .. 2 : \E k : HorizonOf(w.horizons[i], k)
  /\ \A i \in 1 .. 2 : Items(w.horizons[i]) = {c \in T : c.time > w.clock - Length[i]}
  /\ \A c \in T : c.time <= w.clock

LEMMA LengthTypes == Length[1] \in Nat \ {0} /\ Length[2] \in Nat \ {0} /\ \A i \in 1 .. 2 : Length[i] \in Nat \ {0}
<1>1. Length[1] \in Nat \ {0} /\ Length[2] \in Nat \ {0}
  BY ViewsAssumption DEF Length, ViewsAssumption
<1>2. \A i \in 1 .. 2 : i = 1 \/ i = 2
  OBVIOUS
<1> QED
  BY <1>1, <1>2

LEMMA NewIs == WindowsOf(NewWindows, {})
<1>1. NewWindows = [clock |-> None, horizons |-> [i \in 1 .. 2 |-> EmptyHorizon]]
  BY DEF NewWindows
<1>2. /\ NewWindows.clock = None
      /\ NewWindows.horizons = [i \in 1 .. 2 |-> EmptyHorizon]
      /\ \A i \in 1 .. 2 : NewWindows.horizons[i] = EmptyHorizon
  BY <1>1
<1>3. Items(EmptyHorizon) = {}
  BY EmptyIs, ItemsAre
<1> QED
  BY <1>1, <1>2, <1>3, EmptyIs DEF WindowsOf

(* DeviceWindows.advanceTo *)
LEMMA Advanced ==
  ASSUME NEW w, NEW T \in SUBSET Flow, WindowsOf(w, T), NEW clock \in Int, NEW v, v = AdvanceTo(w, clock)
  PROVE  /\ WindowsOf(v, T) /\ v.clock = Maximum(w.clock, clock)
         /\ \A i \in 1 .. 2 : Items(v.horizons[i]) \subseteq Items(w.horizons[i])
         /\ clock <= w.clock => v = w
<1>1. CASE clock <= w.clock
  <2>1. v = w
    BY <1>1 DEF AdvanceTo
  <2>2. Maximum(w.clock, clock) = w.clock
    BY <1>1 DEF Maximum, WindowsOf, None
  <2> QED
    BY <2>1, <2>2
<1>2. CASE ~(clock <= w.clock)
  <2>1. w.clock \in Int /\ w.clock < clock /\ clock \in Nat
    BY <1>2 DEF WindowsOf, None
  <2>2. v = [clock |-> clock,
             horizons |-> [i \in 1 .. 2 |-> HorizonExpire(w.horizons[i], clock - Length[i])]]
    BY <1>2 DEF AdvanceTo
  <2>3. /\ v.clock = clock
        /\ v.horizons = [i \in 1 .. 2 |-> HorizonExpire(w.horizons[i], clock - Length[i])]
    BY <2>2
  <2>4. ASSUME NEW i \in 1 .. 2
        PROVE  /\ \E l : HorizonOf(v.horizons[i], l)
               /\ Items(v.horizons[i]) = {c \in Items(w.horizons[i]) : c.time > clock - Length[i]}
    <3>1. v.horizons[i] = HorizonExpire(w.horizons[i], clock - Length[i])
      BY <2>3
    <3>2. PICK k : HorizonOf(w.horizons[i], k)
      BY DEF WindowsOf
    <3>3. clock - Length[i] \in Int
      BY LengthTypes
    <3>4. PICK cutoff \in Int : cutoff = clock - Length[i]
      BY <3>3
    <3>5. PICK h : h = w.horizons[i]
      OBVIOUS
    <3>6. /\ \E l : HorizonOf(HorizonExpire(h, cutoff), l)
          /\ Items(HorizonExpire(h, cutoff)) = {c \in Items(h) : c.time > cutoff}
      BY <3>2, <3>4, <3>5, HorizonExpired
    <3> QED
      BY <3>1, <3>4, <3>5, <3>6, Zenon
  <2>5. ASSUME NEW i \in 1 .. 2
        PROVE  Items(v.horizons[i]) = {c \in T : c.time > v.clock - Length[i]}
    <3>1. Items(w.horizons[i]) = {c \in T : c.time > w.clock - Length[i]}
      BY DEF WindowsOf
    <3>2. \A c \in T : c.time > clock - Length[i] => c.time > w.clock - Length[i]
      <4>1. \A c \in T : c.time \in Nat
        BY FlowTypes
      <4> QED
        BY <2>1, <4>1, LengthTypes
    <3> QED
      BY <2>3, <2>4, <3>1, <3>2
  <2>6. \A c \in T : c.time <= v.clock
    <3>1. \A c \in T : c.time \in Nat /\ c.time <= w.clock
      BY FlowTypes DEF WindowsOf
    <3> QED
      BY <2>1, <2>3, <3>1
  <2>7. v = [clock |-> v.clock, horizons |-> v.horizons]
    BY <2>2, <2>3
  <2>8. v.horizons = [i \in 1 .. 2 |-> v.horizons[i]]
    BY <2>3
  <2>9. WindowsOf(v, T)
    BY <2>1, <2>3, <2>4, <2>5, <2>6, <2>7, <2>8 DEF WindowsOf
  <2>10. Maximum(w.clock, clock) = clock
    BY <2>1 DEF Maximum
  <2>11. \A i \in 1 .. 2 : Items(v.horizons[i]) \subseteq Items(w.horizons[i])
    BY <2>4
  <2> QED
    BY <1>2, <2>3, <2>9, <2>10, <2>11
<1> QED
  BY <1>1, <1>2

(* DeviceWindows.add *)
LEMMA WindowsAdded ==
  ASSUME NEW w, NEW T \in SUBSET Flow, WindowsOf(w, T), NEW c \in Flow, NEW x, x = WindowsAdd(w, c)
  PROVE  /\ WindowsOf(x, T \cup {c}) /\ x.clock = Maximum(w.clock, c.time)
<1>1. c.time \in Nat /\ w.clock \in Int
  BY FlowTypes DEF WindowsOf, None
<1>2. PICK m \in Nat : m = Maximum(w.clock, c.time)
  BY <1>1 DEF Maximum, WindowsOf, None
<1>3. w.clock <= m /\ c.time <= m /\ m \in Int /\ (m = w.clock \/ m = c.time)
  BY <1>1, <1>2 DEF Maximum
<1>4. PICK v : v = AdvanceTo(w, m)
  OBVIOUS
<1>5. WindowsOf(v, T) /\ v.clock = Maximum(w.clock, m)
  BY <1>3, <1>4, Advanced
<1>6. v.clock = m
  BY <1>1, <1>3, <1>5 DEF Maximum
<1>7. x = [v EXCEPT !.horizons =
            [i \in 1 .. 2 |-> IF c.time > v.clock - Length[i]
                              THEN HorizonAdd(v.horizons[i], c) ELSE v.horizons[i]]]
  BY <1>2, <1>4 DEF WindowsAdd
<1>8. PICK h : v = [clock |-> m, horizons |-> h] /\ v.horizons = h
  BY <1>5, <1>6 DEF WindowsOf
<1>9. x = [clock |-> m, horizons |-> [i \in 1 .. 2 |-> IF c.time > m - Length[i]
                                                       THEN HorizonAdd(h[i], c) ELSE h[i]]]
  BY <1>6, <1>7, <1>8
<1>10. /\ x.clock = m
       /\ x.horizons = [i \in 1 .. 2 |-> IF c.time > m - Length[i] THEN HorizonAdd(h[i], c) ELSE h[i]]
  BY <1>9
<1>11. ASSUME NEW i \in 1 .. 2
       PROVE  /\ \E k : HorizonOf(x.horizons[i], k)
              /\ Items(x.horizons[i]) = {d \in T \cup {c} : d.time > m - Length[i]}
  <2>1. PICK k : HorizonOf(h[i], k)
    BY <1>5, <1>8 DEF WindowsOf
  <2>2. Items(h[i]) = {d \in T : d.time > m - Length[i]}
    BY <1>5, <1>6, <1>8 DEF WindowsOf
  <2>3. CASE c.time > m - Length[i]
    <3>1. x.horizons[i] = HorizonAdd(h[i], c)
      BY <1>10, <2>3
    <3>2. PICK g : g = h[i]
      OBVIOUS
    <3>3. HorizonOf(HorizonAdd(g, c), k + 1) /\ Items(HorizonAdd(g, c)) = Items(g) \cup {c}
      BY <2>1, <3>2, HorizonAdded
    <3> QED
      BY <2>2, <2>3, <3>1, <3>2, <3>3
  <2>4. CASE ~(c.time > m - Length[i])
    <3>1. x.horizons[i] = h[i]
      BY <1>10, <2>4
    <3> QED
      BY <2>1, <2>2, <2>4, <3>1
  <2> QED
    BY <2>3, <2>4
<1>12. \A d \in T \cup {c} : d.time <= m
  BY <1>3, <1>5, <1>6 DEF WindowsOf
<1>13. x = [clock |-> x.clock, horizons |-> x.horizons]
  BY <1>9, <1>10
<1>14. x.horizons = [i \in 1 .. 2 |-> x.horizons[i]]
  BY <1>10
<1>15. WindowsOf(x, T \cup {c})
  BY <1>2, <1>10, <1>11, <1>12, <1>13, <1>14 DEF WindowsOf
<1> QED
  BY <1>2, <1>10, <1>15

LEMMA IsEmptyIs ==
  ASSUME NEW w, NEW T, WindowsOf(w, T)
  PROVE  /\ IsEmpty(w) <=> \A i \in 1 .. 2 : Items(w.horizons[i]) = {}
         /\ IsEmpty(w) => Counts(w) = NoCounts
<1>1. ASSUME NEW i \in 1 .. 2 PROVE w.horizons[i].contributions = <<>> <=> Items(w.horizons[i]) = {}
  <2>1. PICK k : HorizonOf(w.horizons[i], k)
    BY DEF WindowsOf
  <2> QED
    BY <2>1, ItemsAre
<1>2. ASSUME NEW i \in 1 .. 2, w.horizons[i].contributions = <<>>
      PROVE  [flows |-> Len(w.horizons[i].contributions),
              targets |-> Cardinality(DOMAIN w.horizons[i].targets),
              failed |-> w.horizons[i].failedTargets] = [flows |-> 0, targets |-> 0, failed |-> 0]
  <2>1. PICK k : HorizonOf(w.horizons[i], k)
    BY DEF WindowsOf
  <2>2. EmptyHorizon.contributions = <<>>
    BY DEF EmptyHorizon
  <2>3. w.horizons[i] = EmptyHorizon
    BY <1>2, <2>1, <2>2, EmptyIs, HorizonUnique
  <2>4. Len(<<>>) = 0 /\ Cardinality({}) = 0 /\ DOMAIN [t \in {} |-> 0] = {}
    BY FS_EmptySet
  <2> QED
    BY <2>3, <2>4 DEF EmptyHorizon
<1>3. IsEmpty(w) => Counts(w) = NoCounts
  BY <1>2 DEF IsEmpty, Counts, NoCounts
<1> QED
  BY <1>1, <1>3 DEF IsEmpty

(* No flow in the windows is newer than the latest event time. *)
LEMMA LatestBounds ==
  ASSUME NEW w, NEW T, WindowsOf(w, T)
  PROVE  /\ LatestEventTime(w) \in Int
         /\ \A i \in 1 .. 2 : \A c \in Items(w.horizons[i]) : c.time <= LatestEventTime(w)
<1>1. CASE IsEmpty(w)
  <2>1. LatestEventTime(w) \in Int
    BY <1>1 DEF LatestEventTime, WindowsOf, None
  <2> QED
    BY <1>1, <2>1, IsEmptyIs
<1>2. CASE ~IsEmpty(w)
  <2> DEFINE last(i) == w.horizons[i].contributions[Len(w.horizons[i].contributions)].time
             J == {j \in 1 .. 2 : w.horizons[j].contributions # <<>>}
             S == {last(i) : i \in J}
  <2>1. LatestEventTime(w) = Max(S)
    BY <1>2 DEF LatestEventTime
  <2>2. ASSUME NEW i \in J
        PROVE  /\ last(i) \in 0 .. MaxNow
               /\ \A c \in Items(w.horizons[i]) : c.time <= last(i)
    <3>1. PICK k : HorizonOf(w.horizons[i], k)
      BY DEF WindowsOf
    <3>2. PICK q : q = w.horizons[i].contributions
      OBVIOUS
    <3>3. /\ Items(w.horizons[i]) = {q[j] : j \in 1 .. k} /\ Len(q) = k /\ k # 0
      BY <3>1, <3>2, ItemsAre
    <3>4. k \in Nat /\ q \in [1 .. k -> Flow] /\ SortedTo(q, k)
      BY <3>1, <3>2 DEF HorizonOf
    <3>5. last(i) = q[k].time
      BY <3>2, <3>3
    <3>6. q[k].time \in 0 .. MaxNow
      <4>1. k \in 1 .. k
        BY <3>3, <3>4
      <4>2. q[k] \in Flow
        BY <3>4, <4>1
      <4> QED
        BY <4>2 DEF Flow
    <3>7. ASSUME NEW j \in 1 .. k PROVE q[j].time <= q[k].time
      <4>1. j = k \/ j < k
        BY <3>4
      <4>2. q[j].time \in Nat
        BY <3>4, FlowTypes
      <4>3. j < k => q[j].time <= q[k].time
        BY <3>3, <3>4 DEF SortedTo
      <4> QED
        BY <4>1, <4>2, <4>3
    <3> HIDE DEF last
    <3> QED
      BY <3>3, <3>5, <3>6, <3>7
  <2>3. J # {} /\ J \subseteq 1 .. 2
    BY <1>2 DEF IsEmpty
  <2>4. S \in SUBSET (0 .. MaxNow) /\ S # {} /\ MaxNow \in Nat
    BY <2>2, <2>3, ConstantTypes
  <2> HIDE DEF S
  <2>5. Max(S) \in S /\ \A y \in S : y <= Max(S)
    BY <2>4, GreatestPicked
  <2>6. LatestEventTime(w) \in 0 .. MaxNow
    BY <2>1, <2>4, <2>5
  <2>7. ASSUME NEW i \in 1 .. 2, NEW c \in Items(w.horizons[i])
        PROVE  c.time <= LatestEventTime(w)
    <3>1. PICK k : HorizonOf(w.horizons[i], k)
      BY DEF WindowsOf
    <3>2. i \in J
      BY <3>1, ItemsAre
    <3>3. c \in Flow
      BY <3>1, ItemsAre
    <3>4. c.time \in Nat
      BY <3>3, FlowTypes
    <3>5. c.time <= last(i) /\ last(i) \in 0 .. MaxNow
      BY <2>2, <3>2
    <3>6. last(i) \in S
      BY <3>2 DEF S
    <3>7. last(i) <= LatestEventTime(w)
      BY <2>1, <2>5, <3>6
    <3> HIDE DEF last, J
    <3> QED
      BY <2>6, <3>4, <3>5, <3>7
  <2> QED
    BY <2>6, <2>7
<1> QED
  BY <1>1, <1>2

-----------------------------------------------------------------------------
(* The inductive invariant.                                                *)

(* What the dedupe operator, the queue and the clocks hold. *)
JobTyped ==
  /\ now \in 0 .. MaxNow
  /\ sent \in SUBSET Flow
  /\ resent \in 0 .. MaxResent
  /\ deviceClock \in 0 .. MaxNow \cup {None}
  /\ DOMAIN seen \subseteq FlowId /\ \A i \in DOMAIN seen : seen[i] \in 0 .. now
  /\ queue \in Seq(sent) /\ Len(queue) <= MaxQueue
  /\ taken \in SUBSET sent
  /\ lastFlowWall \in 0 .. now
  /\ copies \in Nat

(* The windows are those of the flows taken. *)
WindowsKnown == windows # Null => WindowsOf(windows, taken) /\ windows.clock \in Nat

(* While there are windows a timer is set, early enough after the last     *)
(* flow for them to be dropped in time.                                    *)
TimerKnown ==
  /\ pendingTimer \in Nat \cup {None}
  /\ pendingTimer = None <=> windows = Null
  /\ lastEventWall \in 0 .. lastFlowWall \cup {None}
  /\ windows # Null =>
       /\ lastEventWall # None
       /\ now <= pendingTimer + TimerDelay
       /\ pendingTimer <= lastFlowWall + LongHorizon + Maximum(FirstTick, Tick)

(* The rule knows the counts, and the comparison starts from them. *)
ViewsKnown ==
  /\ windows = Null => emitted = NoCounts /\ lastViews = NoViews
  /\ windows # Null => emitted = Counts(windows) /\ lastViews = Counts(windows)

IInv == JobTyped /\ WindowsKnown /\ TimerKnown /\ ViewsKnown

LEMMA InitIInv == Init => IInv
<1> SUFFICES ASSUME Init PROVE IInv
  OBVIOUS
<1>1. windows = Null /\ pendingTimer = None /\ lastEventWall = None /\ lastViews = NoViews
      /\ emitted = NoCounts
  BY DEF Init
<1>2. JobTyped
  <2>1. now = 0 /\ sent = {} /\ resent = 0 /\ deviceClock = None /\ taken = {}
        /\ lastFlowWall = 0 /\ copies = 0
    BY DEF Init
  <2>2. queue = <<>> /\ queue \in Seq(sent) /\ Len(queue) <= MaxQueue
    <3>1. queue = <<>>
      BY DEF Init
    <3>2. <<>> \in Seq(sent) /\ Len(<<>>) = 0 /\ MaxQueue \in Nat
      BY EmptySeq, ViewsAssumption DEF ViewsAssumption
    <3> QED
      BY <3>1, <3>2
  <2>3. seen = [i \in {} |-> 0]
    BY DEF Init
  <2>4. MaxNow \in Nat /\ MaxResent \in Nat
    BY ViewsAssumption DEF ViewsAssumption
  <2> QED
    BY <2>1, <2>2, <2>3, <2>4 DEF JobTyped
<1> QED
  BY <1>1, <1>2 DEF IInv, WindowsKnown, TimerKnown, ViewsKnown

(* The windows side of the invariant depends on now only through the timer. *)
LEMMA ReceiveIInv ==
  ASSUME IInv, NEW c \in Flow, Receive(c)
  PROVE  IInv'
<1>1. JobTyped
  BY DEF IInv
<1>2. /\ UNCHANGED <<now, windows, lastEventWall, pendingTimer, lastViews, emitted, taken, lastFlowWall,
                     copies>>
      /\ sent' = sent \cup {c} /\ Len(queue) < MaxQueue
  BY DEF Receive, viewVars
<1>3. WindowsKnown' /\ TimerKnown' /\ ViewsKnown'
  BY <1>2 DEF IInv, WindowsKnown, TimerKnown, ViewsKnown
<1>4. resent' \in 0 .. MaxResent
  <2>1. resent' = resent \/ (resent' = resent + 1 /\ resent < MaxResent)
    BY DEF Receive
  <2>2. MaxResent \in Nat
    BY ViewsAssumption DEF ViewsAssumption
  <2> QED
    BY <1>1, <2>1, <2>2 DEF JobTyped
<1>5. sent' \in SUBSET Flow /\ taken' \in SUBSET sent'
  BY <1>1, <1>2 DEF JobTyped
<1>6. queue \in Seq(sent')
  <2>1. queue \in Seq(sent) /\ sent \subseteq sent'
    BY <1>1, <1>2 DEF JobTyped
  <2> QED
    BY <2>1, SeqMonotonic
<1>7. queue' = queue \/ queue' = Append(queue, c)
  BY DEF Receive
<1>8. queue' \in Seq(sent') /\ Len(queue') <= MaxQueue
  <2>1. CASE queue' = queue
    BY <1>1, <1>6, <2>1 DEF JobTyped
  <2>2. CASE queue' = Append(queue, c)
    <3>1. c \in sent'
      BY <1>2
    <3>2. Append(queue, c) \in Seq(sent') /\ Len(Append(queue, c)) = Len(queue) + 1
      BY <1>6, <3>1, AppendProperties
    <3>3. MaxQueue \in Nat /\ Len(queue) \in Nat
      BY <1>6, LenProperties, ViewsAssumption DEF ViewsAssumption
    <3> QED
      BY <1>2, <2>2, <3>2, <3>3
  <2> QED
    BY <1>7, <2>1, <2>2
<1>9. deviceClock' \in 0 .. MaxNow \cup {None}
  <2>1. deviceClock' = deviceClock \/ deviceClock' = Maximum(deviceClock, c.time)
    BY DEF Receive, dedupeVars
  <2>2. c.time \in 0 .. MaxNow
    BY DEF Flow
  <2> QED
    BY <1>1, <2>1, <2>2 DEF JobTyped, Maximum
<1>10. DOMAIN seen' \subseteq FlowId /\ \A i \in DOMAIN seen' : seen'[i] \in 0 .. now'
  <2>1. seen' = seen \/ Remember(c.id)
    BY DEF Receive, dedupeVars
  <2>2. c.id \in FlowId
    BY DEF Flow
  <2>3. now \in 0 .. now
    BY <1>1 DEF JobTyped
  <2>4. CASE seen' = seen
    BY <1>1, <1>2, <2>4 DEF JobTyped
  <2>5. CASE Remember(c.id)
    <3>1. seen' = [i \in DOMAIN seen \cup {c.id} |-> IF i = c.id THEN now ELSE seen[i]]
      BY <2>5 DEF Remember
    <3>2. DOMAIN seen \subseteq FlowId /\ \A i \in DOMAIN seen : seen[i] \in 0 .. now
      BY <1>1 DEF JobTyped
    <3>3. DOMAIN seen' = DOMAIN seen \cup {c.id}
      BY <3>1
    <3>4. \A i \in DOMAIN seen' : seen'[i] \in 0 .. now
      BY <2>3, <3>1, <3>2
    <3> QED
      BY <1>2, <2>2, <3>2, <3>3, <3>4
  <2> QED
    BY <2>1, <2>4, <2>5
<1>11. JobTyped'
  BY <1>1, <1>2, <1>4, <1>5, <1>8, <1>9, <1>10 DEF JobTyped
<1> QED
  BY <1>3, <1>11 DEF IInv

LEMMA PassIInv ==
  ASSUME IInv, Pass
  PROVE  IInv'
<1>1. JobTyped /\ TimerKnown
  BY DEF IInv
<1>2. /\ UNCHANGED <<sent, resent, deviceClock, seen, queue, windows, lastEventWall, pendingTimer,
                     lastViews, emitted, taken, lastFlowWall, copies>>
      /\ now' = now + 1 /\ now < MaxNow /\ (pendingTimer = None \/ now < pendingTimer + TimerDelay)
  BY DEF Pass, viewVars, dedupeVars
<1>3. WindowsKnown' /\ ViewsKnown'
  BY <1>2 DEF IInv, WindowsKnown, ViewsKnown
<1>4. now \in Nat /\ MaxNow \in Nat /\ TimerDelay \in Nat
  BY <1>1, ConstantTypes DEF JobTyped
<1>5. windows' # Null => now' <= pendingTimer' + TimerDelay
  BY <1>1, <1>2, <1>4 DEF TimerKnown
<1>6. TimerKnown'
  BY <1>1, <1>2, <1>5 DEF TimerKnown
<1>7. now' \in 0 .. MaxNow /\ \A x : x \in 0 .. now => x \in 0 .. now'
  BY <1>2, <1>4
<1>8. JobTyped'
  <2>1. DOMAIN seen' \subseteq FlowId /\ \A i \in DOMAIN seen' : seen'[i] \in 0 .. now'
    BY <1>1, <1>2, <1>7 DEF JobTyped
  <2>2. lastFlowWall' \in 0 .. now'
    BY <1>1, <1>2, <1>7 DEF JobTyped
  <2> QED
    BY <1>1, <1>2, <1>7, <2>1, <2>2 DEF JobTyped
<1> QED
  BY <1>3, <1>6, <1>8 DEF IInv

LEMMA ProcessElementIInv ==
  ASSUME IInv, ProcessElement
  PROVE  IInv'
<1>1. JobTyped /\ WindowsKnown /\ TimerKnown /\ ViewsKnown
  BY DEF IInv
<1>2. PICK c : c = Head(queue)
  OBVIOUS
<1>3. PICK w : w = IF windows = Null THEN NewWindows ELSE windows
  OBVIOUS
<1>4. PICK v : v = WindowsAdd(w, c)
  OBVIOUS
<1>5. PICK T : T = IF windows = Null THEN {} ELSE taken
  OBVIOUS
<1>6. /\ queue # <<>> /\ queue' = Tail(queue) /\ windows' = v
      /\ lastEventWall' = (IF v.clock > w.clock THEN now ELSE lastEventWall)
      /\ EmitChanged(v) /\ lastViews' = Counts(v) /\ pendingTimer' = now + FirstTick
      /\ taken' = T \cup {c} /\ lastFlowWall' = now
      /\ UNCHANGED <<now, sent, resent, deviceClock, seen>>
  BY <1>2, <1>3, <1>4, <1>5 DEF ProcessElement, Schedule, dedupeVars
<1>7. /\ c \in sent /\ Tail(queue) \in Seq(sent) /\ Len(Tail(queue)) <= MaxQueue
  <2>1. queue \in Seq(sent) /\ Len(queue) <= MaxQueue
    BY <1>1 DEF JobTyped
  <2>2. Head(queue) \in sent /\ Tail(queue) \in Seq(sent) /\ Len(Tail(queue)) = Len(queue) - 1
    BY <1>6, <2>1, HeadTailProperties
  <2>3. Len(queue) \in Nat /\ MaxQueue \in Nat
    BY <2>1, LenProperties, ViewsAssumption DEF ViewsAssumption
  <2> QED
    BY <1>2, <2>1, <2>2, <2>3
<1>8. c \in Flow /\ T \in SUBSET Flow /\ T \subseteq sent /\ now \in Nat
  BY <1>1, <1>5, <1>7, ConstantTypes DEF JobTyped
<1>9. WindowsOf(w, T)
  BY <1>1, <1>3, <1>5, NewIs DEF WindowsKnown
<1>10. WindowsOf(v, T \cup {c}) /\ v.clock = Maximum(w.clock, c.time)
  BY <1>4, <1>8, <1>9, WindowsAdded
<1>11. w.clock \in Nat \cup {None} /\ c.time \in Nat /\ v.clock \in Nat
  <2>1. w.clock \in Nat \cup {None}
    BY <1>9 DEF WindowsOf
  <2>2. c.time \in Nat
    BY <1>8, FlowTypes
  <2> QED
    BY <1>10, <2>1, <2>2 DEF Maximum, None
<1>12. v # Null
  <2>1. Null.clock = None /\ None = -1
    BY DEF Null, None
  <2>2. v.clock # None
    BY <1>11, <2>1
  <2> QED
    BY <2>1, <2>2
<1>13. WindowsKnown'
  BY <1>6, <1>10, <1>11 DEF WindowsKnown
<1>14. JobTyped'
  <2>1. taken' \in SUBSET sent' /\ lastFlowWall' \in 0 .. now'
    BY <1>6, <1>7, <1>8
  <2>2. queue' \in Seq(sent') /\ Len(queue') <= MaxQueue
    BY <1>6, <1>7
  <2>3. copies' \in Nat
    <3>1. copies' = copies + 1 \/ copies' = 0
      BY DEF ProcessElement
    <3> QED
      BY <1>1, <3>1 DEF JobTyped
  <2> QED
    BY <1>1, <1>6, <2>1, <2>2, <2>3 DEF JobTyped
<1>15. TimerKnown'
  <2>1. pendingTimer' \in Nat /\ pendingTimer' # None
    BY <1>6, <1>8, ConstantTypes DEF None
  <2>2. lastEventWall' \in 0 .. now /\ lastEventWall' # None
    <3>1. CASE v.clock > w.clock
      BY <1>6, <1>8, <3>1 DEF None
    <3>2. CASE ~(v.clock > w.clock)
      <4>1. windows # Null
        <5>1. SUFFICES ASSUME windows = Null PROVE FALSE
          OBVIOUS
        <5>2. w.clock = None
          BY <1>3, <5>1 DEF NewWindows
        <5> QED
          BY <1>11, <3>2, <5>2 DEF None
      <4>2. lastEventWall \in 0 .. lastFlowWall /\ lastEventWall # None /\ lastFlowWall \in 0 .. now
        BY <1>1, <4>1 DEF TimerKnown, JobTyped
      <4> QED
        BY <1>6, <1>8, <3>2, <4>2
    <3> QED
      BY <3>1, <3>2
  <2>3. /\ now <= now + FirstTick + TimerDelay
        /\ now + FirstTick <= now + LongHorizon + Maximum(FirstTick, Tick)
    BY <1>8, ConstantTypes DEF Maximum
  <2> QED
    BY <1>6, <1>12, <2>1, <2>2, <2>3 DEF TimerKnown
<1>16. ViewsKnown'
  <2>1. emitted' = Counts(v)
    <3>1. CASE ~CountsChanged(lastViews, Counts(v)) /\ UNCHANGED emitted
      <4>1. lastViews # NoViews /\ lastViews = Counts(v)
        BY <3>1 DEF CountsChanged
      <4>2. emitted = lastViews
        BY <1>1, <4>1 DEF ViewsKnown
      <4> QED
        BY <3>1, <4>1, <4>2
    <3> QED
      BY <1>6, <3>1 DEF EmitChanged
  <2> QED
    BY <1>6, <1>12, <2>1 DEF ViewsKnown, Counts
<1> QED
  BY <1>13, <1>14, <1>15, <1>16 DEF IInv

LEMMA OnTimerIInv ==
  ASSUME IInv, OnTimer
  PROVE  IInv'
<1>1. JobTyped /\ WindowsKnown /\ TimerKnown /\ ViewsKnown
  BY DEF IInv
<1>2. PICK timestamp : timestamp = pendingTimer
  OBVIOUS
<1>3. PICK at : at = SilentClock(windows, timestamp)
  OBVIOUS
<1>4. PICK w : w = AdvanceTo(windows, at)
  OBVIOUS
<1>5. /\ pendingTimer # None /\ pendingTimer <= now /\ windows # Null
      /\ UNCHANGED <<now, sent, resent, deviceClock, seen, queue, lastFlowWall>>
  BY DEF OnTimer, dedupeVars
<1>6. IF w.horizons # windows.horizons THEN EmitChanged(w) ELSE UNCHANGED emitted
  BY <1>2, <1>3, <1>4 DEF OnTimer
<1>7. \/ /\ IsEmpty(w) /\ windows' = Null /\ lastEventWall' = None /\ lastViews' = NoViews
         /\ pendingTimer' = None /\ taken' = {}
      \/ /\ ~IsEmpty(w) /\ windows' = w
         /\ lastViews' = (IF w.horizons # windows.horizons THEN Counts(w) ELSE lastViews)
         /\ UNCHANGED <<lastEventWall, taken>> /\ pendingTimer' = timestamp + Tick
  BY <1>2, <1>3, <1>4 DEF OnTimer, Schedule
<1>8. /\ WindowsOf(windows, taken) /\ windows.clock \in Nat /\ taken \in SUBSET Flow
      /\ timestamp \in Nat /\ now \in Nat /\ lastEventWall \in Nat
      /\ lastFlowWall \in Nat /\ lastEventWall <= lastFlowWall
  <2>1. WindowsOf(windows, taken) /\ windows.clock \in Nat /\ taken \in SUBSET Flow
    BY <1>1, <1>5 DEF WindowsKnown, JobTyped
  <2>2. timestamp \in Nat
    BY <1>1, <1>2, <1>5 DEF TimerKnown
  <2>3. now \in Nat /\ lastFlowWall \in Nat
    BY <1>1, ConstantTypes DEF JobTyped
  <2>4. lastEventWall \in 0 .. lastFlowWall
    BY <1>1, <1>5 DEF TimerKnown
  <2> QED
    BY <2>1, <2>2, <2>3, <2>4
<1>9. PICK L \in Int : L = LatestEventTime(windows)
  BY <1>8, LatestBounds
<1>10. at = L + Maximum(0, timestamp - lastEventWall)
  <2>1. lastEventWall # None
    BY <1>8 DEF None
  <2> QED
    BY <1>3, <1>9, <2>1 DEF SilentClock
<1>11. at \in Int /\ at >= L + timestamp - lastEventWall
  BY <1>8, <1>9, <1>10 DEF Maximum
<1>12. /\ WindowsOf(w, taken) /\ w.clock = Maximum(windows.clock, at)
       /\ \A i \in 1 .. 2 : Items(w.horizons[i]) \subseteq Items(windows.horizons[i])
  BY <1>4, <1>8, <1>11, Advanced
<1>13. w.clock \in Nat /\ w.clock >= at
  BY <1>8, <1>11, <1>12 DEF Maximum
<1>14. w # Null
  <2>1. Null.clock = None /\ None = -1
    BY DEF Null, None
  <2>2. w.clock # None
    BY <1>13, <2>1
  <2> QED
    BY <2>1, <2>2
<1>15. WindowsKnown'
  BY <1>7, <1>12, <1>13 DEF WindowsKnown
<1>16. JobTyped'
  <2>1. taken' \in SUBSET sent
    BY <1>1, <1>7 DEF JobTyped
  <2>2. copies' \in Nat
    <3>1. copies' = copies \/ copies' = 0
      BY DEF OnTimer
    <3> QED
      BY <1>1, <3>1 DEF JobTyped
  <2> QED
    BY <1>1, <1>5, <2>1, <2>2 DEF JobTyped
<1>17. ~IsEmpty(w) => timestamp < lastFlowWall + LongHorizon
  <2> SUFFICES ASSUME ~IsEmpty(w) PROVE timestamp < lastFlowWall + LongHorizon
    OBVIOUS
  <2>1. PICK i \in 1 .. 2 : Items(w.horizons[i]) # {}
    BY <1>12, IsEmptyIs
  <2>2. PICK c \in Items(w.horizons[i]) : TRUE
    BY <2>1
  <2>3. c \in taken /\ c.time > w.clock - Length[i]
    BY <1>12, <2>1, <2>2 DEF WindowsOf
  <2>4. c.time \in Nat
    <3>1. c \in Flow
      BY <1>8, <2>3
    <3> QED
      BY <3>1, FlowTypes
  <2>5. c.time <= L
    <3>1. c \in Items(windows.horizons[i])
      BY <1>12, <2>1, <2>2
    <3> QED
      BY <1>8, <1>9, <2>1, <3>1, LatestBounds
  <2>6. Length[i] \in Nat /\ Length[i] <= LongHorizon
    <3>1. i = 1 \/ i = 2
      BY <2>1
    <3> QED
      BY <3>1, ConstantTypes
  <2>7. LongHorizon \in Nat
    BY ConstantTypes
  <2>8. PICK x \in Nat, l \in Nat : x = c.time /\ l = Length[i]
    BY <2>4, <2>6
  <2>9. x > w.clock - l /\ x <= L /\ l <= LongHorizon
    BY <2>3, <2>5, <2>6, <2>8
  <2>10. x > L + timestamp - lastEventWall - l
    BY <1>8, <1>11, <1>13, <2>8, <2>9
  <2> QED
    BY <1>8, <2>7, <2>8, <2>9, <2>10
<1>18. TimerKnown'
  <2>1. CASE IsEmpty(w)
    BY <1>1, <1>7, <2>1 DEF TimerKnown
  <2>2. CASE ~IsEmpty(w)
    <3>1. windows' = w /\ lastEventWall' = lastEventWall /\ pendingTimer' = timestamp + Tick
      BY <1>7, <2>2
    <3>2. /\ timestamp + Tick \in Nat /\ timestamp + Tick # None
          /\ now <= timestamp + Tick + TimerDelay
          /\ timestamp + Tick <= lastFlowWall + LongHorizon + Maximum(FirstTick, Tick)
      <4>1. now <= timestamp + TimerDelay
        BY <1>1, <1>2, <1>5 DEF TimerKnown
      <4>2. timestamp < lastFlowWall + LongHorizon
        BY <1>17, <2>2
      <4>3. Maximum(FirstTick, Tick) \in Nat /\ Tick <= Maximum(FirstTick, Tick)
        BY ConstantTypes DEF Maximum
      <4> QED
        BY <1>8, <4>1, <4>2, <4>3, ConstantTypes DEF None
    <3>3. lastEventWall \in 0 .. lastFlowWall /\ lastEventWall # None
      BY <1>8 DEF None
    <3> QED
      BY <1>5, <1>14, <3>1, <3>2, <3>3 DEF TimerKnown
  <2> QED
    BY <2>1, <2>2
<1>19. emitted' = Counts(w)
  <2>1. emitted = Counts(windows) /\ lastViews = Counts(windows)
    BY <1>1, <1>5 DEF ViewsKnown
  <2>2. CASE w.horizons # windows.horizons
    <3>1. EmitChanged(w)
      BY <1>6, <2>2
    <3>2. CASE ~CountsChanged(lastViews, Counts(w)) /\ UNCHANGED emitted
      BY <2>1, <3>2 DEF CountsChanged
    <3> QED
      BY <3>1, <3>2 DEF EmitChanged
  <2>3. CASE w.horizons = windows.horizons
    <3>1. Counts(w) = Counts(windows)
      BY <2>3 DEF Counts
    <3> QED
      BY <1>6, <2>1, <2>3, <3>1
  <2> QED
    BY <2>2, <2>3
<1>20. ViewsKnown'
  <2>1. CASE IsEmpty(w)
    <3>1. Counts(w) = NoCounts
      BY <1>12, <2>1, IsEmptyIs
    <3> QED
      BY <1>7, <1>19, <2>1, <3>1 DEF ViewsKnown
  <2>2. CASE ~IsEmpty(w)
    <3>1. w.horizons = windows.horizons => Counts(w) = Counts(windows)
      BY DEF Counts
    <3>2. lastViews' = Counts(w) /\ windows' = w
      BY <1>1, <1>5, <1>7, <2>2, <3>1 DEF ViewsKnown
    <3>3. Counts(windows)' = Counts(w)
      BY <3>2 DEF Counts
    <3> QED
      BY <1>14, <1>19, <3>2, <3>3 DEF ViewsKnown
  <2> QED
    BY <2>1, <2>2
<1> QED
  BY <1>15, <1>16, <1>18, <1>20 DEF IInv

-----------------------------------------------------------------------------
(* Restoring adds the contributions again in their order.                  *)

PrefixOf(x, q, n) == HorizonOf(x, n) /\ \A i \in 1 .. n : x.contributions[i] = q[i]

LEMMA PrefixUnique ==
  ASSUME NEW n, NEW q, NEW x, NEW y, PrefixOf(x, q, n), PrefixOf(y, q, n)
  PROVE  x = y
<1>1. x.contributions \in [1 .. n -> Flow] /\ y.contributions \in [1 .. n -> Flow]
  BY DEF PrefixOf, HorizonOf
<1>2. \A i \in 1 .. n : x.contributions[i] = y.contributions[i]
  BY DEF PrefixOf
<1>3. x.contributions = y.contributions
  <2>1. PICK a, b : a = x.contributions /\ b = y.contributions
    OBVIOUS
  <2>2. /\ a \in [1 .. n -> Flow] /\ b \in [1 .. n -> Flow]
        /\ \A i \in 1 .. n : a[i] = b[i]
    BY <1>1, <1>2, <2>1
  <2>3. a = [i \in 1 .. n |-> a[i]] /\ b = [i \in 1 .. n |-> b[i]]
    BY <2>2
  <2>4. [i \in 1 .. n |-> a[i]] = [i \in 1 .. n |-> b[i]]
    BY <2>2
  <2>5. a = b
    BY <2>3, <2>4, Zenon
  <2> QED
    BY <2>1, <2>5
<1> QED
  BY <1>3, HorizonUnique DEF PrefixOf

(* In time order, each contribution goes to the end. *)
LEMMA PrefixAdded ==
  ASSUME NEW k \in Nat, NEW q \in [1 .. k -> Flow], SortedTo(q, k),
         NEW n \in Nat, NEW m, m = n + 1, m <= k, NEW x, PrefixOf(x, q, n)
  PROVE  PrefixOf(HorizonAdd(x, q[m]), q, m)
<1>1. m \in 1 .. k /\ q[m] \in Flow
  OBVIOUS
<1>2. PICK c \in Flow : c = q[m]
  BY <1>1
<1>3. PICK s : s = x.contributions
  OBVIOUS
<1>4. HorizonOf(x, n) /\ s \in [1 .. n -> Flow] /\ SortedTo(s, n) /\ \A i \in 1 .. n : s[i] = q[i]
  BY <1>3 DEF PrefixOf, HorizonOf
<1>5. PICK y : y = HorizonAdd(x, c)
  OBVIOUS
<1>6. HorizonOf(y, n + 1) /\ y.contributions = Inserted(s, c)
  BY <1>2, <1>3, <1>4, <1>5, HorizonAdded
<1>7. PICK p : p = Place(s, c)
  OBVIOUS
<1>8. p \in 0 .. n /\ \A i \in 1 .. n : i <= p <=> s[i].time <= c.time
  BY <1>2, <1>4, <1>7, PlaceOK
<1>9. p = n
  <2>1. CASE n = 0
    BY <1>8, <2>1
  <2>2. CASE n # 0
    <3>1. n \in 1 .. n /\ n \in 1 .. k /\ n < m
      BY <2>2
    <3>2. q[n].time <= q[m].time
      BY <1>1, <3>1 DEF SortedTo
    <3>3. n <= p
      BY <1>2, <1>4, <1>8, <3>1, <3>2
    <3> QED
      BY <1>8, <3>3
  <2> QED
    BY <2>1, <2>2
<1>10. PICK u : u = Inserted(s, c)
  OBVIOUS
<1>11. u[p + 1] = c /\ \A i \in 1 .. n : i <= p => u[i] = s[i]
  BY <1>2, <1>4, <1>7, <1>8, <1>10, InsertedIs
<1>12. ASSUME NEW i \in 1 .. m PROVE u[i] = q[i]
  <2>1. CASE i = m
    BY <1>2, <1>9, <1>11, <2>1
  <2>2. CASE i # m
    <3>1. i \in 1 .. n /\ i <= p
      BY <1>9, <2>2
    <3> QED
      BY <1>4, <1>11, <3>1
  <2> QED
    BY <2>1, <2>2
<1>13. PrefixOf(y, q, m)
  BY <1>6, <1>10, <1>12 DEF PrefixOf
<1> QED
  BY <1>2, <1>5, <1>13

(* A set of numbers that has 0 and all successors has all numbers up to k. *)
LEMMA AllReached ==
  ASSUME NEW k \in Nat, NEW S, 0 \in S, \A n \in 0 .. k : n < k /\ n \in S => n + 1 \in S
  PROVE  \A n \in 0 .. k : n \in S
<1> DEFINE Bad == {n \in 0 .. k : n \notin S}
<1>1. SUFFICES ASSUME Bad # {} PROVE FALSE
  OBVIOUS
<1>2. Bad \in SUBSET Nat
  OBVIOUS
<1>3. Min(Bad) \in Bad /\ \A y \in Bad : Min(Bad) <= y
  BY <1>1, <1>2, LeastPicked
<1>4. PICK m \in Bad : \A y \in Bad : m <= y
  BY <1>3
<1>5. m \in 0 .. k /\ m \notin S /\ m # 0
  BY <1>4
<1>6. m - 1 \in 0 .. k /\ m - 1 < k /\ m - 1 + 1 = m
  BY <1>5
<1>7. m - 1 \in S
  <2>1. SUFFICES ASSUME m - 1 \notin S PROVE FALSE
    OBVIOUS
  <2>2. m - 1 \in Bad
    BY <1>6, <2>1
  <2>3. m <= m - 1
    BY <1>4, <2>2
  <2> QED
    BY <1>5, <2>3
<1> QED
  BY <1>5, <1>6, <1>7

LEMMA PrefixExists ==
  ASSUME NEW k \in Nat, NEW q \in [1 .. k -> Flow], SortedTo(q, k)
  PROVE  \A n \in 0 .. k : \E x : PrefixOf(x, q, n)
<1> DEFINE S == {n \in 0 .. k : \E x : PrefixOf(x, q, n)}
<1>1. 0 \in S
  <2>1. PrefixOf(EmptyHorizon, q, 0)
    BY EmptyIs DEF PrefixOf
  <2> QED
    BY <2>1
<1>2. ASSUME NEW n \in 0 .. k, n < k /\ n \in S PROVE n + 1 \in S
  <2>1. PICK x : PrefixOf(x, q, n)
    BY <1>2
  <2>2. n \in Nat /\ n + 1 <= k /\ n + 1 \in 0 .. k
    BY <1>2
  <2>3. PrefixOf(HorizonAdd(x, q[n + 1]), q, n + 1)
    BY <2>1, <2>2, PrefixAdded
  <2> QED
    BY <2>2, <2>3
<1> HIDE DEF S
<1>3. \A n \in 0 .. k : n \in S
  BY <1>1, <1>2, AllReached
<1> QED
  BY <1>3 DEF S

LEMMA RestoredIs ==
  ASSUME NEW h, NEW k, HorizonOf(h, k)
  PROVE  RestoredHorizon(h.contributions) = h
<1>1. PICK q : q = h.contributions
  OBVIOUS
<1>2. k \in Nat /\ q \in [1 .. k -> Flow] /\ SortedTo(q, k) /\ Len(q) = k
  BY <1>1, ItemsAre DEF HorizonOf
<1> DEFINE Body(f) == [n \in 0 .. k |->
                         IF n = 0 THEN EmptyHorizon ELSE HorizonAdd(f[n - 1], q[n])]
           g == [n \in 0 .. k |-> CHOOSE x : PrefixOf(x, q, n)]
           after == CHOOSE f : f = Body(f)
<1>3. \A n \in 0 .. k : PrefixOf(g[n], q, n)
  BY <1>2, PrefixExists
<1>4. g = Body(g)
  <2>1. ASSUME NEW n \in 0 .. k
        PROVE  g[n] = IF n = 0 THEN EmptyHorizon ELSE HorizonAdd(g[n - 1], q[n])
    <3>1. CASE n = 0
      <4>1. PrefixOf(EmptyHorizon, q, 0)
        BY EmptyIs DEF PrefixOf
      <4>2. PrefixOf(g[n], q, 0)
        BY <1>3, <3>1
      <4> HIDE DEF g
      <4> QED
        BY <3>1, <4>1, <4>2, PrefixUnique
    <3>2. CASE n # 0
      <4>1. PICK l \in Nat : l = n - 1
        BY <3>2
      <4>2. l \in 0 .. k /\ n = l + 1 /\ n <= k
        BY <1>2, <3>2, <4>1
      <4>3. PrefixOf(g[l], q, l) /\ PrefixOf(g[n], q, n)
        BY <1>3, <4>2
      <4> HIDE DEF g
      <4>4. PrefixOf(HorizonAdd(g[l], q[n]), q, n)
        BY <1>2, <4>1, <4>2, <4>3, PrefixAdded
      <4>5. g[n] = HorizonAdd(g[l], q[n])
        BY <4>3, <4>4, PrefixUnique
      <4> QED
        BY <3>2, <4>1, <4>5
    <3> QED
      BY <3>1, <3>2
  <2>2. g = [n \in 0 .. k |-> g[n]]
    OBVIOUS
  <2> HIDE DEF g
  <2> QED
    BY <2>1, <2>2
<1>5. after = Body(after)
  <2> HIDE DEF Body, g
  <2> QED
    BY <1>4
<1>6. RestoredHorizon(q) = after[k]
  BY <1>2 DEF RestoredHorizon
<1> HIDE DEF after
<1>7. /\ after[0] = EmptyHorizon
      /\ \A n \in 0 .. k : n # 0 => after[n] = HorizonAdd(after[n - 1], q[n])
  <2>1. \A n \in 0 .. k : after[n] = IF n = 0 THEN EmptyHorizon ELSE HorizonAdd(after[n - 1], q[n])
    BY <1>5
  <2>2. 0 \in 0 .. k
    BY <1>2
  <2> QED
    BY <2>1, <2>2
<1> HIDE DEF Body, g
<1> DEFINE S == {n \in 0 .. k : PrefixOf(after[n], q, n)}
<1>8. 0 \in S
  <2>1. PrefixOf(EmptyHorizon, q, 0)
    BY EmptyIs DEF PrefixOf
  <2> QED
    BY <1>2, <1>7, <2>1
<1>9. ASSUME NEW n \in 0 .. k, n < k /\ n \in S PROVE n + 1 \in S
  <2>1. PICK m : m = n + 1
    OBVIOUS
  <2>2. n \in Nat /\ m <= k /\ m \in 0 .. k /\ m # 0 /\ m - 1 = n
    BY <1>2, <1>9, <2>1
  <2>3. PrefixOf(HorizonAdd(after[n], q[m]), q, m)
    BY <1>2, <1>9, <2>1, <2>2, PrefixAdded
  <2>4. after[m] = HorizonAdd(after[n], q[m])
    BY <1>7, <2>2
  <2> QED
    BY <2>1, <2>2, <2>3, <2>4
<1> HIDE DEF S
<1>10. k \in S
  <2>1. \A n \in 0 .. k : n \in S
    BY <1>2, <1>8, <1>9, AllReached
  <2>2. k \in 0 .. k
    BY <1>2
  <2> QED
    BY <2>1, <2>2
<1>11. PrefixOf(after[k], q, k) /\ PrefixOf(h, q, k)
  BY <1>1, <1>10 DEF S, PrefixOf
<1>12. after[k] = h
  BY <1>11, PrefixUnique
<1> QED
  BY <1>1, <1>6, <1>12

-----------------------------------------------------------------------------
(* Every state satisfies the invariant, and what follows from it.          *)

LEMMA NextIInv == IInv /\ [Next]_vars => IInv'
<1> SUFFICES ASSUME IInv, [Next]_vars PROVE IInv'
  OBVIOUS
<1>1. CASE UNCHANGED vars
  BY <1>1 DEF vars, dedupeVars, viewVars, IInv, JobTyped, WindowsKnown, TimerKnown, ViewsKnown
<1>2. ASSUME NEW c \in Flow, Receive(c) PROVE IInv'
  BY <1>2, ReceiveIInv
<1>3. CASE ProcessElement
  BY <1>3, ProcessElementIInv
<1>4. CASE OnTimer
  BY <1>4, OnTimerIInv
<1>5. CASE Pass
  BY <1>5, PassIInv
<1> QED
  BY <1>1, <1>2, <1>3, <1>4, <1>5 DEF Next

LEMMA SpecIInv == Spec => []IInv
BY InitIInv, NextIInv, PTL DEF Spec

LEMMA IInvTypeOK == IInv => TypeOK
<1> SUFFICES ASSUME IInv PROVE TypeOK
  OBVIOUS
<1>1. JobTyped /\ WindowsKnown /\ TimerKnown
  BY DEF IInv
<1>2. \A i \in DOMAIN queue : queue[i] \in sent
  <2>1. queue \in Seq(sent)
    BY <1>1 DEF JobTyped
  <2>2. DOMAIN queue = 1 .. Len(queue)
    BY <2>1, LenProperties
  <2> QED
    BY <2>1, <2>2, ElementOfSeq
<1>3. windows = Null \/ (windows.clock \in Nat /\ DOMAIN windows.horizons = 1 .. 2)
  BY <1>1 DEF WindowsKnown, WindowsOf
<1>4. lastEventWall \in 0 .. now \cup {None}
  <2>1. lastEventWall \in 0 .. lastFlowWall \cup {None} /\ lastFlowWall \in 0 .. now /\ now \in 0 .. MaxNow
    BY <1>1 DEF TimerKnown, JobTyped
  <2> QED
    BY <2>1, ConstantTypes
<1> QED
  BY <1>1, <1>2, <1>3, <1>4 DEF TypeOK, JobTyped, TimerKnown

(* The types, and a timer exactly as long as there are windows             *)
(* (RollingViews.schedule, onTimer).                                       *)
THEOREM ViewsTypeCorrect == Spec => []TypeOK
BY SpecIInv, IInvTypeOK, PTL

LEMMA IInvWindowIsExact == IInv => WindowIsExact
<1> SUFFICES ASSUME IInv, windows # Null, NEW i \in 1 .. 2
             PROVE  /\ Items(windows.horizons[i]) =
                         {c \in taken : c.time > windows.clock - Length[i] /\ c.time <= windows.clock}
                    /\ \A j, k \in DOMAIN windows.horizons[i].contributions :
                         j < k => windows.horizons[i].contributions[j].time
                                    <= windows.horizons[i].contributions[k].time
  BY DEF WindowIsExact
<1>1. WindowsOf(windows, taken)
  BY DEF IInv, WindowsKnown
<1>2. /\ Items(windows.horizons[i]) = {c \in taken : c.time > windows.clock - Length[i]}
      /\ \A c \in taken : c.time <= windows.clock
  BY <1>1 DEF WindowsOf
<1>3. PICK k : HorizonOf(windows.horizons[i], k)
  BY <1>1 DEF WindowsOf
<1>4. DOMAIN windows.horizons[i].contributions = 1 .. k /\ SortedTo(windows.horizons[i].contributions, k)
  BY <1>3, ItemsAre DEF HorizonOf
<1> QED
  BY <1>2, <1>4 DEF SortedTo

(* Each window holds exactly the flows taken that fall into it, in time    *)
(* order, whatever the order they came in and however the clock moved      *)
(* (DeviceWindows.add, advanceTo, Horizon.add, Horizon.expire).            *)
THEOREM WindowsAreExact == Spec => []WindowIsExact
BY SpecIInv, IInvWindowIsExact, PTL

LEMMA IInvAggregatesMatch == IInv => AggregatesMatch
<1> SUFFICES ASSUME IInv, windows # Null, NEW i \in 1 .. 2, NEW h, h = windows.horizons[i]
             PROVE  /\ DOMAIN h.targets = {c.target : c \in Items(h)}
                    /\ \A t \in DOMAIN h.targets :
                         h.targets[t].refs = Cardinality(Of(h.contributions, t))
                    /\ h.failedTargets = Cardinality(FailedIn(h))
  BY DEF AggregatesMatch
<1>1. WindowsOf(windows, taken)
  BY DEF IInv, WindowsKnown
<1>2. PICK k : HorizonOf(h, k)
  BY <1>1 DEF WindowsOf
<1>3. PICK q, g, f : h = [contributions |-> q, targets |-> g, failedTargets |-> f]
  BY <1>2 DEF HorizonOf
<1>4. /\ k \in Nat /\ q \in [1 .. k -> Flow] /\ AggregateOf(g, f, q, k)
      /\ h.contributions = q /\ h.targets = g /\ h.failedTargets = f
  BY <1>2, <1>3 DEF HorizonOf
<1>5. /\ DOMAIN g = TargetsOf(q, k) /\ \A t \in TargetsOf(q, k) : TargetIs(g[t], q, t)
      /\ f = Cardinality(FailedOf(g))
  BY <1>4 DEF AggregateOf
<1>6. Items(h) = {q[j] : j \in 1 .. k}
  BY <1>2, <1>4, ItemsAre
<1>7. TargetsOf(q, k) = {c.target : c \in Items(h)}
  BY <1>6 DEF TargetsOf
<1>8. \A t \in DOMAIN g : g[t].refs = Cardinality(Of(q, t))
  BY <1>4, <1>5, TargetIsTyped
<1>9. ASSUME NEW t \in DOMAIN g PROVE g[t].failed = q[Max(Of(q, t))].failed
  <2>1. PICK m : /\ LatestOf(q, t, m)
                 /\ g[t] = [refs |-> Cardinality(Of(q, t)), latest |-> q[m].time, failed |-> q[m].failed]
    BY <1>5 DEF TargetIs
  <2>2. Max(Of(q, t)) = m
    BY <1>4, <2>1, LatestUnique
  <2> QED
    BY <2>1, <2>2
<1>10. FailedIn(h) = FailedOf(g)
  <2>1. FailedIn(h) = {t \in DOMAIN g : q[Max(Of(q, t))].failed}
    BY <1>4, <1>5, <1>7 DEF FailedIn
  <2> QED
    BY <1>9, <2>1 DEF FailedOf
<1> QED
  BY <1>4, <1>5, <1>7, <1>8, <1>10

(* The aggregates maintained step by step are those a recomputation from   *)
(* the contributions would give (Horizon.add, expire).                     *)
THEOREM AggregatesAlwaysMatch == Spec => []AggregatesMatch
BY SpecIInv, IInvAggregatesMatch, PTL

LEMMA IInvRestoreSame == IInv => RestoreSame
<1> SUFFICES ASSUME IInv, windows # Null PROVE Restored(windows) = windows
  BY DEF RestoreSame
<1>1. WindowsOf(windows, taken)
  BY DEF IInv, WindowsKnown
<1>2. ASSUME NEW i \in 1 .. 2
      PROVE  RestoredHorizon(windows.horizons[i].contributions) = windows.horizons[i]
  <2>1. PICK k : HorizonOf(windows.horizons[i], k)
    BY <1>1 DEF WindowsOf
  <2> QED
    BY <2>1, RestoredIs
<1>3. PICK a, b : windows = [clock |-> a, horizons |-> b] /\ windows.clock = a /\ windows.horizons = b
  BY <1>1 DEF WindowsOf
<1>4. b = [i \in 1 .. 2 |-> b[i]]
  BY <1>1, <1>3 DEF WindowsOf
<1>5. Restored(windows) = [clock |-> a, horizons |-> [i \in 1 .. 2 |-> RestoredHorizon(b[i].contributions)]]
  BY <1>3 DEF Restored
<1>6. [i \in 1 .. 2 |-> RestoredHorizon(b[i].contributions)] = [i \in 1 .. 2 |-> b[i]]
  BY <1>2, <1>3
<1> QED
  BY <1>3, <1>4, <1>5, <1>6

(* Windows restored from a checkpoint, which holds the clock and the       *)
(* contributions only, are the windows that were checkpointed              *)
(* (DeviceWindowsSerializer, DeviceWindows.restore).                       *)
THEOREM RestoresAreSame == Spec => []RestoreSame
BY SpecIInv, IInvRestoreSame, PTL

LEMMA IInvDownstreamCurrent == IInv => DownstreamCurrent
BY DEF IInv, ViewsKnown, DownstreamCurrent

(* What the rule was told last are the current counts, zero once the       *)
(* windows are dropped (RollingViews.emitChanged, onTimer).                *)
THEOREM DownstreamIsCurrent == Spec => []DownstreamCurrent
BY SpecIInv, IInvDownstreamCurrent, PTL

LEMMA IInvSilenceForgets == IInv => SilenceForgets
<1> SUFFICES ASSUME IInv, windows # Null
             PROVE  now - lastFlowWall <= LongHorizon + Maximum(FirstTick, Tick) + TimerDelay
  BY DEF SilenceForgets
<1>1. /\ pendingTimer \in Nat /\ now <= pendingTimer + TimerDelay
      /\ pendingTimer <= lastFlowWall + LongHorizon + Maximum(FirstTick, Tick)
      /\ now \in 0 .. MaxNow /\ lastFlowWall \in 0 .. now
  BY DEF IInv, TimerKnown, JobTyped
<1>2. Maximum(FirstTick, Tick) \in Nat
  BY ConstantTypes DEF Maximum
<1> QED
  BY <1>1, <1>2, ConstantTypes

(* A silent device's windows are dropped within the long horizon and one   *)
(* tick of its last flow, plus what timers are late (RollingViews.onTimer  *)
(* with the timers schedule registers).                                    *)
THEOREM SilenceIsForgotten == Spec => []SilenceForgets
BY SpecIInv, IInvSilenceForgets, PTL

-----------------------------------------------------------------------------
(* How far the windows fall behind the wall clock.                         *)

LEMMA ItemIn ==
  ASSUME NEW w, NEW T \in SUBSET Flow, WindowsOf(w, T)
  PROVE  ~IsEmpty(w) <=> \E i \in 1 .. 2 : \E d \in T : d.time > w.clock - Length[i]
<1>1. \A i \in 1 .. 2 : Items(w.horizons[i]) = {d \in T : d.time > w.clock - Length[i]}
  BY DEF WindowsOf
<1> QED
  BY <1>1, IsEmptyIs

LEMMA LatestReached ==
  ASSUME NEW w, NEW T \in SUBSET Flow, WindowsOf(w, T), ~IsEmpty(w)
  PROVE  \E c \in T : c.time = LatestEventTime(w)
<1> DEFINE last(i) == w.horizons[i].contributions[Len(w.horizons[i].contributions)]
           J == {j \in 1 .. 2 : w.horizons[j].contributions # <<>>}
           S == {last(i).time : i \in J}
<1>1. LatestEventTime(w) = Max(S)
  BY DEF LatestEventTime
<1>2. ASSUME NEW i \in J
      PROVE  last(i) \in T /\ last(i).time \in 0 .. MaxNow
  <2>1. PICK k : HorizonOf(w.horizons[i], k)
    BY DEF WindowsOf
  <2>2. PICK q : q = w.horizons[i].contributions
    OBVIOUS
  <2>3. Items(w.horizons[i]) = {q[j] : j \in 1 .. k} /\ Len(q) = k /\ k # 0
    BY <2>1, <2>2, ItemsAre
  <2>4. k \in Nat
    BY <2>1 DEF HorizonOf
  <2>5. q[k] \in Items(w.horizons[i])
    BY <2>3, <2>4
  <2>6. q[k] \in T
    BY <2>5 DEF WindowsOf
  <2>7. q[k].time \in 0 .. MaxNow
    BY <2>6 DEF Flow
  <2> QED
    BY <2>2, <2>3, <2>6, <2>7
<1>3. J # {}
  BY DEF IsEmpty
<1>4. S \in SUBSET (0 .. MaxNow) /\ S # {} /\ MaxNow \in Nat
  BY <1>2, <1>3, ConstantTypes
<1>5. Max(S) \in S
  <2> HIDE DEF S
  <2> QED
    BY <1>4, GreatestPicked
<1> HIDE DEF last, J
<1> QED
  BY <1>1, <1>2, <1>5

(* The latest event time is that of all flows taken, as the newest stays   *)
(* while any stays.                                                        *)
LEMMA LatestCovers ==
  ASSUME NEW w, NEW T \in SUBSET Flow, WindowsOf(w, T), ~IsEmpty(w), NEW c \in T
  PROVE  c.time <= LatestEventTime(w)
<1>1. PICK i \in 1 .. 2, d \in T : d.time > w.clock - Length[i]
  BY ItemIn
<1>2. \A e \in T : e.time > w.clock - Length[i] => e.time <= LatestEventTime(w)
  <2>1. Items(w.horizons[i]) = {e \in T : e.time > w.clock - Length[i]}
    BY DEF WindowsOf
  <2> QED
    BY <1>1, <2>1, LatestBounds
<1>3. LatestEventTime(w) \in Int
  BY LatestBounds
<1>4. c.time \in Nat /\ d.time \in Nat
  <2>1. c \in Flow /\ d \in Flow
    OBVIOUS
  <2> QED
    BY <2>1, FlowTypes
<1>5. w.clock - Length[i] \in Int
  <2>1. w.clock \in Int /\ Length[i] \in Int
    BY LengthTypes DEF WindowsOf, None
  <2> QED
    BY <2>1
<1>6. d.time <= LatestEventTime(w)
  BY <1>1, <1>2
<1>7. PICK x \in Nat, y \in Nat, l \in Int, z \in Int :
        x = c.time /\ y = d.time /\ l = LatestEventTime(w) /\ z = w.clock - Length[i]
  BY <1>3, <1>4, <1>5
<1>8. (x > z => x <= l) /\ y > z /\ y <= l
  BY <1>1, <1>2, <1>6, <1>7
<1> QED
  BY <1>7, <1>8

LEMMA LatestKept ==
  ASSUME NEW w, NEW T \in SUBSET Flow, WindowsOf(w, T), ~IsEmpty(w),
         NEW v, NEW U \in SUBSET Flow, WindowsOf(v, U), ~IsEmpty(v), T \subseteq U
  PROVE  LatestEventTime(w) <= LatestEventTime(v)
<1>1. PICK c \in T : c.time = LatestEventTime(w)
  BY LatestReached
<1>2. c \in U
  BY <1>1
<1> QED
  BY <1>1, <1>2, LatestCovers

(* One more old flow is one more tick and one more late timer.             *)
LEMMA SlackGrows ==
  ASSUME NEW n \in Nat
  PROVE  /\ Slack(n) \in Nat /\ Slack(0) = MaxLag
         /\ Slack(n + 1) = Slack(n) + Maximum(FirstTick, Tick) + TimerDelay
         /\ MaxLag <= Slack(n)
<1>1. PICK m \in Nat : m = Maximum(FirstTick, Tick) + TimerDelay
  BY ConstantTypes DEF Maximum
<1>2. MaxLag \in Nat
  BY ViewsAssumption DEF ViewsAssumption
<1>3. n * m \in Nat /\ 0 * m = 0 /\ (n + 1) * m = n * m + m
  BY <1>1
<1>4. Slack(n) = MaxLag + n * m /\ Slack(n + 1) = MaxLag + (n + 1) * m /\ Slack(0) = MaxLag + 0 * m
  BY <1>1 DEF Slack
<1>5. Maximum(FirstTick, Tick) \in Nat /\ TimerDelay \in Nat
  BY ConstantTypes DEF Maximum
<1> QED
  BY <1>1, <1>2, <1>3, <1>4, <1>5

(* Flows are numbered in the order they were first sent.                   *)
SentNumbered ==
  /\ IsFiniteSet(sent)
  /\ \A c \in sent : c.id <= Cardinality(sent) /\ c.time <= now
  /\ \A c, d \in sent : c.id = d.id => c = d

(* Flows on their way were remembered just now.                            *)
QueueRemembered ==
  /\ \A i \in DOMAIN queue : queue[i].id \in DOMAIN seen /\ seen[queue[i].id] = now
  /\ \A i, j \in DOMAIN queue : queue[i].id = queue[j].id => i = j

(* Windows that are kept hold a flow.                                      *)
NeverEmpty == windows # Null => ~IsEmpty(windows)

(* Since a flow was taken the clock of the windows, when the flow that     *)
(* moved it came and when the timer is due, has gone on as far as the wall *)
(* clock, up to the slack of the old flows added.                          *)
KeepsUp ==
  windows # Null =>
    \A d \in taken :
      /\ d.id \in DOMAIN seen /\ d.time <= seen[d.id]
      /\ lastEventWall - seen[d.id] <= LatestEventTime(windows) - d.time + Slack(copies)
      /\ pendingTimer - seen[d.id]
           <= windows.clock - d.time + Slack(copies) + Maximum(FirstTick, Tick)

KInv == IInv /\ SentNumbered /\ QueueRemembered /\ NeverEmpty /\ KeepsUp

LEMMA InitKInv == Init => KInv
<1> SUFFICES ASSUME Init PROVE KInv
  OBVIOUS
<1>1. windows = Null /\ sent = {} /\ queue = <<>>
  BY DEF Init
<1>2. IsFiniteSet({}) /\ DOMAIN <<>> = {}
  BY FS_EmptySet
<1> QED
  BY <1>1, <1>2, InitIInv DEF KInv, SentNumbered, QueueRemembered, NeverEmpty, KeepsUp

LEMMA QueueTypes ==
  ASSUME JobTyped
  PROVE  /\ DOMAIN queue = 1 .. Len(queue) /\ Len(queue) \in Nat
         /\ \A i \in DOMAIN queue : queue[i] \in sent /\ queue[i] \in Flow
<1>1. queue \in Seq(sent) /\ sent \subseteq Flow
  BY DEF JobTyped
<1>2. DOMAIN queue = 1 .. Len(queue) /\ Len(queue) \in Nat
  BY <1>1, LenProperties
<1>3. \A i \in 1 .. Len(queue) : queue[i] \in sent
  BY <1>1, ElementOfSeq
<1> QED
  BY <1>1, <1>2, <1>3

LEMMA ReceiveKInv ==
  ASSUME KInv, NEW c \in Flow, Receive(c)
  PROVE  KInv'
<1>1. IInv /\ JobTyped /\ IInv'
  BY ReceiveIInv DEF KInv, IInv
<1>2. /\ UNCHANGED <<now, windows, lastEventWall, pendingTimer, taken, copies>>
      /\ sent' = sent \cup {c}
  BY DEF Receive, viewVars
<1>3. now \in Nat /\ Retention \in Nat \ {0} /\ MaxLag \in Nat
  BY <1>1, ConstantTypes, ViewsAssumption DEF JobTyped, Retention, ViewsAssumption
<1>4. DOMAIN seen \subseteq FlowId /\ \A i \in DOMAIN seen : seen[i] \in 0 .. now
  BY <1>1 DEF JobTyped
<1>5. \/ seen' = seen /\ queue' = queue
      \/ /\ seen' = [i \in DOMAIN seen \cup {c.id} |-> IF i = c.id THEN now ELSE seen[i]]
         /\ ~Remembers(c.id) /\ (queue' = queue \/ queue' = Append(queue, c))
  BY DEF Receive, Remember, dedupeVars
<1>6. \A i \in DOMAIN seen : i \in DOMAIN seen' /\ seen'[i] \in Int /\ (seen'[i] = seen[i] \/ seen'[i] = now)
  BY <1>3, <1>4, <1>5
<1>7. \A i \in DOMAIN seen : i \in DOMAIN seen' /\ seen'[i] \in Int /\ seen[i] <= seen'[i]
  BY <1>3, <1>4, <1>6
<1>8. SentNumbered'
  <2>1. IsFiniteSet(sent) /\ Cardinality(sent) \in Nat
    BY FS_CardinalityType DEF KInv, SentNumbered
  <2>2. CASE c \in sent
    <3>1. sent' = sent
      BY <1>2, <2>2
    <3> QED
      BY <1>2, <3>1 DEF KInv, SentNumbered
  <2>3. CASE c \notin sent
    <3>1. c.id = Cardinality(sent) + 1 /\ c.time <= now
      BY <1>3, <2>3 DEF Receive
    <3>2. IsFiniteSet(sent') /\ Cardinality(sent') = Cardinality(sent) + 1
      BY <1>2, <2>1, <2>3, FS_AddElement
    <3>3. \A d \in sent : d.id <= Cardinality(sent) /\ d.time <= now /\ d.id \in Nat
      <4>1. \A d \in sent : d.id \in FlowId
        BY <1>1 DEF JobTyped, Flow
      <4> QED
        BY <4>1 DEF KInv, SentNumbered, FlowId
    <3>4. \A d \in sent : d.id # c.id
      BY <2>1, <3>1, <3>3
    <3>5. \A d \in sent' : d.id <= Cardinality(sent') /\ d.time <= now'
      BY <1>2, <2>1, <3>1, <3>2, <3>3
    <3>6. \A d, e \in sent' : d.id = e.id => d = e
      BY <1>2, <3>4 DEF KInv, SentNumbered
    <3> QED
      BY <3>2, <3>5, <3>6 DEF SentNumbered
  <2> QED
    BY <2>2, <2>3
<1>9. QueueRemembered'
  <2>1. \A i \in DOMAIN queue : queue[i].id \in DOMAIN seen /\ seen[queue[i].id] = now
    BY DEF KInv, QueueRemembered
  <2>2. \A i, j \in DOMAIN queue : queue[i].id = queue[j].id => i = j
    BY DEF KInv, QueueRemembered
  <2>3. \A i \in DOMAIN queue : queue[i].id \in DOMAIN seen' /\ seen'[queue[i].id] = now
    BY <1>6, <2>1
  <2>4. CASE queue' = queue
    BY <1>2, <2>2, <2>3, <2>4 DEF QueueRemembered
  <2>5. CASE queue' # queue
    <3>1. queue' = Append(queue, c) /\ ~Remembers(c.id) /\ c.id \in DOMAIN seen' /\ seen'[c.id] = now
      BY <1>5, <2>5
    <3>2. DOMAIN queue = 1 .. Len(queue) /\ Len(queue) \in Nat
      BY <1>1, QueueTypes
    <3>3. PICK n \in Nat : n = Len(queue)
      BY <3>2
    <3>4. DOMAIN queue' = 1 .. n + 1 /\ queue'[n + 1] = c /\ \A i \in 1 .. n : queue'[i] = queue[i]
      <4>1. queue \in Seq(sent') /\ c \in sent'
        <5>1. sent \subseteq sent' /\ c \in sent'
          BY <1>2
        <5> QED
          BY <1>1, <5>1, SeqMonotonic DEF JobTyped
      <4>2. /\ Append(queue, c) \in Seq(sent') /\ Len(Append(queue, c)) = n + 1
            /\ \A i \in 1 .. n : Append(queue, c)[i] = queue[i]
            /\ Append(queue, c)[n + 1] = c
        BY <3>3, <4>1, AppendProperties
      <4>3. DOMAIN Append(queue, c) = 1 .. n + 1
        BY <4>2, LenProperties
      <4> QED
        BY <3>1, <4>2, <4>3
    <3>5. \A i \in 1 .. n : queue[i].id # c.id
      <4> SUFFICES ASSUME NEW i \in 1 .. n, queue[i].id = c.id PROVE FALSE
        OBVIOUS
      <4>1. c.id \in DOMAIN seen /\ seen[c.id] = now
        BY <2>1, <3>2, <3>3
      <4> QED
        BY <1>3, <3>1, <4>1 DEF Remembers
    <3>6. ASSUME NEW i \in 1 .. n + 1
          PROVE  queue'[i].id \in DOMAIN seen' /\ seen'[queue'[i].id] = now
      BY <2>3, <3>1, <3>2, <3>3, <3>4
    <3>7. ASSUME NEW i \in 1 .. n + 1, NEW j \in 1 .. n + 1, queue'[i].id = queue'[j].id
          PROVE  i = j
      BY <2>2, <3>2, <3>3, <3>4, <3>5, <3>7
    <3> QED
      BY <1>2, <3>4, <3>6, <3>7 DEF QueueRemembered
  <2> QED
    BY <2>4, <2>5
<1>10. NeverEmpty'
  BY <1>2 DEF KInv, NeverEmpty, IsEmpty
<1>11. KeepsUp'
  <2> SUFFICES ASSUME windows # Null, NEW d \in taken
               PROVE  /\ d.id \in DOMAIN seen' /\ d.time <= seen'[d.id]
                      /\ lastEventWall - seen'[d.id] <= LatestEventTime(windows) - d.time + Slack(copies)
                      /\ pendingTimer - seen'[d.id]
                           <= windows.clock - d.time + Slack(copies) + Maximum(FirstTick, Tick)
    BY <1>2 DEF KeepsUp, LatestEventTime, IsEmpty
  <2>1. /\ d.id \in DOMAIN seen /\ d.time <= seen[d.id]
        /\ lastEventWall - seen[d.id] <= LatestEventTime(windows) - d.time + Slack(copies)
        /\ pendingTimer - seen[d.id]
             <= windows.clock - d.time + Slack(copies) + Maximum(FirstTick, Tick)
    BY DEF KInv, KeepsUp
  <2>2. PICK s \in Int, z \in Int : s = seen[d.id] /\ z = seen'[d.id] /\ s <= z /\ d.id \in DOMAIN seen'
    BY <1>4, <1>7, <2>1
  <2>3. /\ d.time \in Int /\ lastEventWall \in Int /\ pendingTimer \in Int /\ windows.clock \in Int
        /\ LatestEventTime(windows) \in Int /\ Slack(copies) \in Int /\ Maximum(FirstTick, Tick) \in Int
    <3>1. d \in Flow /\ copies \in Nat
      BY <1>1 DEF JobTyped
    <3>2. WindowsOf(windows, taken) /\ windows.clock \in Int
      BY <1>1 DEF IInv, WindowsKnown
    <3>3. lastEventWall \in Int /\ pendingTimer \in Int
      BY <1>1 DEF IInv, TimerKnown, None
    <3> QED
      BY <3>1, <3>2, <3>3, FlowTypes, LatestBounds, SlackGrows, ConstantTypes DEF Maximum
  <2>4. PICK a \in Int, b \in Int : a = LatestEventTime(windows) - d.time + Slack(copies)
          /\ b = windows.clock - d.time + Slack(copies) + Maximum(FirstTick, Tick)
    BY <2>3
  <2> QED
    BY <2>1, <2>2, <2>3, <2>4
<1> QED
  BY <1>1, <1>8, <1>9, <1>10, <1>11 DEF KInv

LEMMA PassKInv ==
  ASSUME KInv, Pass
  PROVE  KInv'
<1>1. IInv /\ JobTyped /\ IInv'
  BY PassIInv DEF KInv, IInv
<1>2. /\ UNCHANGED <<sent, seen, queue, windows, lastEventWall, pendingTimer, taken, copies>>
      /\ now' = now + 1 /\ queue = <<>>
  BY DEF Pass, viewVars, dedupeVars
<1>3. now \in Nat
  BY <1>1, ConstantTypes DEF JobTyped
<1>4. SentNumbered'
  <2>1. \A c \in sent : c.time \in Nat
    BY <1>1, FlowTypes DEF JobTyped
  <2>2. \A c \in sent : c.time <= now + 1
    BY <1>3, <2>1 DEF KInv, SentNumbered
  <2> QED
    BY <1>2, <2>2 DEF KInv, SentNumbered
<1>5. QueueRemembered'
  <2>1. DOMAIN <<>> = {}
    OBVIOUS
  <2> QED
    BY <1>2, <2>1 DEF QueueRemembered
<1>6. NeverEmpty' /\ KeepsUp'
  BY <1>2 DEF KInv, NeverEmpty, KeepsUp, IsEmpty, LatestEventTime
<1> QED
  BY <1>1, <1>4, <1>5, <1>6 DEF KInv

(* A recent flow brings the windows up to date.                            *)
LEMMA RecentCatchesUp ==
  ASSUME NEW t \in Int, NEW s \in Int, NEW n \in Int, NEW x \in Int, NEW latest \in Int,
         NEW clock \in Int, NEW wall \in Int, NEW lag \in Int, NEW m \in Int, NEW tick \in Int,
         t <= s, wall <= n, x >= n - lag, latest >= x, clock >= x, tick <= m
  PROVE  /\ wall - s <= latest - t + lag
         /\ n + tick - s <= clock - t + lag + m
OBVIOUS

(* An old flow puts the timer off by a tick.                               *)
LEMMA OldFallsBehind ==
  ASSUME NEW t \in Int, NEW s \in Int, NEW n \in Int, NEW timer \in Int, NEW late \in Int,
         NEW clock \in Int, NEW lag \in Int, NEW m \in Int, NEW tick \in Int, tick <= m,
         n <= timer + late, timer - s <= clock - t + lag + m
  PROVE  /\ n - s <= clock - t + lag + m + late
         /\ n + tick - s <= clock - t + lag + m + late + m
OBVIOUS

LEMMA ProcessElementKInv ==
  ASSUME KInv, ProcessElement
  PROVE  KInv'
<1>1. IInv /\ JobTyped /\ IInv'
  BY ProcessElementIInv DEF KInv, IInv
<1>2. PICK c : c = Head(queue)
  OBVIOUS
<1>3. PICK w : w = IF windows = Null THEN NewWindows ELSE windows
  OBVIOUS
<1>4. PICK v : v = WindowsAdd(w, c)
  OBVIOUS
<1>5. PICK T : T = IF windows = Null THEN {} ELSE taken
  OBVIOUS
<1>6. /\ queue # <<>> /\ queue' = Tail(queue) /\ windows' = v
      /\ lastEventWall' = (IF v.clock > w.clock THEN now ELSE lastEventWall)
      /\ pendingTimer' = now + FirstTick
      /\ taken' = T \cup {c}
      /\ copies' = (IF windows # Null /\ OldFlow(c) THEN copies + 1 ELSE 0)
      /\ UNCHANGED <<now, sent, seen>>
  BY <1>2, <1>3, <1>4, <1>5 DEF ProcessElement, Schedule, dedupeVars
<1>7. PICK n \in Nat : DOMAIN queue = 1 .. n /\ n # 0 /\ Len(queue) = n
  <2>1. queue \in Seq(sent)
    BY <1>1 DEF JobTyped
  <2>2. Len(queue) \in Nat /\ DOMAIN queue = 1 .. Len(queue) /\ Len(queue) # 0
    BY <1>1, <1>6, <2>1, QueueTypes, EmptySeq
  <2> QED
    BY <2>2
<1>8. c = queue[1] /\ DOMAIN Tail(queue) = 1 .. n - 1 /\ \A i \in 1 .. n - 1 : Tail(queue)[i] = queue[i + 1]
  <2>1. queue \in Seq(sent)
    BY <1>1 DEF JobTyped
  <2>2. /\ Tail(queue) \in Seq(sent) /\ Len(Tail(queue)) = n - 1
        /\ \A i \in 1 .. n - 1 : Tail(queue)[i] = queue[i + 1]
    BY <1>6, <1>7, <2>1, HeadTailProperties
  <2>3. DOMAIN Tail(queue) = 1 .. n - 1
    BY <2>2, LenProperties
  <2>4. Head(queue) = queue[1]
    BY <1>6, <1>7, <2>1
  <2> QED
    BY <1>2, <2>2, <2>3, <2>4
<1>9. c \in Flow /\ T \in SUBSET Flow /\ now \in Nat /\ copies \in Nat /\ T \cup {c} \in SUBSET Flow
  <2>1. 1 \in DOMAIN queue
    BY <1>7
  <2>2. c \in Flow
    BY <1>1, <1>8, <2>1, QueueTypes
  <2> QED
    BY <1>1, <1>5, <2>2, ConstantTypes DEF JobTyped
<1>10. WindowsOf(w, T)
  BY <1>1, <1>3, <1>5, NewIs DEF IInv, WindowsKnown
<1>11. WindowsOf(v, T \cup {c}) /\ v.clock = Maximum(w.clock, c.time)
  BY <1>4, <1>9, <1>10, WindowsAdded
<1>12. w.clock \in Int /\ c.time \in Nat /\ v.clock \in Nat /\ w.clock <= v.clock /\ c.time <= v.clock
  <2>1. w.clock \in Nat \cup {None}
    BY <1>10 DEF WindowsOf
  <2>2. c.time \in Nat
    BY <1>9, FlowTypes
  <2> QED
    BY <1>11, <2>1, <2>2 DEF Maximum, None
<1>13. c.id \in DOMAIN seen /\ seen[c.id] = now
  BY <1>7, <1>8 DEF KInv, QueueRemembered
<1>14. c.time <= now
  <2>1. 1 \in DOMAIN queue
    BY <1>7
  <2>2. c \in sent
    BY <1>1, <1>8, <2>1, QueueTypes
  <2> QED
    BY <2>2 DEF KInv, SentNumbered
<1>15. SentNumbered'
  BY <1>6 DEF KInv, SentNumbered
<1>16. QueueRemembered'
  <2>1. DOMAIN queue' = 1 .. n - 1 /\ \A i \in 1 .. n - 1 : queue'[i] = queue[i + 1] /\ i + 1 \in 1 .. n
    BY <1>6, <1>8
  <2>2. \A i \in 1 .. n : queue[i].id \in DOMAIN seen /\ seen[queue[i].id] = now
    BY <1>7 DEF KInv, QueueRemembered
  <2>3. \A i, j \in 1 .. n : queue[i].id = queue[j].id => i = j
    BY <1>7 DEF KInv, QueueRemembered
  <2>4. \A i \in 1 .. n - 1 : queue'[i].id \in DOMAIN seen' /\ seen'[queue'[i].id] = now'
    BY <1>6, <2>1, <2>2
  <2>5. ASSUME NEW i \in 1 .. n - 1, NEW j \in 1 .. n - 1, queue'[i].id = queue'[j].id
        PROVE  i = j
    <3>1. i + 1 = j + 1
      BY <2>1, <2>3, <2>5
    <3> QED
      BY <3>1
  <2> QED
    BY <2>1, <2>4, <2>5 DEF QueueRemembered
<1>17. ~IsEmpty(v)
  <2>1. CASE c.time = v.clock
    <3>1. 1 \in 1 .. 2 /\ c.time > v.clock - Length[1]
      BY <1>12, <2>1, LengthTypes
    <3> QED
      BY <1>9, <1>11, <3>1, ItemIn
  <2>2. CASE c.time # v.clock
    <3>1. v.clock = w.clock /\ w.clock # None
      BY <1>11, <1>12, <2>2 DEF Maximum, None
    <3>2. windows # Null /\ w = windows
      BY <1>3, <3>1 DEF NewWindows
    <3>3. ~IsEmpty(w)
      BY <3>2 DEF KInv, NeverEmpty
    <3>4. PICK i \in 1 .. 2, d \in T : d.time > w.clock - Length[i]
      BY <1>9, <1>10, <3>3, ItemIn
    <3>5. d \in T \cup {c} /\ d.time > v.clock - Length[i]
      BY <3>1, <3>4
    <3> QED
      BY <1>9, <1>11, <3>5, ItemIn
  <2> QED
    BY <2>1, <2>2
<1>18. NeverEmpty'
  BY <1>6, <1>17 DEF NeverEmpty, IsEmpty
<1>19. PICK latest \in Int : latest = LatestEventTime(v) /\ c.time <= latest
  <2>1. c \in T \cup {c}
    OBVIOUS
  <2> QED
    BY <1>9, <1>11, <1>17, <2>1, LatestBounds, LatestCovers
<1>20. PICK m \in Nat : m = Maximum(FirstTick, Tick) /\ FirstTick <= m
  BY ConstantTypes DEF Maximum
<1>21. /\ FirstTick \in Nat /\ TimerDelay \in Nat /\ MaxLag \in Nat
       /\ Slack(copies) \in Nat /\ Slack(0) = MaxLag
       /\ Slack(copies + 1) = Slack(copies) + m + TimerDelay
  BY <1>9, <1>20, SlackGrows, ConstantTypes, ViewsAssumption DEF ViewsAssumption
<1>22. lastEventWall' \in Int /\ lastEventWall' <= now
  <2>1. lastEventWall \in Int /\ lastEventWall <= now
    <3>1. lastEventWall \in 0 .. lastFlowWall \cup {None} /\ lastFlowWall \in 0 .. now
      BY <1>1 DEF IInv, TimerKnown, JobTyped
    <3> QED
      BY <1>9, <3>1 DEF None
  <2> QED
    BY <1>6, <1>9, <2>1
<1>23. PICK wall \in Int : wall = lastEventWall' /\ wall <= now
  BY <1>22
<1>24. PICK z \in Nat : z = Slack(copies')
  <2>1. copies' \in Nat
    BY <1>6, <1>9
  <2> QED
    BY <2>1, SlackGrows
<1>25. ASSUME NEW d \in T \cup {c}
       PROVE  /\ d.id \in DOMAIN seen /\ d.time <= seen[d.id]
              /\ wall - seen[d.id] <= latest - d.time + z
              /\ now + FirstTick - seen[d.id] <= v.clock - d.time + z + m
  <2>1. CASE d = c
    <3>1. z >= 0 /\ now + FirstTick - now <= v.clock - c.time + z + m
      BY <1>9, <1>12, <1>20, <1>21, <1>24
    <3> QED
      BY <1>9, <1>12, <1>13, <1>14, <1>19, <1>23, <2>1, <3>1
  <2>2. CASE d # c
    <3>1. d \in taken /\ windows # Null /\ T = taken /\ w = windows
      BY <1>3, <1>5, <2>2
    <3>2. /\ d.id \in DOMAIN seen /\ d.time <= seen[d.id]
          /\ lastEventWall - seen[d.id] <= LatestEventTime(windows) - d.time + Slack(copies)
          /\ pendingTimer - seen[d.id] <= windows.clock - d.time + Slack(copies) + m
      BY <1>20, <3>1 DEF KInv, KeepsUp
    <3>3. PICK t \in Nat, s \in Int : t = d.time /\ s = seen[d.id] /\ t <= s
      <4>1. d.time \in Nat
        <5>1. d \in Flow
          BY <1>9
        <5> QED
          BY <5>1, FlowTypes
      <4>2. seen[d.id] \in Int
        BY <1>1, <1>9, <3>2 DEF JobTyped
      <4> QED
        BY <3>2, <4>1, <4>2
    <3>4. CASE ~OldFlow(c)
      <4>1. z = MaxLag /\ c.time >= now - MaxLag
        BY <1>6, <1>9, <1>12, <1>21, <1>24, <3>4 DEF OldFlow
      <4>2. /\ wall - s <= latest - t + MaxLag
            /\ now + FirstTick - s <= v.clock - t + MaxLag + m
        BY <1>9, <1>12, <1>19, <1>20, <1>21, <1>23, <3>3, <4>1, RecentCatchesUp
      <4> QED
        BY <3>2, <3>3, <4>1, <4>2
    <3>5. CASE OldFlow(c)
      <4>1. z = Slack(copies) + m + TimerDelay
        BY <1>6, <1>21, <1>24, <3>1, <3>5
      <4>2. PICK a \in Nat : a = Slack(copies)
        BY <1>21
      <4>3. PICK timer \in Int : timer = pendingTimer /\ now <= timer + TimerDelay
        BY <1>1, <3>1 DEF IInv, TimerKnown, None
      <4>4. timer - s <= w.clock - t + a + m
        BY <3>1, <3>2, <3>3, <4>2, <4>3
      <4>5. /\ now - s <= w.clock - t + a + m + TimerDelay
            /\ now + FirstTick - s <= w.clock - t + a + m + TimerDelay + m
        BY <1>9, <1>12, <1>20, <1>21, <3>3, <4>2, <4>3, <4>4, OldFallsBehind
      <4>6. now + FirstTick - s <= v.clock - t + z + m
        BY <1>9, <1>12, <1>20, <1>21, <3>3, <4>1, <4>2, <4>5
      <4>7. wall - s <= latest - t + z
        <5>1. CASE v.clock > w.clock
          <6>1. wall = now /\ v.clock = c.time
            BY <1>6, <1>11, <1>12, <1>23, <5>1 DEF Maximum
          <6> QED
            BY <1>9, <1>12, <1>19, <1>20, <1>21, <3>3, <4>1, <4>2, <4>5, <6>1
        <5>2. CASE ~(v.clock > w.clock)
          <6>1. wall = lastEventWall
            BY <1>6, <1>23, <5>2
          <6>2. PICK before \in Int : before = LatestEventTime(w)
            BY <1>10, LatestBounds
          <6>3. before <= latest
            <7>1. ~IsEmpty(w) /\ T \subseteq T \cup {c}
              BY <3>1 DEF KInv, NeverEmpty
            <7> QED
              BY <1>9, <1>10, <1>11, <1>17, <1>19, <6>2, <7>1, LatestKept
          <6>4. wall - s <= before - t + a
            BY <3>1, <3>2, <3>3, <4>2, <6>1, <6>2
          <6> QED
            BY <1>19, <1>20, <1>21, <1>23, <3>3, <4>1, <4>2, <6>2, <6>3, <6>4
        <5> QED
          BY <5>1, <5>2
      <4> QED
        BY <3>2, <3>3, <4>6, <4>7
    <3> QED
      BY <3>4, <3>5
  <2> QED
    BY <2>1, <2>2
<1>26. Slack(copies)' = z /\ LatestEventTime(windows)' = latest
  BY <1>6, <1>19, <1>24 DEF LatestEventTime, IsEmpty, Slack
<1>27. KeepsUp'
  <2> SUFFICES ASSUME NEW d \in taken'
               PROVE  /\ d.id \in DOMAIN seen' /\ d.time <= seen'[d.id]
                      /\ lastEventWall' - seen'[d.id] <= LatestEventTime(windows)' - d.time + Slack(copies)'
                      /\ pendingTimer' - seen'[d.id]
                           <= windows'.clock - d.time + Slack(copies)' + Maximum(FirstTick, Tick)
    BY DEF KeepsUp
  <2>1. d \in T \cup {c}
    BY <1>6
  <2>2. /\ d.id \in DOMAIN seen /\ d.time <= seen[d.id]
        /\ wall - seen[d.id] <= latest - d.time + z
        /\ now + FirstTick - seen[d.id] <= v.clock - d.time + z + m
    BY <1>25, <2>1
  <2>3. seen' = seen /\ windows'.clock = v.clock /\ pendingTimer' = now + FirstTick /\ lastEventWall' = wall
    BY <1>6, <1>23
  <2>4. PICK t \in Nat, x \in Int : t = d.time /\ x = seen[d.id]
    <3>1. d \in Flow /\ seen[d.id] \in 0 .. now
      BY <1>1, <1>9, <2>1, <2>2 DEF JobTyped
    <3> QED
      BY <3>1, FlowTypes
  <2>5. wall - x <= latest - t + z /\ now + FirstTick - x <= v.clock - t + z + m
    BY <2>2, <2>4
  <2>6. /\ lastEventWall' - x <= LatestEventTime(windows)' - t + Slack(copies)'
        /\ pendingTimer' - x <= windows'.clock - t + Slack(copies)' + Maximum(FirstTick, Tick)
    <3>1. lastEventWall' - x <= LatestEventTime(windows)' - t + Slack(copies)'
      BY <1>26, <2>3, <2>5
    <3>2. pendingTimer' - x <= windows'.clock - t + Slack(copies)' + Maximum(FirstTick, Tick)
      BY <1>9, <1>12, <1>20, <1>21, <1>26, <2>3, <2>5
    <3> QED
      BY <3>1, <3>2
  <2> QED
    BY <2>2, <2>3, <2>4, <2>6
<1> QED
  BY <1>1, <1>15, <1>16, <1>18, <1>27 DEF KInv

LEMMA OnTimerKInv ==
  ASSUME KInv, OnTimer
  PROVE  KInv'
<1>1. IInv /\ JobTyped /\ WindowsKnown /\ TimerKnown /\ IInv'
  BY OnTimerIInv DEF KInv, IInv
<1>2. PICK timestamp : timestamp = pendingTimer
  OBVIOUS
<1>3. PICK at : at = SilentClock(windows, timestamp)
  OBVIOUS
<1>4. PICK w : w = AdvanceTo(windows, at)
  OBVIOUS
<1>5. /\ pendingTimer # None /\ windows # Null
      /\ UNCHANGED <<now, sent, seen, queue>>
  BY DEF OnTimer, dedupeVars
<1>6. \/ windows' = Null
      \/ /\ ~IsEmpty(w) /\ windows' = w
         /\ UNCHANGED <<lastEventWall, taken, copies>> /\ pendingTimer' = timestamp + Tick
  BY <1>2, <1>3, <1>4 DEF OnTimer, Schedule
<1>7. SentNumbered' /\ QueueRemembered'
  BY <1>5 DEF KInv, SentNumbered, QueueRemembered
<1>8. CASE windows' = Null
  BY <1>1, <1>7, <1>8 DEF KInv, NeverEmpty, KeepsUp
<1>9. CASE windows' # Null
  <2>1. /\ ~IsEmpty(w) /\ windows' = w /\ UNCHANGED <<lastEventWall, taken, copies>>
        /\ pendingTimer' = timestamp + Tick
    BY <1>6, <1>9
  <2>2. /\ WindowsOf(windows, taken) /\ windows.clock \in Nat /\ taken \in SUBSET Flow
        /\ timestamp \in Nat /\ lastEventWall \in Nat /\ copies \in Nat /\ now \in Nat
    <3>1. WindowsOf(windows, taken) /\ windows.clock \in Nat /\ taken \in SUBSET Flow /\ copies \in Nat
      BY <1>1, <1>5 DEF WindowsKnown, JobTyped
    <3>2. timestamp \in Nat
      BY <1>1, <1>2, <1>5 DEF TimerKnown
    <3>3. lastEventWall \in Nat /\ now \in Nat
      <4>1. lastEventWall \in 0 .. lastFlowWall /\ lastFlowWall \in 0 .. now /\ now \in Nat
        BY <1>1, <1>5, ConstantTypes DEF TimerKnown, JobTyped
      <4> QED
        BY <4>1
    <3> QED
      BY <3>1, <3>2, <3>3
  <2>3. PICK L \in Int : L = LatestEventTime(windows)
    BY <2>2, LatestBounds
  <2>4. at = L + Maximum(0, timestamp - lastEventWall)
    <3>1. lastEventWall # None
      BY <2>2 DEF None
    <3> QED
      BY <1>3, <2>3, <3>1 DEF SilentClock
  <2>5. at \in Int /\ at >= L + timestamp - lastEventWall
    BY <2>2, <2>3, <2>4 DEF Maximum
  <2>6. WindowsOf(w, taken) /\ w.clock = Maximum(windows.clock, at)
    BY <1>4, <2>2, <2>5, Advanced
  <2>7. w.clock \in Nat /\ w.clock >= at
    BY <2>2, <2>5, <2>6 DEF Maximum
  <2>8. NeverEmpty'
    BY <2>1 DEF NeverEmpty, IsEmpty
  <2>9. PICK after \in Int : after = LatestEventTime(w) /\ L <= after
    <3>1. ~IsEmpty(windows)
      BY <1>5 DEF KInv, NeverEmpty
    <3>2. LatestEventTime(windows) <= LatestEventTime(w)
      BY <2>1, <2>2, <2>6, <3>1, LatestKept
    <3>3. LatestEventTime(w) \in Int
      BY <2>6, LatestBounds
    <3> QED
      BY <2>3, <3>2, <3>3
  <2>10. PICK m \in Nat : m = Maximum(FirstTick, Tick) /\ Tick <= m
    BY ConstantTypes DEF Maximum
  <2>11. PICK z \in Nat : z = Slack(copies)
    BY <2>2, SlackGrows
  <2>12. Slack(copies)' = z /\ LatestEventTime(windows)' = after
    BY <2>1, <2>9, <2>11 DEF LatestEventTime, IsEmpty, Slack
  <2>13. KeepsUp'
    <3> SUFFICES ASSUME NEW d \in taken'
                 PROVE  /\ d.id \in DOMAIN seen' /\ d.time <= seen'[d.id]
                        /\ lastEventWall' - seen'[d.id] <= LatestEventTime(windows)' - d.time + Slack(copies)'
                        /\ pendingTimer' - seen'[d.id]
                             <= windows'.clock - d.time + Slack(copies)' + Maximum(FirstTick, Tick)
      BY DEF KeepsUp
    <3>1. d \in taken
      BY <2>1
    <3>2. /\ d.id \in DOMAIN seen /\ d.time <= seen[d.id]
          /\ lastEventWall - seen[d.id] <= L - d.time + z
      BY <1>5, <2>3, <2>11, <3>1 DEF KInv, KeepsUp
    <3>3. PICK t \in Nat, s \in Int : t = d.time /\ s = seen[d.id]
      <4>1. d \in Flow /\ seen[d.id] \in 0 .. now
        BY <1>1, <2>2, <3>1, <3>2 DEF JobTyped
      <4> QED
        BY <2>2, <4>1, FlowTypes
    <3>4. lastEventWall - s <= L - t + z
      BY <3>2, <3>3
    <3>5. lastEventWall - s <= after - t + z
      BY <2>2, <2>3, <2>9, <2>11, <3>3, <3>4
    <3>6. timestamp + Tick - s <= w.clock - t + z + m
      BY <2>2, <2>3, <2>5, <2>7, <2>10, <2>11, <3>3, <3>4, ConstantTypes
    <3>7. lastEventWall' - s <= LatestEventTime(windows)' - t + Slack(copies)'
      BY <2>1, <2>2, <2>9, <2>11, <2>12, <3>3, <3>5
    <3>8. pendingTimer' - s <= windows'.clock - t + Slack(copies)' + Maximum(FirstTick, Tick)
      BY <2>1, <2>2, <2>7, <2>10, <2>11, <2>12, <3>3, <3>6, ConstantTypes
    <3> QED
      BY <1>5, <3>2, <3>3, <3>7, <3>8
  <2> QED
    BY <1>1, <1>7, <2>8, <2>13 DEF KInv
<1> QED
  BY <1>8, <1>9

LEMMA NextKInv == KInv /\ [Next]_vars => KInv'
<1> SUFFICES ASSUME KInv, [Next]_vars PROVE KInv'
  OBVIOUS
<1>1. CASE UNCHANGED vars
  <2>1. IInv'
    BY <1>1, NextIInv DEF KInv
  <2> QED
    BY <1>1, <2>1 DEF vars, dedupeVars, viewVars, KInv, SentNumbered, QueueRemembered, NeverEmpty,
                      KeepsUp, IsEmpty, LatestEventTime, Slack
<1>2. ASSUME NEW c \in Flow, Receive(c) PROVE KInv'
  BY <1>2, ReceiveKInv
<1>3. CASE ProcessElement
  BY <1>3, ProcessElementKInv
<1>4. CASE OnTimer
  BY <1>4, OnTimerKInv
<1>5. CASE Pass
  BY <1>5, PassKInv
<1> QED
  BY <1>1, <1>2, <1>3, <1>4, <1>5 DEF Next

LEMMA SpecKInv == Spec => []KInv
BY InitKInv, NextKInv, PTL DEF Spec

-----------------------------------------------------------------------------
(* No flow is counted twice.                                               *)

Once(h) ==
  \A j, k \in DOMAIN h.contributions : h.contributions[j].id = h.contributions[k].id => j = k

LEMMA OnceExpired ==
  ASSUME NEW h, NEW k, HorizonOf(h, k), Once(h), NEW cutoff \in Int,
         NEW v, v = HorizonExpire(h, cutoff)
  PROVE  Once(v)
<1>1. PICK q : q = h.contributions /\ k \in Nat /\ q \in [1 .. k -> Flow] /\ SortedTo(q, k)
  BY DEF HorizonOf
<1>2. PICK n : n = Expiring(q, cutoff)
  OBVIOUS
<1>3. n \in 0 .. k
  BY <1>1, <1>2, ExpiringOK
<1>4. PICK u : u = SubSeq(q, n + 1, Len(q))
  OBVIOUS
<1>5. v.contributions = u
  BY <1>1, <1>2, <1>4 DEF HorizonExpire
<1>6. PartOf(u, q, n, k)
  BY <1>1, <1>3, <1>4, TailIs
<1>7. DOMAIN u = 1 .. k - n /\ \A i \in 1 .. k - n : u[i] = q[n + i] /\ n + i \in DOMAIN q
  BY <1>1, <1>3, <1>6 DEF PartOf
<1>8. ASSUME NEW i \in 1 .. k - n, NEW j \in 1 .. k - n, u[i].id = u[j].id
      PROVE  i = j
  <2>1. n + i = n + j
    BY <1>1, <1>7, <1>8 DEF Once
  <2> QED
    BY <1>3, <2>1
<1> QED
  BY <1>5, <1>7, <1>8 DEF Once

LEMMA OnceAdded ==
  ASSUME NEW h, NEW k, HorizonOf(h, k), Once(h), NEW c \in Flow,
         \A d \in Items(h) : d.id # c.id, NEW v, v = HorizonAdd(h, c)
  PROVE  Once(v)
<1>1. PICK q : q = h.contributions /\ k \in Nat /\ q \in [1 .. k -> Flow] /\ SortedTo(q, k)
  BY DEF HorizonOf
<1>2. PICK p : p = Place(q, c)
  OBVIOUS
<1>3. PICK u : u = Inserted(q, c) /\ v.contributions = u
  BY <1>1, HorizonAdded
<1>4. p \in 0 .. k
  BY <1>1, <1>2, PlaceOK
<1>5. /\ u \in [1 .. k + 1 -> Flow] /\ u[p + 1] = c
      /\ \A i \in 1 .. k : i <= p => u[i] = q[i]
      /\ \A i \in 1 .. k : i > p => u[i + 1] = q[i]
  <2>1. k \in Nat /\ q \in [1 .. k -> Flow] /\ u = Inserted(q, c)
    BY <1>1, <1>3
  <2> QED
    BY <1>2, <1>4, <2>1, InsertedIs
<1> DEFINE old(i) == IF i <= p THEN i ELSE i - 1
<1>6. ASSUME NEW i \in 1 .. k + 1, i # p + 1
      PROVE  old(i) \in 1 .. k /\ u[i] = q[old(i)] /\ u[i].id # c.id
  <2>1. old(i) \in 1 .. k
    BY <1>1, <1>4, <1>6
  <2>2. u[i] = q[old(i)]
    <3>1. CASE i <= p
      BY <1>4, <1>5, <2>1, <3>1
    <3>2. CASE ~(i <= p)
      <4>1. PICK l \in 1 .. k : l = i - 1 /\ l > p /\ l + 1 = i
        BY <1>1, <1>4, <1>6, <3>2
      <4>2. u[l + 1] = q[l]
        BY <1>5, <4>1
      <4> QED
        BY <3>2, <4>1, <4>2
    <3> QED
      BY <3>1, <3>2
  <2>3. q[old(i)] \in Items(h)
    BY <1>1, <2>1, ItemsAre
  <2> QED
    BY <2>1, <2>2, <2>3
<1>7. \A i, j \in 1 .. k : q[i].id = q[j].id => i = j
  BY <1>1 DEF Once
<1>8. ASSUME NEW i \in 1 .. k + 1, NEW j \in 1 .. k + 1, u[i].id = u[j].id
      PROVE  i = j
  <2>1. CASE i = p + 1
    BY <1>5, <1>6, <1>8, <2>1
  <2>2. CASE j = p + 1
    BY <1>5, <1>6, <1>8, <2>2
  <2>3. CASE i # p + 1 /\ j # p + 1
    <3>1. old(i) = old(j)
      <4> HIDE DEF old
      <4> QED
        BY <1>6, <1>7, <1>8, <2>3
    <3> QED
      BY <1>1, <1>4, <2>3, <3>1
  <2> QED
    BY <2>1, <2>2, <2>3
<1>9. DOMAIN u = 1 .. k + 1
  BY <1>5
<1> QED
  BY <1>3, <1>8, <1>9 DEF Once

LEMMA OnceAdvanced ==
  ASSUME NEW w, NEW T \in SUBSET Flow, WindowsOf(w, T), \A i \in 1 .. 2 : Once(w.horizons[i]),
         NEW clock \in Int, NEW v, v = AdvanceTo(w, clock)
  PROVE  \A i \in 1 .. 2 : Once(v.horizons[i])
<1>1. CASE clock <= w.clock
  BY <1>1 DEF AdvanceTo
<1>2. CASE ~(clock <= w.clock)
  <2> SUFFICES ASSUME NEW i \in 1 .. 2 PROVE Once(v.horizons[i])
    OBVIOUS
  <2>1. v.horizons[i] = HorizonExpire(w.horizons[i], clock - Length[i])
    BY <1>2 DEF AdvanceTo
  <2>2. PICK k, h : h = w.horizons[i] /\ HorizonOf(h, k) /\ Once(h)
    BY DEF WindowsOf
  <2>3. PICK cutoff \in Int : cutoff = clock - Length[i]
    BY LengthTypes
  <2> QED
    BY <2>1, <2>2, <2>3, OnceExpired
<1> QED
  BY <1>1, <1>2

(* Counted before, a flow would still be in the long horizon.              *)
LEMMA OnceTaken ==
  ASSUME NEW w, NEW T \in SUBSET Flow, WindowsOf(w, T), \A i \in 1 .. 2 : Once(w.horizons[i]),
         NEW c \in Flow, \A d \in T : d.time > w.clock - LongHorizon => d.id # c.id,
         NEW x, x = WindowsAdd(w, c)
  PROVE  \A i \in 1 .. 2 : Once(x.horizons[i])
<1>1. c.time \in Nat /\ w.clock \in Int
  BY FlowTypes DEF WindowsOf, None
<1>2. PICK m \in Int : m = Maximum(w.clock, c.time)
  BY <1>1 DEF Maximum
<1>3. PICK v : v = AdvanceTo(w, m)
  OBVIOUS
<1>4. /\ WindowsOf(v, T) /\ \A i \in 1 .. 2 : Items(v.horizons[i]) \subseteq Items(w.horizons[i])
      /\ \A i \in 1 .. 2 : Once(v.horizons[i])
  BY <1>3, Advanced, OnceAdvanced
<1>5. x.horizons = [i \in 1 .. 2 |-> IF c.time > v.clock - Length[i]
                                     THEN HorizonAdd(v.horizons[i], c) ELSE v.horizons[i]]
  <2>1. x = [v EXCEPT !.horizons =
              [i \in 1 .. 2 |-> IF c.time > v.clock - Length[i]
                                THEN HorizonAdd(v.horizons[i], c) ELSE v.horizons[i]]]
    BY <1>2, <1>3 DEF WindowsAdd
  <2>2. v = [clock |-> v.clock, horizons |-> v.horizons]
    BY <1>4 DEF WindowsOf
  <2> QED
    BY <2>1, <2>2
<1> SUFFICES ASSUME NEW i \in 1 .. 2 PROVE Once(x.horizons[i])
  OBVIOUS
<1>6. PICK k, h : h = v.horizons[i] /\ HorizonOf(h, k) /\ Once(h)
  BY <1>4 DEF WindowsOf
<1>7. \A d \in Items(h) : d.id # c.id
  <2>1. Items(h) \subseteq {d \in T : d.time > w.clock - Length[i]}
    BY <1>4, <1>6 DEF WindowsOf
  <2>2. Length[i] <= LongHorizon /\ Length[i] \in Int /\ LongHorizon \in Int
    <3>1. i = 1 \/ i = 2
      OBVIOUS
    <3> QED
      BY <3>1, LengthTypes, ViewsAssumption DEF Length, ViewsAssumption
  <2>3. \A d \in T : d.time \in Nat
    BY FlowTypes
  <2>4. \A d \in T : d.time > w.clock - Length[i] => d.time > w.clock - LongHorizon
    BY <1>1, <2>2, <2>3
  <2> QED
    BY <2>1, <2>4
<1>8. Once(HorizonAdd(h, c))
  BY <1>6, <1>7, OnceAdded
<1> QED
  BY <1>5, <1>6, <1>8

(* No flow is counted twice, and none on its way is still counted.         *)
Uncounted(c) == \A d \in taken : d.time > windows.clock - LongHorizon => d.id # c.id

OnceInv ==
  windows # Null =>
    /\ \A i \in 1 .. 2 : Once(windows.horizons[i])
    /\ \A j \in DOMAIN queue : Uncounted(queue[j])

(* When a flow is accepted again, the first copy has left the windows.     *)
LEMMA AcceptedUncounted ==
  ASSUME KInv, windows # Null, NEW c \in Flow, Receive(c), ~Remembers(c.id),
         Slack(IF OldFlow(c) THEN copies + 1 ELSE 0) <= Lateness
  PROVE  Uncounted(c)
<1> SUFFICES ASSUME NEW d \in taken, d.time > windows.clock - LongHorizon, d.id = c.id
             PROVE  FALSE
  BY DEF Uncounted
<1>1. JobTyped /\ WindowsKnown /\ TimerKnown
  BY DEF KInv, IInv
<1>2. d \in sent /\ d \in Flow /\ copies \in Nat /\ now \in Nat
  BY <1>1, ConstantTypes DEF JobTyped
<1>3. d.id \in DOMAIN seen /\ d.time <= seen[d.id]
  BY DEF KInv, KeepsUp
<1>4. PICK t \in Nat, s \in Nat : t = d.time /\ s = seen[d.id] /\ t <= s
  BY <1>1, <1>2, <1>3, FlowTypes DEF JobTyped
<1>5. PICK long \in Nat, late \in Nat : long = LongHorizon /\ late = Lateness /\ long # 0
  BY ViewsAssumption DEF ViewsAssumption
<1>6. now - s >= long + late
  <2>1. ~(now - seen[d.id] < Retention)
    BY <1>3 DEF Remembers
  <2>2. ~(now - s < long + late)
    BY <1>4, <1>5, <2>1 DEF Retention
  <2> QED
    BY <1>2, <1>4, <1>5, <2>2
<1>7. CASE OldFlow(c)
  <2>1. PICK m \in Nat : m = Maximum(FirstTick, Tick)
    BY ConstantTypes DEF Maximum
  <2>2. PICK a \in Nat : a = Slack(copies)
    BY <1>2, SlackGrows
  <2>3. TimerDelay \in Nat /\ Slack(copies + 1) = a + m + TimerDelay /\ Slack(copies + 1) <= late
    BY <1>2, <1>5, <1>7, <2>1, <2>2, SlackGrows, ConstantTypes
  <2>4. PICK timer \in Nat, clock \in Nat : timer = pendingTimer /\ clock = windows.clock
    BY <1>1 DEF WindowsKnown, TimerKnown
  <2>5. now <= timer + TimerDelay
    BY <1>1, <2>4 DEF TimerKnown
  <2>6. timer - s <= clock - t + a + m
    BY <1>4, <2>1, <2>2, <2>4 DEF KInv, KeepsUp
  <2>7. t > clock - long
    BY <1>4, <1>5, <2>4
  <2> QED
    BY <1>2, <1>4, <1>5, <1>6, <2>1, <2>2, <2>3, <2>4, <2>5, <2>6, <2>7
<1>8. CASE ~OldFlow(c)
  <2>1. PICK lag \in Nat : lag = MaxLag /\ lag <= late
    BY <1>5, <1>8, SlackGrows, ViewsAssumption DEF ViewsAssumption
  <2>2. c.time \in Nat /\ c.time >= now - lag
    <3>1. c.time \in Nat
      BY FlowTypes
    <3> QED
      BY <1>2, <1>8, <2>1, <3>1 DEF OldFlow
  <2>3. CASE c \in sent
    <3>1. c = d
      BY <1>2, <2>3 DEF KInv, SentNumbered
    <3>2. t >= now - lag
      BY <1>4, <2>2, <3>1
    <3> QED
      BY <1>2, <1>4, <1>5, <1>6, <2>1, <3>2
  <2>4. CASE c \notin sent
    <3>1. c.id = Cardinality(sent) + 1
      BY <2>4 DEF Receive
    <3>2. d.id <= Cardinality(sent) /\ Cardinality(sent) \in Nat
      BY <1>2, FS_CardinalityType DEF KInv, SentNumbered
    <3> QED
      BY <3>1, <3>2
  <2> QED
    BY <2>3, <2>4
<1> QED
  BY <1>7, <1>8

LEMMA ReceiveOnce ==
  ASSUME KInv, OnceInv, CopiesAreFew', NEW c \in Flow, Receive(c)
  PROVE  OnceInv'
<1>1. JobTyped
  BY DEF KInv, IInv
<1>2. UNCHANGED <<now, windows, taken, copies>>
  BY DEF Receive, viewVars
<1>3. SUFFICES ASSUME windows # Null, NEW j \in DOMAIN queue' PROVE Uncounted(queue'[j])
  BY <1>2 DEF OnceInv, Uncounted
<1>4. CASE queue' = queue
  BY <1>3, <1>4 DEF OnceInv
<1>5. CASE queue' # queue
  <2>1. queue' = Append(queue, c) /\ ~Remembers(c.id)
    BY <1>5 DEF Receive
  <2>2. PICK n \in Nat : n = Len(queue) /\ DOMAIN queue = 1 .. n
    BY <1>1, QueueTypes
  <2>3. DOMAIN queue' = 1 .. n + 1 /\ queue'[n + 1] = c /\ \A i \in 1 .. n : queue'[i] = queue[i]
    <3>1. queue \in Seq(sent \cup {c}) /\ c \in sent \cup {c}
      <4>1. sent \subseteq sent \cup {c}
        OBVIOUS
      <4> QED
        BY <1>1, <4>1, SeqMonotonic DEF JobTyped
    <3>2. /\ Append(queue, c) \in Seq(sent \cup {c}) /\ Len(Append(queue, c)) = n + 1
          /\ \A i \in 1 .. n : Append(queue, c)[i] = queue[i]
          /\ Append(queue, c)[n + 1] = c
      BY <2>2, <3>1, AppendProperties
    <3>3. DOMAIN Append(queue, c) = 1 .. n + 1
      BY <3>2, LenProperties
    <3> QED
      BY <2>1, <3>2, <3>3
  <2>4. CASE j = n + 1
    <3>1. Slack(IF OldFlow(c) THEN copies + 1 ELSE 0) <= Lateness
      BY <1>2, <2>3, <2>4 DEF CopiesAreFew, OldFlow, Slack
    <3>2. Uncounted(c)
      BY <1>3, <2>1, <3>1, AcceptedUncounted
    <3> QED
      BY <2>3, <2>4, <3>2
  <2>5. CASE j # n + 1
    <3>1. j \in 1 .. n
      BY <1>3, <2>3, <2>5
    <3> QED
      BY <1>3, <2>2, <2>3, <3>1 DEF OnceInv
  <2> QED
    BY <2>4, <2>5
<1> QED
  BY <1>4, <1>5

LEMMA ProcessElementOnce ==
  ASSUME KInv, OnceInv, ProcessElement
  PROVE  OnceInv'
<1>1. JobTyped
  BY DEF KInv, IInv
<1>2. PICK c : c = Head(queue)
  OBVIOUS
<1>3. PICK w : w = IF windows = Null THEN NewWindows ELSE windows
  OBVIOUS
<1>4. PICK v : v = WindowsAdd(w, c)
  OBVIOUS
<1>5. PICK T : T = IF windows = Null THEN {} ELSE taken
  OBVIOUS
<1>6. queue # <<>> /\ queue' = Tail(queue) /\ windows' = v /\ taken' = T \cup {c}
  BY <1>2, <1>3, <1>4, <1>5 DEF ProcessElement
<1>7. PICK n \in Nat : DOMAIN queue = 1 .. n /\ n # 0 /\ Len(queue) = n
  <2>1. queue \in Seq(sent)
    BY <1>1 DEF JobTyped
  <2>2. Len(queue) \in Nat /\ DOMAIN queue = 1 .. Len(queue) /\ Len(queue) # 0
    BY <1>1, <1>6, <2>1, QueueTypes, EmptySeq
  <2> QED
    BY <2>2
<1>8. /\ c = queue[1] /\ DOMAIN Tail(queue) = 1 .. n - 1
      /\ \A i \in 1 .. n - 1 : Tail(queue)[i] = queue[i + 1]
  <2>1. queue \in Seq(sent)
    BY <1>1 DEF JobTyped
  <2>2. /\ Tail(queue) \in Seq(sent) /\ Len(Tail(queue)) = n - 1
        /\ \A i \in 1 .. n - 1 : Tail(queue)[i] = queue[i + 1]
    BY <1>6, <1>7, <2>1, HeadTailProperties
  <2>3. DOMAIN Tail(queue) = 1 .. n - 1
    BY <2>2, LenProperties
  <2>4. Head(queue) = queue[1]
    BY <1>6, <1>7, <2>1
  <2> QED
    BY <1>2, <2>2, <2>3, <2>4
<1>9. c \in Flow /\ T \in SUBSET Flow
  <2>1. 1 \in DOMAIN queue
    BY <1>7
  <2>2. c \in Flow
    BY <1>1, <1>8, <2>1, QueueTypes
  <2> QED
    BY <1>1, <1>5, <2>2 DEF JobTyped
<1>10. WindowsOf(w, T) /\ \A i \in 1 .. 2 : Once(w.horizons[i])
  <2>1. CASE windows = Null
    <3>1. w = NewWindows /\ T = {}
      BY <1>3, <1>5, <2>1
    <3>2. DOMAIN <<>> = {}
      OBVIOUS
    <3>3. Once(EmptyHorizon)
      BY <3>2 DEF Once, EmptyHorizon
    <3> QED
      BY <3>1, <3>3, NewIs DEF NewWindows
  <2>2. CASE windows # Null
    BY <1>3, <1>5, <2>2 DEF KInv, IInv, WindowsKnown, OnceInv
  <2> QED
    BY <2>1, <2>2
<1>11. \A j \in 1 .. n : \A d \in T : d.time > w.clock - LongHorizon => d.id # queue[j].id
  BY <1>3, <1>5, <1>7 DEF OnceInv, Uncounted
<1>12. \A i \in 1 .. 2 : Once(v.horizons[i])
  <2>1. 1 \in 1 .. n
    BY <1>7
  <2>2. \A d \in T : d.time > w.clock - LongHorizon => d.id # c.id
    BY <1>8, <1>11, <2>1
  <2> QED
    BY <1>4, <1>9, <1>10, <2>2, OnceTaken
<1>13. v.clock \in Int /\ w.clock \in Int /\ w.clock <= v.clock /\ LongHorizon \in Int
  <2>1. v.clock = Maximum(w.clock, c.time)
    BY <1>4, <1>9, <1>10, WindowsAdded
  <2>2. w.clock \in Int /\ c.time \in Int
    BY <1>9, <1>10, FlowTypes DEF WindowsOf, None
  <2> QED
    BY <2>1, <2>2, ViewsAssumption DEF Maximum, ViewsAssumption
<1>14. ASSUME NEW j \in 1 .. n - 1, NEW d \in T \cup {c}, d.time > v.clock - LongHorizon
       PROVE  d.id # queue'[j].id
  <2>1. PICK i \in 1 .. n : i = j + 1 /\ queue'[j] = queue[i] /\ i # 1
    BY <1>6, <1>8
  <2>2. CASE d = c
    <3>1. queue[1].id # queue[i].id
      <4>1. 1 \in DOMAIN queue /\ i \in DOMAIN queue
        BY <1>7
      <4> QED
        BY <2>1, <4>1 DEF KInv, QueueRemembered
    <3> QED
      BY <1>8, <2>1, <2>2, <3>1
  <2>3. CASE d \in T
    <3>1. d.time \in Int
      <4>1. d \in Flow
        BY <1>9, <2>3
      <4> QED
        BY <4>1, FlowTypes
    <3>2. d.time > w.clock - LongHorizon
      BY <1>13, <1>14, <3>1
    <3> QED
      BY <1>11, <2>1, <2>3, <3>2
  <2> QED
    BY <2>2, <2>3
<1>15. DOMAIN queue' = 1 .. n - 1
  BY <1>6, <1>8
<1> QED
  BY <1>6, <1>12, <1>14, <1>15 DEF OnceInv, Uncounted

LEMMA OnTimerOnce ==
  ASSUME KInv, OnceInv, OnTimer
  PROVE  OnceInv'
<1>1. JobTyped /\ WindowsKnown /\ TimerKnown
  BY DEF KInv, IInv
<1>2. PICK at : at = SilentClock(windows, pendingTimer)
  OBVIOUS
<1>3. PICK w : w = AdvanceTo(windows, at)
  OBVIOUS
<1>4. pendingTimer # None /\ windows # Null /\ queue' = queue
  BY DEF OnTimer
<1>5. windows' = Null \/ (windows' = w /\ taken' = taken)
  BY <1>2, <1>3 DEF OnTimer
<1>6. WindowsOf(windows, taken) /\ windows.clock \in Nat /\ taken \in SUBSET Flow
  BY <1>1, <1>4 DEF WindowsKnown, JobTyped
<1>7. at \in Int
  <2>1. LatestEventTime(windows) \in Int
    BY <1>6, LatestBounds
  <2>2. pendingTimer \in Int /\ lastEventWall \in Int
    BY <1>1 DEF TimerKnown, JobTyped, None
  <2> QED
    BY <1>2, <2>1, <2>2 DEF SilentClock, Maximum
<1>8. WindowsOf(w, taken) /\ w.clock = Maximum(windows.clock, at) /\ \A i \in 1 .. 2 : Once(w.horizons[i])
  <2>1. \A i \in 1 .. 2 : Once(windows.horizons[i])
    BY <1>4 DEF OnceInv
  <2> QED
    BY <1>3, <1>6, <1>7, <2>1, Advanced, OnceAdvanced
<1>9. w.clock \in Int /\ windows.clock <= w.clock /\ LongHorizon \in Int
  BY <1>6, <1>7, <1>8, ViewsAssumption DEF Maximum, ViewsAssumption
<1>10. ASSUME NEW j \in DOMAIN queue, NEW d \in taken, d.time > w.clock - LongHorizon
       PROVE  d.id # queue[j].id
  <2>1. d.time \in Int
    <3>1. d \in Flow
      BY <1>6
    <3> QED
      BY <3>1, FlowTypes
  <2>2. d.time > windows.clock - LongHorizon
    BY <1>6, <1>9, <1>10, <2>1
  <2> QED
    BY <1>4, <2>2 DEF OnceInv, Uncounted
<1> QED
  BY <1>4, <1>5, <1>8, <1>10 DEF OnceInv, Uncounted

LEMMA NextOnce == KInv /\ OnceInv /\ CopiesAreFew' /\ [Next]_vars => OnceInv'
<1> SUFFICES ASSUME KInv, OnceInv, CopiesAreFew', [Next]_vars PROVE OnceInv'
  OBVIOUS
<1>1. CASE UNCHANGED vars
  BY <1>1 DEF vars, dedupeVars, viewVars, OnceInv, Uncounted
<1>2. ASSUME NEW c \in Flow, Receive(c) PROVE OnceInv'
  BY <1>2, ReceiveOnce
<1>3. CASE ProcessElement
  BY <1>3, ProcessElementOnce
<1>4. CASE OnTimer
  BY <1>4, OnTimerOnce
<1>5. CASE Pass
  <2>1. UNCHANGED <<queue, windows, taken>>
    BY <1>5 DEF Pass, viewVars
  <2> QED
    BY <2>1 DEF OnceInv, Uncounted
<1> QED
  BY <1>1, <1>2, <1>3, <1>4, <1>5 DEF Next

(* No flow is counted twice as long as the lateness makes up for the old   *)
(* flows added in a row (DedupeAndLateness retention, RollingViews.onTimer *)
(* and schedule).                                                          *)
THEOREM EachIsCountedOnce == Spec /\ []CopiesAreFew => []CountedOnce
<1>1. Init => OnceInv
  BY DEF Init, OnceInv
<1>2. OnceInv => CountedOnce
  BY DEF OnceInv, Once, CountedOnce
<1>3. Spec => [][Next]_vars /\ Init
  BY DEF Spec
<1> QED
  BY <1>1, <1>2, <1>3, NextOnce, SpecKInv, PTL

-----------------------------------------------------------------------------
(* How far the clock of the windows may run ahead.                         *)

LEMMA KInvClockNearWall == KInv => ClockNearWall
<1> SUFFICES ASSUME KInv, windows # Null PROVE windows.clock < now + LongHorizon
  BY DEF ClockNearWall
<1>1. /\ WindowsOf(windows, taken) /\ windows.clock \in Nat /\ ~IsEmpty(windows)
      /\ taken \subseteq sent /\ sent \subseteq Flow /\ now \in 0 .. MaxNow
  BY DEF KInv, IInv, WindowsKnown, NeverEmpty, JobTyped
<1>2. PICK i \in 1 .. 2 : \E d \in taken : d.time > windows.clock - Length[i]
  BY <1>1, ItemIn
<1>3. PICK d \in taken : d.time > windows.clock - Length[i]
  BY <1>2
<1>4. Length[i] \in Nat /\ Length[i] <= LongHorizon
  BY <1>2, ViewsAssumption DEF Length, ViewsAssumption
<1>5. d.time \in Nat /\ d.time <= now
  BY <1>1, <1>3, FlowTypes DEF KInv, SentNumbered
<1>6. PICK l : l = Length[i]
  OBVIOUS
<1> QED
  BY <1>1, <1>3, <1>4, <1>5, <1>6, ConstantTypes

(* The clock of the windows passes the wall clock (ClockBehindWall fails), *)
(* but by less than the long horizon: evidence that would be left behind   *)
(* takes the windows with it (RollingViews.onTimer, isEmpty).              *)
THEOREM ClockStaysNear == Spec => []ClockNearWall
BY SpecKInv, KInvClockNearWall, PTL
=============================================================================
