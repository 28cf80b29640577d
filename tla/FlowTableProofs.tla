-------------------------- MODULE FlowTableProofs --------------------------
(***************************************************************************)
(* Proofs about the flow table and the sensor around it, for any capacity, *)
(* timeouts, connections and frames.                                       *)
(***************************************************************************)
EXTENDS FlowTable, FiniteSetTheorems, TLAPS

-----------------------------------------------------------------------------
(* Types.                                                                  *)

Micro ==
  [first : Nat, last : Nat, direction : Direction, packets : Nat,
   initiatingSyn : BOOLEAN, established : BOOLEAN, rejected : BOOLEAN]

FlowRecord ==
  [key : FlowKey, flow : Micro, outcome : {"established", "rejected", "unanswered", "n/a"},
   continuation : BOOLEAN]

LEMMA ConstantTypes ==
  /\ Capacity \in Nat \ {0} /\ IdleTimeout \in Nat \ {0} /\ ActiveTimeout \in Nat \ {0}
  /\ TTL \in Nat /\ None \notin Direction
BY FlowTableAssumption DEF FlowTableAssumption

LEMMA RecordedFields ==
  ASSUME NEW m \in Micro, NEW k, NEW f, NEW t \in Nat
  PROVE  LET r == Recorded(m, k, f, t) IN
         /\ r \in Micro /\ r.packets = m.packets + 1 /\ r.direction = m.direction
         /\ r.last = IF t > m.last THEN t ELSE m.last
<1>1. PICK e \in BOOLEAN : e = (m.established \/ IsAnswer(m, k, f))
  BY Zenon
<1>2. PICK s \in BOOLEAN : s = (m.initiatingSyn \/ (f.kind = "syn" /\ FromInitiator(m, k, f)))
  BY Zenon
<1>3. PICK j \in BOOLEAN :
        j = (m.rejected \/ (f.kind = "rst" /\ ~FromInitiator(m, k, f)) \/ f.kind = "unreachable")
  BY Zenon
<1>4. PICK a \in Nat, b \in Nat, n \in Nat :
        /\ a = (IF t < m.first THEN t ELSE m.first)
        /\ b = (IF t > m.last THEN t ELSE m.last)
        /\ n = m.packets + 1
  BY DEF Micro
<1>5. Recorded(m, k, f, t) =
        [m EXCEPT !.first = a, !.last = b, !.packets = n, !.established = e,
                  !.initiatingSyn = s, !.rejected = j]
  BY <1>1, <1>2, <1>3, <1>4 DEF Recorded, Micro
<1> QED
  BY <1>4, <1>5 DEF Micro

LEMMA NewFlowType ==
  ASSUME NEW k, NEW f, NEW t \in Nat, NEW known \in Direction \cup {None},
         NEW m, m = NewFlow(k, f, t, known)
  PROVE  m \in Micro
<1>1. Guess(k, f) \in Direction
  BY DEF Guess, Sender, Opposite, Direction
<1>2. PICK d \in Direction : d = IF known = None THEN Guess(k, f) ELSE known
  BY <1>1
<1>3. PICK b \in BOOLEAN : b = FALSE
  BY Zenon
<1>4. NewFlow(k, f, t, known) =
        [first |-> t, last |-> t, direction |-> d, packets |-> 0,
         initiatingSyn |-> b, established |-> b, rejected |-> b]
  BY <1>2, <1>3 DEF NewFlow
<1> QED
  BY <1>2, <1>4 DEF Micro

(* The records of a micro-flow. *)
LEMMA RecordType ==
  ASSUME NEW k \in FlowKey, NEW m \in Micro, NEW c \in BOOLEAN
  PROVE  [key |-> k, flow |-> m, outcome |-> Outcome(m), continuation |-> c] \in FlowRecord
<1>1. Outcome(m) \in {"established", "rejected", "unanswered", "n/a"}
  BY DEF Outcome
<1> QED
  BY <1>1 DEF FlowRecord

-----------------------------------------------------------------------------
(* The packets in a sequence of records.                                   *)

Marks(s, k) ==
  UNION {{i} \X (1..s[i].flow.packets) : i \in {j \in DOMAIN s : s[j].key = k}}

LEMMA MarksMember ==
  ASSUME NEW s \in Seq(FlowRecord), NEW k
  PROVE  \A x : x \in Marks(s, k) <=>
           \E i \in 1 .. Len(s), n \in Nat :
             n \in 1 .. s[i].flow.packets /\ s[i].key = k /\ x = <<i, n>>
<1>1. DOMAIN s = 1 .. Len(s)
  OBVIOUS
<1> QED
  BY <1>1 DEF Marks

LEMMA RecordPackets ==
  ASSUME NEW s \in Seq(FlowRecord), NEW i \in 1 .. Len(s)
  PROVE  s[i].flow.packets \in Nat
<1>1. s[i] \in FlowRecord
  OBVIOUS
<1> QED
  BY <1>1 DEF FlowRecord, Micro

LEMMA MarksFinite ==
  ASSUME NEW s \in Seq(FlowRecord), NEW k
  PROVE  IsFiniteSet(Marks(s, k)) /\ PacketsIn(s, k) = Cardinality(Marks(s, k))
         /\ PacketsIn(s, k) \in Nat
<1> DEFINE J == {j \in DOMAIN s : s[j].key = k}
           G == [i \in J |-> {i} \X (1..s[i].flow.packets)]
<1>1. DOMAIN s = 1 .. Len(s) /\ Len(s) \in Nat
  OBVIOUS
<1>2. IsFiniteSet(J)
  <2>1. IsFiniteSet(1 .. Len(s))
    BY <1>1, FS_Interval
  <2>2. J \in SUBSET (1 .. Len(s))
    BY <1>1
  <2> QED
    BY <2>1, <2>2, FS_Subset
<1>3. IsFiniteSet({G[i] : i \in J})
  <2>1. G \in Surjection(J, {G[i] : i \in J})
    BY DEF Surjection
  <2> QED
    BY <1>2, <2>1, FS_Surjection DEF ExistsSurjection
<1>4. \A i \in J : IsFiniteSet(G[i])
  <2> TAKE i \in J
  <2>1. s[i].flow.packets \in Nat
    BY <1>1, RecordPackets
  <2>2. IsFiniteSet(1 .. s[i].flow.packets) /\ IsFiniteSet({i})
    <3>1. PICK b \in Int : b = s[i].flow.packets
      BY <2>1
    <3>2. IsFiniteSet(1 .. b)
      BY FS_Interval
    <3> QED
      BY <3>1, <3>2, FS_Singleton
  <2>3. IsFiniteSet({i} \X (1 .. s[i].flow.packets))
    BY <2>2, FS_Product
  <2> QED
    BY <2>3
<1>5. Marks(s, k) = UNION {G[i] : i \in J}
  BY DEF Marks
<1>6. IsFiniteSet(Marks(s, k))
  <2>1. \A T \in {G[i] : i \in J} : IsFiniteSet(T)
    BY <1>4
  <2>2. IsFiniteSet(UNION {G[i] : i \in J})
    BY <1>3, <2>1, FS_UNION
  <2> QED
    BY <1>5, <2>2
<1>7. PacketsIn(s, k) = Cardinality(Marks(s, k))
  BY DEF PacketsIn, Marks
<1> QED
  BY <1>6, <1>7, FS_CardinalityType

LEMMA NoPackets == \A k : PacketsIn(<<>>, k) = 0
<1> TAKE k
<1>1. Marks(<<>>, k) = {}
  BY DEF Marks
<1> QED
  BY <1>1, FS_EmptySet DEF PacketsIn, Marks

(* Records of other keys add nothing, one of the key adds its packets. *)
LEMMA PacketsAdd ==
  ASSUME NEW s \in Seq(FlowRecord), NEW w \in Seq(FlowRecord), NEW k, NEW p \in Nat,
         \/ p = 0 /\ \A i \in 1 .. Len(w) : w[i].key # k
         \/ \E j \in 1 .. Len(w) :
              /\ w[j].key = k /\ p = w[j].flow.packets
              /\ \A i \in 1 .. Len(w) : w[i].key = k => i = j
  PROVE  PacketsIn(s \o w, k) = PacketsIn(s, k) + p
<1> DEFINE u == s \o w
<1>1. /\ u \in Seq(FlowRecord) /\ Len(u) = Len(s) + Len(w) /\ Len(s) \in Nat /\ Len(w) \in Nat
      /\ \A i \in 1 .. Len(s) : u[i] = s[i]
      /\ \A i \in 1 .. Len(w) : u[Len(s) + i] = w[i]
  OBVIOUS
<1> HIDE DEF u
<1>2. CASE p = 0 /\ \A i \in 1 .. Len(w) : w[i].key # k
  <2>1. ASSUME NEW i \in 1 .. Len(u), u[i].key = k
        PROVE  i \in 1 .. Len(s) /\ s[i] = u[i]
    <3>1. CASE i <= Len(s)
      BY <1>1, <3>1
    <3>2. CASE i > Len(s)
      <4>1. PICK e \in 1 .. Len(w) : i = Len(s) + e
        <5>1. i \in Nat /\ i <= Len(s) + Len(w)
          BY <1>1
        <5>2. i - Len(s) \in 1 .. Len(w) /\ i = Len(s) + (i - Len(s))
          BY <1>1, <3>2, <5>1
        <5> QED
          BY <5>2
      <4>2. u[i] = w[e]
        BY <1>1, <4>1
      <4> QED
        BY <1>2, <2>1, <4>2
    <3> QED
      BY <1>1, <3>1, <3>2
  <2>2. \A x : x \in Marks(u, k) <=> x \in Marks(s, k)
    <3> TAKE x
    <3>1. ASSUME x \in Marks(u, k) PROVE x \in Marks(s, k)
      <4>1. PICK i \in 1 .. Len(u), n \in Nat :
              n \in 1 .. u[i].flow.packets /\ u[i].key = k /\ x = <<i, n>>
        BY <1>1, <3>1, MarksMember
      <4> QED
        BY <2>1, <4>1, MarksMember
    <3>2. ASSUME x \in Marks(s, k) PROVE x \in Marks(u, k)
      <4>1. PICK i \in 1 .. Len(s), n \in Nat :
              n \in 1 .. s[i].flow.packets /\ s[i].key = k /\ x = <<i, n>>
        BY <3>2, MarksMember
      <4>2. i \in 1 .. Len(u) /\ u[i] = s[i]
        BY <1>1, <4>1
      <4> QED
        BY <1>1, <4>1, <4>2, MarksMember
    <3> QED
      BY <3>1, <3>2
  <2>3. Marks(u, k) = Marks(s, k)
    BY <2>2
  <2>4. PacketsIn(u, k) = PacketsIn(s, k) /\ PacketsIn(s, k) \in Nat
    BY <1>1, <2>3, MarksFinite
  <2> QED
    BY <1>2, <2>4 DEF u
<1>3. ASSUME NEW j \in 1 .. Len(w), w[j].key = k, p = w[j].flow.packets,
             \A i \in 1 .. Len(w) : w[i].key = k => i = j
      PROVE  PacketsIn(u, k) = PacketsIn(s, k) + p
  <2> DEFINE q == Len(s) + j
             M == {q} \X (1 .. p)
  <2>1. q \in 1 .. Len(u) /\ q > Len(s) /\ u[q] = w[j]
    BY <1>1
  <2>2. ASSUME NEW i \in 1 .. Len(u), u[i].key = k, i # q
        PROVE  i \in 1 .. Len(s) /\ s[i] = u[i]
    <3>1. CASE i <= Len(s)
      BY <1>1, <3>1
    <3>2. CASE i > Len(s)
      <4>1. PICK e \in 1 .. Len(w) : i = Len(s) + e
        <5>1. i \in Nat /\ i <= Len(s) + Len(w)
          BY <1>1
        <5>2. i - Len(s) \in 1 .. Len(w) /\ i = Len(s) + (i - Len(s))
          BY <1>1, <3>2, <5>1
        <5> QED
          BY <5>2
      <4>2. u[i] = w[e] /\ e # j
        BY <1>1, <2>2, <4>1
      <4> QED
        BY <1>3, <2>2, <4>2
    <3> QED
      BY <1>1, <3>1, <3>2
  <2>3. \A x : x \in Marks(u, k) <=> x \in Marks(s, k) \/ x \in M
    <3> TAKE x
    <3>1. ASSUME x \in Marks(u, k) PROVE x \in Marks(s, k) \/ x \in M
      <4>1. PICK i \in 1 .. Len(u), n \in Nat :
              n \in 1 .. u[i].flow.packets /\ u[i].key = k /\ x = <<i, n>>
        BY <1>1, <3>1, MarksMember
      <4>2. CASE i = q
        BY <1>3, <2>1, <4>1, <4>2
      <4>3. CASE i # q
        BY <2>2, <4>1, <4>3, MarksMember
      <4> QED
        BY <4>2, <4>3
    <3>2. ASSUME x \in Marks(s, k) PROVE x \in Marks(u, k)
      <4>1. PICK i \in 1 .. Len(s), n \in Nat :
              n \in 1 .. s[i].flow.packets /\ s[i].key = k /\ x = <<i, n>>
        BY <3>2, MarksMember
      <4>2. i \in 1 .. Len(u) /\ u[i] = s[i]
        BY <1>1, <4>1
      <4> QED
        BY <1>1, <4>1, <4>2, MarksMember
    <3>3. ASSUME x \in M PROVE x \in Marks(u, k)
      <4>1. PICK n \in 1 .. p : x = <<q, n>>
        BY <3>3
      <4>2. n \in Nat /\ n \in 1 .. u[q].flow.packets /\ u[q].key = k
        BY <1>3, <2>1, <4>1
      <4>3. \E i \in 1 .. Len(u), e \in Nat :
              e \in 1 .. u[i].flow.packets /\ u[i].key = k /\ x = <<i, e>>
        BY <2>1, <4>1, <4>2
      <4> QED
        BY <1>1, <4>3, MarksMember
    <3> QED
      BY <3>1, <3>2, <3>3
  <2>4. Marks(u, k) = Marks(s, k) \cup M
    BY <2>3
  <2>5. Marks(s, k) \cap M = {}
    <3> SUFFICES ASSUME NEW x, x \in Marks(s, k), x \in M PROVE FALSE
      OBVIOUS
    <3>1. PICK i \in 1 .. Len(s), n \in Nat :
              n \in 1 .. s[i].flow.packets /\ s[i].key = k /\ x = <<i, n>>
      BY MarksMember
    <3>2. PICK e \in 1 .. p : x = <<q, e>>
      OBVIOUS
    <3>3. i = q
      BY <3>1, <3>2
    <3> QED
      BY <1>1, <2>1, <3>1, <3>3
  <2>6. IsFiniteSet(M) /\ Cardinality(M) = p
    <3>1. IsFiniteSet({q}) /\ Cardinality({q}) = 1
      BY FS_Singleton
    <3>2. IsFiniteSet(1 .. p) /\ Cardinality(1 .. p) = p
      <4>1. 1 \in Int /\ p \in Int
        OBVIOUS
      <4>2. IsFiniteSet(1 .. p) /\ Cardinality(1 .. p) = IF 1 > p THEN 0 ELSE p - 1 + 1
        BY <4>1, FS_Interval, Zenon
      <4> QED
        BY <4>2
    <3>3. IsFiniteSet(M) /\ Cardinality(M) = 1 * p
      <4>1. IsFiniteSet({q} \X (1 .. p)) /\ Cardinality({q} \X (1 .. p)) = Cardinality({q}) * Cardinality(1 .. p)
        BY <3>1, <3>2, FS_Product, Zenon
      <4> QED
        BY <3>1, <3>2, <4>1
    <3> QED
      BY <3>3
  <2> HIDE DEF M, q
  <2>7. IsFiniteSet(Marks(s, k)) /\ PacketsIn(s, k) = Cardinality(Marks(s, k)) /\ PacketsIn(s, k) \in Nat
    BY MarksFinite
  <2>8. Cardinality(Marks(s, k) \cup M) = Cardinality(Marks(s, k)) + Cardinality(M) - Cardinality({})
    BY <2>5, <2>6, <2>7, FS_Union
  <2>9. PacketsIn(u, k) = Cardinality(Marks(s, k) \cup M)
    BY <1>1, <2>4, MarksFinite
  <2> QED
    BY <2>6, <2>7, <2>8, <2>9, FS_EmptySet
<1> QED
  BY <1>2, <1>3 DEF u

-----------------------------------------------------------------------------
(* The inductive invariant.                                                *)

(* The shape of a table. *)
TableOK(T) ==
  /\ T = [entries |-> T.entries, recent |-> T.recent, out |-> T.out]
  /\ DOMAIN T.entries \subseteq FlowKey /\ IsFiniteSet(DOMAIN T.entries)
  /\ T.entries \in [DOMAIN T.entries -> Micro]
  /\ DOMAIN T.recent \subseteq FlowKey
  /\ T.recent \in [DOMAIN T.recent -> [direction : Direction, flushed : Nat]]
  /\ T.out \in Seq(FlowRecord)

(* The frames of k a table holds. *)
InTable(T, k) ==
  PacketsIn(T.out, k) + (IF k \in DOMAIN T.entries THEN T.entries[k].packets ELSE 0)

(* What a table knows of key k when n frames of it were seen, the last at  *)
(* time s, and e of them emitted, the oriented keys being O and the time t:*)
(* it holds the others, and forgets an oriented key only after its TTL.    *)
KeyOK(T, k, n, e, s, O, t) ==
  /\ n = e + InTable(T, k)
  /\ k \in DOMAIN T.entries =>
       n # 0 /\ T.entries[k].last = s /\ (k \in O => T.entries[k].direction = Initiator(k))
  /\ k \in DOMAIN T.recent =>
       /\ n # 0
       /\ k \in O => T.recent[k].direction = Initiator(k)
       /\ k \notin DOMAIN T.entries => T.recent[k].flushed = s
  /\ (k \in O /\ k \notin DOMAIN T.entries /\ k \notin DOMAIN T.recent) => t - s >= TTL

Counter == {"unattributed", "evictions"}

ClockInv ==
  /\ now \in Nat /\ lastTime \in Nat /\ lastTime <= now
  /\ seen \in [FlowKey -> Nat] /\ emitted \in [FlowKey -> Nat] /\ lastSeen \in [FlowKey -> Nat]
  /\ \A k \in FlowKey : lastSeen[k] <= lastTime

TableInv ==
  /\ TableOK(Table)
  /\ \A k \in FlowKey : KeyOK(Table, k, seen[k], emitted[k], lastSeen[k], oriented, now)
  /\ ~capturing => DOMAIN entries = {} /\ out = <<>>

CountInv ==
  /\ capturing \in BOOLEAN
  /\ stats \in [Counter -> Nat] /\ reported \in [Counter -> Nat]
  /\ announced = reported
  /\ \A c \in Counter : reported[c] <= stats[c]
  /\ ~capturing => reported = stats

FlowInv == ClockInv /\ TableInv /\ CountInv

-----------------------------------------------------------------------------
(* Closing flows.                                                          *)

(* The orders in which a set of open flows is closed. *)
Orders(T) == {o \in Seq(DOMAIN T.entries) : \A i, j \in 1 .. Len(o) : i # j => o[i] # o[j]}

LEMMA OneOrder ==
  ASSUME NEW T, NEW v \in DOMAIN T.entries
  PROVE  <<v>> \in Orders(T) /\ Range(<<v>>) = {v}
<1> DEFINE o == <<v>>
<1>1. Len(o) = 1 /\ o[1] = v
  OBVIOUS
<1>2. o \in Seq(DOMAIN T.entries)
  <2>1. PICK S : S = DOMAIN T.entries
    OBVIOUS
  <2>2. v \in S
    BY <2>1
  <2>3. o \in Seq(S)
    BY <2>2
  <2> QED
    BY <2>1, <2>3
<1>3. DOMAIN o = 1 .. Len(o)
  BY <1>2
<1>4. 1 .. 1 = {1}
  OBVIOUS
<1> HIDE DEF o
<1>5. Range(o) = {v}
  BY <1>1, <1>3, <1>4 DEF Range
<1>6. \A i, j \in 1 .. Len(o) : i # j => o[i] # o[j]
  BY <1>1, <1>4
<1> QED
  BY <1>2, <1>5, <1>6 DEF Orders, o

LEMMA SetOrder ==
  ASSUME NEW T, TableOK(T), NEW K \in SUBSET DOMAIN T.entries, NEW o \in SetToSeqs(K)
  PROVE  o \in Orders(T) /\ Range(o) = K
<1> DEFINE D == 1 .. Cardinality(K)
<1>1. IsFiniteSet(K)
  BY FS_Subset DEF TableOK
<1>2. Cardinality(K) \in Nat
  BY <1>1, FS_CardinalityType
<1>3. o \in [D -> K] /\ \A i, j \in D : i # j => o[i] # o[j]
  BY DEF SetToSeqs
<1>4. Cardinality(D) = Cardinality(K)
  <2>1. PICK n \in Nat : n = Cardinality(K)
    BY <1>2
  <2>2. 1 \in Int /\ n \in Int
    OBVIOUS
  <2>3. Cardinality(1 .. n) = IF 1 > n THEN 0 ELSE n - 1 + 1
    BY <2>2, FS_Interval, Zenon
  <2>4. Cardinality(1 .. n) = n
    BY <2>3
  <2> QED
    BY <2>1, <2>4
<1>5. o \in Injection(D, K)
  BY <1>3 DEF Injection, IsInjective
<1>6. o \in Surjection(D, K)
  BY <1>1, <1>4, <1>5, FS_Injection
<1>7. o \in Seq(DOMAIN T.entries) /\ Len(o) = Cardinality(K)
  BY <1>2, <1>3
<1> QED
  BY <1>3, <1>6, <1>7 DEF Orders, Range, Surjection

(* The records of the flows closed. *)
Closing(T, o) ==
  [i \in DOMAIN o |->
     [key |-> o[i], flow |-> T.entries[o[i]], outcome |-> Outcome(T.entries[o[i]]),
      continuation |-> o[i] \in DOMAIN T.recent]]

LEMMA ClosingOK ==
  ASSUME NEW T, TableOK(T), NEW o \in Orders(T)
  PROVE  /\ Closing(T, o) \in Seq(FlowRecord) /\ Len(Closing(T, o)) = Len(o)
         /\ \A i \in 1 .. Len(o) :
              /\ Closing(T, o)[i].key = o[i] /\ Closing(T, o)[i].flow = T.entries[o[i]]
              /\ o[i] \in DOMAIN T.entries
<1>1. DOMAIN o = 1 .. Len(o) /\ Len(o) \in Nat /\ \A i \in 1 .. Len(o) : o[i] \in DOMAIN T.entries
  BY DEF Orders
<1>2. ASSUME NEW i \in 1 .. Len(o)
      PROVE  Closing(T, o)[i] \in FlowRecord /\ Closing(T, o)[i].key = o[i]
             /\ Closing(T, o)[i].flow = T.entries[o[i]]
  <2>1. PICK c \in BOOLEAN : c <=> o[i] \in DOMAIN T.recent
    <3>1. TRUE \in BOOLEAN /\ FALSE \in BOOLEAN
      BY Zenon
    <3>2. CASE o[i] \in DOMAIN T.recent
      BY <3>1, <3>2, Zenon
    <3>3. CASE o[i] \notin DOMAIN T.recent
      BY <3>1, <3>3, Zenon
    <3> QED
      BY <3>2, <3>3, Zenon
  <2>2. T.entries[o[i]] \in Micro /\ o[i] \in FlowKey
    BY <1>1 DEF TableOK
  <2>3. Closing(T, o)[i] =
          [key |-> o[i], flow |-> T.entries[o[i]], outcome |-> Outcome(T.entries[o[i]]),
           continuation |-> c]
    BY <1>1, <2>1 DEF Closing
  <2> QED
    BY <2>2, <2>3, RecordType
<1>3. Closing(T, o) \in [1 .. Len(o) -> FlowRecord]
  <2>1. Closing(T, o) = [i \in 1 .. Len(o) |-> Closing(T, o)[i]]
    BY <1>1 DEF Closing
  <2> QED
    BY <1>2, <2>1
<1>4. Closing(T, o) \in Seq(FlowRecord) /\ Len(Closing(T, o)) = Len(o)
  BY <1>1, <1>3
<1> QED
  BY <1>1, <1>2, <1>4

LEMMA ClosedFields ==
  ASSUME NEW T, TableOK(T), NEW o \in Orders(T), NEW C, C = Closed(T, o)
  PROVE  /\ TableOK(C)
         /\ DOMAIN C.entries = DOMAIN T.entries \ Range(o)
         /\ \A k \in DOMAIN C.entries : C.entries[k] = T.entries[k]
         /\ DOMAIN C.recent = DOMAIN T.recent \cup Range(o)
         /\ \A k \in DOMAIN C.recent :
              IF k \in Range(o)
              THEN k \in DOMAIN T.entries /\ C.recent[k].direction = T.entries[k].direction
                   /\ C.recent[k].flushed = T.entries[k].last
              ELSE k \in DOMAIN T.recent /\ C.recent[k] = T.recent[k]
         /\ C.out = T.out \o Closing(T, o)
<1>1. Range(o) \subseteq DOMAIN T.entries
  <2>1. DOMAIN o = 1 .. Len(o) /\ \A i \in 1 .. Len(o) : o[i] \in DOMAIN T.entries
    BY DEF Orders
  <2> QED
    BY <2>1 DEF Range
<1>2. /\ C.entries = [k \in DOMAIN T.entries \ Range(o) |-> T.entries[k]]
      /\ C.recent = Remembered(T, Range(o))
      /\ C.out = T.out \o Closing(T, o)
      /\ C = [entries |-> C.entries, recent |-> C.recent, out |-> C.out]
  BY DEF Closed, Closing, Restrict
<1>3. IsFiniteSet(DOMAIN T.entries \ Range(o))
  BY FS_Subset DEF TableOK
<1>4. C.out \in Seq(FlowRecord)
  <2>1. T.out \in Seq(FlowRecord) /\ Closing(T, o) \in Seq(FlowRecord)
    BY ClosingOK DEF TableOK
  <2>2. T.out \o Closing(T, o) \in Seq(FlowRecord)
    BY <2>1
  <2> QED
    BY <1>2, <2>2
<1>5. \A k \in DOMAIN T.entries : T.entries[k] \in Micro /\ k \in FlowKey
  BY DEF TableOK
<1>6. /\ DOMAIN C.recent = DOMAIN T.recent \cup Range(o)
      /\ \A k \in DOMAIN C.recent :
              IF k \in Range(o)
              THEN k \in DOMAIN T.entries
                   /\ C.recent[k] = [direction |-> T.entries[k].direction, flushed |-> T.entries[k].last]
              ELSE k \in DOMAIN T.recent /\ C.recent[k] = T.recent[k]
  BY <1>1, <1>2 DEF Remembered
<1>7. C.recent \in [DOMAIN C.recent -> [direction : Direction, flushed : Nat]]
      /\ DOMAIN C.recent \subseteq FlowKey
  <2>1. ASSUME NEW k \in DOMAIN C.recent
        PROVE  C.recent[k] \in [direction : Direction, flushed : Nat] /\ k \in FlowKey
    <3>1. CASE k \in Range(o)
      <4>1. k \in FlowKey /\ T.entries[k].direction \in Direction /\ T.entries[k].last \in Nat
        BY <1>1, <1>5, <3>1 DEF Micro
      <4>2. [direction |-> T.entries[k].direction, flushed |-> T.entries[k].last]
              \in [direction : Direction, flushed : Nat]
        BY <4>1
      <4>3. C.recent[k] = [direction |-> T.entries[k].direction, flushed |-> T.entries[k].last]
        BY <1>6, <3>1, Zenon
      <4> QED
        BY <4>1, <4>2, <4>3, Zenon
    <3>2. CASE k \notin Range(o)
      <4>1. k \in DOMAIN T.recent /\ C.recent[k] = T.recent[k]
        BY <1>6, <3>2
      <4> QED
        BY <4>1 DEF TableOK
    <3> QED
      BY <3>1, <3>2
  <2>2. C.recent = [k \in DOMAIN C.recent |-> C.recent[k]]
    BY <1>2 DEF Remembered
  <2> QED
    BY <2>1, <2>2
<1>8. TableOK(C)
  BY <1>2, <1>3, <1>4, <1>5, <1>7 DEF TableOK
<1> QED
  BY <1>2, <1>6, <1>8

(* Closing moves frames, it neither loses nor adds any. *)
LEMMA ClosedHolds ==
  ASSUME NEW T, TableOK(T), NEW o \in Orders(T), NEW C, C = Closed(T, o), NEW k \in FlowKey
  PROVE  InTable(C, k) = InTable(T, k) /\ InTable(T, k) \in Nat
<1> DEFINE w == Closing(T, o)
<1>1. /\ w \in Seq(FlowRecord) /\ Len(w) = Len(o)
      /\ \A i \in 1 .. Len(w) :
           w[i].key = o[i] /\ w[i].flow = T.entries[o[i]] /\ o[i] \in DOMAIN T.entries
  BY ClosingOK
<1>2. /\ DOMAIN C.entries = DOMAIN T.entries \ Range(o)
      /\ \A x \in DOMAIN C.entries : C.entries[x] = T.entries[x]
      /\ C.out = T.out \o w
  BY ClosedFields
<1>3. T.out \in Seq(FlowRecord) /\ \A x \in DOMAIN T.entries : T.entries[x] \in Micro
  BY DEF TableOK
<1>4. PacketsIn(T.out, k) \in Nat
  BY <1>3, MarksFinite
<1>5. DOMAIN o = 1 .. Len(w) /\ \A i, j \in 1 .. Len(w) : i # j => o[i] # o[j]
  BY <1>1 DEF Orders
<1> HIDE DEF w
<1>6. CASE k \in Range(o)
  <2>1. PICK j \in 1 .. Len(w) : k = o[j]
    BY <1>5, <1>6 DEF Range
  <2>2. k \in DOMAIN T.entries
    BY <1>1, <2>1
  <2>3. PICK p \in Nat : p = T.entries[k].packets
    BY <1>3, <2>2 DEF Micro
  <2>4. \E i \in 1 .. Len(w) :
          /\ w[i].key = k /\ p = w[i].flow.packets
          /\ \A x \in 1 .. Len(w) : w[x].key = k => x = i
    BY <1>1, <1>5, <2>1, <2>3
  <2>5. PacketsIn(T.out \o w, k) = PacketsIn(T.out, k) + p
    BY <1>1, <1>3, <2>4, PacketsAdd
  <2> QED
    BY <1>2, <1>4, <1>6, <2>2, <2>3, <2>5 DEF InTable
<1>7. CASE k \notin Range(o)
  <2>1. \A i \in 1 .. Len(w) : w[i].key # k
    BY <1>1, <1>5, <1>7 DEF Range
  <2>2. PacketsIn(T.out \o w, k) = PacketsIn(T.out, k) + 0
    BY <1>1, <1>3, <2>1, PacketsAdd
  <2>3. k \in DOMAIN T.entries => T.entries[k].packets \in Nat
    BY <1>3 DEF Micro
  <2> QED
    BY <1>2, <1>4, <1>7, <2>2, <2>3 DEF InTable
<1> QED
  BY <1>6, <1>7

LEMMA ClosedKeeps ==
  ASSUME NEW T, TableOK(T), NEW o \in Orders(T), NEW C, C = Closed(T, o), NEW k \in FlowKey,
         NEW n, NEW e, NEW s, NEW O, NEW t, KeyOK(T, k, n, e, s, O, t)
  PROVE  KeyOK(C, k, n, e, s, O, t)
<1>1. InTable(C, k) = InTable(T, k)
  BY ClosedHolds
<1>2. /\ DOMAIN C.entries = DOMAIN T.entries \ Range(o)
      /\ \A x \in DOMAIN C.entries : C.entries[x] = T.entries[x]
      /\ DOMAIN C.recent = DOMAIN T.recent \cup Range(o)
      /\ \A x \in DOMAIN C.recent :
              IF x \in Range(o)
              THEN x \in DOMAIN T.entries /\ C.recent[x].direction = T.entries[x].direction
                   /\ C.recent[x].flushed = T.entries[x].last
              ELSE x \in DOMAIN T.recent /\ C.recent[x] = T.recent[x]
  BY ClosedFields
<1> QED
  BY <1>1, <1>2 DEF KeyOK

-----------------------------------------------------------------------------
(* Forgetting closed flows, opening flows and adding frames to them.       *)

LEMMA ForgottenKeeps ==
  ASSUME NEW T, TableOK(T), NEW t \in Nat, NEW D, D = Forgotten(T, t)
  PROVE  /\ TableOK(D) /\ D.entries = T.entries /\ D.out = T.out
         /\ \A k \in FlowKey : \A n, e, O : \A s \in Nat :
              KeyOK(T, k, n, e, s, O, t) => KeyOK(D, k, n, e, s, O, t)
<1> DEFINE R == {k \in DOMAIN T.recent : t - T.recent[k].flushed < TTL}
<1>1. T = [entries |-> T.entries, recent |-> T.recent, out |-> T.out]
  BY DEF TableOK
<1>2. /\ D.entries = T.entries /\ D.out = T.out /\ D.recent = [k \in R |-> T.recent[k]]
      /\ D = [entries |-> D.entries, recent |-> D.recent, out |-> D.out]
  BY <1>1 DEF Forgotten, Restrict
<1>3. \A k \in DOMAIN T.recent : T.recent[k] \in [direction : Direction, flushed : Nat]
  BY DEF TableOK
<1>4. TableOK(D)
  BY <1>2, <1>3 DEF TableOK
<1>5. ASSUME NEW k \in FlowKey, NEW n, NEW e, NEW O, NEW s \in Nat, KeyOK(T, k, n, e, s, O, t)
      PROVE  KeyOK(D, k, n, e, s, O, t)
  <2>1. InTable(D, k) = InTable(T, k)
    BY <1>2 DEF InTable
  <2>2. k \in DOMAIN D.recent => k \in DOMAIN T.recent /\ D.recent[k] = T.recent[k]
    BY <1>2
  <2>3. ASSUME k \in O, k \notin DOMAIN D.entries, k \notin DOMAIN D.recent
        PROVE  t - s >= TTL
    <3>1. CASE k \in DOMAIN T.recent
      <4>1. T.recent[k].flushed = s
        BY <1>2, <1>5, <2>3, <3>1 DEF KeyOK
      <4>2. ~(t - T.recent[k].flushed < TTL)
        BY <1>2, <2>3, <3>1
      <4> QED
        BY <4>1, <4>2, ConstantTypes
    <3>2. CASE k \notin DOMAIN T.recent
      BY <1>2, <1>5, <2>3, <3>2 DEF KeyOK
    <3> QED
      BY <3>1, <3>2
  <2>4. n = e + InTable(D, k)
    BY <1>5, <2>1 DEF KeyOK
  <2>5. k \in DOMAIN D.entries =>
          n # 0 /\ D.entries[k].last = s /\ (k \in O => D.entries[k].direction = Initiator(k))
    BY <1>2, <1>5 DEF KeyOK
  <2>6. k \in DOMAIN D.recent =>
          /\ n # 0
          /\ k \in O => D.recent[k].direction = Initiator(k)
          /\ k \notin DOMAIN D.entries => D.recent[k].flushed = s
    BY <1>2, <1>5, <2>2 DEF KeyOK
  <2> QED
    BY <2>3, <2>4, <2>5, <2>6 DEF KeyOK
<1> QED
  BY <1>2, <1>4, <1>5

(* Setting the open flow of one key. *)
Put(T, k, m) == [T EXCEPT !.entries = With(@, k, m)]

LEMMA EntrySet ==
  ASSUME NEW T, TableOK(T), NEW k \in FlowKey, NEW m \in Micro, NEW D,
         D = Put(T, k, m)
  PROVE  /\ TableOK(D) /\ D.recent = T.recent /\ D.out = T.out
         /\ DOMAIN D.entries = DOMAIN T.entries \cup {k} /\ D.entries[k] = m
         /\ \A x \in FlowKey \ {k} : \A n, e, s, O, t :
              KeyOK(T, x, n, e, s, O, t) => KeyOK(D, x, n, e, s, O, t)
<1>1. T = [entries |-> T.entries, recent |-> T.recent, out |-> T.out]
  BY DEF TableOK
<1>2. /\ D.recent = T.recent /\ D.out = T.out /\ D.entries = With(T.entries, k, m)
      /\ D = [entries |-> D.entries, recent |-> D.recent, out |-> D.out]
  BY <1>1 DEF Put
<1>3. /\ DOMAIN D.entries = DOMAIN T.entries \cup {k} /\ D.entries[k] = m
      /\ D.entries = [x \in DOMAIN D.entries |-> D.entries[x]]
      /\ \A x \in DOMAIN T.entries : x # k => D.entries[x] = T.entries[x]
  BY <1>2 DEF With
<1>4. IsFiniteSet(DOMAIN D.entries)
  BY <1>3, FS_AddElement DEF TableOK
<1>5. \A x \in DOMAIN D.entries : D.entries[x] \in Micro
  BY <1>3 DEF TableOK
<1>6. D.entries \in [DOMAIN D.entries -> Micro]
  BY <1>3, <1>5
<1>7. TableOK(D)
  BY <1>2, <1>3, <1>4, <1>6 DEF TableOK
<1>8. ASSUME NEW x \in FlowKey \ {k}, NEW n, NEW e, NEW s, NEW O, NEW t, KeyOK(T, x, n, e, s, O, t)
      PROVE  KeyOK(D, x, n, e, s, O, t)
  <2>1. (x \in DOMAIN D.entries <=> x \in DOMAIN T.entries)
        /\ (x \in DOMAIN T.entries => D.entries[x] = T.entries[x])
    BY <1>3
  <2>2. InTable(D, x) = InTable(T, x)
    BY <1>2, <2>1 DEF InTable
  <2> QED
    BY <1>2, <1>8, <2>1, <2>2 DEF KeyOK
<1> QED
  BY <1>2, <1>3, <1>7, <1>8

(* A handshake tells who began the connection. *)
LEMMA HandshakeTells ==
  ASSUME NEW f \in Frame, NEW k \in FlowKey, k.conn = f.conn, Handshake(f)
  PROVE  Guess(k, f) = Initiator(k)
<1>1. k.device \in {"init", "resp"}
  BY DEF FlowKey, End
<1>2. f.kind = "syn" => f.sender = "init"
  BY DEF Frame
<1>3. f.kind \in {"synack", "unreachable"} => f.sender = "resp"
  BY DEF Frame
<1> QED
  BY <1>1, <1>2, <1>3 DEF Handshake, Guess, Initiator, Sender, FromDevice, Opposite

(* The frame of k is added to an open flow. *)
LEMMA AddedKey ==
  ASSUME NEW T, TableOK(T), NEW k \in FlowKey, k \in DOMAIN T.entries, NEW f, NEW D,
         NEW n \in Nat, NEW e \in Nat, NEW s \in Nat, NEW O, NEW P, NEW t \in Nat, NEW u,
         D = Put(T, k, Recorded(T.entries[k], k, f, t)),
         KeyOK(T, k, n, e, s, O, u), s <= t,
         k \in P => k \in O \/ n = 0
  PROVE  KeyOK(D, k, n + 1, e, t, P, u)
<1>1. T.entries[k] \in Micro /\ T.out \in Seq(FlowRecord)
  BY DEF TableOK
<1>2. PICK m \in Micro :
        /\ m = Recorded(T.entries[k], k, f, t) /\ m.packets = T.entries[k].packets + 1
        /\ m.direction = T.entries[k].direction
        /\ m.last = IF t > T.entries[k].last THEN t ELSE T.entries[k].last
  BY <1>1, RecordedFields
<1>3. D.recent = T.recent /\ D.out = T.out /\ k \in DOMAIN D.entries /\ D.entries[k] = m
  <2>1. D = Put(T, k, m)
    BY <1>2
  <2>2. /\ D.recent = T.recent /\ D.out = T.out
        /\ DOMAIN D.entries = DOMAIN T.entries \cup {k} /\ D.entries[k] = m
    BY <1>2, <2>1, EntrySet
  <2> QED
    BY <2>2
<1>4. PacketsIn(T.out, k) \in Nat /\ T.entries[k].packets \in Nat
  BY <1>1, MarksFinite DEF Micro
<1>5. n = e + (PacketsIn(T.out, k) + T.entries[k].packets)
  BY DEF KeyOK, InTable
<1>6. n + 1 = e + (PacketsIn(D.out, k) + m.packets)
  BY <1>2, <1>3, <1>4, <1>5
<1>7. n + 1 = e + InTable(D, k)
  BY <1>3, <1>6 DEF InTable
<1>8. n # 0 /\ T.entries[k].last = s /\ (k \in O => T.entries[k].direction = Initiator(k))
      /\ (k \in DOMAIN T.recent => (k \in O => T.recent[k].direction = Initiator(k)))
  BY DEF KeyOK
<1>9. m.last = t
  BY <1>2, <1>8
<1>10. n + 1 # 0
  OBVIOUS
<1>11. k \in P => m.direction = Initiator(k)
  BY <1>2, <1>8
<1>12. k \in DOMAIN D.recent /\ k \in P => D.recent[k].direction = Initiator(k)
  BY <1>3, <1>8
<1> QED
  BY <1>3, <1>7, <1>9, <1>10, <1>11, <1>12 DEF KeyOK

(* The frame of k opens a flow. *)
LEMMA OpenedKey ==
  ASSUME NEW T, TableOK(T), NEW k \in FlowKey, k \notin DOMAIN T.entries,
         NEW f \in Frame, k.conn = f.conn, NEW D, NEW n \in Nat, NEW e \in Nat, NEW s \in Nat,
         NEW O, NEW P, NEW t \in Nat, NEW u \in Nat,
         D = Insert(T, k, f, t), KeyOK(T, k, n, e, s, O, u),
         k \in P => \/ Handshake(f) /\ (n = 0 \/ k \in O)
                    \/ k \in O /\ u - s < TTL
  PROVE  KeyOK(D, k, n + 1, e, t, P, u)
<1> DEFINE known == IF k \in DOMAIN T.recent THEN T.recent[k].direction ELSE None
<1>1. known \in Direction \cup {None}
  BY DEF TableOK
<1>2. PICK d \in Direction \cup {None} : d = known
  BY <1>1
<1>3. PICK a \in Micro :
        /\ a = NewFlow(k, f, t, d) /\ a.packets = 0 /\ a.last = t
        /\ a.direction = IF d = None THEN Guess(k, f) ELSE d
  <2> HIDE DEF known
  <2>1. PICK a : a = NewFlow(k, f, t, d)
    OBVIOUS
  <2>2. d \in Direction \cup {None}
    BY <1>2
  <2>3. /\ a \in Micro /\ a.packets = 0 /\ a.last = t
        /\ a.direction = IF d = None THEN Guess(k, f) ELSE d
    <3>1. a \in Micro
      BY <2>1, <2>2, NewFlowType
    <3>2. a.packets = 0 /\ a.last = t
      BY <2>1 DEF NewFlow
    <3>3. a.direction = IF d = None THEN Guess(k, f) ELSE d
      BY <2>1 DEF NewFlow
    <3> QED
      BY <3>1, <3>2, <3>3
  <2> QED
    BY <2>1, <2>3
<1>4. PICK m \in Micro :
        /\ m = Recorded(a, k, f, t) /\ m.packets = a.packets + 1 /\ m.direction = a.direction
        /\ m.last = IF t > a.last THEN t ELSE a.last
  BY RecordedFields
<1>5. D = Put(T, k, m)
  BY <1>2, <1>3, <1>4 DEF Insert, Put
<1>6. D.recent = T.recent /\ D.out = T.out /\ k \in DOMAIN D.entries /\ D.entries[k] = m
  <2>1. /\ D.recent = T.recent /\ D.out = T.out
        /\ DOMAIN D.entries = DOMAIN T.entries \cup {k} /\ D.entries[k] = m
    BY <1>4, <1>5, EntrySet
  <2> QED
    BY <2>1
<1>7. PacketsIn(T.out, k) \in Nat
  BY MarksFinite DEF TableOK
<1>8. n = e + (PacketsIn(T.out, k) + 0)
  BY DEF KeyOK, InTable
<1>9. n + 1 = e + (PacketsIn(D.out, k) + m.packets)
  BY <1>3, <1>4, <1>6, <1>7, <1>8
<1>10. n + 1 = e + InTable(D, k)
  BY <1>6, <1>9 DEF InTable
<1>11. n + 1 # 0 /\ m.last = t
  BY <1>3, <1>4
<1>12. k \in DOMAIN T.recent => n # 0 /\ (k \in O => T.recent[k].direction = Initiator(k))
                                 /\ T.recent[k].direction \in Direction
  BY DEF KeyOK, TableOK
<1>13. ASSUME k \in P PROVE m.direction = Initiator(k)
  <2>1. CASE k \in DOMAIN T.recent
    <3>1. k \in O /\ d = Initiator(k) /\ d # None
      BY <1>2, <1>12, <1>13, <2>1, ConstantTypes
    <3> QED
      BY <1>3, <1>4, <3>1
  <2>2. CASE k \notin DOMAIN T.recent
    <3>1. d = None
      BY <1>2, <2>2
    <3>2. Handshake(f)
      <4>1. k \in O => u - s >= TTL
        BY <2>2 DEF KeyOK
      <4> QED
        BY <1>13, <4>1, ConstantTypes
    <3> QED
      BY <1>3, <1>4, <3>1, <3>2, HandshakeTells
  <2> QED
    BY <2>1, <2>2
<1>14. k \in DOMAIN D.recent /\ k \in P => D.recent[k].direction = Initiator(k)
  BY <1>6, <1>12
<1> QED
  BY <1>6, <1>10, <1>11, <1>13, <1>14 DEF KeyOK

(* The keys of a table, by the history of each. *)
KeysOK(T, n, e, s, O, t) == \A k \in FlowKey : KeyOK(T, k, n[k], e[k], s[k], O, t)

LEMMA ClosedOK ==
  ASSUME NEW T, TableOK(T), NEW o \in Orders(T), NEW C, C = Closed(T, o),
         NEW n, NEW e, NEW s, NEW O, NEW t, KeysOK(T, n, e, s, O, t)
  PROVE  /\ TableOK(C) /\ KeysOK(C, n, e, s, O, t)
         /\ DOMAIN C.entries = DOMAIN T.entries \ Range(o)
<1>1. TableOK(C) /\ DOMAIN C.entries = DOMAIN T.entries \ Range(o)
  BY ClosedFields
<1>2. ASSUME NEW k \in FlowKey PROVE KeyOK(C, k, n[k], e[k], s[k], O, t)
  <2>1. KeyOK(T, k, n[k], e[k], s[k], O, t)
    BY DEF KeysOK
  <2> QED
    BY <2>1, ClosedKeeps
<1> QED
  BY <1>1, <1>2 DEF KeysOK

LEMMA CloseOK ==
  ASSUME NEW T, TableOK(T), NEW v \in DOMAIN T.entries, NEW C, C = Close(T, v),
         NEW n, NEW e, NEW s, NEW O, NEW t, KeysOK(T, n, e, s, O, t)
  PROVE  /\ TableOK(C) /\ KeysOK(C, n, e, s, O, t)
         /\ DOMAIN C.entries = DOMAIN T.entries \ {v}
<1>1. PICK o \in Orders(T) : o = <<v>> /\ Range(o) = {v}
  BY OneOrder
<1>2. C = Closed(T, o)
  BY <1>1 DEF Close
<1>3. /\ TableOK(C) /\ KeysOK(C, n, e, s, O, t)
      /\ DOMAIN C.entries = DOMAIN T.entries \ Range(o)
  BY <1>1, <1>2, ClosedOK
<1> QED
  BY <1>1, <1>3

(* What a frame of key k makes of the history at k. *)
FrameOf(k, f, t, n, s, O, m, r, P, u) ==
  /\ \A x \in FlowKey : m[x] = IF x = k THEN n[x] + 1 ELSE n[x]
  /\ \A x \in FlowKey : r[x] = IF x = k THEN t ELSE s[x]
  /\ \A x \in FlowKey \ {k} : x \in P <=> x \in O
  /\ k \in P => \/ Handshake(f) /\ (n[k] = 0 \/ k \in O)
                \/ k \in O /\ u - s[k] < TTL

LEMMA OtherKeys ==
  ASSUME NEW T, NEW D, NEW k, NEW f, NEW t, NEW n, NEW e, NEW s, NEW O, NEW m, NEW r, NEW P, NEW u,
         KeysOK(T, n, e, s, O, u), FrameOf(k, f, t, n, s, O, m, r, P, u),
         \A x \in FlowKey \ {k} : \A a, b, c, S, v :
              KeyOK(T, x, a, b, c, S, v) => KeyOK(D, x, a, b, c, S, v),
         KeyOK(D, k, n[k] + 1, e[k], t, P, u)
  PROVE  KeysOK(D, m, e, r, P, u)
<1> SUFFICES ASSUME NEW x \in FlowKey PROVE KeyOK(D, x, m[x], e[x], r[x], P, u)
  BY DEF KeysOK
<1>1. CASE x = k
  <2>1. m[x] = n[k] + 1 /\ r[x] = t
    BY <1>1 DEF FrameOf
  <2> QED
    BY <1>1, <2>1
<1>2. CASE x # k
  <2>1. m[x] = n[x] /\ r[x] = s[x] /\ (x \in P <=> x \in O)
    BY <1>2 DEF FrameOf
  <2>2. KeyOK(T, x, n[x], e[x], s[x], O, u)
    BY DEF KeysOK
  <2>3. KeyOK(D, x, n[x], e[x], s[x], O, u)
    BY <1>2, <2>2
  <2>4. KeyOK(D, x, n[x], e[x], s[x], P, u)
    BY <2>1, <2>3 DEF KeyOK
  <2> QED
    BY <2>1, <2>4
<1> QED
  BY <1>1, <1>2

LEMMA InsertOK ==
  ASSUME NEW T, TableOK(T), NEW k \in FlowKey, k \notin DOMAIN T.entries,
         NEW f \in Frame, k.conn = f.conn, NEW t \in Nat, NEW D, D = Insert(T, k, f, t),
         NEW n \in [FlowKey -> Nat], NEW e \in [FlowKey -> Nat], NEW s \in [FlowKey -> Nat],
         NEW O, NEW m, NEW r, NEW P, NEW u \in Nat,
         KeysOK(T, n, e, s, O, u), FrameOf(k, f, t, n, s, O, m, r, P, u)
  PROVE  TableOK(D) /\ KeysOK(D, m, e, r, P, u)
<1> DEFINE known == IF k \in DOMAIN T.recent THEN T.recent[k].direction ELSE None
           a == NewFlow(k, f, t, known)
           w == Recorded(a, k, f, t)
<1>1. known \in Direction \cup {None}
  BY DEF TableOK
<1>2. D = Put(T, k, w)
  BY DEF Insert, Put
<1> HIDE DEF known
<1>3. a \in Micro
  BY <1>1, NewFlowType
<1> HIDE DEF a
<1>4. w \in Micro
  BY <1>3, RecordedFields
<1> HIDE DEF w
<1>5. /\ TableOK(D)
      /\ \A x \in FlowKey \ {k} : \A p, q, c, S, v :
           KeyOK(T, x, p, q, c, S, v) => KeyOK(D, x, p, q, c, S, v)
  BY <1>2, <1>4, EntrySet
<1>6. n[k] \in Nat /\ e[k] \in Nat /\ s[k] \in Nat /\ KeyOK(T, k, n[k], e[k], s[k], O, u)
  BY DEF KeysOK
<1>7. k \in P => \/ Handshake(f) /\ (n[k] = 0 \/ k \in O)
                 \/ k \in O /\ u - s[k] < TTL
  BY DEF FrameOf
<1>8. KeyOK(D, k, n[k] + 1, e[k], t, P, u)
  <2>1. PICK p \in Nat, q \in Nat, c \in Nat : p = n[k] /\ q = e[k] /\ c = s[k]
    BY <1>6
  <2> QED
    BY <1>6, <1>7, <2>1, OpenedKey
<1> QED
  BY <1>5, <1>8, OtherKeys

LEMMA AddIsPut ==
  ASSUME NEW T, TableOK(T), NEW k \in DOMAIN T.entries, NEW f, NEW t,
         NEW D, D = [T EXCEPT !.entries[k] = Recorded(@, k, f, t)]
  PROVE  D = Put(T, k, Recorded(T.entries[k], k, f, t))
<1>1. PICK w : w = Recorded(T.entries[k], k, f, t)
  OBVIOUS
<1>2. /\ T = [entries |-> T.entries, recent |-> T.recent, out |-> T.out]
      /\ T.entries = [x \in DOMAIN T.entries |-> T.entries[x]]
  BY DEF TableOK
<1>3. With(T.entries, k, w) = [T.entries EXCEPT ![k] = w]
  <2>1. DOMAIN T.entries \cup {k} = DOMAIN T.entries
    OBVIOUS
  <2>2. With(T.entries, k, w) = [x \in DOMAIN T.entries |-> IF x = k THEN w ELSE T.entries[x]]
    BY <2>1 DEF With
  <2> QED
    BY <1>2, <2>2
<1>4. [T EXCEPT !.entries[k] = Recorded(@, k, f, t)] = [T EXCEPT !.entries = [@ EXCEPT ![k] = w]]
  BY <1>1, <1>2
<1> QED
  BY <1>1, <1>2, <1>3, <1>4 DEF Put

LEMMA AddOK ==
  ASSUME NEW T, TableOK(T), NEW k \in FlowKey, k \in DOMAIN T.entries, NEW f, NEW t \in Nat,
         NEW D, D = Put(T, k, Recorded(T.entries[k], k, f, t)),
         NEW n \in [FlowKey -> Nat], NEW e \in [FlowKey -> Nat], NEW s \in [FlowKey -> Nat],
         NEW O, NEW m, NEW r, NEW P, NEW u \in Nat, s[k] <= t,
         KeysOK(T, n, e, s, O, u), FrameOf(k, f, t, n, s, O, m, r, P, u)
  PROVE  TableOK(D) /\ KeysOK(D, m, e, r, P, u)
<1> DEFINE w == Recorded(T.entries[k], k, f, t)
<1>1. D = Put(T, k, w)
  OBVIOUS
<1>2. T.entries[k] \in Micro
  BY DEF TableOK
<1>3. w \in Micro
  BY <1>2, RecordedFields
<1>4. /\ TableOK(D)
      /\ \A x \in FlowKey \ {k} : \A p, q, c, S, v :
           KeyOK(T, x, p, q, c, S, v) => KeyOK(D, x, p, q, c, S, v)
  <2>1. PICK z \in Micro : D = Put(T, k, z)
    BY <1>1, <1>3, Zenon
  <2>2. TableOK(D)
    BY <2>1, EntrySet
  <2>3. \A x \in FlowKey \ {k} : \A p, q, c, S, v :
           KeyOK(T, x, p, q, c, S, v) => KeyOK(D, x, p, q, c, S, v)
    BY <2>1, EntrySet, Zenon
  <2> QED
    BY <2>2, <2>3
<1>5. n[k] \in Nat /\ e[k] \in Nat /\ s[k] \in Nat /\ KeyOK(T, k, n[k], e[k], s[k], O, u)
  BY DEF KeysOK
<1>6. k \in P => k \in O \/ n[k] = 0
  BY DEF FrameOf
<1>7. KeyOK(D, k, n[k] + 1, e[k], t, P, u)
  <2>1. PICK p \in Nat, q \in Nat, c \in Nat : p = n[k] /\ q = e[k] /\ c = s[k]
    BY <1>5
  <2> QED
    BY <1>1, <1>5, <1>6, <2>1, AddedKey
<1> QED
  BY <1>4, <1>7, OtherKeys

(* upsert: whichever flow it closes or evicts, no frame is lost and no direction changed. *)
LEMMA UpsertOK ==
  ASSUME NEW T, TableOK(T), NEW k \in FlowKey, NEW f \in Frame, k.conn = f.conn, NEW t \in Nat,
         NEW D \in Upsert(T, k, f, t),
         NEW n \in [FlowKey -> Nat], NEW e \in [FlowKey -> Nat], NEW s \in [FlowKey -> Nat],
         NEW O, NEW m, NEW r, NEW P, NEW u \in Nat, s[k] <= t,
         KeysOK(T, n, e, s, O, u), FrameOf(k, f, t, n, s, O, m, r, P, u)
  PROVE  TableOK(D) /\ KeysOK(D, m, e, r, P, u)
<1>1. CASE k \in DOMAIN T.entries /\ ~Due(T.entries[k], t)
  <2>1. D = [T EXCEPT !.entries[k] = Recorded(@, k, f, t)]
    BY <1>1 DEF Upsert
  <2>2. D = Put(T, k, Recorded(T.entries[k], k, f, t))
    BY <1>1, <2>1, AddIsPut
  <2> QED
    BY <1>1, <2>2, AddOK
<1>2. CASE ~(k \in DOMAIN T.entries /\ ~Due(T.entries[k], t))
  <2>1. PICK C : C = IF k \in DOMAIN T.entries THEN Close(T, k) ELSE T
    OBVIOUS
  <2>2. TableOK(C) /\ KeysOK(C, n, e, s, O, u) /\ k \notin DOMAIN C.entries
    <3>1. CASE k \in DOMAIN T.entries
      BY <2>1, <3>1, CloseOK
    <3>2. CASE k \notin DOMAIN T.entries
      BY <2>1, <3>2
    <3> QED
      BY <3>1, <3>2
  <2>3. \/ D = Insert(C, k, f, t)
        \/ \E v \in Oldest(C) : D = Insert(Close(C, v), k, f, t)
    BY <1>2, <2>1 DEF Upsert, Evict
  <2>4. CASE D = Insert(C, k, f, t)
    BY <2>2, <2>4, InsertOK
  <2>5. ASSUME NEW v \in Oldest(C), D = Insert(Close(C, v), k, f, t)
        PROVE  TableOK(D) /\ KeysOK(D, m, e, r, P, u)
    <3>1. v \in DOMAIN C.entries
      BY DEF Oldest
    <3>2. PICK B : B = Close(C, v)
      OBVIOUS
    <3>3. TableOK(B) /\ KeysOK(B, n, e, s, O, u) /\ k \notin DOMAIN B.entries
      BY <2>2, <3>1, <3>2, CloseOK
    <3>4. D = Insert(B, k, f, t)
      BY <2>5, <3>2
    <3> QED
      BY <3>3, <3>4, InsertOK
  <2> QED
    BY <2>3, <2>4, <2>5
<1> QED
  BY <1>1, <1>2

(* Sink::emit: the records leave the table and are counted as emitted. *)
LEMMA EmitOK ==
  ASSUME NEW T, TableOK(T), NEW D,
         D = [entries |-> T.entries, recent |-> T.recent, out |-> <<>>],
         NEW n, NEW e \in [FlowKey -> Nat], NEW d, NEW s, NEW O, NEW t,
         d = [k \in FlowKey |-> e[k] + PacketsIn(T.out, k)],
         KeysOK(T, n, e, s, O, t)
  PROVE  TableOK(D) /\ KeysOK(D, n, d, s, O, t) /\ d \in [FlowKey -> Nat]
<1>1. D.entries = T.entries /\ D.recent = T.recent /\ D.out = <<>>
  OBVIOUS
<1>2. <<>> \in Seq(FlowRecord)
  OBVIOUS
<1>3. TableOK(D)
  BY <1>1, <1>2 DEF TableOK
<1>4. T.out \in Seq(FlowRecord)
  BY DEF TableOK
<1>5. ASSUME NEW k \in FlowKey PROVE KeyOK(D, k, n[k], d[k], s[k], O, t) /\ d[k] \in Nat
  <2>1. KeyOK(T, k, n[k], e[k], s[k], O, t)
    BY DEF KeysOK
  <2>2. PICK b \in Nat, p \in Nat : b = e[k] /\ p = PacketsIn(T.out, k)
    BY <1>4, MarksFinite
  <2>3. d[k] = b + p /\ d[k] \in Nat
    BY <2>2
  <2>4. PICK c \in Nat : c = IF k \in DOMAIN T.entries THEN T.entries[k].packets ELSE 0
    <3>1. k \in DOMAIN T.entries => T.entries[k].packets \in Nat
      BY DEF TableOK, Micro
    <3> QED
      BY <3>1
  <2>5. n[k] = b + (p + c)
    BY <2>1, <2>2, <2>4 DEF KeyOK, InTable
  <2>6. InTable(D, k) = 0 + c
    BY <1>1, <2>4, NoPackets DEF InTable
  <2>7. n[k] = d[k] + InTable(D, k)
    BY <2>2, <2>3, <2>4, <2>5, <2>6
  <2> QED
    BY <1>1, <2>1, <2>3, <2>7 DEF KeyOK
<1> QED
  BY <1>3, <1>5 DEF KeysOK

LEMMA TimeOK ==
  ASSUME NEW T, NEW n, NEW e, NEW s \in [FlowKey -> Nat], NEW O, NEW t \in Nat, NEW u \in Nat,
         t <= u, KeysOK(T, n, e, s, O, t)
  PROVE  KeysOK(T, n, e, s, O, u)
<1> SUFFICES ASSUME NEW k \in FlowKey PROVE KeyOK(T, k, n[k], e[k], s[k], O, u)
  BY DEF KeysOK
<1>1. KeyOK(T, k, n[k], e[k], s[k], O, t) /\ s[k] \in Nat
  BY DEF KeysOK
<1>2. t - s[k] >= TTL => u - s[k] >= TTL
  BY <1>1, ConstantTypes
<1> QED
  BY <1>1, <1>2 DEF KeyOK

-----------------------------------------------------------------------------
(* The steps.                                                              *)

LEMMA TableInvKeys ==
  TableInv <=> /\ TableOK(Table) /\ KeysOK(Table, seen, emitted, lastSeen, oriented, now)
               /\ ~capturing => DOMAIN entries = {} /\ out = <<>>
BY DEF TableInv, KeysOK

LEMMA TableIs ==
  ASSUME NEW T, TableOK(T), entries' = T.entries, recent' = T.recent, out' = T.out
  PROVE  Table' = T
BY DEF TableOK, Table

LEMMA InitOK == Init => FlowInv
<1> SUFFICES ASSUME Init PROVE FlowInv
  OBVIOUS
<1> USE DEF Init
<1>1. ClockInv
  BY DEF ClockInv, Zero
<1>2. CountInv
  <2>1. stats \in [Counter -> Nat]
    BY DEF NoCounts, Counter
  <2>2. capturing \in BOOLEAN
    BY Zenon
  <2> QED
    BY <2>1, <2>2 DEF CountInv
<1>3. TableInv
  <2>1. Table.entries = <<>> /\ Table.recent = <<>> /\ Table.out = <<>>
        /\ Table = [entries |-> Table.entries, recent |-> Table.recent, out |-> Table.out]
    BY DEF Table
  <2>2. DOMAIN <<>> = {} /\ IsFiniteSet({})
    BY FS_EmptySet
  <2>3. \A S : <<>> \in [{} -> S]
    OBVIOUS
  <2>4. <<>> \in Seq(FlowRecord)
    OBVIOUS
  <2>5. TableOK(Table)
    BY <2>1, <2>2, <2>3, <2>4 DEF TableOK
  <2>6. ASSUME NEW k \in FlowKey PROVE KeyOK(Table, k, seen[k], emitted[k], lastSeen[k], oriented, now)
    <3>1. InTable(Table, k) = 0
      BY <2>1, <2>2, NoPackets DEF InTable
    <3>2. seen[k] = 0 /\ emitted[k] = 0 /\ k \notin oriented
      BY DEF Zero
    <3> QED
      BY <2>1, <2>2, <3>1, <3>2 DEF KeyOK
  <2> QED
    BY <2>5, <2>6 DEF TableInv
<1> QED
  BY <1>1, <1>2, <1>3 DEF FlowInv

LEMMA AttributedKey ==
  ASSUME NEW f \in Frame, NEW k \in Attributed(f)
  PROVE  k \in FlowKey /\ k.conn = f.conn
<1>1. f.conn \in Conn /\ f.sender \in {"init", "resp"}
  BY DEF Frame, End
<1>2. f.sender \in End /\ Other(f.sender) \in End
  BY <1>1 DEF End, Other
<1>3. k = [conn |-> f.conn, device |-> f.sender]
      \/ k = [conn |-> f.conn, device |-> Other(f.sender)]
  BY DEF Attributed
<1> QED
  BY <1>1, <1>2, <1>3 DEF FlowKey

LEMMA FrameHistory ==
  ASSUME FlowInv, NEW f, NEW k \in FlowKey, NEW t \in Nat, NEW b, lastTime <= t,
         Remember(k, f, t, b)
  PROVE  /\ FrameOf(k, f, t, seen, lastSeen, oriented, seen', lastSeen', oriented', now)
         /\ seen' \in [FlowKey -> Nat] /\ lastSeen' \in [FlowKey -> Nat]
         /\ lastSeen[k] <= t
         /\ \A x \in FlowKey : lastSeen'[x] <= t
<1>1. /\ seen \in [FlowKey -> Nat] /\ lastSeen \in [FlowKey -> Nat] /\ lastTime \in Nat
      /\ \A x \in FlowKey : lastSeen[x] <= lastTime
  BY DEF FlowInv, ClockInv
<1>2. /\ seen' = [seen EXCEPT ![k] = @ + 1] /\ lastSeen' = [lastSeen EXCEPT ![k] = t]
      /\ oriented' =
         IF \/ Handshake(f) /\ (seen[k] = 0 \/ k \in oriented)
            \/ k \in oriented /\ now - lastSeen[k] < TTL
         THEN oriented \cup {k} ELSE oriented \ {k}
  BY DEF Remember
<1>3. PICK c \in Nat : c = seen[k] + 1
  BY <1>1
<1>4. seen' = [seen EXCEPT ![k] = c]
  BY <1>2, <1>3
<1>5. \A x \in FlowKey : seen'[x] = IF x = k THEN seen[x] + 1 ELSE seen[x]
  BY <1>1, <1>3, <1>4
<1>6. \A x \in FlowKey : lastSeen'[x] = IF x = k THEN t ELSE lastSeen[x]
  BY <1>1, <1>2
<1>7. \A x \in FlowKey \ {k} : x \in oriented' <=> x \in oriented
  BY <1>2
<1>8. k \in oriented' => \/ Handshake(f) /\ (seen[k] = 0 \/ k \in oriented)
                         \/ k \in oriented /\ now - lastSeen[k] < TTL
  BY <1>2
<1>9. seen' \in [FlowKey -> Nat] /\ lastSeen' \in [FlowKey -> Nat]
  BY <1>1, <1>2, <1>4
<1>10. \A x \in FlowKey : lastSeen[x] <= t /\ lastSeen'[x] <= t
  <2> TAKE x \in FlowKey
  <2>1. lastSeen[x] \in Nat /\ lastSeen[x] <= lastTime
    BY <1>1
  <2>2. lastSeen[x] <= t
    BY <1>1, <2>1
  <2> QED
    BY <1>6, <2>2
<1> QED
  BY <1>5, <1>6, <1>7, <1>8, <1>9, <1>10 DEF FrameOf

LEMMA FrameStep ==
  ASSUME FlowInv, NEW f \in Frame, NEW t \in 0 .. now, ProcessFrame(f, t)
  PROVE  FlowInv'
<1>1. /\ now \in Nat /\ lastTime \in Nat /\ lastTime <= now /\ capturing
      /\ seen \in [FlowKey -> Nat] /\ emitted \in [FlowKey -> Nat] /\ lastSeen \in [FlowKey -> Nat]
      /\ \A k \in FlowKey : lastSeen[k] <= lastTime
      /\ TableOK(Table) /\ KeysOK(Table, seen, emitted, lastSeen, oriented, now)
      /\ CountInv
  BY TableInvKeys DEF FlowInv, ClockInv, ProcessFrame
<1>2. /\ t \in lastTime .. now /\ lastTime' = t /\ now' = now /\ capturing' = capturing
      /\ emitted' = emitted /\ reported' = reported /\ announced' = announced
  BY DEF ProcessFrame
<1>3. t \in Nat /\ lastTime <= t /\ t <= now
  BY <1>1, <1>2
<1>4. CASE /\ stats' = [stats EXCEPT !.unattributed = @ + 1]
           /\ UNCHANGED <<table, seen, lastSeen, oriented, answered, connected>>
  <2>1. ClockInv'
    <3>1. \A k \in FlowKey : lastSeen[k] <= t
      <4> TAKE k \in FlowKey
      <4>1. lastSeen[k] \in Nat /\ lastSeen[k] <= lastTime
        BY <1>1
      <4> QED
        BY <1>1, <1>3, <4>1
    <3> QED
      BY <1>1, <1>2, <1>3, <1>4, <3>1 DEF ClockInv
  <2>2. TableInv'
    BY <1>2, <1>4 DEF FlowInv, TableInv, Table, table
  <2>3. CountInv'
    <3>1. /\ stats \in [Counter -> Nat] /\ reported \in [Counter -> Nat] /\ announced = reported
          /\ \A c \in Counter : reported[c] <= stats[c]
      BY <1>1 DEF CountInv
    <3>2. PICK n \in Nat : n = stats.unattributed + 1
      BY <3>1 DEF Counter
    <3>3. stats' = [stats EXCEPT !.unattributed = n]
      BY <1>4, <3>2
    <3>4. stats' \in [Counter -> Nat]
      BY <3>1, <3>3
    <3>5. \A c \in Counter : reported[c] <= stats'[c]
      BY <3>1, <3>2, <3>3 DEF Counter
    <3> QED
      BY <1>1, <1>2, <3>1, <3>4, <3>5 DEF CountInv
  <2> QED
    BY <2>1, <2>2, <2>3 DEF FlowInv
<1>5. ASSUME NEW k \in Attributed(f), NEW T \in Upsert(Table, k, f, t),
             entries' = T.entries, recent' = T.recent, out' = T.out,
             stats' = [stats EXCEPT !.evictions = @ + (IF Evicts(Table, k, t) THEN 1 ELSE 0)],
             NEW b, Remember(k, f, t, b)
      PROVE  FlowInv'
  <2>1. k \in FlowKey /\ k.conn = f.conn
    BY AttributedKey
  <2>2. /\ FrameOf(k, f, t, seen, lastSeen, oriented, seen', lastSeen', oriented', now)
        /\ seen' \in [FlowKey -> Nat] /\ lastSeen' \in [FlowKey -> Nat]
        /\ lastSeen[k] <= t
        /\ \A x \in FlowKey : lastSeen'[x] <= t
    BY <1>3, <1>5, <2>1, FrameHistory
  <2>3. TableOK(T) /\ KeysOK(T, seen', emitted, lastSeen', oriented', now)
    <3>1. PICK B : B = Table
      OBVIOUS
    <3>2. PICK m, r, P : m = seen' /\ r = lastSeen' /\ P = oriented'
      OBVIOUS
    <3>3. PICK n, e, s, O, u : n = seen /\ e = emitted /\ s = lastSeen /\ O = oriented /\ u = now
      OBVIOUS
    <3>4. /\ n \in [FlowKey -> Nat] /\ e \in [FlowKey -> Nat] /\ s \in [FlowKey -> Nat]
          /\ u \in Nat /\ TableOK(B) /\ KeysOK(B, n, e, s, O, u) /\ T \in Upsert(B, k, f, t)
          /\ s[k] <= t
      BY <1>1, <2>2, <3>1, <3>3
    <3>5. FrameOf(k, f, t, n, s, O, m, r, P, u)
      BY <2>2, <3>2, <3>3
    <3>6. TableOK(T) /\ KeysOK(T, m, e, r, P, u)
      BY <1>3, <2>1, <3>4, <3>5, UpsertOK
    <3> QED
      BY <3>2, <3>3, <3>6
  <2>4. Table' = T
    BY <1>5, <2>3, TableIs
  <2>5. TableInv'
    BY <1>1, <1>2, <2>3, <2>4 DEF TableInv, KeysOK
  <2>6. ClockInv'
    BY <1>1, <1>2, <1>3, <2>2 DEF ClockInv
  <2>7. CountInv'
    <3>1. /\ stats \in [Counter -> Nat] /\ reported \in [Counter -> Nat] /\ announced = reported
          /\ \A c \in Counter : reported[c] <= stats[c]
      BY <1>1 DEF CountInv
    <3>2. PICK n \in Nat :
            n = stats.evictions + (IF Evicts(Table, k, t) THEN 1 ELSE 0) /\ stats.evictions <= n
      BY <3>1 DEF Counter
    <3>3. stats' = [stats EXCEPT !.evictions = n]
      BY <1>5, <3>2
    <3>4. stats' \in [Counter -> Nat]
      BY <3>1, <3>3
    <3>5. \A c \in Counter : reported[c] <= stats'[c]
      BY <3>1, <3>2, <3>3 DEF Counter
    <3> QED
      BY <1>1, <1>2, <3>1, <3>4, <3>5 DEF CountInv
  <2> QED
    BY <2>5, <2>6, <2>7 DEF FlowInv
<1> QED
  BY <1>4, <1>5 DEF ProcessFrame

(* The tables a drain may leave. *)
LEMMA DrainOK ==
  ASSUME NEW T, TableOK(T), NEW K \in SUBSET DOMAIN T.entries, NEW D \in Drain(T, K),
         NEW n, NEW e, NEW s, NEW O, NEW t, KeysOK(T, n, e, s, O, t)
  PROVE  TableOK(D) /\ KeysOK(D, n, e, s, O, t) /\ DOMAIN D.entries = DOMAIN T.entries \ K
<1>1. PICK o \in SetToSeqs(K) : D = Closed(T, o)
  BY DEF Drain
<1>2. o \in Orders(T) /\ Range(o) = K
  BY <1>1, SetOrder
<1> QED
  BY <1>1, <1>2, ClosedOK

(* What the steps that emit leave: T is the table before its records are emitted. *)
LEMMA EmitStep ==
  ASSUME FlowInv, NEW T, TableOK(T), KeysOK(T, seen, emitted, lastSeen, oriented, now), Emit(T),
         UNCHANGED <<now, lastTime, seen, lastSeen, oriented>>,
         capturing' \/ DOMAIN T.entries = {}
  PROVE  ClockInv' /\ TableInv'
<1>1. /\ entries' = T.entries /\ recent' = T.recent /\ out' = <<>>
      /\ emitted' = [k \in FlowKey |-> emitted[k] + PacketsIn(T.out, k)]
  BY DEF Emit
<1>2. /\ seen' = seen /\ lastSeen' = lastSeen /\ oriented' = oriented /\ now' = now
      /\ emitted \in [FlowKey -> Nat]
  BY DEF FlowInv, ClockInv
<1>3. /\ TableOK(Table') /\ KeysOK(Table', seen, emitted', lastSeen, oriented, now)
      /\ emitted' \in [FlowKey -> Nat]
  <2>1. PICK D : D = [entries |-> T.entries, recent |-> T.recent, out |-> <<>>]
    OBVIOUS
  <2>2. D = Table'
    BY <1>1, <2>1 DEF Table
  <2>3. PICK e, d : e = emitted /\ d = emitted' /\ e \in [FlowKey -> Nat]
    BY <1>2
  <2>4. d = [k \in FlowKey |-> e[k] + PacketsIn(T.out, k)]
    BY <1>1, <2>3
  <2>5. KeysOK(T, seen, e, lastSeen, oriented, now)
    BY <2>3
  <2>6. TableOK(D) /\ KeysOK(D, seen, d, lastSeen, oriented, now) /\ d \in [FlowKey -> Nat]
    <3>1. PICK n, s, O, t : n = seen /\ s = lastSeen /\ O = oriented /\ t = now
      OBVIOUS
    <3>2. KeysOK(T, n, e, s, O, t) /\ e \in [FlowKey -> Nat]
      BY <2>3, <2>5, <3>1
    <3>3. TableOK(D) /\ KeysOK(D, n, d, s, O, t) /\ d \in [FlowKey -> Nat]
      BY <2>1, <2>4, <3>2, EmitOK
    <3> QED
      BY <3>1, <3>3
  <2> QED
    BY <2>2, <2>3, <2>6
<1>4. ClockInv'
  BY <1>2, <1>3 DEF FlowInv, ClockInv
<1>5. TableInv'
  BY <1>1, <1>2, <1>3 DEF TableInv, KeysOK
<1> QED
  BY <1>4, <1>5

LEMMA FlushStep ==
  ASSUME FlowInv, Flush
  PROVE  FlowInv'
<1>1. /\ now \in Nat /\ capturing /\ lastSeen \in [FlowKey -> Nat]
      /\ TableOK(Table) /\ KeysOK(Table, seen, emitted, lastSeen, oriented, now)
  BY TableInvKeys DEF FlowInv, ClockInv, Flush
<1>2. /\ UNCHANGED <<now, lastTime, capturing, stats, reported, announced, seen, lastSeen, oriented>>
      /\ \E T \in FlushDue(Table, now) : Emit(T)
  BY DEF Flush, counters
<1>3. PICK T \in FlushDue(Table, now) : Emit(T)
  BY <1>2
<1>4. PICK D \in Drain(Table, {k \in DOMAIN Table.entries : Due(Table.entries[k], now)}) :
        T = Forgotten(D, now)
  BY <1>3 DEF FlushDue
<1>5. TableOK(D) /\ KeysOK(D, seen, emitted, lastSeen, oriented, now)
  <2>1. PICK K \in SUBSET DOMAIN Table.entries :
          K = {k \in DOMAIN Table.entries : Due(Table.entries[k], now)}
    OBVIOUS
  <2>2. D \in Drain(Table, K)
    BY <1>4, <2>1
  <2> QED
    BY <1>1, <2>1, <2>2, DrainOK
<1>6. TableOK(T) /\ KeysOK(T, seen, emitted, lastSeen, oriented, now)
  <2>1. TableOK(T)
    BY <1>1, <1>4, <1>5, ForgottenKeeps
  <2>2. ASSUME NEW k \in FlowKey
        PROVE  KeyOK(T, k, seen[k], emitted[k], lastSeen[k], oriented, now)
    <3>1. KeyOK(D, k, seen[k], emitted[k], lastSeen[k], oriented, now) /\ lastSeen[k] \in Nat
      BY <1>1, <1>5 DEF KeysOK
    <3> QED
      BY <1>1, <1>4, <1>5, <3>1, ForgottenKeeps
  <2> QED
    BY <2>1, <2>2 DEF KeysOK
<1>7. ClockInv' /\ TableInv'
  BY <1>1, <1>2, <1>3, <1>6, EmitStep
<1>8. CountInv'
  BY <1>2 DEF FlowInv, CountInv
<1> QED
  BY <1>7, <1>8 DEF FlowInv

(* The health events tell all of what the counters hold. *)
LEMMA TellOK ==
  ASSUME CountInv, TellHealth, stats' = stats
  PROVE  reported' = stats' /\ announced' = reported' /\ stats' \in [Counter -> Nat]
<1>1. stats \in [Counter -> Nat] /\ reported \in [Counter -> Nat] /\ announced = reported
  BY DEF CountInv
<1>2. announced' = [c \in Counter |-> announced[c] + (stats[c] - reported[c])] /\ reported' = stats
  BY <1>1 DEF TellHealth
<1>3. \A c \in Counter : announced[c] + (stats[c] - reported[c]) = stats[c]
  <2> TAKE c \in Counter
  <2>1. stats[c] \in Nat /\ reported[c] \in Nat /\ announced[c] = reported[c]
    BY <1>1
  <2> QED
    BY <2>1
<1>4. announced' = [c \in Counter |-> stats[c]]
  BY <1>2, <1>3
<1> QED
  BY <1>1, <1>2, <1>4

LEMMA HousekeepingStep ==
  ASSUME FlowInv, Housekeeping
  PROVE  FlowInv'
<1>1. /\ UNCHANGED <<now, lastTime, capturing, table, stats, history, emitted>>
      /\ TellHealth /\ CountInv
  BY DEF FlowInv, Housekeeping
<1>2. ClockInv' /\ TableInv'
  BY <1>1 DEF FlowInv, ClockInv, TableInv, Table, table, history
<1>3. CountInv'
  <2>1. reported' = stats' /\ announced' = reported' /\ stats' \in [Counter -> Nat]
    BY <1>1, TellOK
  <2>2. capturing' \in BOOLEAN
    BY <1>1 DEF CountInv
  <2>3. \A c \in Counter : stats'[c] <= stats'[c]
    BY <2>1
  <2> QED
    BY <2>1, <2>2, <2>3 DEF CountInv
<1> QED
  BY <1>2, <1>3 DEF FlowInv

LEMMA CaptureFailsStep ==
  ASSUME FlowInv, CaptureFails
  PROVE  FlowInv'
<1>1. /\ TableOK(Table) /\ KeysOK(Table, seen, emitted, lastSeen, oriented, now) /\ CountInv
  BY TableInvKeys DEF FlowInv
<1>2. /\ UNCHANGED <<now, lastTime, stats, seen, lastSeen, oriented>>
      /\ capturing' = FALSE /\ TellHealth
      /\ \E T \in FlushAll(Table) : Emit(T)
  BY DEF CaptureFails
<1>3. PICK T \in FlushAll(Table) : Emit(T)
  BY <1>2
<1>4. /\ TableOK(T) /\ KeysOK(T, seen, emitted, lastSeen, oriented, now)
      /\ DOMAIN T.entries = {}
  <2>1. PICK K \in SUBSET DOMAIN Table.entries : K = DOMAIN Table.entries
    OBVIOUS
  <2>2. T \in Drain(Table, K)
    BY <1>3, <2>1 DEF FlushAll
  <2>3. /\ TableOK(T) /\ KeysOK(T, seen, emitted, lastSeen, oriented, now)
        /\ DOMAIN T.entries = DOMAIN Table.entries \ K
    BY <1>1, <2>1, <2>2, DrainOK
  <2> QED
    BY <2>1, <2>3
<1>5. ClockInv' /\ TableInv'
  BY <1>2, <1>3, <1>4, EmitStep
<1>6. CountInv'
  <2>1. reported' = stats' /\ announced' = reported' /\ stats' \in [Counter -> Nat]
    BY <1>1, <1>2, TellOK
  <2>2. capturing' \in BOOLEAN
    BY <1>2, Zenon
  <2>3. \A c \in Counter : stats'[c] <= stats'[c]
    BY <2>1
  <2> QED
    BY <2>1, <2>2, <2>3 DEF CountInv
<1> QED
  BY <1>5, <1>6 DEF FlowInv

LEMMA RestartStep ==
  ASSUME FlowInv, Restart
  PROVE  FlowInv'
<1>1. /\ now' = now /\ lastTime' = lastTime /\ entries' = entries /\ out' = out
      /\ recent' = <<>> /\ capturing' = TRUE
      /\ stats' = NoCounts /\ reported' = NoCounts /\ announced' = NoCounts
      /\ seen' = Zero /\ emitted' = Zero /\ lastSeen' = Zero /\ oriented' = {}
  BY DEF Restart
<1>2. /\ DOMAIN entries = {} /\ out = <<>> /\ TableOK(Table)
      /\ now \in Nat /\ lastTime \in Nat /\ lastTime <= now
  BY DEF FlowInv, TableInv, ClockInv, Restart
<1>3. ClockInv'
  BY <1>1, <1>2 DEF ClockInv, Zero
<1>4. CountInv'
  <2>1. stats' \in [Counter -> Nat]
    BY <1>1 DEF NoCounts, Counter
  <2>2. capturing' \in BOOLEAN
    BY <1>1, Zenon
  <2>3. \A c \in Counter : reported'[c] <= stats'[c]
    BY <1>1, <2>1
  <2> QED
    BY <1>1, <2>1, <2>2, <2>3 DEF CountInv
<1>5. TableInv'
  <2>1. PICK D : D = Table'
    OBVIOUS
  <2>2. /\ D.entries = Table.entries /\ D.recent = <<>> /\ D.out = <<>> /\ DOMAIN D.entries = {}
        /\ D = [entries |-> D.entries, recent |-> D.recent, out |-> D.out]
    BY <1>1, <1>2, <2>1 DEF Table
  <2>3. DOMAIN <<>> = {}
    OBVIOUS
  <2>4. \A S : <<>> \in [{} -> S]
    OBVIOUS
  <2>5. <<>> \in Seq(FlowRecord)
    OBVIOUS
  <2>6. TableOK(D)
    BY <1>2, <2>2, <2>3, <2>4, <2>5 DEF TableOK
  <2>7. ASSUME NEW k \in FlowKey PROVE KeyOK(D, k, 0, 0, 0, {}, now)
    <3>1. InTable(D, k) = 0
      BY <2>2, NoPackets DEF InTable
    <3> QED
      BY <2>2, <2>3, <3>1 DEF KeyOK
  <2>8. \A k \in FlowKey : KeyOK(D, k, seen'[k], emitted'[k], lastSeen'[k], oriented', now')
    BY <1>1, <2>7 DEF Zero
  <2> QED
    BY <1>1, <2>1, <2>6, <2>8 DEF TableInv
<1> QED
  BY <1>3, <1>4, <1>5 DEF FlowInv

LEMMA OtherSteps ==
  ASSUME FlowInv, Tick \/ (\E m \in Mac : LeaseChange(m)) \/ UNCHANGED vars
  PROVE  FlowInv'
<1>1. /\ UNCHANGED <<lastTime, capturing, entries, recent, out, stats, reported, announced,
                     seen, emitted, lastSeen, oriented>>
      /\ now' = now \/ now' = now + 1
  BY DEF Tick, LeaseChange, vars, table, counters, history
<1>2. ClockInv /\ TableInv /\ CountInv
  BY DEF FlowInv
<1>3. now \in Nat /\ now' \in Nat /\ now <= now' /\ lastTime \in Nat /\ lastTime <= now
  BY <1>1, <1>2 DEF ClockInv
<1>4. ClockInv'
  BY <1>1, <1>2, <1>3 DEF ClockInv
<1>5. CountInv'
  BY <1>1, <1>2 DEF CountInv
<1>6. TableInv'
  <2>1. TableOK(Table) /\ KeysOK(Table, seen, emitted, lastSeen, oriented, now)
    BY <1>2, TableInvKeys
  <2>2. PICK s \in [FlowKey -> Nat], t \in Nat, u \in Nat :
          s = lastSeen /\ t = now /\ u = now' /\ t <= u
    BY <1>2, <1>3 DEF ClockInv
  <2>3. KeysOK(Table, seen, emitted, s, oriented, t)
    BY <2>1, <2>2
  <2>4. KeysOK(Table, seen, emitted, s, oriented, u)
    BY <2>2, <2>3, TimeOK
  <2>5. Table' = Table
    BY <1>1 DEF Table
  <2> QED
    BY <1>1, <1>2, <2>2, <2>4, <2>5 DEF TableInv, KeysOK
<1> QED
  BY <1>4, <1>5, <1>6 DEF FlowInv

LEMMA StepOK == FlowInv /\ [Next]_vars => FlowInv'
<1> SUFFICES ASSUME FlowInv, [Next]_vars PROVE FlowInv'
  OBVIOUS
<1>1. ASSUME NEW f \in Frame, NEW t \in 0 .. now, ProcessFrame(f, t) PROVE FlowInv'
  BY <1>1, FrameStep
<1>2. CASE Flush
  BY <1>2, FlushStep
<1>3. CASE Housekeeping
  BY <1>3, HousekeepingStep
<1>4. CASE CaptureFails
  BY <1>4, CaptureFailsStep
<1>5. CASE Restart
  BY <1>5, RestartStep
<1>6. CASE Tick \/ (\E m \in Mac : LeaseChange(m)) \/ UNCHANGED vars
  BY <1>6, OtherSteps
<1> QED
  BY <1>1, <1>2, <1>3, <1>4, <1>5, <1>6 DEF Next

-----------------------------------------------------------------------------
(* The theorems.                                                           *)

(* Whatever closes a flow - a timeout, a later frame, an eviction or a     *)
(* failing capture - every frame attributed to a client is in exactly one  *)
(* record or open flow, and the health events tell the rest (upsert,       *)
(* flush_due, flush_all, housekeeping).                                    *)
THEOREM FramesAreReported == Spec => []EveryFrameReported
<1>1. FlowInv => EveryFrameReported
  <2> SUFFICES ASSUME FlowInv PROVE EveryFrameReported
    OBVIOUS
  <2>1. FramesAddUp
    <3> SUFFICES ASSUME NEW k \in FlowKey
                 PROVE  seen[k] = emitted[k] + PacketsIn(out, k)
                          + (IF k \in DOMAIN entries THEN entries[k].packets ELSE 0)
      BY DEF FramesAddUp
    <3>1. KeyOK(Table, k, seen[k], emitted[k], lastSeen[k], oriented, now) /\ TableOK(Table)
          /\ emitted[k] \in Nat
      BY DEF FlowInv, TableInv, ClockInv
    <3>2. Table.entries = entries /\ Table.out = out
      BY DEF Table
    <3>3. out \in Seq(FlowRecord) /\ (k \in DOMAIN entries => entries[k] \in Micro)
      BY <3>1, <3>2 DEF TableOK
    <3>4. PICK e \in Nat, p \in Nat, c \in Nat :
            /\ e = emitted[k] /\ p = PacketsIn(out, k)
            /\ c = IF k \in DOMAIN entries THEN entries[k].packets ELSE 0
      <4>1. PacketsIn(out, k) \in Nat
        BY <3>3, MarksFinite
      <4>2. k \in DOMAIN entries => entries[k].packets \in Nat
        BY <3>3 DEF Micro
      <4> QED
        BY <3>1, <4>1, <4>2
    <3>5. seen[k] = e + (p + c)
      BY <3>1, <3>2, <3>4 DEF KeyOK, InTable
    <3> QED
      BY <3>4, <3>5
  <2>2. HealthAddsUp
    BY DEF FlowInv, CountInv, HealthAddsUp
  <2> QED
    BY <2>1, <2>2 DEF EveryFrameReported
<1> QED
  BY <1>1, InitOK, StepOK, PTL DEF Spec

(* A connection whose first frame told who began it keeps that direction   *)
(* through evictions, flushes and late frames, as long as its pauses are   *)
(* shorter than the time a closed flow is remembered (MicroFlow::new,      *)
(* close, flush_due).                                                      *)
THEOREM DirectionsAreKept == Spec => []DirectionIsKept
<1>1. FlowInv => DirectionIsKept
  <2> SUFFICES ASSUME FlowInv, NEW k \in oriented \cap DOMAIN entries
               PROVE  entries[k].direction = Initiator(k)
    BY DEF DirectionIsKept
  <2>1. Table.entries = entries
    BY DEF Table
  <2>2. k \in FlowKey
    BY <2>1 DEF FlowInv, TableInv, TableOK
  <2>3. KeyOK(Table, k, seen[k], emitted[k], lastSeen[k], oriented, now)
    BY <2>2 DEF FlowInv, TableInv
  <2> QED
    BY <2>1, <2>3 DEF KeyOK
<1> QED
  BY <1>1, InitOK, StepOK, PTL DEF Spec

-----------------------------------------------------------------------------
(* The bound of the table.                                                 *)

Bounded(T) == Cardinality(DOMAIN T.entries) <= Capacity

LEMMA CloseDomain ==
  ASSUME NEW T, TableOK(T), NEW v \in DOMAIN T.entries, NEW C, C = Close(T, v)
  PROVE  /\ TableOK(C) /\ DOMAIN C.entries = DOMAIN T.entries \ {v}
         /\ Cardinality(DOMAIN C.entries) = Cardinality(DOMAIN T.entries) - 1
<1>1. PICK o \in Orders(T) : o = <<v>> /\ Range(o) = {v}
  BY OneOrder
<1>2. C = Closed(T, o)
  BY <1>1 DEF Close
<1>3. TableOK(C) /\ DOMAIN C.entries = DOMAIN T.entries \ {v}
  BY <1>1, <1>2, ClosedFields
<1>4. IsFiniteSet(DOMAIN T.entries)
  BY DEF TableOK
<1> QED
  BY <1>3, <1>4, FS_RemoveElement

LEMMA InsertBounded ==
  ASSUME NEW T, TableOK(T), NEW k, NEW f, NEW t, NEW D, D = Insert(T, k, f, t),
         Cardinality(DOMAIN T.entries) < Capacity
  PROVE  Bounded(D)
<1>1. T = [entries |-> T.entries, recent |-> T.recent, out |-> T.out]
  BY DEF TableOK
<1>2. DOMAIN D.entries = DOMAIN T.entries \cup {k}
  BY <1>1 DEF Insert, With
<1>3. IsFiniteSet(DOMAIN T.entries)
  BY DEF TableOK
<1>4. Cardinality(DOMAIN T.entries) \in Nat
  BY <1>3, FS_CardinalityType
<1>5. Cardinality(DOMAIN T.entries \cup {k}) =
        IF k \in DOMAIN T.entries THEN Cardinality(DOMAIN T.entries)
        ELSE Cardinality(DOMAIN T.entries) + 1
  BY <1>3, FS_AddElement
<1> QED
  BY <1>2, <1>4, <1>5, ConstantTypes DEF Bounded

LEMMA UpsertBounded ==
  ASSUME NEW T, TableOK(T), Bounded(T), NEW k, NEW f, NEW t, NEW D \in Upsert(T, k, f, t)
  PROVE  Bounded(D)
<1>1. Cardinality(DOMAIN T.entries) \in Nat
  BY FS_CardinalityType DEF TableOK
<1>2. CASE k \in DOMAIN T.entries /\ ~Due(T.entries[k], t)
  <2>1. D = [T EXCEPT !.entries[k] = Recorded(@, k, f, t)]
    BY <1>2 DEF Upsert
  <2>2. T = [entries |-> T.entries, recent |-> T.recent, out |-> T.out]
        /\ T.entries = [x \in DOMAIN T.entries |-> T.entries[x]]
    BY DEF TableOK
  <2>3. DOMAIN D.entries = DOMAIN T.entries
    BY <2>1, <2>2
  <2> QED
    BY <2>3 DEF Bounded
<1>3. CASE ~(k \in DOMAIN T.entries /\ ~Due(T.entries[k], t))
  <2>1. PICK C : C = IF k \in DOMAIN T.entries THEN Close(T, k) ELSE T
    OBVIOUS
  <2>2. TableOK(C) /\ Cardinality(DOMAIN C.entries) <= Cardinality(DOMAIN T.entries)
    <3>1. CASE k \in DOMAIN T.entries
      BY <1>1, <2>1, <3>1, CloseDomain
    <3>2. CASE k \notin DOMAIN T.entries
      BY <1>1, <2>1, <3>2
    <3> QED
      BY <3>1, <3>2
  <2>3. Cardinality(DOMAIN C.entries) \in Nat
    BY <2>2, FS_CardinalityType DEF TableOK
  <2>4. \/ D = Insert(C, k, f, t) /\ ~(Cardinality(DOMAIN C.entries) >= Capacity)
        \/ \E v \in Oldest(C) : D = Insert(Close(C, v), k, f, t)
    BY <1>3, <2>1 DEF Upsert, Evict, Full
  <2>5. CASE D = Insert(C, k, f, t) /\ ~(Cardinality(DOMAIN C.entries) >= Capacity)
    <3>1. Cardinality(DOMAIN C.entries) < Capacity
      BY <2>3, <2>5, ConstantTypes
    <3> QED
      BY <2>2, <2>5, <3>1, InsertBounded
  <2>6. ASSUME NEW v \in Oldest(C), D = Insert(Close(C, v), k, f, t)
        PROVE  Bounded(D)
    <3>1. v \in DOMAIN C.entries
      BY DEF Oldest
    <3>2. PICK B : B = Close(C, v)
      OBVIOUS
    <3>3. TableOK(B) /\ Cardinality(DOMAIN B.entries) = Cardinality(DOMAIN C.entries) - 1
      BY <2>2, <3>1, <3>2, CloseDomain
    <3>4. Cardinality(DOMAIN B.entries) < Capacity
      BY <1>1, <2>2, <2>3, <3>3, ConstantTypes DEF Bounded
    <3> QED
      BY <2>6, <3>2, <3>3, <3>4, InsertBounded
  <2> QED
    BY <2>4, <2>5, <2>6
<1> QED
  BY <1>2, <1>3

(* The table never holds more open flows than its capacity: every frame    *)
(* that would exceed it evicts a flow first (upsert, "Bounded table of     *)
(* open micro-flows").                                                     *)
THEOREM TableIsBounded == Spec => [](Cardinality(DOMAIN entries) <= Capacity)
<1> DEFINE Inv == Cardinality(DOMAIN entries) <= Capacity
<1>1. Init => Inv
  BY FS_EmptySet, ConstantTypes DEF Init
<1>2. FlowInv /\ Inv /\ [Next]_vars => Inv'
  <2> SUFFICES ASSUME FlowInv, Inv, [Next]_vars PROVE Inv'
    OBVIOUS
  <2>1. TableOK(Table) /\ Table.entries = entries
    BY DEF FlowInv, TableInv, Table
  <2>2. IsFiniteSet(DOMAIN entries) /\ Cardinality(DOMAIN entries) \in Nat
    BY <2>1, FS_CardinalityType DEF TableOK
  <2>3. ASSUME NEW S, entries' = S, DOMAIN S \subseteq DOMAIN entries
        PROVE  Inv'
    <3>1. Cardinality(DOMAIN S) <= Cardinality(DOMAIN entries) /\ Cardinality(DOMAIN S) \in Nat
      BY <2>2, <2>3, FS_Subset, FS_CardinalityType
    <3> QED
      BY <2>2, <2>3, <3>1, ConstantTypes
  <2>4. ASSUME NEW f \in Frame, NEW t \in 0 .. now, ProcessFrame(f, t) PROVE Inv'
    <3>1. CASE entries' = entries
      BY <3>1
    <3>2. ASSUME NEW k \in Attributed(f), NEW T \in Upsert(Table, k, f, t), entries' = T.entries
          PROVE  Inv'
      <4>1. Bounded(Table)
        BY <2>1 DEF Bounded
      <4>2. Bounded(T)
        <5>1. PICK B : B = Table
          OBVIOUS
        <5> QED
          BY <2>1, <3>2, <4>1, <5>1, UpsertBounded
      <4> QED
        BY <3>2, <4>2 DEF Bounded
    <3> QED
      BY <2>4, <3>1, <3>2 DEF ProcessFrame, table
  <2>5. ASSUME NEW K \in SUBSET DOMAIN Table.entries, NEW D \in Drain(Table, K),
               entries' = D.entries
        PROVE  Inv'
    <3>1. PICK o \in SetToSeqs(K) : D = Closed(Table, o)
      BY DEF Drain
    <3>2. DOMAIN D.entries \subseteq DOMAIN entries
      BY <2>1, <3>1 DEF Closed, Restrict
    <3> QED
      BY <2>3, <2>5, <3>2
  <2>6. CASE Flush
    <3>1. PICK T \in FlushDue(Table, now) : entries' = T.entries
      BY <2>6 DEF Flush, Emit
    <3>2. PICK K \in SUBSET DOMAIN Table.entries :
            K = {k \in DOMAIN Table.entries : Due(Table.entries[k], now)}
      OBVIOUS
    <3>3. PICK D \in Drain(Table, K) : T = Forgotten(D, now)
      BY <3>1, <3>2 DEF FlushDue
    <3>4. T.entries = D.entries
      <4>1. D = [entries |-> D.entries, recent |-> D.recent, out |-> D.out]
        <5>1. PICK o \in SetToSeqs(K) : D = Closed(Table, o)
          BY <3>3 DEF Drain
        <5> QED
          BY <5>1 DEF Closed
      <4> QED
        BY <3>3, <4>1 DEF Forgotten
    <3> QED
      BY <2>5, <3>1, <3>2, <3>3, <3>4
  <2>7. CASE CaptureFails
    <3>1. PICK T \in FlushAll(Table) : entries' = T.entries
      BY <2>7 DEF CaptureFails, Emit
    <3>2. PICK K \in SUBSET DOMAIN Table.entries : K = DOMAIN Table.entries
      OBVIOUS
    <3>3. T \in Drain(Table, K)
      BY <3>1, <3>2 DEF FlushAll
    <3> QED
      BY <2>5, <3>1, <3>2, <3>3
  <2>8. CASE Housekeeping \/ Restart \/ Tick \/ (\E m \in Mac : LeaseChange(m)) \/ UNCHANGED vars
    <3>1. entries' = entries
      BY <2>8 DEF Housekeeping, Restart, Tick, LeaseChange, vars, table
    <3> QED
      BY <3>1
  <2> QED
    BY <2>4, <2>6, <2>7, <2>8 DEF Next
<1> QED
  BY <1>1, <1>2, InitOK, StepOK, PTL DEF Spec

=============================================================================
