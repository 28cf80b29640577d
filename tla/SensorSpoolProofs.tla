------------------------- MODULE SensorSpoolProofs -------------------------
(***************************************************************************)
(* Proofs about the sensor's spool and forwarder, for every size of block, *)
(* segment, spool and record and for every bound of the model.             *)
(***************************************************************************)
EXTENDS SensorSpool, TLAPS, FiniteSetTheorems, WellFoundedInduction

-----------------------------------------------------------------------------
(* The inductive invariant.                                                *)

(* Segments lie one behind the other, below the next number. *)
SegmentsInOrder ==
  \A f \in DOMAIN segments :
    /\ f + segments[f] <= nextSeq
    /\ f + segments[f] <= MaxSeq + 1
    /\ \A g \in DOMAIN segments : f < g => f + segments[f] <= g

(* The open segment is the last one and ends at the next number. *)
WriterAtEnd ==
  writer => /\ up
            /\ DOMAIN segments # {}
            /\ Back(segments) + segments[Back(segments)] = nextSeq

(* A sync is only ever due behind an append, when a segment is open. *)
SyncAfterAppend == chores # <<>> /\ Head(chores) = "sync" => writer

(* What counts as acknowledged is in the topic: the bits in memory, the    *)
(* successful reports and the records of the spool below the watermark.    *)
AcksAreDelivered ==
  /\ acked \subseteq delivered
  /\ \A s \in Seqs : <<s, TRUE>> \in reports => s \in delivered
  /\ \A s \in AllRecords(segments) : s < ackedFile => s \in delivered

(* Only written records are in the spool or in the client's queue. *)
OnlyIssued ==
  /\ AllRecords(segments) \subseteq issued
  /\ \A s \in Seqs : inflight[s] > 0 => s \in issued

(* The watermark stays below every number a restart may resume at. *)
NumbersAhead ==
  /\ ackedFile <= sequenceSafe
  /\ sequenceSafe <= sequence
  /\ up => ackedFile <= nextSeq /\ nextSeq <= sequence
  /\ RenameDurable => \A s \in issued : s < sequence /\ (up => s < nextSeq)

IInv ==
  /\ TypeOK
  /\ SegmentsInOrder
  /\ WriterAtEnd
  /\ SyncAfterAppend
  /\ AcksAreDelivered
  /\ OnlyIssued
  /\ NumbersAhead
  /\ NoEventVanishes
  /\ WatermarkIsDelivered

-----------------------------------------------------------------------------
(* Extrema of sets of numbers.                                             *)

(* A nonempty set of naturals has a least element, which Min picks. *)
LEMMA MinOfNat ==
  ASSUME NEW S \in SUBSET Nat, S # {}
  PROVE  Min(S) \in S /\ \A y \in S : Min(S) <= y
<1>1. PICK x \in S : \A y \in S : ~(<<y, x>> \in OpToRel(<, Nat))
  BY NatLessThanWellFounded, WFMin, Zenon
<1>2. \A y \in S : ~(y < x)
  BY <1>1, Zenon DEF OpToRel
<1>3. \A y \in S : x <= y
  BY <1>2
<1> QED
  BY <1>3 DEF Min

(* A nonempty set bounded by a number has a greatest element, which Max    *)
(* picks.                                                                  *)
LEMMA MaxOfBounded ==
  ASSUME NEW n \in Int, NEW S \in SUBSET Int, S # {}, \A y \in S : y <= n
  PROVE  Max(S) \in S /\ \A y \in S : Max(S) >= y
<1> DEFINE T == {n - y : y \in S}
<1>1. T \in SUBSET Nat /\ T # {}
  <2>1. \A y \in S : n - y \in Nat
    OBVIOUS
  <2>2. PICK y \in S : TRUE
    OBVIOUS
  <2>3. n - y \in T
    OBVIOUS
  <2> QED
    BY <2>1, <2>3
<1>2. Min(T) \in T /\ \A t \in T : Min(T) <= t
  BY <1>1, MinOfNat
<1>3. PICK x \in S : Min(T) = n - x
  BY <1>2
<1>4. \A y \in S : x >= y
  BY <1>2, <1>3
<1> QED
  BY <1>4 DEF Max

(* Whatever is the greatest element is what Max picks. *)
LEMMA MaxIs ==
  ASSUME NEW S \in SUBSET Int, NEW m \in S, \A y \in S : y <= m
  PROVE  Max(S) = m
<1>1. Max(S) \in S /\ \A y \in S : Max(S) >= y
  BY MaxOfBounded
<1>2. Max(S) >= m /\ Max(S) <= m /\ Max(S) \in Int
  BY <1>1
<1> QED
  BY <1>2

-----------------------------------------------------------------------------
(* Directories of segments.                                                *)

Directory(S) == DOMAIN S \subseteq Seqs /\ S \in [DOMAIN S -> Nat]

(* Membership in the records of a directory. *)
LEMMA InAllRecords ==
  ASSUME NEW S, NEW s
  PROVE  s \in AllRecords(S) <=>
           s \in Seqs /\ \E f \in DOMAIN S : f <= s /\ s < f + S[f]
BY DEF AllRecords, Records

(* The last segment of a nonempty directory. *)
LEMMA BackIsLast ==
  ASSUME NEW S, DOMAIN S \subseteq Seqs, DOMAIN S # {}
  PROVE  Back(S) \in DOMAIN S /\ \A f \in DOMAIN S : f <= Back(S)
<1>1. DOMAIN S \in SUBSET Int /\ MaxSeq \in Int /\ \A f \in DOMAIN S : f <= MaxSeq
  BY SpoolAssumption DEF Seqs
<1>2. Back(S) \in DOMAIN S /\ \A f \in DOMAIN S : Back(S) >= f
  BY <1>1, MaxOfBounded DEF Back
<1> QED
  BY <1>1, <1>2

(* The greatest first sequence is the last segment. *)
LEMMA BackIs ==
  ASSUME NEW S, DOMAIN S \subseteq Seqs, NEW f \in DOMAIN S,
         \A g \in DOMAIN S : g <= f
  PROVE  Back(S) = f
<1>1. DOMAIN S \in SUBSET Int
  BY SpoolAssumption DEF Seqs
<1> QED
  BY <1>1, MaxIs DEF Back

(* Removing segments removes just them, and keeps a last segment the last. *)
LEMMA WithoutSegments ==
  ASSUME NEW S, NEW D, Directory(S)
  PROVE  /\ DOMAIN Without(S, D) = DOMAIN S \ D
         /\ \A f \in DOMAIN S \ D : Without(S, D)[f] = S[f]
         /\ Directory(Without(S, D))
         /\ AllRecords(Without(S, D)) \subseteq AllRecords(S)
         /\ DOMAIN S # {} /\ Back(S) \notin D =>
              DOMAIN Without(S, D) # {} /\ Back(Without(S, D)) = Back(S)
<1>1. /\ DOMAIN Without(S, D) = DOMAIN S \ D
      /\ \A f \in DOMAIN S \ D : Without(S, D)[f] = S[f]
  BY DEF Without
<1>2. Directory(Without(S, D))
  BY DEF Without, Directory
<1>3. AllRecords(Without(S, D)) \subseteq AllRecords(S)
  BY <1>1 DEF AllRecords, Records
<1>4. ASSUME DOMAIN S # {}, Back(S) \notin D
      PROVE  DOMAIN Without(S, D) # {} /\ Back(Without(S, D)) = Back(S)
  <2>1. Back(S) \in DOMAIN S /\ \A f \in DOMAIN S : f <= Back(S)
    BY <1>4, BackIsLast DEF Directory
  <2>2. Back(S) \in DOMAIN Without(S, D) /\ \A f \in DOMAIN Without(S, D) : f <= Back(S)
    BY <1>1, <1>4, <2>1
  <2> QED
    BY <1>1, <2>2, BackIs DEF Directory
<1> QED
  BY <1>1, <1>2, <1>3, <1>4

(* What the type invariant says of the directory on disk. *)
LEMMA SegmentTypes ==
  ASSUME TypeOK
  PROVE  /\ Directory(segments)
         /\ \A f \in DOMAIN segments :
              f \in Nat /\ f <= MaxSeq /\ segments[f] \in Nat /\ segments[f] > 0
         /\ nextSeq \in Nat
<1>1. DOMAIN segments \subseteq Seqs /\ segments \in [DOMAIN segments -> Nat \ {0}]
      /\ nextSeq \in Nat
  BY DEF TypeOK
<1>2. \A f \in DOMAIN segments : f \in Nat /\ f <= MaxSeq
  BY <1>1, SpoolAssumption DEF Seqs
<1>3. \A f \in DOMAIN segments : segments[f] \in Nat /\ segments[f] > 0
  BY <1>1
<1>4. Directory(segments)
  BY <1>1 DEF Directory
<1> QED
  BY <1>1, <1>2, <1>3, <1>4

-----------------------------------------------------------------------------
(* Appending.                                                              *)

(* The segment a record goes to is the last one of the rotated directory   *)
(* and ends at the next number, so enforce_limit never removes it.         *)
LEMMA RotatedDirectory ==
  ASSUME TypeOK, SegmentsInOrder, WriterAtEnd, nextSeq <= MaxSeq, NEW len
  PROVE  /\ Directory(Rotated(len))
         /\ DOMAIN Rotated(len) = DOMAIN segments \cup {Active(len)}
         /\ Back(Rotated(len)) = Active(len)
         /\ Active(len) + Rotated(len)[Active(len)] = nextSeq
         /\ \A f \in DOMAIN segments : Rotated(len)[f] = segments[f]
         /\ AllRecords(Rotated(len)) = AllRecords(segments)
<1>1. nextSeq \in Seqs /\ \A f \in DOMAIN segments : f \in Nat /\ f < nextSeq
  BY SegmentTypes, SpoolAssumption DEF SegmentsInOrder, Seqs
<1>2. CASE MustRotate(len)
  <2>1. /\ DOMAIN Rotated(len) = DOMAIN segments \cup {nextSeq}
        /\ Rotated(len)[nextSeq] = 0
        /\ \A f \in DOMAIN segments : Rotated(len)[f] = segments[f]
        /\ Active(len) = nextSeq
    BY <1>1, <1>2 DEF Rotated, Active
  <2>2. Directory(Rotated(len))
    BY <1>1, <1>2, SegmentTypes DEF Directory, Rotated
  <2>3. Back(Rotated(len)) = nextSeq
    <3>1. \A g \in DOMAIN Rotated(len) : g <= nextSeq
      BY <1>1, <2>1, SegmentTypes
    <3> QED
      BY <2>1, <2>2, <3>1, BackIs DEF Directory
  <2>4. AllRecords(Rotated(len)) = AllRecords(segments)
    <3> SUFFICES ASSUME NEW s PROVE s \in AllRecords(Rotated(len)) <=> s \in AllRecords(segments)
      OBVIOUS
    <3> QED
      BY <1>1, <2>1, InAllRecords DEF Seqs
  <2> QED
    BY <1>1, <2>1, <2>2, <2>3, <2>4 DEF Seqs
<1>3. CASE ~MustRotate(len)
  <2>1. Rotated(len) = segments /\ Active(len) = Back(segments)
        /\ DOMAIN segments # {} /\ writer
    BY <1>3 DEF Rotated, Active, MustRotate
  <2>2. Back(segments) \in DOMAIN segments
    BY <2>1, BackIsLast, SegmentTypes DEF Directory
  <2> QED
    BY <2>1, <2>2, SegmentTypes DEF WriterAtEnd
<1> QED
  BY <1>2, <1>3

(* What an append leaves: the segments outside D, and the new record at    *)
(* the end of the active one.                                              *)
LEMMA AppendEffect ==
  ASSUME TypeOK, SegmentsInOrder, WriterAtEnd,
         NEW isHealth \in BOOLEAN, AppendRecord(isHealth),
         NEW len, len = IF isHealth THEN HealthBytes ELSE FlowBytes,
         NEW D, D = OverLimit(Rotated(len), len)
  PROVE  /\ nextSeq \in Seqs
         /\ Active(len) \in Seqs \ D /\ Active(len) <= nextSeq
         /\ \A f \in DOMAIN segments : f <= Active(len)
         /\ DOMAIN segments' = (DOMAIN segments \ D) \cup {Active(len)}
         /\ segments' \in [DOMAIN segments' -> Nat \ {0}]
         /\ segments'[Active(len)] = nextSeq + 1 - Active(len)
         /\ \A f \in DOMAIN segments' \ {Active(len)} : segments'[f] = segments[f]
         /\ Back(segments') = Active(len)
         /\ AllRecords(Without(Rotated(len), D)) = AllRecords(Without(segments, D))
         /\ AllRecords(segments') = AllRecords(Without(segments, D)) \cup {nextSeq}
<1> USE SpoolAssumption
<1> DEFINE a == Active(len)
           R == Rotated(len)
           kept == Without(R, D)
<1>1. nextSeq <= MaxSeq /\ nextSeq \in Seqs /\ segments' = [kept EXCEPT ![a] = @ + 1]
  BY DEF AppendRecord, TypeOK, Seqs
<1>2. /\ Directory(R) /\ DOMAIN R = DOMAIN segments \cup {a}
      /\ Back(R) = a /\ a + R[a] = nextSeq
      /\ \A f \in DOMAIN segments : R[f] = segments[f]
      /\ AllRecords(R) = AllRecords(segments)
  BY <1>1, RotatedDirectory
<1>3. a \in Seqs /\ a \notin D /\ D \subseteq DOMAIN R /\ a <= nextSeq /\ R[a] \in Nat
  BY <1>1, <1>2 DEF OverLimit, Directory, Seqs
<1>4. \A f \in DOMAIN R : f <= a
  BY <1>2, BackIsLast DEF Directory
<1>5. /\ DOMAIN kept = DOMAIN R \ D
      /\ \A f \in DOMAIN R \ D : kept[f] = R[f]
      /\ Directory(kept)
  <2>1. Directory(kept)
    BY <1>2, WithoutSegments
  <2>2. DOMAIN kept = DOMAIN R \ D /\ \A f \in DOMAIN R \ D : kept[f] = R[f]
    BY DEF Without
  <2> QED
    BY <2>1, <2>2
<1>6. DOMAIN segments' = (DOMAIN segments \ D) \cup {a}
  BY <1>1, <1>2, <1>3, <1>5
<1>7. segments'[a] = nextSeq + 1 - a /\ segments'[a] \in Nat \ {0}
  <2>1. segments'[a] = R[a] + 1
    BY <1>1, <1>2, <1>3, <1>5
  <2> QED
    BY <2>1, <1>2, <1>3, <1>1 DEF Seqs
<1>8. \A f \in DOMAIN segments' \ {a} : segments'[f] = segments[f]
  BY <1>1, <1>2, <1>3, <1>5, <1>6
<1>9. segments' \in [DOMAIN segments' -> Nat \ {0}]
  <2>1. \A f \in DOMAIN segments' : segments'[f] \in Nat \ {0}
    BY <1>6, <1>7, <1>8 DEF TypeOK
  <2>2. segments' = [f \in DOMAIN segments' |-> segments'[f]]
    BY <1>1, <1>5 DEF Without
  <2> QED
    BY <2>1, <2>2
<1>10. Back(segments') = a
  BY <1>2, <1>3, <1>4, <1>6, BackIs DEF Directory
<1>11. /\ DOMAIN Without(segments, D) = DOMAIN segments \ D
       /\ \A f \in DOMAIN segments \ D : Without(segments, D)[f] = segments[f]
  BY DEF Without
<1>12. AllRecords(kept) = AllRecords(Without(segments, D))
  <2> SUFFICES ASSUME NEW s \in Seqs
               PROVE  s \in AllRecords(kept) <=> s \in AllRecords(Without(segments, D))
    BY InAllRecords
  <2>1. CASE a \in DOMAIN segments
    BY <2>1, <1>2, <1>5, <1>11, InAllRecords
  <2>2. CASE a \notin DOMAIN segments
    <3>1. R[a] = 0
      BY <2>2, BackIsLast DEF Rotated, Active, TypeOK, MustRotate
    <3> QED
      BY <3>1, <1>2, <1>3, <1>5, <1>11, InAllRecords DEF Seqs
  <2> QED
    BY <2>1, <2>2
<1>13. AllRecords(segments') = AllRecords(Without(segments, D)) \cup {nextSeq}
  <2> SUFFICES ASSUME NEW s \in Seqs
               PROVE  s \in AllRecords(segments') <=> s \in AllRecords(kept) \/ s = nextSeq
    BY <1>1, <1>12, InAllRecords
  <2>1. \A f \in DOMAIN kept \ {a} : segments'[f] = kept[f]
    BY <1>1
  <2>2. segments'[a] = kept[a] + 1 /\ a + kept[a] = nextSeq /\ kept[a] \in Nat
    BY <1>1, <1>2, <1>3, <1>5
  <2>3. DOMAIN segments' = DOMAIN kept /\ a \in DOMAIN kept
    BY <1>1, <1>2, <1>3, <1>5
  <2>4. s < a + segments'[a] /\ a <= s <=> (a <= s /\ s < a + kept[a]) \/ s = nextSeq
    BY <2>2, <1>3, <1>1 DEF Seqs
  <2> QED
    BY <2>1, <2>3, <2>4, InAllRecords
<1> QED
  BY <1>1, <1>2, <1>3, <1>4, <1>6, <1>7, <1>8, <1>9, <1>10, <1>12, <1>13

(* The loss of the segments D and what stays make up the directory. *)
LEMMA LossOrKept ==
  ASSUME NEW D, NEW s \in AllRecords(segments)
  PROVE  s \in AllRecords(Without(segments, D)) \/ s \in LossOf(D) \/ s \in acked
<1>1. PICK f \in DOMAIN segments : s \in Records(segments, f)
  BY DEF AllRecords
<1>2. CASE f \in D
  <2>1. f \in D \cap DOMAIN segments
    BY <1>2
  <2>2. s \in UNION {Records(segments, g) : g \in D \cap DOMAIN segments}
    BY <1>1, <2>1
  <2> QED
    BY <2>2 DEF LossOf
<1>3. CASE f \notin D
  <2>1. f \in DOMAIN Without(segments, D) /\ Without(segments, D)[f] = segments[f]
    BY <1>3 DEF Without
  <2>2. s \in Records(Without(segments, D), f)
    BY <1>1, <2>1 DEF Records
  <2> QED
    BY <2>1, <2>2 DEF AllRecords
<1> QED
  BY <1>2, <1>3

(* Only records of the directory can be lost with segments. *)
LEMMA LossInSeqs ==
  ASSUME NEW D
  PROVE  LossOf(D) \subseteq Seqs
BY DEF LossOf, Records

(* An append keeps every part of the invariant that it touches. *)
LEMMA AppendKeeps ==
  ASSUME IInv, up, NEW isHealth \in BOOLEAN, AppendRecord(isHealth)
  PROVE  /\ DOMAIN segments' \subseteq Seqs
         /\ segments' \in [DOMAIN segments' -> Nat \ {0}]
         /\ health' \subseteq Seqs
         /\ sequence' \in Nat /\ sequenceSafe' \in Nat
         /\ unsynced' \subseteq AllRecords(segments')
         /\ nextSeq' \in Nat
         /\ writer' = TRUE
         /\ acked' \subseteq AllRecords(segments')
         /\ issued' \subseteq Seqs
         /\ dropped' \subseteq Seqs
         /\ lostSince' \subseteq Seqs
         /\ SegmentsInOrder'
         /\ WriterAtEnd'
         /\ AcksAreDelivered'
         /\ OnlyIssued'
         /\ NumbersAhead'
         /\ NoEventVanishes'
         /\ WatermarkIsDelivered'
<1> DEFINE len == IF isHealth THEN HealthBytes ELSE FlowBytes
           D == OverLimit(Rotated(len), len)
           a == Active(len)
           K == AllRecords(Without(segments, D))
<1> HIDE DEF len
<1>0. /\ TypeOK /\ SegmentsInOrder /\ WriterAtEnd /\ AcksAreDelivered /\ OnlyIssued
      /\ NumbersAhead /\ NoEventVanishes /\ WatermarkIsDelivered
  BY DEF IInv
<1>1. /\ nextSeq \in Seqs
      /\ a \in Seqs \ D /\ a <= nextSeq
      /\ \A f \in DOMAIN segments : f <= a
      /\ DOMAIN segments' = (DOMAIN segments \ D) \cup {a}
      /\ segments' \in [DOMAIN segments' -> Nat \ {0}]
      /\ segments'[a] = nextSeq + 1 - a
      /\ \A f \in DOMAIN segments' \ {a} : segments'[f] = segments[f]
      /\ Back(segments') = a
      /\ AllRecords(Without(Rotated(len), D)) = K
      /\ AllRecords(segments') = K \cup {nextSeq}
  BY <1>0, AppendEffect DEF len
<1>2. /\ nextSeq <= MaxSeq
      /\ sequence' = Reserved
      /\ sequenceSafe' = SequenceSafeAfter(len)
      /\ health' = IF isHealth THEN health \cup {nextSeq} ELSE health \ {nextSeq}
      /\ unsynced' = (UnsyncedAfter(len) \cap K) \cup {nextSeq}
      /\ writer' = TRUE
      /\ acked' = acked \cap K
      /\ nextSeq' = nextSeq + 1
      /\ issued' = issued \cup {nextSeq}
      /\ dropped' = dropped \cup LossOf(D)
      /\ lostSince' = lostSince \cup LossOf(D)
      /\ UNCHANGED <<ackedFile, up, inflight, reports, delivered, torn>>
  BY <1>1 DEF AppendRecord, len, client
<1>3. /\ nextSeq \in Nat /\ sequence \in Nat /\ sequenceSafe \in Nat /\ ackedFile \in Nat
      /\ MaxSeq \in Nat /\ SEQUENCE_BLOCK \in Nat \ {0} /\ a \in Nat
      /\ health \subseteq Seqs /\ issued \subseteq Seqs /\ dropped \subseteq Seqs
      /\ lostSince \subseteq Seqs /\ acked \subseteq AllRecords(segments)
      /\ delivered \subseteq Seqs
  <2>1. a \in Nat
    BY <1>1, SpoolAssumption DEF Seqs
  <2> QED
    BY <1>0, <2>1, SpoolAssumption DEF TypeOK
<1>4. K \subseteq AllRecords(segments)
  BY <1>0, SegmentTypes, WithoutSegments
<1>5. \A s \in AllRecords(segments) : s \in Seqs /\ s < nextSeq
  BY <1>0, <1>3, InAllRecords, SegmentTypes DEF SegmentsInOrder, Seqs
<1>6. /\ Reserved \in Nat /\ Reserved >= sequence /\ Reserved > nextSeq
      /\ sequenceSafe' \in Nat /\ sequenceSafe' <= Reserved /\ ackedFile <= sequenceSafe'
  BY <1>0, <1>2, <1>3 DEF Reserved, SequenceSafeAfter, NumbersAhead
<1>7. SegmentsInOrder'
  <2> SUFFICES ASSUME NEW f \in DOMAIN segments'
               PROVE  /\ f + segments'[f] <= nextSeq'
                      /\ f + segments'[f] <= MaxSeq + 1
                      /\ \A g \in DOMAIN segments' : f < g => f + segments'[f] <= g
    BY DEF SegmentsInOrder
  <2>1. CASE f = a
    <3>1. f + segments'[f] = nextSeq + 1
      BY <1>1, <1>3, <2>1
    <3>2. \A g \in DOMAIN segments' : ~(f < g)
      BY <1>0, <1>1, <1>3, <2>1, SegmentTypes
    <3> QED
      BY <3>1, <3>2, <1>2, <1>3
  <2>2. CASE f # a
    <3>1. f \in DOMAIN segments /\ segments'[f] = segments[f]
      BY <1>1, <2>2
    <3>2. f + segments[f] <= nextSeq /\ f \in Nat /\ segments[f] \in Nat /\ f <= a
      BY <1>0, <1>1, <3>1, SegmentTypes DEF SegmentsInOrder
    <3>3. f + segments[f] <= a
      <4>1. CASE a \in DOMAIN segments
        BY <1>0, <1>3, <2>2, <3>1, <3>2, <4>1 DEF SegmentsInOrder
      <4>2. CASE a \notin DOMAIN segments
        <5>1. a = nextSeq
          BY <1>0, <4>2, BackIsLast DEF Active, MustRotate, TypeOK
        <5> QED
          BY <3>2, <5>1
      <4> QED
        BY <4>1, <4>2
    <3>4. ASSUME NEW g \in DOMAIN segments', f < g
          PROVE  f + segments[f] <= g
      <4>1. CASE g = a
        BY <3>3, <4>1
      <4>2. CASE g # a
        BY <1>0, <1>1, <3>1, <3>4, <4>2 DEF SegmentsInOrder
      <4> QED
        BY <4>1, <4>2
    <3> QED
      BY <1>2, <1>3, <3>1, <3>2, <3>3, <3>4
  <2> QED
    BY <2>1, <2>2
<1>8. WriterAtEnd'
  BY <1>1, <1>2, <1>3 DEF WriterAtEnd
<1>9. AcksAreDelivered'
  <2>1. acked' \subseteq delivered' /\ \A s \in Seqs : <<s, TRUE>> \in reports' => s \in delivered'
    BY <1>0, <1>2 DEF AcksAreDelivered
  <2>2. \A s \in AllRecords(segments') : s < ackedFile' => s \in delivered'
    BY <1>0, <1>1, <1>2, <1>3, <1>4 DEF AcksAreDelivered, NumbersAhead
  <2> QED
    BY <2>1, <2>2 DEF AcksAreDelivered
<1>10. OnlyIssued'
  BY <1>0, <1>1, <1>2, <1>4 DEF OnlyIssued
<1>11. NumbersAhead'
  <2>1. ASSUME RenameDurable, NEW s \in issued'
        PROVE  s < sequence' /\ s < nextSeq'
    <3>1. CASE s \in issued
      BY <1>0, <1>2, <1>3, <1>6, <2>1, <3>1 DEF NumbersAhead, Seqs
    <3>2. CASE s = nextSeq
      BY <1>2, <1>3, <1>6, <3>2
    <3> QED
      BY <1>2, <2>1, <3>1, <3>2
  <2>2. ackedFile <= nextSeq + 1 /\ nextSeq + 1 <= Reserved
    BY <1>0, <1>3, <1>6 DEF NumbersAhead
  <2> QED
    BY <1>2, <1>6, <2>1, <2>2 DEF NumbersAhead
<1>12. NoEventVanishes'
  <2> SUFFICES ASSUME NEW s \in issued'
               PROVE  s \in delivered' \/ s \in dropped' \/ s \in torn'
                      \/ (s \in AllRecords(segments') /\ s \notin acked')
    BY DEF NoEventVanishes, Unacked
  <2>1. CASE s = nextSeq
    BY <1>1, <1>2, <1>3, <1>5, <2>1
  <2>2. CASE s \in issued /\ s \in AllRecords(segments) /\ s \notin acked
    <3>1. s \in K \/ s \in LossOf(D)
      BY <2>2, LossOrKept
    <3> QED
      BY <1>1, <1>2, <2>2, <3>1
  <2>3. CASE s \in issued /\ ~(s \in AllRecords(segments) /\ s \notin acked)
    BY <1>0, <1>2, <2>3 DEF NoEventVanishes, Unacked
  <2> QED
    BY <1>2, <2>1, <2>2, <2>3
<1>13. WatermarkIsDelivered'
  <2> SUFFICES ASSUME NEW s \in issued', s < ackedFile
               PROVE  s \in delivered \cup dropped \cup torn
    BY <1>2 DEF WatermarkIsDelivered
  <2>1. s # nextSeq
    BY <1>0, <1>3 DEF NumbersAhead
  <2> QED
    BY <1>0, <1>2, <2>1 DEF WatermarkIsDelivered
<1>14. /\ DOMAIN segments' \subseteq Seqs
       /\ health' \subseteq Seqs
       /\ unsynced' \subseteq AllRecords(segments')
       /\ nextSeq' \in Nat
       /\ acked' \subseteq AllRecords(segments')
       /\ issued' \subseteq Seqs
       /\ dropped' \subseteq Seqs
       /\ lostSince' \subseteq Seqs
  <2>1. DOMAIN segments' \subseteq Seqs
    BY <1>0, <1>1 DEF TypeOK
  <2>2. LossOf(D) \subseteq Seqs
    BY LossInSeqs
  <2> QED
    BY <1>1, <1>2, <1>3, <2>1, <2>2
<1> QED
  BY <1>1, <1>2, <1>3, <1>6, <1>7, <1>8, <1>9, <1>10, <1>11, <1>12, <1>13, <1>14

(* A set of sequence numbers is finite. *)
LEMMA SeqsFinite ==
  ASSUME NEW R, R \subseteq Seqs
  PROVE  IsFiniteSet(R) /\ Cardinality(R) \in Nat
<1>1. 0 \in Int /\ MaxSeq \in Int
  BY SpoolAssumption
<1>2. IsFiniteSet(Seqs)
  BY <1>1, FS_Interval DEF Seqs
<1>3. IsFiniteSet(R)
  BY <1>2, FS_Subset
<1> QED
  BY <1>3, FS_CardinalityType

(* Extrema of sequence numbers and one more number are numbers. *)
LEMMA ExtremaAreNumbers ==
  ASSUME NEW R, R \subseteq Seqs, NEW m \in Nat
  PROVE  /\ Max(R \cup {m}) \in Nat /\ Min(R \cup {m}) \in Nat
         /\ R # {} => Max(R) \in R /\ Min(R) \in R /\ Max(R) \in Nat /\ Min(R) \in Nat
<1>1. R \subseteq Nat /\ \A y \in R : y <= MaxSeq
  BY SpoolAssumption DEF Seqs
<1>2. R \in SUBSET Nat /\ R \cup {m} \in SUBSET Nat /\ R \cup {m} # {}
  BY <1>1
<1>3. R \in SUBSET Int /\ R \cup {m} \in SUBSET Int
  BY <1>2
<1>4. PICK top \in Int : m <= top /\ MaxSeq <= top
  <2>1. CASE m <= MaxSeq
    BY <2>1, SpoolAssumption
  <2>2. CASE ~(m <= MaxSeq)
    BY <2>2, SpoolAssumption
  <2> QED
    BY <2>1, <2>2
<1>5. \A y \in R \cup {m} : y <= top
  BY <1>1, <1>4, SpoolAssumption
<1>6. Max(R \cup {m}) \in R \cup {m}
  BY <1>2, <1>3, <1>5, MaxOfBounded
<1>7. Min(R \cup {m}) \in R \cup {m}
  BY <1>2, MinOfNat
<1>8. R # {} => Max(R) \in R
  BY <1>3, <1>5, MaxOfBounded
<1>9. R # {} => Min(R) \in R
  BY <1>2, MinOfNat
<1> QED
  BY <1>2, <1>6, <1>7, <1>8, <1>9

(* The total of the losses is made of numbers. *)
LEMMA TotalIsNumbers ==
  ASSUME TypeOK, NEW loss, loss \subseteq Seqs, loss # {}
  PROVE  Accumulate(cumulative, loss) \in [count : Nat, first : Nat, last : Nat]
<1>1. cumulative.count \in Nat /\ cumulative.first \in Nat /\ cumulative.last \in Nat
  BY DEF TypeOK
<1>2. Cardinality(loss) \in Nat
  BY SeqsFinite
<1>3. CASE cumulative.count = 0
  <2>1. Min(loss \cup {}) \in Nat /\ Max(loss \cup {}) \in Nat
    <3>1. loss \cup {} = loss
      OBVIOUS
    <3> QED
      BY <1>1, <3>1, ExtremaAreNumbers
  <2> QED
    BY <1>1, <1>2, <1>3, <2>1 DEF Accumulate
<1>4. CASE cumulative.count # 0
  <2>1. Min(loss \cup {cumulative.first}) \in Nat /\ Max(loss \cup {cumulative.last}) \in Nat
    BY <1>1, ExtremaAreNumbers
  <2> QED
    BY <1>1, <1>2, <1>4, <2>1 DEF Accumulate
<1> QED
  BY <1>3, <1>4

(* So is the total with a nested loss. *)
LEMMA NestedIsNumbers ==
  ASSUME NEW total \in [count : Nat, first : Nat, last : Nat], NEW nested, nested \subseteq Seqs
  PROVE  AddNested(total, nested) \in [count : Nat, first : Nat, last : Nat]
<1>1. Cardinality(nested) \in Nat /\ Max(nested \cup {total.last}) \in Nat
  BY SeqsFinite, ExtremaAreNumbers
<1>2. total.count \in Nat /\ total.count + Cardinality(nested) \in Nat
  BY <1>1
<1> QED
  BY <1>1, <1>2 DEF AddNested

(* submit_flow keeps the invariant. *)
LEMMA SubmitFlowKeeps == IInv /\ SubmitFlow => IInv'
<1> SUFFICES ASSUME IInv, SubmitFlow PROVE IInv'
  OBVIOUS
<1>1. up /\ AppendRecord(FALSE) /\ lossDue' = AppendLoss(FlowBytes)
      /\ UNCHANGED <<cumulative, chores, lastReport>>
  BY DEF SubmitFlow, Idle
<1>2. lossDue' \subseteq Seqs
  BY <1>1, LossInSeqs DEF AppendLoss
<1>3. UNCHANGED <<ackedFile, up, cursor, inflight, reports, delivered, torn, sentUpTo,
                  crashes, failures, cumulative, chores, lastReport>>
  BY <1>1 DEF AppendRecord, client, faults
<1>4. TypeOK /\ SyncAfterAppend
  BY DEF IInv
<1>5. TypeOK'
  BY <1>1, <1>2, <1>3, <1>4, AppendKeeps DEF TypeOK
<1>6. SyncAfterAppend'
  BY <1>1, AppendKeeps DEF SyncAfterAppend
<1> QED
  BY <1>1, <1>5, <1>6, AppendKeeps DEF IInv

(* submit_health keeps the invariant. *)
LEMMA SubmitHealthKeeps == IInv /\ SubmitHealth => IInv'
<1> SUFFICES ASSUME IInv, SubmitHealth PROVE IInv'
  OBVIOUS
<1>1. up /\ AppendRecord(TRUE) /\ lossDue' = AppendLoss(HealthBytes)
      /\ chores # <<>> /\ chores' = Tail(chores) /\ UNCHANGED <<cumulative, lastReport>>
  BY DEF SubmitHealth
<1>2. lossDue' \subseteq Seqs
  BY <1>1, LossInSeqs DEF AppendLoss
<1>3. UNCHANGED <<ackedFile, up, cursor, inflight, reports, delivered, torn, sentUpTo,
                  crashes, failures, cumulative, lastReport>>
  BY <1>1 DEF AppendRecord, client, faults
<1>4. TypeOK /\ SyncAfterAppend
  BY DEF IInv
<1>5. chores' \in Seq({"health", "sync"})
  BY <1>1, <1>4 DEF TypeOK
<1>6. TypeOK'
  BY <1>1, <1>2, <1>3, <1>4, <1>5, AppendKeeps DEF TypeOK
<1>7. SyncAfterAppend'
  BY <1>1, AppendKeeps DEF SyncAfterAppend
<1> QED
  BY <1>1, <1>6, <1>7, AppendKeeps DEF IInv

(* report_loss keeps the invariant. *)
LEMMA ReportLossKeeps == IInv /\ ReportLoss => IInv'
<1> SUFFICES ASSUME IInv, ReportLoss PROVE IInv'
  OBVIOUS
<1> DEFINE total == Accumulate(cumulative, lossDue)
<1>1. up /\ lossDue # {} /\ AppendRecord(TRUE) /\ lossDue' = {} /\ chores' = chores
      /\ lastReport' = [seq |-> nextSeq, count |-> total.count]
      /\ cumulative' = AddNested(total, AppendLoss(HealthBytes))
  BY DEF ReportLoss
<1>2. AppendLoss(HealthBytes) \subseteq Seqs
  BY LossInSeqs DEF AppendLoss
<1>3. UNCHANGED <<ackedFile, up, cursor, inflight, reports, delivered, torn, sentUpTo,
                  crashes, failures>>
  BY <1>1 DEF AppendRecord, client, faults
<1>4. TypeOK /\ SyncAfterAppend /\ lossDue \subseteq Seqs /\ nextSeq \in Nat
  BY DEF IInv, TypeOK
<1>5. total \in [count : Nat, first : Nat, last : Nat]
  BY <1>1, <1>4, TotalIsNumbers
<1>6. cumulative' \in [count : Nat, first : Nat, last : Nat]
  BY <1>1, <1>2, <1>5, NestedIsNumbers
<1>7. lastReport' \in [seq : Nat \cup {-1}, count : Nat]
  BY <1>1, <1>4, <1>5
<1>8. TypeOK'
  BY <1>1, <1>3, <1>4, <1>6, <1>7, AppendKeeps DEF TypeOK
<1>9. SyncAfterAppend'
  BY <1>1, AppendKeeps DEF SyncAfterAppend
<1> QED
  BY <1>1, <1>8, <1>9, AppendKeeps DEF IInv

-----------------------------------------------------------------------------
(* Housekeeping and acknowledgement.                                       *)

(* Starting the housekeeping keeps the invariant. *)
LEMMA HousekeepingKeeps == IInv /\ Housekeeping => IInv'
<1> SUFFICES ASSUME IInv, Housekeeping PROVE IInv'
  OBVIOUS
<1>1. PICK n \in 1..MaxHealth :
        chores' = [i \in 1..(n + 1) |-> IF i <= n THEN "health" ELSE "sync"]
  BY DEF Housekeeping
<1>2. UNCHANGED <<segments, health, sequence, ackedFile, unsynced, sequenceSafe, up,
                  nextSeq, writer, acked, cursor, cumulative, lossDue, inflight, reports,
                  delivered, issued, dropped, torn, lostSince, lastReport, sentUpTo,
                  crashes, failures>>
  BY DEF Housekeeping, disk, client, history, faults
<1>3. n \in Nat /\ 1 <= n /\ n + 1 \in Nat
  BY SpoolAssumption
<1>4. chores' \in Seq({"health", "sync"})
  BY <1>1, <1>3
<1>5. Head(chores') = "health"
  BY <1>1, <1>3
<1>6. TypeOK'
  BY <1>2, <1>4 DEF IInv, TypeOK
<1>7. SyncAfterAppend'
  BY <1>5 DEF SyncAfterAppend
<1> QED
  BY <1>2, <1>6, <1>7 DEF IInv, SegmentsInOrder, WriterAtEnd, AcksAreDelivered, OnlyIssued,
       NumbersAhead, NoEventVanishes, WatermarkIsDelivered

(* Every record below the watermark is acknowledged or no longer there,    *)
(* and the watermark never passes the next number.                         *)
LEMMA WatermarkBound ==
  ASSUME TypeOK, SegmentsInOrder
  PROVE  /\ Watermark(segments, acked) \in Nat
         /\ Watermark(segments, acked) <= nextSeq
         /\ \A s \in Unacked(segments, acked) : Watermark(segments, acked) <= s
<1> DEFINE U == Unacked(segments, acked)
<1>1. nextSeq \in Nat
  BY SegmentTypes
<1>2. \A s \in U : s \in Nat /\ s < nextSeq
  BY InAllRecords, SegmentTypes, SpoolAssumption DEF Unacked, SegmentsInOrder, Seqs
<1>3. CASE U = {}
  BY <1>1, <1>3 DEF Watermark
<1>4. CASE U # {}
  <2>1. Min(U) \in U /\ \A y \in U : Min(U) <= y
    BY <1>2, <1>4, MinOfNat
  <2> QED
    BY <1>1, <1>2, <1>4, <2>1 DEF Watermark
<1> QED
  BY <1>3, <1>4

(* sync keeps the invariant: its watermark covers acknowledged records. *)
LEMMA SyncKeeps == IInv /\ Sync => IInv'
<1> SUFFICES ASSUME IInv, Sync PROVE IInv'
  OBVIOUS
<1>1. /\ up /\ chores # <<>> /\ Head(chores) = "sync"
      /\ ackedFile' = Watermark(segments, acked)
      /\ unsynced' = unsynced \ OpenRecords
      /\ sequenceSafe' = IF writer THEN sequence ELSE sequenceSafe
      /\ chores' = Tail(chores)
      /\ UNCHANGED <<segments, health, sequence, up, nextSeq, writer, acked, cursor,
                     cumulative, lossDue, inflight, reports, delivered, issued, dropped,
                     torn, lostSince, lastReport, sentUpTo, crashes, failures>>
  BY DEF Sync, client, history, faults
<1>2. /\ TypeOK /\ SegmentsInOrder /\ WriterAtEnd /\ AcksAreDelivered /\ OnlyIssued
      /\ NumbersAhead /\ NoEventVanishes /\ WatermarkIsDelivered
  BY DEF IInv
<1>3. /\ Watermark(segments, acked) \in Nat
      /\ Watermark(segments, acked) <= nextSeq
      /\ \A s \in Unacked(segments, acked) : Watermark(segments, acked) <= s
  BY <1>2, WatermarkBound
<1>4. writer /\ sequenceSafe' = sequence
  BY <1>1 DEF IInv, SyncAfterAppend
<1>5. nextSeq \in Nat /\ sequence \in Nat /\ issued \subseteq Seqs
  BY <1>2 DEF TypeOK
<1>6. TypeOK'
  <2>1. chores' \in Seq({"health", "sync"})
    BY <1>1, <1>2 DEF TypeOK
  <2> QED
    BY <1>1, <1>2, <1>3, <1>4, <2>1 DEF TypeOK
<1>7. SegmentsInOrder' /\ WriterAtEnd' /\ OnlyIssued' /\ NoEventVanishes'
  BY <1>1, <1>2 DEF SegmentsInOrder, WriterAtEnd, OnlyIssued, NoEventVanishes
<1>8. SyncAfterAppend'
  BY <1>1, <1>4 DEF SyncAfterAppend
<1>9. AcksAreDelivered'
  <2>1. ASSUME NEW s \in AllRecords(segments), s < Watermark(segments, acked)
        PROVE  s \in delivered
    <3>1. s \in Nat
      BY InAllRecords, SpoolAssumption DEF Seqs
    <3>2. s \in acked
      BY <1>3, <2>1, <3>1 DEF Unacked
    <3> QED
      BY <1>2, <3>2 DEF AcksAreDelivered
  <2> QED
    BY <1>1, <1>2, <2>1 DEF AcksAreDelivered
<1>10. NumbersAhead'
  BY <1>1, <1>2, <1>3, <1>4, <1>5 DEF NumbersAhead
<1>11. WatermarkIsDelivered'
  <2> SUFFICES ASSUME NEW s \in issued, s < Watermark(segments, acked)
               PROVE  s \in delivered \cup dropped \cup torn
    BY <1>1 DEF WatermarkIsDelivered
  <2>1. s \in Nat
    BY <1>5, SpoolAssumption DEF Seqs
  <2>2. s \notin Unacked(segments, acked)
    BY <1>3, <2>1
  <2> QED
    BY <1>2, <2>2 DEF NoEventVanishes
<1> QED
  BY <1>6, <1>7, <1>8, <1>9, <1>10, <1>11 DEF IInv

(* A directory with fewer or shorter segments is still in order. *)
LEMMA ShrunkInOrder ==
  ASSUME TypeOK, SegmentsInOrder, nextSeq' \in Nat, nextSeq' >= nextSeq,
         DOMAIN segments' \subseteq DOMAIN segments,
         \A f \in DOMAIN segments' : segments'[f] \in Nat /\ segments'[f] <= segments[f]
  PROVE  SegmentsInOrder' /\ AllRecords(segments') \subseteq AllRecords(segments)
<1>1. \A f \in DOMAIN segments' : /\ f \in Nat /\ f \in DOMAIN segments
                                  /\ segments[f] \in Nat /\ segments'[f] \in Nat
                                  /\ segments'[f] <= segments[f]
  BY SegmentTypes
<1>2. nextSeq \in Nat /\ MaxSeq \in Nat
  BY SegmentTypes, SpoolAssumption
<1>3. \A f \in DOMAIN segments' : f + segments'[f] <= f + segments[f]
  BY <1>1
<1>4. SegmentsInOrder'
  BY <1>1, <1>2, <1>3 DEF SegmentsInOrder
<1>5. ASSUME NEW s \in AllRecords(segments')
      PROVE  s \in AllRecords(segments)
  <2>1. PICK f \in DOMAIN segments' : f <= s /\ s < f + segments'[f]
    BY InAllRecords
  <2>2. s \in Seqs /\ s \in Nat
    BY InAllRecords, SpoolAssumption DEF Seqs
  <2> QED
    BY <1>1, <2>1, <2>2, InAllRecords
<1> QED
  BY <1>4, <1>5

(* drop_acked_front removes acknowledged records only and keeps the last   *)
(* segment.                                                                *)
LEMMA FrontIsAcked ==
  ASSUME TypeOK, SegmentsInOrder, NEW A, NEW S, S = Without(segments, AckedFront(segments, A))
  PROVE  /\ DOMAIN S \subseteq DOMAIN segments
         /\ \A f \in DOMAIN S : S[f] = segments[f]
         /\ S \in [DOMAIN S -> Nat \ {0}]
         /\ DOMAIN segments # {} => DOMAIN S # {} /\ Back(S) = Back(segments)
         /\ AllRecords(S) \subseteq AllRecords(segments)
         /\ AllRecords(segments) \ A \subseteq AllRecords(S)
<1> DEFINE D == AckedFront(segments, A)
<1>1. /\ DOMAIN S = DOMAIN segments \ D
      /\ \A f \in DOMAIN S : S[f] = segments[f]
      /\ S \in [DOMAIN S -> Nat \ {0}]
  BY DEF Without, TypeOK
<1>2. Directory(segments)
  BY SegmentTypes
<1>3. Back(segments) \notin D
  BY DEF AckedFront
<1>4. /\ DOMAIN segments # {} => DOMAIN S # {} /\ Back(S) = Back(segments)
      /\ AllRecords(S) \subseteq AllRecords(segments)
  BY <1>2, <1>3, WithoutSegments
<1>5. ASSUME NEW s \in AllRecords(segments) \ A
      PROVE  s \in AllRecords(S)
  <2>1. PICK f \in DOMAIN segments : s \in Records(segments, f)
    BY <1>5 DEF AllRecords
  <2>2. f \notin D
    <3>1. f <= f
      BY SegmentTypes
    <3> QED
      BY <1>5, <2>1, <3>1 DEF AckedFront
  <2>3. f \in DOMAIN S /\ s \in Records(S, f)
    BY <1>1, <2>1, <2>2 DEF Records
  <2> QED
    BY <2>3 DEF AllRecords
<1> QED
  BY <1>1, <1>4, <1>5

(* The cursors a pump or an open can leave are positions. *)
LEMMA CursorTypes ==
  ASSUME NEW S, DOMAIN S \subseteq Seqs, S \in [DOMAIN S -> Nat \ {0}], NEW A
  PROVE  /\ \A s \in AllRecords(S) : CursorAt(S, s) \in [segment : Nat, offset : Nat]
         /\ CursorAtEnd(S) \in [segment : Nat, offset : Nat]
         /\ Rewind(S, A) \in [segment : Nat, offset : Nat]
<1>1. \A f \in DOMAIN S : f \in Nat /\ S[f] \in Nat
  BY SpoolAssumption DEF Seqs
<1>2. DOMAIN S # {} => Back(S) \in DOMAIN S
  BY BackIsLast
<1>3. ASSUME NEW s \in AllRecords(S)
      PROVE  CursorAt(S, s) \in [segment : Nat, offset : Nat]
  <2> DEFINE f == CHOOSE g \in DOMAIN S : s \in Records(S, g)
  <2>1. \E g \in DOMAIN S : s \in Records(S, g)
    BY DEF AllRecords
  <2>2. f \in DOMAIN S /\ s \in Records(S, f)
    BY <2>1
  <2> HIDE DEF f
  <2>3. f \in Nat /\ s - f \in Nat
    BY <1>1, <2>2, SpoolAssumption DEF Records, Seqs
  <2>4. CursorAt(S, s) = [segment |-> f, offset |-> s - f]
    BY DEF CursorAt, f
  <2> QED
    BY <2>3, <2>4
<1>4. CursorAtEnd(S) \in [segment : Nat, offset : Nat]
  BY <1>1, <1>2 DEF CursorAtEnd, Start
<1>5. Rewind(S, A) \in [segment : Nat, offset : Nat]
  <2> DEFINE open == {f \in DOMAIN S : Records(S, f) \ A # {}}
  <2>1. CASE open # {}
    <3>1. open \subseteq Seqs /\ 0 \in Nat
      OBVIOUS
    <3>2. Min(open) \in Nat
      BY <2>1, <3>1, ExtremaAreNumbers
    <3> QED
      BY <2>1, <3>2 DEF Rewind
  <2>2. CASE open = {} /\ DOMAIN S # {}
    BY <1>1, <1>2, <2>2 DEF Rewind
  <2>3. CASE open = {} /\ DOMAIN S = {}
    BY <2>3 DEF Rewind, Start
  <2> QED
    BY <2>1, <2>2, <2>3
<1> QED
  BY <1>3, <1>4, <1>5

(* pump keeps the invariant. *)
LEMMA PumpKeeps ==
  ASSUME IInv, NEW stop, Pump(stop)
  PROVE  IInv'
<1> DEFINE A == AckedByReports
           S == Without(segments, AckedFront(segments, A))
           from == IF FailedReport THEN Rewind(S, A) ELSE cursor
           readable == Readable(S, A, from)
           batch == {s \in readable : s < stop}
<1>1. /\ \A s \in batch : inflight[s] < MaxCopies
      /\ segments' = S
      /\ acked' = A \cap AllRecords(S)
      /\ cursor' = IF stop \in readable THEN CursorAt(S, stop) ELSE CursorAtEnd(S)
      /\ inflight' = [s \in Seqs |-> inflight[s] + IF s \in batch THEN 1 ELSE 0]
      /\ reports' = {}
      /\ sentUpTo' = Max({IF FailedReport THEN -1 ELSE sentUpTo} \cup batch)
      /\ unsynced' = unsynced \cap AllRecords(S)
      /\ UNCHANGED <<health, sequence, ackedFile, sequenceSafe, up, nextSeq, writer,
                     cumulative, chores, lossDue, delivered, issued, dropped, torn,
                     lostSince, lastReport, crashes, failures>>
  BY DEF Pump, faults
<1>2. /\ TypeOK /\ SegmentsInOrder /\ WriterAtEnd /\ SyncAfterAppend /\ AcksAreDelivered
      /\ OnlyIssued /\ NumbersAhead /\ NoEventVanishes /\ WatermarkIsDelivered
  BY DEF IInv
<1> HIDE DEF A, from
<1>3. /\ DOMAIN S \subseteq DOMAIN segments
      /\ \A f \in DOMAIN S : S[f] = segments[f]
      /\ S \in [DOMAIN S -> Nat \ {0}]
      /\ DOMAIN segments # {} => DOMAIN S # {} /\ Back(S) = Back(segments)
      /\ AllRecords(S) \subseteq AllRecords(segments)
      /\ AllRecords(segments) \ A \subseteq AllRecords(S)
  BY <1>2, FrontIsAcked
<1>4. readable \subseteq AllRecords(S) /\ batch \subseteq AllRecords(S)
  BY DEF Readable, Unacked
<1>5. AllRecords(segments) \subseteq Seqs
  BY InAllRecords
<1>6. A \subseteq delivered /\ acked \subseteq A
  BY <1>2, <1>5 DEF AckedByReports, AcksAreDelivered, A
<1> HIDE DEF S, readable, batch
<1>7. TypeOK'
  <2>1. DOMAIN segments' \subseteq Seqs /\ segments' \in [DOMAIN segments' -> Nat \ {0}]
    BY <1>1, <1>2, <1>3 DEF TypeOK
  <2>2. cursor' \in [segment : Nat, offset : Nat]
    BY <1>1, <1>4, <2>1, CursorTypes
  <2>3. inflight' \in [Seqs -> 0..MaxCopies]
    <3>1. ASSUME NEW s \in Seqs
          PROVE  inflight[s] + (IF s \in batch THEN 1 ELSE 0) \in 0..MaxCopies
      <4>1. inflight[s] \in 0..MaxCopies /\ MaxCopies \in Nat
        BY <1>2, SpoolAssumption DEF TypeOK
      <4> QED
        BY <1>1, <4>1
    <3> QED
      BY <1>1, <3>1
  <2>4. sentUpTo' \in Seqs \cup {-1}
    <3> DEFINE x == IF FailedReport THEN -1 ELSE sentUpTo
               M == {x} \cup batch
    <3>1. M \subseteq Seqs \cup {-1}
      BY <1>2, <1>3, <1>4, <1>5 DEF TypeOK
    <3>2. M \in SUBSET Int /\ M # {} /\ MaxSeq \in Int /\ \A y \in M : y <= MaxSeq
      BY <3>1, SpoolAssumption DEF Seqs
    <3> HIDE DEF M
    <3>3. Max(M) \in M
      BY <3>2, MaxOfBounded
    <3> QED
      BY <1>1, <3>1, <3>3 DEF M
  <2>5. unsynced' \subseteq AllRecords(segments') /\ acked' \subseteq AllRecords(segments')
    BY <1>1
  <2> QED
    BY <1>1, <1>2, <2>1, <2>2, <2>3, <2>4, <2>5 DEF TypeOK
<1>8. SegmentsInOrder'
  <2>1. nextSeq' \in Nat /\ nextSeq' >= nextSeq
    BY <1>1, <1>2, SegmentTypes
  <2>2. \A f \in DOMAIN segments' : segments'[f] \in Nat /\ segments'[f] <= segments[f]
    BY <1>1, <1>2, <1>3, SegmentTypes
  <2> QED
    BY <1>1, <1>2, <1>3, <2>1, <2>2, ShrunkInOrder
<1>9. WriterAtEnd'
  <2> SUFFICES ASSUME writer
               PROVE  /\ up /\ DOMAIN S # {}
                      /\ Back(S) + S[Back(S)] = nextSeq
    BY <1>1 DEF WriterAtEnd
  <2>1. up /\ DOMAIN segments # {} /\ Back(segments) + segments[Back(segments)] = nextSeq
    BY <1>2 DEF WriterAtEnd
  <2>2. DOMAIN S # {} /\ Back(S) = Back(segments)
    BY <1>3, <2>1
  <2>3. Back(S) \in DOMAIN S
    BY <1>2, <1>3, <2>2, BackIsLast DEF TypeOK
  <2> QED
    BY <1>3, <2>1, <2>2, <2>3
<1>10. SyncAfterAppend'
  BY <1>1, <1>2 DEF SyncAfterAppend
<1>11. AcksAreDelivered'
  BY <1>1, <1>2, <1>3, <1>6 DEF AcksAreDelivered
<1>12. OnlyIssued'
  <2>1. AllRecords(segments') \subseteq issued'
    BY <1>1, <1>2, <1>3 DEF OnlyIssued
  <2>2. ASSUME NEW s \in Seqs, inflight'[s] > 0
        PROVE  s \in issued
    <3>1. CASE s \in batch
      BY <1>2, <1>3, <1>4, <3>1 DEF OnlyIssued
    <3>2. CASE s \notin batch
      <4>1. inflight[s] \in Nat
        BY <1>2, SpoolAssumption DEF TypeOK
      <4>2. inflight'[s] = inflight[s]
        BY <1>1, <3>2, <4>1
      <4> QED
        BY <1>2, <2>2, <4>2 DEF OnlyIssued
    <3> QED
      BY <3>1, <3>2
  <2> QED
    BY <1>1, <2>1, <2>2 DEF OnlyIssued
<1>13. NumbersAhead'
  BY <1>1, <1>2 DEF NumbersAhead
<1>14. NoEventVanishes'
  BY <1>1, <1>2, <1>3, <1>6 DEF NoEventVanishes, Unacked
<1>15. WatermarkIsDelivered'
  BY <1>1, <1>2 DEF WatermarkIsDelivered
<1> QED
  BY <1>7, <1>8, <1>9, <1>10, <1>11, <1>12, <1>13, <1>14, <1>15 DEF IInv

-----------------------------------------------------------------------------
(* The broker.                                                             *)

(* More deliveries and reports of them keep the invariant. *)
LEMMA BrokerKeeps ==
  ASSUME IInv, NEW s \in Seqs, NEW ok \in BOOLEAN, NEW stored \in BOOLEAN, ok => stored,
         inflight[s] > 0,
         inflight' = [inflight EXCEPT ![s] = @ - 1],
         delivered' = IF stored THEN delivered \cup {s} ELSE delivered,
         reports' = reports \cup {<<s, ok>>},
         failures' \in 0..MaxFailures,
         UNCHANGED <<disk, process, history, crashes>>
  PROVE  IInv'
<1>1. UNCHANGED <<segments, health, sequence, ackedFile, unsynced, sequenceSafe, up, nextSeq,
                  writer, acked, cursor, cumulative, chores, lossDue, issued, dropped, torn,
                  lostSince, lastReport, sentUpTo, crashes>>
  BY DEF disk, process, history
<1>2. /\ TypeOK /\ SegmentsInOrder /\ WriterAtEnd /\ SyncAfterAppend /\ AcksAreDelivered
      /\ OnlyIssued /\ NumbersAhead /\ NoEventVanishes /\ WatermarkIsDelivered
  BY DEF IInv
<1>3. delivered \subseteq delivered' /\ delivered' \subseteq Seqs
  BY <1>2 DEF TypeOK
<1>4. inflight' \in [Seqs -> 0..MaxCopies] /\ \A t \in Seqs : inflight'[t] <= inflight[t]
  <2>1. inflight \in [Seqs -> 0..MaxCopies] /\ MaxCopies \in Nat
    BY <1>2, SpoolAssumption DEF TypeOK
  <2>2. inflight[s] - 1 \in 0..MaxCopies /\ inflight[s] - 1 <= inflight[s]
    BY <2>1
  <2> QED
    BY <2>1, <2>2
<1>5. TypeOK'
  <2>1. <<s, ok>> \in Seqs \X BOOLEAN
    OBVIOUS
  <2>2. reports' \subseteq Seqs \X BOOLEAN
    BY <1>2, <2>1 DEF TypeOK
  <2> QED
    BY <1>1, <1>2, <1>3, <1>4, <2>2 DEF TypeOK
<1>6. SegmentsInOrder' /\ WriterAtEnd' /\ SyncAfterAppend' /\ NumbersAhead'
  BY <1>1, <1>2 DEF SegmentsInOrder, WriterAtEnd, SyncAfterAppend, NumbersAhead
<1>7. AcksAreDelivered'
  BY <1>1, <1>2, <1>3 DEF AcksAreDelivered
<1>8. OnlyIssued'
  <2>1. \A t \in Seqs : inflight'[t] > 0 => inflight[t] > 0
    BY <1>2, <1>4, <1>5, SpoolAssumption DEF TypeOK
  <2> QED
    BY <1>1, <1>2, <2>1 DEF OnlyIssued
<1>9. NoEventVanishes' /\ WatermarkIsDelivered'
  BY <1>1, <1>2, <1>3 DEF NoEventVanishes, WatermarkIsDelivered
<1> QED
  BY <1>5, <1>6, <1>7, <1>8, <1>9 DEF IInv

(* A successful delivery keeps the invariant. *)
LEMMA BrokerAppendKeeps ==
  ASSUME IInv, NEW s \in Seqs, BrokerAppend(s)
  PROVE  IInv'
<1>1. /\ inflight[s] > 0
      /\ inflight' = [inflight EXCEPT ![s] = @ - 1]
      /\ delivered' = IF TRUE THEN delivered \cup {s} ELSE delivered
      /\ reports' = reports \cup {<<s, TRUE>>}
      /\ UNCHANGED <<disk, process, history, crashes>>
  BY DEF BrokerAppend, faults
<1>2. failures' \in 0..MaxFailures
  BY DEF BrokerAppend, faults, IInv, TypeOK
<1>3. TRUE \in BOOLEAN
  OBVIOUS
<1> QED
  BY <1>1, <1>2, <1>3, BrokerKeeps, Zenon

(* A failed delivery keeps the invariant. *)
LEMMA BrokerFailKeeps ==
  ASSUME IInv, NEW s \in Seqs, NEW stored \in BOOLEAN, BrokerFail(s, stored)
  PROVE  IInv'
<1>1. /\ inflight[s] > 0
      /\ inflight' = [inflight EXCEPT ![s] = @ - 1]
      /\ delivered' = IF stored THEN delivered \cup {s} ELSE delivered
      /\ reports' = reports \cup {<<s, FALSE>>}
      /\ UNCHANGED <<disk, process, history, crashes>>
  BY DEF BrokerFail
<1>2. failures' \in 0..MaxFailures
  <2>1. failures \in 0..MaxFailures /\ failures < MaxFailures /\ failures' = failures + 1
    BY DEF BrokerFail, IInv, TypeOK
  <2> QED
    BY <2>1, SpoolAssumption
<1>3. FALSE \in BOOLEAN /\ (FALSE => stored)
  OBVIOUS
<1> QED
  BY <1>1, <1>2, <1>3, BrokerKeeps, Zenon

-----------------------------------------------------------------------------
(* Crashes and restarts.                                                   *)

(* A crash keeps the invariant if the files it leaves hold every record    *)
(* that was not acknowledged, dropped or torn off, and the number a        *)
(* restart resumes at stays above the watermark.                           *)
LEMMA DieKeeps ==
  ASSUME IInv, NEW got, Die(got),
         DOMAIN segments' \subseteq DOMAIN segments,
         segments' \in [DOMAIN segments' -> Nat \ {0}],
         \A f \in DOMAIN segments' : segments'[f] <= segments[f],
         unsynced' \subseteq AllRecords(segments'),
         ackedFile' \in 0..ackedFile,
         sequence' \in Nat, sequenceSafe' \in Nat,
         ackedFile <= sequenceSafe', sequenceSafe' <= sequence',
         RenameDurable => sequence' >= sequence,
         dropped \subseteq dropped', dropped' \subseteq Seqs,
         torn \subseteq torn', torn' \subseteq Seqs,
         Unacked(segments, acked) \subseteq AllRecords(segments') \cup dropped' \cup torn'
  PROVE  IInv'
<1>1. /\ crashes < MaxCrashes
      /\ crashes' = crashes + 1
      /\ got \subseteq {s \in Seqs : inflight[s] > 0}
      /\ delivered' = delivered \cup got
      /\ up' = FALSE
      /\ writer' = FALSE
      /\ acked' = {}
      /\ cursor' = Start
      /\ cumulative' = NoLoss
      /\ chores' = <<>>
      /\ lossDue' = {}
      /\ inflight' = NoneQueued
      /\ reports' = {}
      /\ lostSince' = {}
      /\ lastReport' = NoReport
      /\ sentUpTo' = -1
      /\ UNCHANGED <<health, nextSeq, issued, failures>>
  BY DEF Die
<1>2. /\ TypeOK /\ SegmentsInOrder /\ AcksAreDelivered /\ OnlyIssued
      /\ NumbersAhead /\ NoEventVanishes /\ WatermarkIsDelivered
  BY DEF IInv
<1>3. SegmentsInOrder' /\ AllRecords(segments') \subseteq AllRecords(segments)
  <2>1. nextSeq' \in Nat /\ nextSeq' >= nextSeq
    BY <1>1, <1>2, SegmentTypes
  <2>2. \A f \in DOMAIN segments' : segments'[f] \in Nat /\ segments'[f] <= segments[f]
    OBVIOUS
  <2> QED
    BY <1>2, <2>1, <2>2, ShrunkInOrder
<1>4. delivered \subseteq delivered' /\ delivered' \subseteq Seqs
  BY <1>1, <1>2 DEF TypeOK
<1>5. ackedFile \in Nat /\ ackedFile' \in Nat /\ ackedFile' <= ackedFile
      /\ issued \subseteq Nat /\ sequence \in Nat /\ AllRecords(segments') \subseteq Nat
  <2>1. ackedFile \in Nat /\ issued \subseteq Seqs /\ sequence \in Nat
    BY <1>2 DEF TypeOK
  <2>2. Seqs \subseteq Nat
    BY SpoolAssumption DEF Seqs
  <2>3. AllRecords(segments') \subseteq Seqs
    BY InAllRecords
  <2> QED
    BY <2>1, <2>2, <2>3
<1>6. TypeOK'
  <2>1. DOMAIN segments' \subseteq Seqs
    BY <1>2 DEF TypeOK
  <2>2. crashes' \in 0..MaxCrashes
    <3>1. crashes \in 0..MaxCrashes /\ MaxCrashes \in Nat
      BY <1>2, SpoolAssumption DEF TypeOK
    <3>2. crashes \in Nat /\ crashes + 1 <= MaxCrashes
      BY <1>1, <3>1
    <3> QED
      BY <1>1, <3>1, <3>2
  <2>3. NoneQueued \in [Seqs -> 0..MaxCopies]
    BY SpoolAssumption DEF NoneQueued
  <2>4. /\ Start \in [segment : Nat, offset : Nat]
        /\ NoLoss \in [count : Nat, first : Nat, last : Nat]
        /\ NoReport \in [seq : Nat \cup {-1}, count : Nat]
    BY DEF Start, NoLoss, NoReport
  <2>5. <<>> \in Seq({"health", "sync"})
    OBVIOUS
  <2> QED
    BY <1>1, <1>2, <1>4, <1>5, <2>1, <2>2, <2>3, <2>4, <2>5 DEF TypeOK
<1>7. WriterAtEnd' /\ SyncAfterAppend'
  BY <1>1 DEF WriterAtEnd, SyncAfterAppend
<1>8. AcksAreDelivered'
  <2>1. \A s \in AllRecords(segments') : s < ackedFile' => s < ackedFile
    BY <1>5
  <2> QED
    BY <1>1, <1>2, <1>3, <1>4, <2>1 DEF AcksAreDelivered
<1>9. OnlyIssued'
  BY <1>1, <1>2, <1>3 DEF OnlyIssued, NoneQueued
<1>10. NumbersAhead'
  <2>1. ackedFile' <= sequenceSafe'
    BY <1>5
  <2>2. RenameDurable => \A s \in issued : s < sequence'
    BY <1>2, <1>5 DEF NumbersAhead
  <2> QED
    BY <1>1, <2>1, <2>2 DEF NumbersAhead
<1>11. NoEventVanishes'
  BY <1>1, <1>2, <1>4 DEF NoEventVanishes, Unacked
<1>12. WatermarkIsDelivered'
  <2>1. \A s \in issued : s < ackedFile' => s < ackedFile
    BY <1>5
  <2> QED
    BY <1>1, <1>2, <1>4, <2>1 DEF WatermarkIsDelivered
<1> QED
  BY <1>3, <1>6, <1>7, <1>8, <1>9, <1>10, <1>11, <1>12 DEF IInv

(* A crash between handlers keeps the invariant. *)
LEMMA CrashKeeps == IInv /\ Crash => IInv'
<1> SUFFICES ASSUME IInv, Crash PROVE IInv'
  OBVIOUS
<1>1. PICK got \in SUBSET Seqs : Die(got)
  BY DEF Crash
<1>2. UNCHANGED <<segments, sequence, ackedFile, unsynced, sequenceSafe, dropped, torn>>
  BY DEF Crash
<1>3. TypeOK /\ NumbersAhead
  BY DEF IInv
<1>4. \A f \in DOMAIN segments' : segments'[f] <= segments[f]
  BY <1>2, <1>3, SegmentTypes
<1>5. /\ segments' \in [DOMAIN segments' -> Nat \ {0}]
      /\ unsynced' \subseteq AllRecords(segments')
      /\ sequence' \in Nat /\ sequenceSafe' \in Nat /\ ackedFile \in Nat
      /\ dropped' \subseteq Seqs /\ torn' \subseteq Seqs
  BY <1>2, <1>3 DEF TypeOK
<1>6. /\ ackedFile <= sequenceSafe' /\ sequenceSafe' <= sequence' /\ sequence' >= sequence
      /\ ackedFile' \in 0..ackedFile
  BY <1>2, <1>3, <1>5 DEF NumbersAhead
<1>7. Unacked(segments, acked) \subseteq AllRecords(segments') \cup dropped' \cup torn'
  BY <1>2 DEF Unacked
<1> QED
  BY <1>1, <1>2, <1>4, <1>5, <1>6, <1>7, DieKeeps

(* The numbers an append reserves before it can be interrupted. *)
LEMMA ReservedNumbers ==
  ASSUME TypeOK, NumbersAhead, NEW len
  PROVE  /\ Reserved \in Nat /\ Reserved >= sequence
         /\ SequenceSafeAfter(len) \in Nat
         /\ ackedFile <= SequenceSafeAfter(len) /\ SequenceSafeAfter(len) <= Reserved
<1>1. nextSeq \in Nat /\ sequence \in Nat /\ sequenceSafe \in Nat /\ ackedFile \in Nat
      /\ SEQUENCE_BLOCK \in Nat
  BY SpoolAssumption DEF TypeOK
<1> QED
  BY <1>1 DEF Reserved, SequenceSafeAfter, NumbersAhead

(* A crash inside an append keeps the invariant. *)
LEMMA CrashInAppendKeeps ==
  ASSUME IInv, NEW len, CrashInAppend(len)
  PROVE  IInv'
<1> DEFINE D == OverLimit(Rotated(len), len)
<1>1. PICK got \in SUBSET Seqs : Die(got)
  BY DEF CrashInAppend
<1>2. PICK cut \in D :
        LET unlinked == {f \in D : f <= cut}
            kept == Without(segments, unlinked)
        IN  /\ segments' = kept
            /\ unsynced' = UnsyncedAfter(len) \cap AllRecords(kept)
            /\ dropped' = dropped \cup LossOf(unlinked)
  BY DEF CrashInAppend
<1> DEFINE E == {f \in D : f <= cut}
<1> HIDE DEF E
<1>3. /\ segments' = Without(segments, E)
      /\ unsynced' = UnsyncedAfter(len) \cap AllRecords(Without(segments, E))
      /\ dropped' = dropped \cup LossOf(E)
      /\ sequence' = Reserved /\ sequenceSafe' = SequenceSafeAfter(len)
      /\ UNCHANGED <<ackedFile, torn>>
  BY <1>2 DEF CrashInAppend, E
<1>4. TypeOK /\ NumbersAhead
  BY DEF IInv
<1>5. /\ DOMAIN segments' = DOMAIN segments \ E
      /\ \A f \in DOMAIN segments' : segments'[f] = segments[f]
  BY <1>3 DEF Without
<1>6. \A f \in DOMAIN segments' : segments'[f] <= segments[f]
  BY <1>4, <1>5, SegmentTypes
<1>7. segments' \in [DOMAIN segments' -> Nat \ {0}]
  BY <1>3, <1>4 DEF Without, TypeOK
<1>8. unsynced' \subseteq AllRecords(segments')
  BY <1>3
<1>9. /\ sequence' \in Nat /\ sequenceSafe' \in Nat /\ sequence' >= sequence
      /\ ackedFile <= sequenceSafe' /\ sequenceSafe' <= sequence'
  BY <1>3, <1>4, ReservedNumbers
<1>10. dropped' \subseteq Seqs /\ torn' \subseteq Seqs /\ ackedFile' \in 0..ackedFile
  BY <1>3, <1>4, LossInSeqs DEF TypeOK
<1>11. Unacked(segments, acked) \subseteq AllRecords(segments') \cup dropped' \cup torn'
  BY <1>3, LossOrKept DEF Unacked
<1> QED
  BY <1>1, <1>3, <1>5, <1>6, <1>7, <1>8, <1>9, <1>10, <1>11, DieKeeps

(* A power cut keeps the invariant. *)
LEMMA PowerCutKeeps == IInv /\ PowerCut => IInv'
<1> SUFFICES ASSUME IInv, PowerCut PROVE IInv'
  OBVIOUS
<1>1. PICK got \in SUBSET Seqs : Die(got)
  BY DEF PowerCut
<1>2. PICK keep \in [DOMAIN segments -> 0..(MaxSeq + 1)] :
        LET lost == AllRecords(segments) \ AllRecords(Torn(keep))
        IN  /\ \A f \in DOMAIN segments : keep[f] <= segments[f]
            /\ lost \subseteq unsynced
            /\ segments' = Torn(keep)
            /\ unsynced' = unsynced \ lost
            /\ torn' = torn \cup (lost \ acked)
  BY DEF PowerCut
<1>3. /\ sequence' \in IF RenameDurable THEN {sequence} ELSE {sequence, sequenceSafe}
      /\ sequenceSafe' = sequence' /\ ackedFile' \in 0..ackedFile /\ dropped' = dropped
  BY DEF PowerCut
<1>4. TypeOK /\ NumbersAhead
  BY DEF IInv
<1>5. /\ sequence \in Nat /\ sequenceSafe \in Nat /\ ackedFile \in Nat
      /\ dropped \subseteq Seqs /\ torn \subseteq Seqs /\ unsynced \subseteq AllRecords(segments)
  BY <1>4 DEF TypeOK
<1>6. /\ DOMAIN segments' = {g \in DOMAIN segments : keep[g] > 0}
      /\ \A f \in DOMAIN segments' : segments'[f] = keep[f]
      /\ segments' = [f \in DOMAIN segments' |-> keep[f]]
  BY <1>2 DEF Torn
<1>7. /\ DOMAIN segments' \subseteq DOMAIN segments
      /\ \A f \in DOMAIN segments' : segments'[f] \in Nat \ {0} /\ segments'[f] <= segments[f]
  BY <1>2, <1>6, SpoolAssumption
<1>8. segments' \in [DOMAIN segments' -> Nat \ {0}]
  BY <1>6, <1>7
<1>9. unsynced' \subseteq AllRecords(segments')
  BY <1>2, <1>5
<1>10. /\ sequence' \in Nat /\ sequenceSafe' \in Nat
       /\ ackedFile <= sequenceSafe' /\ sequenceSafe' <= sequence'
       /\ RenameDurable => sequence' >= sequence
  BY <1>3, <1>4, <1>5, SpoolAssumption DEF NumbersAhead
<1>11. torn \subseteq torn' /\ torn' \subseteq Seqs
  BY <1>2, <1>5, InAllRecords
<1>12. Unacked(segments, acked) \subseteq AllRecords(segments') \cup dropped' \cup torn'
  BY <1>2 DEF Unacked
<1> QED
  BY <1>1, <1>3, <1>5, <1>7, <1>8, <1>9, <1>10, <1>11, <1>12, DieKeeps

(* Open resumes above every record on disk and every reserved number. *)
LEMMA RecoveredNumber ==
  ASSUME TypeOK, NEW r,
         r = IF AllRecords(segments) = {} THEN sequence
             ELSE Max({sequence, Max(AllRecords(segments)) + 1})
  PROVE  r \in Nat /\ r >= sequence /\ \A s \in AllRecords(segments) : s < r
<1> DEFINE R == AllRecords(segments)
<1>1. R \subseteq Seqs /\ sequence \in Nat
  BY InAllRecords DEF TypeOK
<1>2. CASE R = {}
  BY <1>1, <1>2
<1>3. CASE R # {}
  <2> DEFINE m == Max(R)
             P == {sequence, m + 1}
  <2>1. R \in SUBSET Int /\ MaxSeq \in Int /\ R \subseteq Nat /\ \A s \in R : s <= MaxSeq
    BY <1>1, SpoolAssumption DEF Seqs
  <2>2. m \in R /\ \A s \in R : m >= s
    BY <1>3, <2>1, MaxOfBounded
  <2>3. m \in Nat
    BY <2>1, <2>2
  <2> HIDE DEF m
  <2>4. P \in SUBSET Int /\ P # {} /\ sequence + m + 1 \in Int
        /\ \A y \in P : y <= sequence + m + 1
    BY <1>1, <2>3
  <2>5. Max(P) \in P /\ \A y \in P : Max(P) >= y
    BY <2>4, MaxOfBounded
  <2>6. r = Max(P)
    BY <1>3 DEF m
  <2>7. r \in Nat /\ r >= sequence /\ r >= m + 1
    BY <1>1, <2>3, <2>5, <2>6
  <2> QED
    BY <2>1, <2>2, <2>3, <2>7
<1> QED
  BY <1>2, <1>3

(* open keeps the invariant. *)
LEMMA OpenKeeps == IInv /\ Open => IInv'
<1> SUFFICES ASSUME IInv, Open PROVE IInv'
  OBVIOUS
<1> DEFINE r == IF AllRecords(segments) = {} THEN sequence
                ELSE Max({sequence, Max(AllRecords(segments)) + 1})
           known == {s \in AllRecords(segments) : s < ackedFile}
           S == Without(segments, AckedFront(segments, known))
<1>1. /\ ~up /\ up' = TRUE
      /\ nextSeq' = r
      /\ sequence' = r + SEQUENCE_BLOCK
      /\ sequenceSafe' = sequence
      /\ segments' = S
      /\ acked' = known \cap AllRecords(S)
      /\ cursor' = Rewind(S, known)
      /\ unsynced' = unsynced \cap AllRecords(S)
      /\ UNCHANGED <<health, ackedFile, writer, cumulative, chores, lossDue, inflight,
                     reports, delivered, issued, dropped, torn, lostSince, lastReport,
                     sentUpTo, crashes, failures>>
  BY DEF Open, client, history, faults
<1>2. /\ TypeOK /\ SegmentsInOrder /\ WriterAtEnd /\ SyncAfterAppend /\ AcksAreDelivered
      /\ OnlyIssued /\ NumbersAhead /\ NoEventVanishes /\ WatermarkIsDelivered
  BY DEF IInv
<1>3. r \in Nat /\ r >= sequence /\ \A s \in AllRecords(segments) : s < r
  BY <1>2, RecoveredNumber
<1> HIDE DEF r, known
<1>4. /\ DOMAIN S \subseteq DOMAIN segments
      /\ \A f \in DOMAIN S : S[f] = segments[f]
      /\ S \in [DOMAIN S -> Nat \ {0}]
      /\ AllRecords(S) \subseteq AllRecords(segments)
      /\ AllRecords(segments) \ known \subseteq AllRecords(S)
  BY <1>2, FrontIsAcked
<1> HIDE DEF S
<1>5. known \subseteq delivered
  BY <1>2 DEF AcksAreDelivered, known
<1>6. ~writer
  BY <1>1, <1>2 DEF WriterAtEnd, TypeOK
<1>7. /\ ackedFile \in Nat /\ sequence \in Nat /\ sequenceSafe \in Nat /\ nextSeq \in Nat
      /\ issued \subseteq Nat /\ SEQUENCE_BLOCK \in Nat /\ MaxSeq \in Nat
  <2>1. issued \subseteq Seqs
    BY <1>2 DEF TypeOK
  <2>2. Seqs \subseteq Nat
    BY SpoolAssumption DEF Seqs
  <2> QED
    BY <1>2, <2>1, <2>2, SpoolAssumption DEF TypeOK
<1>8. TypeOK'
  <2>1. DOMAIN segments' \subseteq Seqs /\ segments' \in [DOMAIN segments' -> Nat \ {0}]
    BY <1>1, <1>2, <1>4 DEF TypeOK
  <2>2. cursor' \in [segment : Nat, offset : Nat]
    BY <1>1, <2>1, CursorTypes
  <2>3. nextSeq' \in Nat /\ sequence' \in Nat /\ sequenceSafe' \in Nat
    BY <1>1, <1>3, <1>7
  <2>4. unsynced' \subseteq AllRecords(segments') /\ acked' \subseteq AllRecords(segments')
    BY <1>1
  <2> QED
    BY <1>1, <1>2, <2>1, <2>2, <2>3, <2>4 DEF TypeOK
<1>9. SegmentsInOrder'
  <2> SUFFICES ASSUME NEW f \in DOMAIN segments'
               PROVE  /\ f + segments'[f] <= nextSeq'
                      /\ f + segments'[f] <= MaxSeq + 1
                      /\ \A g \in DOMAIN segments' : f < g => f + segments'[f] <= g
    BY DEF SegmentsInOrder
  <2>1. /\ f \in DOMAIN segments /\ segments'[f] = segments[f]
        /\ f \in Nat /\ segments[f] \in Nat /\ segments[f] > 0
    BY <1>1, <1>2, <1>4, SegmentTypes
  <2>2. f + segments[f] <= MaxSeq + 1 /\ \A g \in DOMAIN segments' : f < g => f + segments[f] <= g
    BY <1>1, <1>2, <1>4, <2>1 DEF SegmentsInOrder
  <2>3. f + segments[f] - 1 \in AllRecords(segments)
    <3>1. f + segments[f] - 1 \in Seqs /\ f <= f + segments[f] - 1
          /\ f + segments[f] - 1 < f + segments[f]
      BY <1>7, <2>1, <2>2 DEF Seqs
    <3> QED
      BY <2>1, <3>1, InAllRecords
  <2>4. f + segments[f] <= r
    BY <1>3, <2>1, <2>3
  <2> QED
    BY <1>1, <2>1, <2>2, <2>4
<1>10. WriterAtEnd' /\ SyncAfterAppend'
  BY <1>1, <1>2, <1>6 DEF WriterAtEnd, SyncAfterAppend
<1>11. AcksAreDelivered'
  BY <1>1, <1>2, <1>4, <1>5 DEF AcksAreDelivered
<1>12. OnlyIssued'
  BY <1>1, <1>2, <1>4 DEF OnlyIssued
<1>13. NumbersAhead'
  <2>1. ackedFile <= sequence /\ sequence <= r + SEQUENCE_BLOCK /\ ackedFile <= r
        /\ r <= r + SEQUENCE_BLOCK
    BY <1>2, <1>3, <1>7 DEF NumbersAhead
  <2>2. ASSUME RenameDurable, NEW s \in issued
        PROVE  s < r /\ s < r + SEQUENCE_BLOCK
    BY <1>2, <1>3, <1>7, <2>2 DEF NumbersAhead
  <2> QED
    BY <1>1, <2>1, <2>2 DEF NumbersAhead
<1>14. NoEventVanishes'
  BY <1>1, <1>2, <1>4, <1>5 DEF NoEventVanishes, Unacked
<1>15. WatermarkIsDelivered'
  BY <1>1, <1>2 DEF WatermarkIsDelivered
<1> QED
  BY <1>8, <1>9, <1>10, <1>11, <1>12, <1>13, <1>14, <1>15 DEF IInv

-----------------------------------------------------------------------------
(* The theorems.                                                           *)

(* An empty spool directory satisfies the invariant. *)
LEMMA InitEstablishes == Init => IInv
<1> SUFFICES ASSUME Init PROVE IInv
  OBVIOUS
<1>1. DOMAIN segments = {} /\ AllRecords(segments) = {}
  BY InAllRecords DEF Init
<1>2. TypeOK
  <2>1. segments \in [DOMAIN segments -> Nat \ {0}]
    BY DEF Init
  <2>2. NoneQueued \in [Seqs -> 0..MaxCopies]
    BY SpoolAssumption DEF NoneQueued
  <2>3. /\ Start \in [segment : Nat, offset : Nat]
        /\ NoLoss \in [count : Nat, first : Nat, last : Nat]
        /\ NoReport \in [seq : Nat \cup {-1}, count : Nat]
    BY DEF Start, NoLoss, NoReport
  <2>4. <<>> \in Seq({"health", "sync"})
    OBVIOUS
  <2>5. 0 \in 0..MaxCrashes /\ 0 \in 0..MaxFailures
    BY SpoolAssumption
  <2> QED
    BY <1>1, <2>1, <2>2, <2>3, <2>4, <2>5 DEF Init, TypeOK
<1>3. SegmentsInOrder /\ WriterAtEnd /\ SyncAfterAppend
  BY <1>1 DEF Init, SegmentsInOrder, WriterAtEnd, SyncAfterAppend
<1>4. AcksAreDelivered /\ OnlyIssued /\ NumbersAhead
  BY <1>1 DEF Init, AcksAreDelivered, OnlyIssued, NumbersAhead, NoneQueued
<1>5. NoEventVanishes /\ WatermarkIsDelivered
  BY DEF Init, NoEventVanishes, WatermarkIsDelivered
<1> QED
  BY <1>2, <1>3, <1>4, <1>5 DEF IInv

(* So does a step of something else. *)
LEMMA StutterKeeps == IInv /\ UNCHANGED vars => IInv'
<1> SUFFICES ASSUME IInv, UNCHANGED vars PROVE IInv'
  OBVIOUS
<1> USE DEF IInv, vars, disk, process, client, history, faults
<1>1. TypeOK'
  BY DEF TypeOK
<1>2. SegmentsInOrder' /\ WriterAtEnd' /\ SyncAfterAppend'
  BY DEF SegmentsInOrder, WriterAtEnd, SyncAfterAppend
<1>3. AcksAreDelivered' /\ OnlyIssued' /\ NumbersAhead'
  BY DEF AcksAreDelivered, OnlyIssued, NumbersAhead
<1>4. NoEventVanishes' /\ WatermarkIsDelivered'
  BY DEF NoEventVanishes, WatermarkIsDelivered
<1> QED
  BY <1>1, <1>2, <1>3, <1>4

(* Every step of the sensor, the client, the broker and of a crash keeps   *)
(* the invariant.                                                          *)
LEMMA StepKeeps == IInv /\ [Next]_vars => IInv'
<1> SUFFICES ASSUME IInv, [Next]_vars PROVE IInv'
  OBVIOUS
<1>1. CASE SubmitFlow
  BY <1>1, SubmitFlowKeeps
<1>2. CASE Housekeeping
  BY <1>2, HousekeepingKeeps
<1>3. CASE SubmitHealth
  BY <1>3, SubmitHealthKeeps
<1>4. CASE ReportLoss
  BY <1>4, ReportLossKeeps
<1>5. CASE Sync
  BY <1>5, SyncKeeps
<1>6. CASE PumpAny
  BY <1>6, PumpKeeps DEF PumpAny
<1>7. CASE \E s \in Seqs : BrokerAppend(s)
  BY <1>7, BrokerAppendKeeps
<1>8. CASE \E s \in Seqs, stored \in BOOLEAN : BrokerFail(s, stored)
  BY <1>8, BrokerFailKeeps
<1>9. CASE Crash
  BY <1>9, CrashKeeps
<1>10. CASE \E len \in {FlowBytes, HealthBytes} : CrashInAppend(len)
  BY <1>10, CrashInAppendKeeps
<1>11. CASE PowerCut
  BY <1>11, PowerCutKeeps
<1>12. CASE Open
  BY <1>12, OpenKeeps
<1>13. CASE UNCHANGED vars
  BY <1>13, StutterKeeps
<1> QED
  BY <1>1, <1>2, <1>3, <1>4, <1>5, <1>6, <1>7, <1>8, <1>9, <1>10, <1>11, <1>12, <1>13 DEF Next

(* The invariant holds in every behaviour of the spool. *)
LEMMA Invariance == Spec => []IInv
BY InitEstablishes, StepKeeps, PTL DEF Spec

(* Every variable of the spool and the forwarder keeps its type. *)
THEOREM TypeCorrect == Spec => []TypeOK
<1>1. IInv => TypeOK
  BY DEF IInv
<1> QED
  BY <1>1, Invariance, PTL

(* No event is lost but to the size limit or to a power cut before its     *)
(* first sync, whatever crashes, failed deliveries and restarts happen:    *)
(* spool.rs:3-5.                                                           *)
THEOREM EventsAreKept == Spec => []NoEventVanishes
<1>1. IInv => NoEventVanishes
  BY DEF IInv
<1> QED
  BY <1>1, Invariance, PTL

(* The watermark on disk never covers an event the broker does not have,   *)
(* even if renames are not durable: spool.rs:10.                           *)
THEOREM WatermarkIsSafe == Spec => []WatermarkIsDelivered
<1>1. IInv => WatermarkIsDelivered
  BY DEF IInv
<1> QED
  BY <1>1, Invariance, PTL

(* If a rename survives a power cut, no sequence number is used twice:     *)
(* spool.rs:5-7.                                                           *)
THEOREM NumbersAreFresh == RenameDurable => (Spec => []NumbersNeverReused)
<1> SUFFICES ASSUME RenameDurable PROVE Spec => []NumbersNeverReused
  OBVIOUS
<1>1. IInv => NumbersNeverReused
  BY DEF IInv, NumbersAhead, NumbersNeverReused
<1> QED
  BY <1>1, Invariance, PTL

-----------------------------------------------------------------------------
(* The refinement: the spool, the forwarder and the Kafka client together  *)
(* implement the abstract outbox, each step being a step of EventOutbox or *)
(* changing nothing it shows.                                              *)

(* Acknowledgement bits live in memory only. *)
DownForgets == ~up => acked = {}

RInv == IInv /\ DownForgets

(* Only a running process has acknowledgement bits. *)
LEMMA StepForgets == IInv /\ DownForgets /\ [Next]_vars => DownForgets'
<1> SUFFICES ASSUME IInv, DownForgets, [Next]_vars PROVE DownForgets'
  OBVIOUS
<1> USE DEF DownForgets
<1>1. CASE SubmitFlow \/ SubmitHealth \/ ReportLoss
  BY <1>1 DEF SubmitFlow, SubmitHealth, ReportLoss, Idle, AppendRecord
<1>2. CASE Housekeeping \/ Sync
  BY <1>2 DEF Housekeeping, Sync, Idle
<1>3. CASE PumpAny
  BY <1>3 DEF PumpAny, Pump, Idle
<1>4. CASE \E s \in Seqs : BrokerAppend(s)
  BY <1>4 DEF BrokerAppend, process
<1>5. CASE \E s \in Seqs, stored \in BOOLEAN : BrokerFail(s, stored)
  BY <1>5 DEF BrokerFail, process
<1>6. CASE Crash \/ PowerCut \/ \E len \in {FlowBytes, HealthBytes} : CrashInAppend(len)
  BY <1>6 DEF Crash, PowerCut, CrashInAppend, Die
<1>7. CASE Open
  BY <1>7 DEF Open
<1>8. CASE UNCHANGED vars
  BY <1>8 DEF vars, process
<1> QED
  BY <1>1, <1>2, <1>3, <1>4, <1>5, <1>6, <1>7, <1>8 DEF Next

(* Both invariants hold in every behaviour. *)
LEMMA RefinementInvariance == Spec => []RInv
<1>1. Init => DownForgets
  BY DEF Init, DownForgets
<1> QED
  BY <1>1, StepForgets, Invariance, InitEstablishes, StepKeeps, PTL DEF Spec, RInv

(* No record is both lost with removed segments and kept in another one. *)
LEMMA LossNotKept ==
  ASSUME TypeOK, SegmentsInOrder, NEW D, NEW s \in LossOf(D)
  PROVE  s \in Unacked(segments, acked) /\ s \notin AllRecords(Without(segments, D))
<1>1. PICK f \in D \cap DOMAIN segments : s \in Records(segments, f)
  BY DEF LossOf
<1>2. s \notin acked
  BY DEF LossOf
<1>3. s \in AllRecords(segments)
  BY <1>1 DEF AllRecords
<1>4. ASSUME s \in AllRecords(Without(segments, D))
      PROVE  FALSE
  <2>1. PICK g \in DOMAIN segments \ D : g <= s /\ s < g + segments[g]
    BY <1>4, InAllRecords DEF Without
  <2>2. s \in Nat /\ f <= s /\ s < f + segments[f]
    BY <1>1, SpoolAssumption DEF Records, Seqs
  <2>3. f \in Nat /\ g \in Nat /\ segments[f] \in Nat /\ segments[g] \in Nat /\ f # g
    BY <1>1, <2>1, SegmentTypes
  <2>4. (f < g => f + segments[f] <= g) /\ (g < f => g + segments[g] <= f)
    BY <1>1, <2>1 DEF SegmentsInOrder
  <2> QED
    BY <2>1, <2>2, <2>3, <2>4
<1> QED
  BY <1>2, <1>3, <1>4 DEF Unacked

(* An append accepts the next number and gives up what it drops. *)
LEMMA AppendAccepts ==
  ASSUME RInv, RenameDurable, up, NEW isHealth \in BOOLEAN, AppendRecord(isHealth)
  PROVE  Outbox!Next
<1> DEFINE len == IF isHealth THEN HealthBytes ELSE FlowBytes
           D == OverLimit(Rotated(len), len)
           K == AllRecords(Without(segments, D))
<1> HIDE DEF len
<1>1. /\ TypeOK /\ SegmentsInOrder /\ WriterAtEnd /\ NumbersAhead
  BY DEF RInv, IInv
<1>2. /\ nextSeq \in Seqs
      /\ AllRecords(Without(Rotated(len), D)) = K
      /\ AllRecords(segments') = K \cup {nextSeq}
  BY <1>1, AppendEffect DEF len
<1>3. /\ acked' = acked \cap K
      /\ issued' = issued \cup {nextSeq}
      /\ dropped' = dropped \cup LossOf(D)
      /\ delivered' = delivered /\ torn' = torn
  BY <1>2 DEF AppendRecord, len
<1> HIDE DEF D
<1>4. nextSeq \notin issued
  <2>1. nextSeq \in Nat
    BY <1>1 DEF TypeOK
  <2> QED
    BY <1>1, <2>1 DEF NumbersAhead
<1>5. K \subseteq AllRecords(segments)
  BY <1>1, SegmentTypes, WithoutSegments
<1>6. acked \subseteq AllRecords(segments) /\ nextSeq \notin AllRecords(segments)
  <2>1. acked \subseteq AllRecords(segments)
    BY <1>1 DEF TypeOK
  <2>2. nextSeq \notin AllRecords(segments)
    BY <1>1, InAllRecords, SegmentTypes DEF SegmentsInOrder
  <2> QED
    BY <2>1, <2>2
<1>7. LossOf(D) \subseteq Unacked(segments, acked) /\ LossOf(D) \cap K = {}
  BY <1>1, LossNotKept
<1>8. Unacked(segments, acked)' = (Unacked(segments, acked) \ LossOf(D)) \cup {nextSeq}
  <2>1. \A s \in Unacked(segments, acked) : s \in K \/ s \in LossOf(D)
    BY LossOrKept DEF Unacked
  <2> QED
    BY <1>2, <1>3, <1>5, <1>6, <1>7, <2>1 DEF Unacked
<1>9. (dropped \cup torn)' = (dropped \cup torn) \cup LossOf(D)
  BY <1>3
<1>10. Outbox!Accept(nextSeq, LossOf(D))
  BY <1>3, <1>4, <1>7, <1>8, <1>9 DEF Outbox!Accept
<1> QED
  BY <1>2, <1>10, LossInSeqs DEF Outbox!Next

(* Reports retire delivered records. *)
LEMMA PumpRetires ==
  ASSUME RInv, NEW stop, Pump(stop)
  PROVE  Outbox!Next
<1> DEFINE A == AckedByReports
           S == Without(segments, AckedFront(segments, A))
<1>1. /\ segments' = S /\ acked' = A \cap AllRecords(S)
      /\ UNCHANGED <<delivered, issued, dropped, torn>>
  BY DEF Pump
<1>2. TypeOK /\ SegmentsInOrder /\ AcksAreDelivered
  BY DEF RInv, IInv
<1>3. AllRecords(segments) \subseteq Seqs
  BY InAllRecords
<1>4. A \subseteq delivered /\ acked \subseteq A
  BY <1>2, <1>3 DEF AckedByReports, AcksAreDelivered
<1> HIDE DEF A
<1>5. AllRecords(S) \subseteq AllRecords(segments) /\ AllRecords(segments) \ A \subseteq AllRecords(S)
  BY <1>2, FrontIsAcked
<1>6. Unacked(segments, acked)' = Unacked(segments, acked) \ A
  BY <1>1, <1>4, <1>5 DEF Unacked
<1>7. Outbox!Retire(A)
  BY <1>1, <1>4, <1>6 DEF Outbox!Retire
<1>8. A \in SUBSET Seqs
  BY <1>2, <1>4 DEF TypeOK
<1> QED
  BY <1>7, <1>8 DEF Outbox!Next

(* A restart retires what the watermark covers. *)
LEMMA OpenRetires ==
  ASSUME RInv, Open
  PROVE  Outbox!Next
<1> DEFINE known == {s \in AllRecords(segments) : s < ackedFile}
           S == Without(segments, AckedFront(segments, known))
<1>1. /\ ~up /\ segments' = S /\ acked' = known \cap AllRecords(S)
      /\ UNCHANGED <<delivered, issued, dropped, torn>>
  BY DEF Open, history
<1>2. TypeOK /\ SegmentsInOrder /\ AcksAreDelivered /\ acked = {}
  BY <1>1 DEF RInv, IInv, DownForgets
<1>3. known \subseteq delivered
  BY <1>2 DEF AcksAreDelivered
<1>4. known \in SUBSET Seqs
  BY InAllRecords
<1> HIDE DEF known
<1>5. AllRecords(S) \subseteq AllRecords(segments) /\ AllRecords(segments) \ known \subseteq AllRecords(S)
  BY <1>2, FrontIsAcked
<1>6. Unacked(segments, acked)' = Unacked(segments, acked) \ known
  BY <1>1, <1>2, <1>5 DEF Unacked
<1>7. Outbox!Retire(known)
  BY <1>1, <1>3, <1>6 DEF Outbox!Retire
<1> QED
  BY <1>4, <1>7 DEF Outbox!Next

(* The broker delivers what was issued. *)
LEMMA BrokerDelivers ==
  ASSUME RInv, NEW s \in Seqs, inflight[s] > 0, delivered' = delivered \cup {s},
         UNCHANGED <<segments, acked, issued, dropped, torn>>
  PROVE  Outbox!Next
<1>1. s \in issued
  BY DEF RInv, IInv, OnlyIssued
<1>2. Unacked(segments, acked)' = Unacked(segments, acked)
  BY DEF Unacked
<1>3. Outbox!Deliver({s})
  BY <1>1, <1>2 DEF Outbox!Deliver
<1>4. {s} \in SUBSET Seqs
  OBVIOUS
<1> QED
  BY <1>3, <1>4 DEF Outbox!Next

(* A crash that loses just what it counts as dropped or torn off is an     *)
(* interruption of the outbox.                                             *)
LEMMA DieInterrupts ==
  ASSUME RInv, NEW got \in SUBSET Seqs, Die(got),
         AllRecords(segments') \subseteq AllRecords(segments),
         dropped' \cup torn' =
           dropped \cup torn \cup (Unacked(segments, acked) \ AllRecords(segments'))
  PROVE  Outbox!Next
<1> DEFINE over == Unacked(segments, acked) \ AllRecords(segments')
           again == acked \cap AllRecords(segments')
<1>1. /\ got \subseteq {s \in Seqs : inflight[s] > 0}
      /\ delivered' = delivered \cup got /\ issued' = issued /\ acked' = {}
  BY DEF Die
<1>2. TypeOK /\ AcksAreDelivered /\ OnlyIssued
  BY DEF RInv, IInv
<1>3. got \subseteq issued
  BY <1>1, <1>2 DEF OnlyIssued
<1>4. again \subseteq delivered
  BY <1>2 DEF AcksAreDelivered
<1>5. Unacked(segments, acked)' = (Unacked(segments, acked) \ over) \cup again
  BY <1>1 DEF Unacked
<1>6. (dropped \cup torn)' = (dropped \cup torn) \cup over
  OBVIOUS
<1>7. Outbox!Interrupt(got, again, over)
  BY <1>1, <1>3, <1>4, <1>5, <1>6 DEF Outbox!Interrupt
<1>8. again \in SUBSET Seqs /\ over \in SUBSET Seqs
  BY InAllRecords DEF Unacked
<1> QED
  BY <1>7, <1>8 DEF Outbox!Next

(* A crash between handlers interrupts the outbox. *)
LEMMA CrashInterrupts ==
  ASSUME RInv, Crash
  PROVE  Outbox!Next
<1>1. PICK got \in SUBSET Seqs : Die(got)
  BY DEF Crash
<1>2. UNCHANGED <<segments, dropped, torn>>
  BY DEF Crash
<1>3. Unacked(segments, acked) \subseteq AllRecords(segments')
  BY <1>2 DEF Unacked
<1> QED
  BY <1>1, <1>2, <1>3, DieInterrupts

(* A crash inside an append interrupts it too. *)
LEMMA CrashInAppendInterrupts ==
  ASSUME RInv, NEW len, CrashInAppend(len)
  PROVE  Outbox!Next
<1>1. PICK got \in SUBSET Seqs : Die(got)
  BY DEF CrashInAppend
<1>2. PICK E : segments' = Without(segments, E) /\ dropped' = dropped \cup LossOf(E)
  BY DEF CrashInAppend
<1>3. torn' = torn
  BY DEF CrashInAppend
<1>4. TypeOK /\ SegmentsInOrder
  BY DEF RInv, IInv
<1>5. AllRecords(segments') \subseteq AllRecords(segments)
  BY <1>2, <1>4, SegmentTypes, WithoutSegments
<1>6. LossOf(E) = Unacked(segments, acked) \ AllRecords(segments')
  BY <1>2, <1>4, LossNotKept, LossOrKept DEF Unacked
<1> QED
  BY <1>1, <1>2, <1>3, <1>5, <1>6, DieInterrupts

(* So does a power cut. *)
LEMMA PowerCutInterrupts ==
  ASSUME RInv, PowerCut
  PROVE  Outbox!Next
<1>1. PICK got \in SUBSET Seqs : Die(got)
  BY DEF PowerCut
<1>2. PICK keep \in [DOMAIN segments -> 0..(MaxSeq + 1)] :
        LET lost == AllRecords(segments) \ AllRecords(Torn(keep))
        IN  /\ \A f \in DOMAIN segments : keep[f] <= segments[f]
            /\ segments' = Torn(keep)
            /\ torn' = torn \cup (lost \ acked)
  BY DEF PowerCut
<1>3. dropped' = dropped
  BY DEF PowerCut
<1>4. TypeOK
  BY DEF RInv, IInv
<1>5. ASSUME NEW s \in AllRecords(segments')
      PROVE  s \in AllRecords(segments)
  <2>1. PICK f \in DOMAIN segments' : f <= s /\ s < f + segments'[f]
    BY InAllRecords
  <2>2. f \in DOMAIN segments /\ segments'[f] = keep[f]
    BY <1>2, <2>1 DEF Torn
  <2>3. /\ s \in Seqs /\ s \in Nat /\ f \in Nat /\ segments[f] \in Nat
        /\ keep[f] \in Nat /\ keep[f] <= segments[f]
    <3>1. s \in Seqs /\ s \in Nat
      BY InAllRecords, SpoolAssumption DEF Seqs
    <3>2. f \in Nat /\ segments[f] \in Nat
      BY <1>4, <2>2, SegmentTypes
    <3>3. keep[f] \in Nat /\ keep[f] <= segments[f]
      BY <1>2, <2>2, SpoolAssumption
    <3> QED
      BY <3>1, <3>2, <3>3
  <2>4. s < f + segments[f]
    BY <2>1, <2>2, <2>3
  <2> QED
    BY <2>1, <2>2, <2>3, <2>4, InAllRecords
<1>6. torn' = torn \cup (Unacked(segments, acked) \ AllRecords(segments'))
  BY <1>2 DEF Unacked
<1>7. dropped' \cup torn' =
        dropped \cup torn \cup (Unacked(segments, acked) \ AllRecords(segments'))
  BY <1>3, <1>6
<1> QED
  BY <1>1, <1>5, <1>7, DieInterrupts

(* Every step is a step of the outbox or leaves it alone. *)
LEMMA StepRefines ==
  ASSUME RInv, RenameDurable, [Next]_vars
  PROVE  [Outbox!Next]_(Outbox!outboxVars)
<1> USE DEF Outbox!outboxVars
<1>1. CASE SubmitFlow \/ SubmitHealth \/ ReportLoss
  <2>1. up /\ \E isHealth \in BOOLEAN : AppendRecord(isHealth)
    BY <1>1 DEF SubmitFlow, SubmitHealth, ReportLoss, Idle
  <2> QED
    BY <2>1, AppendAccepts
<1>2. CASE Housekeeping \/ Sync \/ UNCHANGED vars
  <2>1. UNCHANGED <<segments, acked, issued, delivered, dropped, torn>>
    BY <1>2 DEF Housekeeping, Sync, vars, disk, process, history
  <2> QED
    BY <2>1 DEF Unacked
<1>3. CASE PumpAny
  BY <1>3, PumpRetires DEF PumpAny
<1>4. CASE \E s \in Seqs : BrokerAppend(s)
  <2>1. PICK s \in Seqs : BrokerAppend(s)
    BY <1>4
  <2>2. /\ inflight[s] > 0 /\ delivered' = delivered \cup {s}
        /\ UNCHANGED <<segments, acked, issued, dropped, torn>>
    BY <2>1 DEF BrokerAppend, disk, process, history
  <2> QED
    BY <2>2, BrokerDelivers
<1>5. CASE \E s \in Seqs, stored \in BOOLEAN : BrokerFail(s, stored)
  <2>1. PICK s \in Seqs, stored \in BOOLEAN : BrokerFail(s, stored)
    BY <1>5
  <2>2. /\ inflight[s] > 0
        /\ delivered' = IF stored THEN delivered \cup {s} ELSE delivered
        /\ UNCHANGED <<segments, acked, issued, dropped, torn>>
    BY <2>1 DEF BrokerFail, disk, process, history
  <2>3. CASE stored
    BY <2>2, <2>3, BrokerDelivers
  <2>4. CASE ~stored
    BY <2>2, <2>4 DEF Unacked
  <2> QED
    BY <2>3, <2>4
<1>6. CASE Crash
  BY <1>6, CrashInterrupts
<1>7. CASE PowerCut
  BY <1>7, PowerCutInterrupts
<1>8. CASE \E len \in {FlowBytes, HealthBytes} : CrashInAppend(len)
  BY <1>8, CrashInAppendInterrupts
<1>9. CASE Open
  BY <1>9, OpenRetires
<1> QED
  BY <1>1, <1>2, <1>3, <1>4, <1>5, <1>6, <1>7, <1>8, <1>9 DEF Next

(* An empty spool directory is an empty outbox. *)
LEMMA InitRefines == Init => Outbox!Init
<1> SUFFICES ASSUME Init PROVE Outbox!Init
  OBVIOUS
<1>1. Unacked(segments, acked) = {}
  BY InAllRecords DEF Init, Unacked
<1> QED
  BY <1>1 DEF Init, Outbox!Init

(* If a rename survives a power cut, the sensor's delivery path implements *)
(* the outbox: fresh numbers, and no event is forgotten before the broker  *)
(* has it or it counts as dropped.                                         *)
THEOREM SpoolImplementsOutbox == RenameDurable => (Spec => ImplementsOutbox)
<1> SUFFICES ASSUME RenameDurable PROVE Spec => ImplementsOutbox
  OBVIOUS
<1>1. RInv /\ [Next]_vars => [Outbox!Next]_(Outbox!outboxVars)
  BY StepRefines
<1> QED
  BY <1>1, InitRefines, RefinementInvariance, PTL DEF Spec, ImplementsOutbox, Outbox!Spec

-----------------------------------------------------------------------------
(***************************************************************************)
(* What the spool sends, drops and reports: nothing is left behind the     *)
(* read cursor, nothing is sent twice without a failure, every dropped     *)
(* record is counted once, and the limit is kept.                          *)
(***************************************************************************)

(* The inductive invariant of this part, on top of IInv.                   *)

(* The cursor is inside its segment, and its segment was there once: no    *)
(* new segment takes its name, unless nothing was ever read.               *)
CursorInside ==
  /\ cursor.segment \in DOMAIN segments => cursor.offset <= segments[cursor.segment]
  /\ up => cursor.segment < nextSeq \/ cursor = Start

(* What was sent since sending last went back lies behind the cursor. *)
SentBefore ==
  up => /\ sentUpTo < nextSeq
        /\ DOMAIN segments # {} => sentUpTo < Position(segments, cursor)

(* Records are dropped from the old end: what this process has dropped is  *)
(* older than all the spool holds.                                         *)
LostBelow ==
  /\ lossDue \subseteq lostSince
  /\ \A s \in lostSince : s < nextSeq /\ \A t \in AllRecords(segments) : s < t

(* The newest report is in the topic or in the spool, or it was dropped    *)
(* just now and the next one is due.                                       *)
ReportKept ==
  up /\ lastReport # NoReport =>
    lastReport.seq \in delivered \cup Unacked(segments, acked) \cup lossDue

(* A process that does not run remembers nothing. *)
AtRest ==
  ~up => /\ cursor = Start /\ cumulative = NoLoss /\ lossDue = {}
         /\ lostSince = {} /\ lastReport = NoReport /\ sentUpTo = -1

JInv ==
  /\ IInv
  /\ AtRest
  /\ CursorInside
  /\ NothingStranded
  /\ SentBefore
  /\ LostBelow
  /\ LossAccounted
  /\ ReportKept

-----------------------------------------------------------------------------
(* Bytes and positions.                                                    *)

(* A product with a fixed factor is monotone. *)
LEMMA TimesMonotone ==
  ASSUME NEW a \in Nat, NEW b \in Nat, a <= b, NEW c \in Nat
  PROVE  a * c \in Nat /\ b * c \in Nat /\ a * c <= b * c
<1>1. b - a \in Nat /\ (b - a) * c \in Nat
  OBVIOUS
<1>2. b * c = a * c + (b - a) * c
  OBVIOUS
<1> QED
  BY <1>1, <1>2

(* More records take more bytes. *)
LEMMA BytesMonotone ==
  ASSUME NEW R, NEW Q, R \subseteq Q, Q \subseteq Seqs
  PROVE  Bytes(R) \in Nat /\ Bytes(Q) \in Nat /\ Bytes(R) <= Bytes(Q)
<1> DEFINE r1 == Cardinality(R \ health)
           q1 == Cardinality(Q \ health)
           r2 == Cardinality(R \cap health)
           q2 == Cardinality(Q \cap health)
<1>1. /\ IsFiniteSet(Q \ health) /\ IsFiniteSet(Q \cap health)
      /\ q1 \in Nat /\ q2 \in Nat
  BY SeqsFinite
<1>2. R \ health \in SUBSET (Q \ health) /\ R \cap health \in SUBSET (Q \cap health)
  OBVIOUS
<1>3. r1 <= q1 /\ r2 <= q2
  BY <1>1, <1>2, FS_Subset
<1>4. r1 \in Nat /\ r2 \in Nat
  BY SeqsFinite
<1>5. FlowBytes \in Nat /\ HealthBytes \in Nat
  BY SpoolAssumption
<1> HIDE DEF r1, r2, q1, q2
<1>6. /\ r1 * FlowBytes \in Nat /\ q1 * FlowBytes \in Nat /\ r1 * FlowBytes <= q1 * FlowBytes
      /\ r2 * HealthBytes \in Nat /\ q2 * HealthBytes \in Nat /\ r2 * HealthBytes <= q2 * HealthBytes
  BY <1>1, <1>3, <1>4, <1>5, TimesMonotone
<1>7. Bytes(R) = r1 * FlowBytes + r2 * HealthBytes /\ Bytes(Q) = q1 * FlowBytes + q2 * HealthBytes
  BY DEF Bytes, r1, r2, q1, q2
<1> QED
  BY <1>6, <1>7

(* enforce_limit takes segments from the old end. *)
LEMMA OverLimitIsFront ==
  ASSUME NEW S, DOMAIN S \subseteq Seqs, NEW len \in Nat,
         NEW f \in OverLimit(S, len), NEW g \in DOMAIN S, g < f
  PROVE  g \in OverLimit(S, len)
<1>1. f \in DOMAIN S /\ f # Back(S) /\ BytesFrom(S, f) + len > MaxBytes
  BY DEF OverLimit
<1>2. f \in Nat /\ g \in Nat /\ MaxBytes \in Nat
  BY <1>1, SpoolAssumption DEF Seqs
<1>3. g # Back(S)
  BY <1>1, <1>2, BackIsLast
<1>4. \A s \in AllRecords(S) : s \in Seqs /\ s \in Nat
  BY InAllRecords, SpoolAssumption DEF Seqs
<1> DEFINE F == {s \in AllRecords(S) : s >= f}
           G == {s \in AllRecords(S) : s >= g}
<1>5. F \subseteq G /\ G \subseteq Seqs
  BY <1>2, <1>4
<1> HIDE DEF F, G
<1>6. Bytes(F) \in Nat /\ Bytes(G) \in Nat /\ Bytes(F) <= Bytes(G)
  BY <1>5, BytesMonotone
<1>7. BytesFrom(S, f) = Bytes(F) /\ BytesFrom(S, g) = Bytes(G)
  BY DEF BytesFrom, F, G
<1>8. BytesFrom(S, g) + len > MaxBytes
  BY <1>1, <1>2, <1>6, <1>7
<1> QED
  BY <1>3, <1>8 DEF OverLimit

(* Where a cursor reads on. *)
LEMMA PositionIs ==
  ASSUME NEW S, DOMAIN S \subseteq Seqs, NEW c \in [segment : Nat, offset : Nat]
  PROVE  /\ Position(S, c) \in Nat
         /\ c.segment \in DOMAIN S => Position(S, c) = c.segment + c.offset
         /\ c.segment \notin DOMAIN S /\ DOMAIN S # {} =>
              Position(S, c) \in DOMAIN S /\ \A f \in DOMAIN S : Position(S, c) <= f
         /\ c.segment \notin DOMAIN S => \A s \in AllRecords(S) : Position(S, c) <= s
<1>1. DOMAIN S \in SUBSET Nat
  BY SpoolAssumption DEF Seqs
<1>2. CASE c.segment \in DOMAIN S
  <2>1. Position(S, c) = c.segment + c.offset
    BY <1>2 DEF Position
  <2> QED
    BY <1>2, <2>1
<1>3. CASE c.segment \notin DOMAIN S /\ DOMAIN S # {}
  <2>1. Position(S, c) = Min(DOMAIN S)
    BY <1>3 DEF Position
  <2>2. Min(DOMAIN S) \in DOMAIN S /\ \A f \in DOMAIN S : Min(DOMAIN S) <= f
    BY <1>1, <1>3, MinOfNat
  <2>3. Min(DOMAIN S) \in Nat
    BY <1>1, <2>2
  <2>4. ASSUME NEW s \in AllRecords(S) PROVE Min(DOMAIN S) <= s
    <3>1. PICK f \in DOMAIN S : f <= s
      BY InAllRecords
    <3>2. s \in Nat /\ f \in Nat /\ Min(DOMAIN S) <= f
      BY <1>1, <2>2, InAllRecords, SpoolAssumption DEF Seqs
    <3> QED
      BY <2>3, <3>1, <3>2
  <2> QED
    BY <1>3, <2>1, <2>2, <2>3, <2>4
<1>4. CASE c.segment \notin DOMAIN S /\ DOMAIN S = {}
  <2>1. Position(S, c) = 0 /\ AllRecords(S) = {}
    BY <1>4 DEF Position, AllRecords
  <2> QED
    BY <1>4, <2>1
<1> QED
  BY <1>2, <1>3, <1>4

(* A rewound cursor has every unacknowledged record in front of it. *)
LEMMA RewindIsBefore ==
  ASSUME NEW S, DOMAIN S \subseteq Seqs, S \in [DOMAIN S -> Nat \ {0}], NEW A
  PROVE  /\ \A s \in Unacked(S, A) : Position(S, Rewind(S, A)) <= s
         /\ Rewind(S, A).offset = 0
         /\ DOMAIN S # {} => Rewind(S, A).segment \in DOMAIN S
         /\ DOMAIN S = {} => Rewind(S, A) = Start
<1> DEFINE open == {f \in DOMAIN S : Records(S, f) \ A # {}}
<1>1. open \in SUBSET Nat /\ DOMAIN S \in SUBSET Nat
  BY SpoolAssumption DEF Seqs
<1>2. \A s \in Unacked(S, A) : s \in Nat /\ \E f \in open : f <= s
  <2> TAKE s \in Unacked(S, A)
  <2>1. s \in AllRecords(S) /\ s \notin A
    BY DEF Unacked
  <2>2. PICK f \in DOMAIN S : s \in Records(S, f)
    BY <2>1 DEF AllRecords
  <2>3. f \in open /\ f <= s /\ s \in Nat
    BY <2>1, <2>2, SpoolAssumption DEF Records, Seqs
  <2> QED
    BY <2>3
<1>3. CASE open # {}
  <2>1. Rewind(S, A) = [segment |-> Min(open), offset |-> 0]
    BY <1>3 DEF Rewind
  <2>2. Min(open) \in open /\ (\A f \in open : Min(open) <= f) /\ Min(open) \in Nat
    BY <1>1, <1>3, MinOfNat
  <2>3. Min(open) \in DOMAIN S
    BY <2>2
  <2> HIDE DEF open
  <2>4. Position(S, Rewind(S, A)) = Min(open)
    BY <2>1, <2>2, <2>3 DEF Position
  <2>5. \A s \in Unacked(S, A) : Min(open) <= s
    BY <1>1, <1>2, <2>2
  <2>6. Rewind(S, A).offset = 0 /\ Rewind(S, A).segment \in DOMAIN S /\ DOMAIN S # {}
    BY <2>1, <2>3
  <2>7. \A s \in Unacked(S, A) : Position(S, Rewind(S, A)) <= s
    BY <2>4, <2>5, Zenon
  <2> QED
    BY <2>6, <2>7
<1>4. CASE open = {}
  <2>1. Unacked(S, A) = {}
    BY <1>2, <1>4
  <2>2. DOMAIN S # {} => Rewind(S, A) = [segment |-> Back(S), offset |-> 0] /\ Back(S) \in DOMAIN S
    BY <1>4, BackIsLast DEF Rewind
  <2>3. DOMAIN S = {} => Rewind(S, A) = Start
    BY <1>4 DEF Rewind
  <2>4. \A s \in Unacked(S, A) : Position(S, Rewind(S, A)) <= s
    BY <2>1
  <2>5. CASE DOMAIN S # {}
    BY <2>2, <2>4, <2>5
  <2>6. CASE DOMAIN S = {}
    <3>1. Start.offset = 0
      BY DEF Start
    <3> QED
      BY <2>3, <2>4, <2>6, <3>1
  <2> QED
    BY <2>5, <2>6
<1> QED
  BY <1>3, <1>4

(* Removing a front of the spool, or adding segments above x, leaves the   *)
(* place to read on above x: what was sent stays behind the cursor.        *)
LEMMA PositionAdvances ==
  ASSUME TypeOK, SegmentsInOrder, CursorInside, NEW x \in Int,
         DOMAIN segments # {} => x < Position(segments, cursor),
         NEW D, \A f \in D, g \in DOMAIN segments : g < f => g \in D,
         NEW T, DOMAIN T \subseteq Seqs, DOMAIN T # {},
         \A f \in DOMAIN T : f \in DOMAIN segments \ D \/ x < f,
         cursor.segment \in DOMAIN segments \ D => cursor.segment \in DOMAIN T
  PROVE  x < Position(T, cursor)
<1> DEFINE c == cursor.segment
           p == Position(segments, cursor)
           q == Position(T, cursor)
<1>1. cursor \in [segment : Nat, offset : Nat] /\ DOMAIN segments \subseteq Seqs
  BY DEF TypeOK
<1>2. c \in Nat /\ cursor.offset \in Nat
  BY <1>1
<1>3. /\ p \in Nat
      /\ c \in DOMAIN segments => p = c + cursor.offset
      /\ c \notin DOMAIN segments /\ DOMAIN segments # {} => \A f \in DOMAIN segments : p <= f
  BY <1>1, PositionIs
<1>4. /\ q \in Nat
      /\ c \in DOMAIN T => q = c + cursor.offset
      /\ c \notin DOMAIN T => q \in DOMAIN T
  BY <1>1, PositionIs
<1> HIDE DEF p, q
<1>5. CASE c \in DOMAIN T
  <2>1. CASE c \in DOMAIN segments
    BY <1>3, <1>4, <1>5, <2>1 DEF p, q
  <2>2. CASE c \notin DOMAIN segments
    BY <1>2, <1>4, <1>5, <2>2 DEF q
  <2> QED
    BY <2>1, <2>2
<1>6. CASE c \notin DOMAIN T
  <2> SUFFICES ASSUME ~(x < q) PROVE FALSE
    BY DEF q
  <2>1. q \in DOMAIN T /\ q \in DOMAIN segments \ D /\ x < p
    BY <1>4, <1>6 DEF p
  <2>2. CASE c \in DOMAIN segments
    <3>1. c \in D /\ q # c /\ ~(q < c)
      BY <1>6, <2>1, <2>2
    <3>2. c < q
      BY <1>2, <1>4, <3>1
    <3>3. c + segments[c] <= q /\ cursor.offset <= segments[c] /\ segments[c] \in Nat
      BY <2>1, <2>2, <3>2, SegmentTypes DEF SegmentsInOrder, CursorInside
    <3> QED
      BY <1>2, <1>3, <1>4, <2>1, <2>2, <3>3
  <2>3. CASE c \notin DOMAIN segments
    BY <1>3, <1>4, <2>1, <2>3
  <2> QED
    BY <2>2, <2>3
<1> QED
  BY <1>5, <1>6

(* An append keeps the cursor inside its segment and what was sent behind  *)
(* it, and puts no other record behind it.                                 *)
LEMMA AppendCursor ==
  ASSUME IInv, up, CursorInside, SentBefore, NEW isHealth \in BOOLEAN, AppendRecord(isHealth)
  PROVE  /\ CursorInside'
         /\ SentBefore'
         /\ \A s \in AllRecords(segments') :
              s >= Position(segments', cursor)
              \/ (s \in AllRecords(segments) /\ s < Position(segments, cursor))
<1> DEFINE len == IF isHealth THEN HealthBytes ELSE FlowBytes
           D == OverLimit(Rotated(len), len)
           a == Active(len)
           K == AllRecords(Without(segments, D))
           c == cursor.segment
           T == segments'
<1>0. TypeOK /\ SegmentsInOrder /\ WriterAtEnd
  BY DEF IInv
<1>1. len \in Nat
  BY SpoolAssumption
<1> HIDE DEF len
<1>2. /\ nextSeq \in Seqs
      /\ a \in Seqs \ D /\ a <= nextSeq
      /\ DOMAIN T = (DOMAIN segments \ D) \cup {a}
      /\ T[a] = nextSeq + 1 - a
      /\ \A f \in DOMAIN T \ {a} : T[f] = segments[f]
      /\ AllRecords(T) = K \cup {nextSeq}
  BY <1>0, AppendEffect DEF len
<1>3. nextSeq' = nextSeq + 1 /\ nextSeq <= MaxSeq /\ UNCHANGED <<up, cursor, sentUpTo>>
  BY DEF AppendRecord
<1>4. /\ cursor \in [segment : Nat, offset : Nat] /\ c \in Nat /\ cursor.offset \in Nat
      /\ nextSeq \in Nat /\ a \in Nat /\ sentUpTo \in Int
      /\ DOMAIN segments \subseteq Seqs /\ DOMAIN T \subseteq Seqs
  <2>1. cursor \in [segment : Nat, offset : Nat] /\ DOMAIN segments \subseteq Seqs
        /\ sentUpTo \in Seqs \cup {-1}
    BY <1>0 DEF TypeOK
  <2>2. c \in Nat /\ cursor.offset \in Nat
    BY <2>1
  <2>3. Seqs \subseteq Nat
    BY SpoolAssumption DEF Seqs
  <2>4. nextSeq \in Nat /\ a \in Nat
    BY <1>2, <2>3
  <2>6. sentUpTo \in Int
    BY <2>1, <2>3
  <2>5. DOMAIN T \subseteq Seqs
    BY <1>2, <2>1
  <2> QED
    BY <2>1, <2>2, <2>4, <2>5, <2>6
<1>5. a \in DOMAIN segments \/ a = nextSeq
  BY <1>0, <1>4, BackIsLast DEF Active, MustRotate
<1>6. DOMAIN segments \subseteq DOMAIN Rotated(len) /\ DOMAIN Rotated(len) \subseteq Seqs
  BY <1>0, <1>3, RotatedDirectory DEF Directory
<1>7. \A f \in D, g \in DOMAIN segments : g < f => g \in D
  BY <1>1, <1>6, OverLimitIsFront
<1>8. K \subseteq AllRecords(segments)
  BY <1>0, SegmentTypes, WithoutSegments
<1> HIDE DEF D, a, K, T
<1>9. a \notin DOMAIN segments /\ c = a => cursor = Start /\ cursor.offset = 0
  BY <1>4, <1>5 DEF CursorInside, Start
<1>10. CursorInside'
  <2>1. ASSUME c \in DOMAIN T PROVE cursor.offset <= T[c]
    <3>1. CASE c # a
      BY <1>2, <2>1, <3>1 DEF CursorInside
    <3>2. CASE c = a /\ a \in DOMAIN segments
      <4>1. cursor.offset <= segments[a] /\ a + segments[a] <= nextSeq /\ segments[a] \in Nat
        BY <1>0, <3>2, SegmentTypes DEF CursorInside, SegmentsInOrder
      <4> QED
        BY <1>2, <1>4, <3>2, <4>1
    <3>3. CASE c = a /\ a \notin DOMAIN segments
      BY <1>2, <1>4, <1>5, <1>9, <3>3
    <3> QED
      BY <3>1, <3>2, <3>3
  <2>2. c < nextSeq + 1 \/ cursor = Start
    BY <1>4 DEF CursorInside
  <2> QED
    BY <1>3, <2>1, <2>2 DEF CursorInside, T
<1>11. sentUpTo < Position(T, cursor)
  <2>1. sentUpTo < nextSeq /\ (DOMAIN segments # {} => sentUpTo < Position(segments, cursor))
    BY DEF SentBefore
  <2>2. \A f \in DOMAIN T : f \in DOMAIN segments \ D \/ sentUpTo < f
    BY <1>2, <1>4, <1>5, <2>1
  <2>3. DOMAIN T # {} /\ (c \in DOMAIN segments \ D => c \in DOMAIN T)
    BY <1>2
  <2> QED
    BY <1>0, <1>4, <1>7, <2>1, <2>2, <2>3, PositionAdvances
<1>12. SentBefore'
  BY <1>3, <1>4, <1>11 DEF SentBefore, T
<1>13. ASSUME NEW s \in AllRecords(T)
       PROVE  s >= Position(T, cursor)
              \/ (s \in AllRecords(segments) /\ s < Position(segments, cursor))
  <2>1. s \in Nat /\ (s \in AllRecords(segments) \/ s = nextSeq)
    BY <1>2, <1>8, InAllRecords, SpoolAssumption DEF Seqs
  <2>2. /\ Position(T, cursor) \in Nat
        /\ c \in DOMAIN T => Position(T, cursor) = c + cursor.offset
        /\ c \notin DOMAIN T => Position(T, cursor) <= s
    BY <1>4, PositionIs
  <2>3. Position(segments, cursor) \in Nat
        /\ (c \in DOMAIN segments => Position(segments, cursor) = c + cursor.offset)
    BY <1>4, PositionIs
  <2>4. CASE c \notin DOMAIN T
    BY <2>1, <2>2, <2>4
  <2>5. CASE c \in DOMAIN T /\ c \in DOMAIN segments
    <3>1. c + segments[c] <= nextSeq /\ cursor.offset <= segments[c] /\ segments[c] \in Nat
      BY <1>0, <2>5, SegmentTypes DEF CursorInside, SegmentsInOrder
    <3>2. Position(T, cursor) <= nextSeq /\ Position(T, cursor) = Position(segments, cursor)
      BY <1>4, <2>2, <2>3, <2>5, <3>1
    <3> QED
      BY <2>1, <2>2, <3>2
  <2>6. CASE c \in DOMAIN T /\ c \notin DOMAIN segments
    <3>1. c = a /\ a = nextSeq /\ cursor = Start
      BY <1>2, <1>5, <1>9, <2>6
    <3>2. Position(T, cursor) = 0
      BY <2>2, <2>6, <3>1 DEF Start
    <3> QED
      BY <2>1, <3>2
  <2> QED
    BY <2>4, <2>5, <2>6
<1> QED
  BY <1>10, <1>12, <1>13 DEF T

-----------------------------------------------------------------------------
(* What an append drops.                                                   *)

(* The limit drops the oldest records: all that was and is dropped is      *)
(* below all that stays, and nothing is dropped twice.                     *)
LEMMA LossIsOldest ==
  ASSUME IInv, up, LostBelow, NEW isHealth \in BOOLEAN, AppendRecord(isHealth),
         NEW L, L = AppendLoss(IF isHealth THEN HealthBytes ELSE FlowBytes)
  PROVE  /\ lostSince' = lostSince \cup L
         /\ L \subseteq Seqs
         /\ \A s \in lostSince, t \in L : s < t
         /\ Cardinality(lostSince') = Cardinality(lostSince) + Cardinality(L)
         /\ lostSince' \ L = lostSince
         /\ \A s \in lostSince' : s < nextSeq' /\ \A t \in AllRecords(segments') : s < t
<1> DEFINE len == IF isHealth THEN HealthBytes ELSE FlowBytes
           D == OverLimit(Rotated(len), len)
           K == AllRecords(Without(segments, D))
<1>0. TypeOK /\ SegmentsInOrder /\ WriterAtEnd
  BY DEF IInv
<1>1. len \in Nat
  BY SpoolAssumption
<1> HIDE DEF len
<1>2. L = LossOf(D) /\ nextSeq <= MaxSeq /\ nextSeq' = nextSeq + 1 /\ lostSince' = lostSince \cup L
  BY DEF AppendRecord, AppendLoss, len
<1>3. AllRecords(segments') = K \cup {nextSeq}
  BY <1>0, AppendEffect DEF len
<1>4. DOMAIN segments \subseteq DOMAIN Rotated(len) /\ DOMAIN Rotated(len) \subseteq Seqs
  BY <1>0, <1>2, RotatedDirectory DEF Directory
<1>5. \A f \in D, g \in DOMAIN segments : g < f => g \in D
  BY <1>1, <1>4, OverLimitIsFront
<1>6. K \subseteq AllRecords(segments)
  BY <1>0, SegmentTypes, WithoutSegments
<1>7. \A s \in AllRecords(segments) : s \in Seqs /\ s \in Nat /\ s < nextSeq
  BY <1>0, InAllRecords, SegmentTypes, SpoolAssumption DEF SegmentsInOrder, Seqs
<1>8. nextSeq \in Nat /\ lostSince \subseteq Seqs /\ lostSince \subseteq Nat
  <2>1. nextSeq \in Nat /\ lostSince \subseteq Seqs
    BY <1>0 DEF TypeOK
  <2>2. Seqs \subseteq Nat
    BY SpoolAssumption DEF Seqs
  <2> QED
    BY <2>1, <2>2
<1> HIDE DEF D
<1>9. L \subseteq AllRecords(segments)
  BY <1>2 DEF LossOf, AllRecords
<1>10. ASSUME NEW s \in L, NEW t \in K PROVE s < t
  <2>1. PICK f \in D \cap DOMAIN segments : s \in Records(segments, f)
    BY <1>2 DEF LossOf
  <2>2. PICK g \in DOMAIN segments \ D : t \in Records(segments, g)
    BY DEF AllRecords, Records, Without
  <2>3. f \in Nat /\ g \in Nat /\ segments[f] \in Nat /\ f # g /\ ~(g < f)
    BY <1>0, <1>5, <2>1, <2>2, SegmentTypes
  <2>4. f + segments[f] <= g
    BY <1>0, <2>1, <2>2, <2>3 DEF SegmentsInOrder
  <2>5. s < f + segments[f] /\ g <= t
    BY <2>1, <2>2 DEF Records
  <2> QED
    BY <1>6, <1>7, <1>9, <2>3, <2>4, <2>5
<1> HIDE DEF K
<1>11. \A s \in lostSince : s < nextSeq /\ \A t \in AllRecords(segments) : s < t
  BY DEF LostBelow
<1>12. \A s \in lostSince, t \in L : s < t
  BY <1>9, <1>11
<1>13. lostSince \cap L = {}
  <2>1. ASSUME NEW s \in lostSince, s \in L PROVE FALSE
    <3>1. s < s /\ s \in Nat
      BY <1>8, <1>12, <2>1
    <3> QED
      BY <3>1
  <2> QED
    BY <2>1
<1>14. L \subseteq Seqs
  BY <1>7, <1>9
<1>15. Cardinality(lostSince') = Cardinality(lostSince) + Cardinality(L)
  <2>1. /\ IsFiniteSet(lostSince) /\ IsFiniteSet(L)
        /\ Cardinality(lostSince) \in Nat /\ Cardinality(L) \in Nat
    BY <1>8, <1>14, SeqsFinite
  <2>2. Cardinality(lostSince \cup L)
          = Cardinality(lostSince) + Cardinality(L) - Cardinality(lostSince \cap L)
    BY <2>1, FS_Union
  <2>3. Cardinality(lostSince \cap L) = 0
    BY <1>13, FS_EmptySet
  <2>4. Cardinality(lostSince \cup L) = Cardinality(lostSince) + Cardinality(L)
    BY <2>1, <2>2, <2>3
  <2> QED
    BY <1>2, <2>4
<1>16. lostSince' \ L = lostSince
  BY <1>2, <1>13
<1>17. ASSUME NEW s \in lostSince' PROVE s < nextSeq' /\ \A t \in AllRecords(segments') : s < t
  <2>1. s \in Nat /\ s < nextSeq
    BY <1>2, <1>7, <1>8, <1>9, <1>11
  <2>2. \A t \in K : s < t
    BY <1>2, <1>6, <1>10, <1>11
  <2> QED
    BY <1>2, <1>3, <1>8, <2>1, <2>2
<1> QED
  BY <1>2, <1>12, <1>14, <1>15, <1>16, <1>17

(* A record an append leaves behind the cursor was behind it before, and   *)
(* a record that waits is kept or dropped.                                 *)
LEMMA AppendUnacked ==
  ASSUME IInv, up, NEW isHealth \in BOOLEAN, AppendRecord(isHealth),
         NEW L, L = AppendLoss(IF isHealth THEN HealthBytes ELSE FlowBytes)
  PROVE  /\ nextSeq \in Unacked(segments', acked') \ AllRecords(segments)
         /\ Unacked(segments', acked') \ {nextSeq} \subseteq Unacked(segments, acked)
         /\ Unacked(segments, acked) \subseteq Unacked(segments', acked') \cup L
<1> DEFINE len == IF isHealth THEN HealthBytes ELSE FlowBytes
           D == OverLimit(Rotated(len), len)
           K == AllRecords(Without(segments, D))
<1>0. TypeOK /\ SegmentsInOrder /\ WriterAtEnd
  BY DEF IInv
<1> HIDE DEF len
<1>1. /\ AllRecords(Without(Rotated(len), D)) = K
      /\ AllRecords(segments') = K \cup {nextSeq}
  BY <1>0, AppendEffect DEF len
<1>2. acked' = acked \cap K /\ L = LossOf(D)
  BY <1>1 DEF AppendRecord, AppendLoss, len
<1> HIDE DEF D
<1>3. K \subseteq AllRecords(segments) /\ acked \subseteq AllRecords(segments)
  BY <1>0, SegmentTypes, WithoutSegments DEF TypeOK
<1>4. nextSeq \notin AllRecords(segments)
  BY <1>0, InAllRecords, SegmentTypes, SpoolAssumption DEF SegmentsInOrder, Seqs
<1>5. ASSUME NEW s \in AllRecords(segments), s \notin acked
      PROVE  s \in K \/ s \in L
  BY <1>2, <1>5, LossOrKept
<1> HIDE DEF K
<1> QED
  BY <1>1, <1>2, <1>3, <1>4, <1>5 DEF Unacked

(* An append keeps what the invariant says of the cursor and of the        *)
(* records behind it.                                                      *)
LEMMA AppendStrandsNothing ==
  ASSUME JInv, up, NEW isHealth \in BOOLEAN, AppendRecord(isHealth)
  PROVE  CursorInside' /\ SentBefore' /\ NothingStranded' /\ AtRest'
<1>1. IInv /\ CursorInside /\ SentBefore /\ NothingStranded /\ TypeOK /\ SegmentsInOrder
  BY DEF JInv, IInv
<1>2. /\ CursorInside' /\ SentBefore'
      /\ \A s \in AllRecords(segments') :
           s >= Position(segments', cursor)
           \/ (s \in AllRecords(segments) /\ s < Position(segments, cursor))
  BY <1>1, AppendCursor
<1>3. UNCHANGED <<up, cursor, inflight, reports>>
  BY DEF AppendRecord, client
<1>4. /\ nextSeq \notin AllRecords(segments)
      /\ Unacked(segments', acked') \ {nextSeq} \subseteq Unacked(segments, acked)
  BY <1>1, AppendUnacked
<1>5. ASSUME NEW s \in Unacked(segments', acked'), ~(s >= Position(segments', cursor))
      PROVE  inflight[s] > 0 \/ <<s, TRUE>> \in reports \/ FailedReport
  <2>1. s \in AllRecords(segments')
    BY DEF Unacked
  <2>2. s \in AllRecords(segments) /\ s < Position(segments, cursor)
    BY <1>2, <1>5, <2>1
  <2>3. s \in Unacked(segments, acked) /\ s \in Nat
    BY <1>4, <2>2, InAllRecords, SpoolAssumption DEF Seqs
  <2>4. Position(segments, cursor) \in Nat
    BY <1>1, PositionIs DEF TypeOK
  <2>5. ~(s >= Position(segments, cursor))
    BY <2>2, <2>3, <2>4
  <2> QED
    BY <1>1, <2>3, <2>5 DEF NothingStranded
<1>6. NothingStranded'
  BY <1>3, <1>5 DEF NothingStranded, FailedReport
<1> QED
  BY <1>2, <1>3, <1>6 DEF AtRest

(* submit_flow and submit_health leave what they dropped to be reported.   *)
LEMMA SubmitCounts ==
  ASSUME JInv, up, lossDue = {}, NEW isHealth \in BOOLEAN, AppendRecord(isHealth),
         lossDue' = AppendLoss(IF isHealth THEN HealthBytes ELSE FlowBytes),
         UNCHANGED <<cumulative, lastReport>>
  PROVE  LostBelow' /\ LossAccounted' /\ ReportKept'
<1> DEFINE L == AppendLoss(IF isHealth THEN HealthBytes ELSE FlowBytes)
<1>1. IInv /\ LostBelow /\ LossAccounted /\ ReportKept /\ TypeOK
  BY DEF JInv, IInv
<1>2. /\ lostSince' = lostSince \cup L
      /\ Cardinality(lostSince') = Cardinality(lostSince) + Cardinality(L)
      /\ lostSince' \ L = lostSince
      /\ \A s \in lostSince' : s < nextSeq' /\ \A t \in AllRecords(segments') : s < t
  BY <1>1, LossIsOldest
<1>3. Unacked(segments, acked) \subseteq Unacked(segments', acked') \cup L
  BY <1>1, AppendUnacked
<1>4. lossDue' = L /\ UNCHANGED <<up, delivered, cumulative, lastReport>>
  BY DEF AppendRecord
<1> HIDE DEF L
<1>5. LostBelow'
  BY <1>2, <1>4 DEF LostBelow
<1>6. LossAccounted'
  <2>1. cumulative.count \in Nat
    BY <1>1 DEF TypeOK
  <2>2. Cardinality(lossDue) = 0
    BY FS_EmptySet
  <2>3. cumulative.count = Cardinality(lostSince)
        /\ \A s \in lostSince : cumulative.first <= s /\ s <= cumulative.last
    BY <1>1, <2>1, <2>2 DEF LossAccounted
  <2> QED
    BY <1>2, <1>4, <2>3 DEF LossAccounted
<1>7. ReportKept'
  BY <1>1, <1>3, <1>4 DEF ReportKept
<1> QED
  BY <1>5, <1>6, <1>7

(* submit_flow keeps the invariant. *)
LEMMA SubmitFlowKeepsJ == JInv /\ SubmitFlow => JInv'
<1> SUFFICES ASSUME JInv, SubmitFlow PROVE JInv'
  OBVIOUS
<1>1. /\ IInv /\ up /\ lossDue = {} /\ AppendRecord(FALSE)
      /\ lossDue' = AppendLoss(IF FALSE THEN HealthBytes ELSE FlowBytes)
      /\ UNCHANGED <<cumulative, lastReport>>
  BY DEF JInv, SubmitFlow, Idle
<1>2. LostBelow' /\ LossAccounted' /\ ReportKept'
  BY <1>1, SubmitCounts
<1>3. CursorInside' /\ SentBefore' /\ NothingStranded' /\ AtRest'
  BY <1>1, AppendStrandsNothing
<1> QED
  BY <1>1, <1>2, <1>3, SubmitFlowKeeps DEF JInv

(* submit_health keeps the invariant. *)
LEMMA SubmitHealthKeepsJ == JInv /\ SubmitHealth => JInv'
<1> SUFFICES ASSUME JInv, SubmitHealth PROVE JInv'
  OBVIOUS
<1>1. /\ IInv /\ up /\ lossDue = {} /\ AppendRecord(TRUE)
      /\ lossDue' = AppendLoss(IF TRUE THEN HealthBytes ELSE FlowBytes)
      /\ UNCHANGED <<cumulative, lastReport>>
  BY DEF JInv, SubmitHealth
<1>2. LostBelow' /\ LossAccounted' /\ ReportKept'
  BY <1>1, SubmitCounts
<1>3. CursorInside' /\ SentBefore' /\ NothingStranded' /\ AtRest'
  BY <1>1, AppendStrandsNothing
<1> QED
  BY <1>1, <1>2, <1>3, SubmitHealthKeeps DEF JInv

(* The extrema of a set of sequence numbers and one more bound them all. *)
LEMMA ExtremaBound ==
  ASSUME NEW R, R \subseteq Seqs, NEW m \in Nat
  PROVE  /\ \A s \in R \cup {m} : Min(R \cup {m}) <= s /\ s <= Max(R \cup {m})
         /\ \A s \in R : Min(R) <= s /\ s <= Max(R)
<1>1. R \subseteq Nat /\ MaxSeq \in Nat /\ \A y \in R : y <= MaxSeq
  BY SpoolAssumption DEF Seqs
<1> DEFINE Q == R \cup {m}
<1>2. R \in SUBSET Nat /\ Q \in SUBSET Nat /\ Q # {}
  BY <1>1
<1>3. R \in SUBSET Int /\ Q \in SUBSET Int
  BY <1>2
<1>4. MaxSeq + m \in Int /\ \A y \in Q : y <= MaxSeq + m
  BY <1>1
<1>5. \A y \in R : y <= MaxSeq + m
  BY <1>4
<1> HIDE DEF Q
<1>6. Min(Q) \in Q /\ (\A y \in Q : Min(Q) <= y) /\ Max(Q) \in Q /\ \A y \in Q : Max(Q) >= y
  BY <1>2, <1>3, <1>4, MinOfNat, MaxOfBounded
<1>7. R # {} => Min(R) \in R /\ (\A y \in R : Min(R) <= y) /\ Max(R) \in R /\ \A y \in R : Max(R) >= y
  BY <1>2, <1>3, <1>4, <1>5, MinOfNat, MaxOfBounded
<1>8. \A s \in Q : Min(Q) <= s /\ s <= Max(Q)
  BY <1>2, <1>6
<1>9. ASSUME NEW s \in R PROVE Min(R) <= s /\ s <= Max(R)
  BY <1>2, <1>7
<1> QED
  BY <1>8, <1>9 DEF Q

(* The running total counts the due loss and its range covers it. *)
LEMMA TotalCovers ==
  ASSUME TypeOK, LostBelow, LossAccounted, lossDue # {},
         NEW total, total = Accumulate(cumulative, lossDue)
  PROVE  /\ total.count = Cardinality(lostSince)
         /\ \A s \in lostSince : total.first <= s /\ s <= total.last
<1>1. /\ cumulative \in [count : Nat, first : Nat, last : Nat]
      /\ lossDue \subseteq Seqs /\ lostSince \subseteq Seqs /\ lossDue \subseteq lostSince
  BY DEF TypeOK, LostBelow
<1>2. cumulative.count \in Nat /\ cumulative.first \in Nat /\ cumulative.last \in Nat
  BY <1>1
<1>3. total.count = Cardinality(lostSince)
  BY DEF Accumulate, LossAccounted
<1>4. \A s \in lostSince : s \in Nat
  BY <1>1, SpoolAssumption DEF Seqs
<1>5. CASE cumulative.count = 0
  <2>1. IsFiniteSet(lostSince) /\ Cardinality(lossDue) \in Nat
    BY <1>1, SeqsFinite
  <2>2. Cardinality(lossDue) = Cardinality(lostSince)
    BY <1>5, <2>1 DEF LossAccounted
  <2>3. lossDue \in SUBSET lostSince
    BY <1>1
  <2>4. lostSince = lossDue
    BY <2>1, <2>2, <2>3, FS_Subset
  <2>5. lossDue \cup {} = lossDue
    OBVIOUS
  <2>6. total.first = Min(lossDue) /\ total.last = Max(lossDue)
    BY <1>5, <2>5 DEF Accumulate
  <2>7. \A s \in lossDue : Min(lossDue) <= s /\ s <= Max(lossDue)
    BY <1>1, <1>2, ExtremaBound
  <2> QED
    BY <1>3, <2>4, <2>6, <2>7
<1>6. CASE cumulative.count # 0
  <2> DEFINE lo == Min(lossDue \cup {cumulative.first})
             hi == Max(lossDue \cup {cumulative.last})
  <2>1. total.first = lo /\ total.last = hi
    BY <1>6 DEF Accumulate
  <2>2. lo \in Nat /\ hi \in Nat
    BY <1>1, <1>2, ExtremaAreNumbers
  <2>3. /\ \A s \in lossDue \cup {cumulative.first} : lo <= s
        /\ \A s \in lossDue \cup {cumulative.last} : s <= hi
    BY <1>1, <1>2, ExtremaBound
  <2> HIDE DEF lo, hi
  <2>4. lo <= cumulative.first /\ cumulative.last <= hi
    BY <2>3
  <2>5. ASSUME NEW s \in lostSince PROVE lo <= s /\ s <= hi
    <3>1. CASE s \in lossDue
      BY <2>3, <3>1
    <3>2. CASE s \notin lossDue
      <4>1. cumulative.first <= s /\ s <= cumulative.last /\ s \in Nat
        BY <1>4, <3>2 DEF LossAccounted
      <4> QED
        BY <1>2, <2>2, <2>4, <4>1
    <3> QED
      BY <3>1, <3>2
  <2> QED
    BY <1>3, <2>1, <2>5
<1> QED
  BY <1>5, <1>6

(* report_loss keeps the invariant: what the report itself pushes out is   *)
(* above the first and is added to the total.                              *)
LEMMA ReportLossKeepsJ == JInv /\ ReportLoss => JInv'
<1> SUFFICES ASSUME JInv, ReportLoss PROVE JInv'
  OBVIOUS
<1> DEFINE total == Accumulate(cumulative, lossDue)
           L == AppendLoss(IF TRUE THEN HealthBytes ELSE FlowBytes)
<1>1. /\ IInv /\ LostBelow /\ LossAccounted /\ TypeOK /\ up /\ lossDue # {}
      /\ AppendRecord(TRUE) /\ lossDue' = {} /\ lastReport' = [seq |-> nextSeq, count |-> total.count]
      /\ cumulative' = AddNested(total, L)
  BY DEF JInv, IInv, ReportLoss
<1>2. /\ lostSince' = lostSince \cup L
      /\ L \subseteq Seqs
      /\ \A s \in lostSince, t \in L : s < t
      /\ Cardinality(lostSince') = Cardinality(lostSince) + Cardinality(L)
      /\ \A s \in lostSince' : s < nextSeq' /\ \A t \in AllRecords(segments') : s < t
  BY <1>1, LossIsOldest
<1>3. nextSeq \in Unacked(segments', acked')
  BY <1>1, AppendUnacked
<1>4. CursorInside' /\ SentBefore' /\ NothingStranded' /\ AtRest'
  BY <1>1, AppendStrandsNothing
<1> HIDE DEF L
<1>5. LostBelow'
  BY <1>1, <1>2 DEF LostBelow
<1>6. ReportKept'
  BY <1>1, <1>3 DEF ReportKept
<1>7. /\ total.count = Cardinality(lostSince)
      /\ \A s \in lostSince : total.first <= s /\ s <= total.last
  BY <1>1, TotalCovers
<1>8. total \in [count : Nat, first : Nat, last : Nat] /\ lossDue \subseteq lostSince
      /\ lossDue \subseteq Seqs /\ lostSince \subseteq Seqs
  BY <1>1, TotalIsNumbers DEF TypeOK, LostBelow
<1> HIDE DEF total
<1>9. total.count \in Nat /\ total.first \in Nat /\ total.last \in Nat
  BY <1>8
<1>10. Cardinality(lossDue') = 0 /\ lostSince' \ lossDue' = lostSince'
  BY <1>1, FS_EmptySet
<1>11. LossAccounted'
  <2>1. CASE L = {}
    <3>1. cumulative' = total /\ lostSince' = lostSince
      BY <1>1, <1>2, <2>1 DEF AddNested
    <3> QED
      BY <1>7, <1>9, <1>10, <3>1 DEF LossAccounted
  <2>2. CASE L # {}
    <3> DEFINE hi == Max(L \cup {total.last})
    <3>1. cumulative'.count = total.count + Cardinality(L)
          /\ cumulative'.first = total.first /\ cumulative'.last = hi
      BY <1>1, <1>8, <2>2 DEF AddNested
    <3>2. hi \in Nat /\ \A s \in L \cup {total.last} : s <= hi
      BY <1>2, <1>9, ExtremaBound, ExtremaAreNumbers
    <3> HIDE DEF hi
    <3>3. PICK d \in lossDue : TRUE
      BY <1>1
    <3>4. \A s \in lostSince' : s \in Nat
      BY <1>2, <1>8, SpoolAssumption DEF Seqs
    <3>5. ASSUME NEW s \in lostSince' PROVE total.first <= s /\ s <= hi
      <4>1. CASE s \in lostSince
        <5>1. total.first <= s /\ s <= total.last /\ total.last <= hi
          BY <1>7, <3>2, <4>1
        <5> QED
          BY <1>9, <3>2, <3>4, <5>1
      <4>2. CASE s \in L
        <5>1. d < s /\ total.first <= d /\ d \in Nat
          BY <1>2, <1>7, <1>8, <3>3, <3>4, <4>2
        <5> QED
          BY <1>9, <3>2, <3>4, <4>2, <5>1
      <4> QED
        BY <1>2, <4>1, <4>2
    <3>6. cumulative'.count = Cardinality(lostSince') /\ cumulative'.count \in Nat
      <4>1. Cardinality(L) \in Nat
        BY <1>2, SeqsFinite
      <4> QED
        BY <1>2, <1>7, <1>9, <3>1, <4>1
    <3> QED
      BY <1>10, <3>1, <3>5, <3>6 DEF LossAccounted
  <2> QED
    BY <2>1, <2>2
<1> QED
  BY <1>1, <1>4, <1>5, <1>6, <1>11, ReportLossKeeps DEF JInv

-----------------------------------------------------------------------------
(* Sending.                                                                *)

(* A cursor at a record reads on there. *)
LEMMA CursorAtIs ==
  ASSUME NEW S, DOMAIN S \subseteq Seqs, S \in [DOMAIN S -> Nat \ {0}], NEW s \in AllRecords(S)
  PROVE  /\ Position(S, CursorAt(S, s)) = s
         /\ CursorAt(S, s).segment \in DOMAIN S
         /\ CursorAt(S, s).offset <= S[CursorAt(S, s).segment]
<1> DEFINE f == CHOOSE g \in DOMAIN S : s \in Records(S, g)
<1>1. \E g \in DOMAIN S : s \in Records(S, g)
  BY DEF AllRecords
<1>2. f \in DOMAIN S /\ s \in Records(S, f)
  BY <1>1
<1> HIDE DEF f
<1>3. f \in Nat /\ s \in Nat /\ f <= s /\ s < f + S[f] /\ S[f] \in Nat
  BY <1>2, SpoolAssumption DEF Records, Seqs
<1>4. CursorAt(S, s) = [segment |-> f, offset |-> s - f]
  BY DEF CursorAt, f
<1>5. Position(S, CursorAt(S, s)) = f + (s - f)
  BY <1>2, <1>4 DEF Position
<1> QED
  BY <1>2, <1>3, <1>4, <1>5

(* A cursor at the end has every record behind it. *)
LEMMA CursorAtEndIs ==
  ASSUME NEW S, DOMAIN S \subseteq Seqs, S \in [DOMAIN S -> Nat \ {0}], DOMAIN S # {},
         \A f \in DOMAIN S, g \in DOMAIN S : f < g => f + S[f] <= g
  PROVE  /\ CursorAtEnd(S).segment \in DOMAIN S
         /\ CursorAtEnd(S).offset <= S[CursorAtEnd(S).segment]
         /\ \A f \in DOMAIN S : f + S[f] <= Position(S, CursorAtEnd(S))
<1> DEFINE b == Back(S)
<1>1. b \in DOMAIN S /\ \A f \in DOMAIN S : f <= b
  BY BackIsLast
<1>2. CursorAtEnd(S) = [segment |-> b, offset |-> S[b]]
  BY DEF CursorAtEnd
<1> HIDE DEF b
<1>3. \A f \in DOMAIN S : f \in Nat /\ S[f] \in Nat
  BY SpoolAssumption DEF Seqs
<1>4. Position(S, CursorAtEnd(S)) = b + S[b]
  BY <1>1, <1>2 DEF Position
<1>5. ASSUME NEW f \in DOMAIN S PROVE f + S[f] <= b + S[b]
  <2>1. CASE f = b
    BY <1>1, <1>3, <2>1
  <2>2. CASE f # b
    <3>1. f < b
      BY <1>1, <1>3, <2>2
    <3>2. f + S[f] <= b
      BY <1>1, <3>1
    <3> QED
      BY <1>1, <1>3, <3>2
  <2> QED
    BY <2>1, <2>2
<1> QED
  BY <1>1, <1>2, <1>3, <1>4, <1>5

(* The parts of a pump: what it acknowledges, what it leaves in the spool, *)
(* where it reads from and what it sends.                                  *)
PumpLeaves == Without(segments, AckedFront(segments, AckedByReports))
PumpFrom == IF FailedReport THEN Rewind(PumpLeaves, AckedByReports) ELSE cursor
PumpBatch(stop) == {s \in Readable(PumpLeaves, AckedByReports, PumpFrom) : s < stop}

(* What a pump leaves is in order, and holds all that is not acknowledged. *)
LEMMA PumpLeavesOrder ==
  ASSUME TypeOK, SegmentsInOrder
  PROVE  /\ DOMAIN PumpLeaves = DOMAIN segments \ AckedFront(segments, AckedByReports)
         /\ DOMAIN PumpLeaves \subseteq Seqs
         /\ \A f \in DOMAIN PumpLeaves : PumpLeaves[f] = segments[f]
         /\ PumpLeaves \in [DOMAIN PumpLeaves -> Nat \ {0}]
         /\ AllRecords(PumpLeaves) \subseteq AllRecords(segments)
         /\ AllRecords(segments) \ AckedByReports \subseteq AllRecords(PumpLeaves)
         /\ \A f \in DOMAIN PumpLeaves : f + PumpLeaves[f] <= nextSeq
         /\ \A f \in DOMAIN PumpLeaves, g \in DOMAIN PumpLeaves : f < g => f + PumpLeaves[f] <= g
         /\ \A f \in AckedFront(segments, AckedByReports), g \in DOMAIN segments :
              g < f => g \in AckedFront(segments, AckedByReports)
<1> DEFINE A == AckedByReports
           S == PumpLeaves
           D == AckedFront(segments, A)
<1>1. DOMAIN segments \subseteq Seqs
  BY DEF TypeOK
<1> HIDE DEF A
<1>2. /\ DOMAIN S \subseteq DOMAIN segments
      /\ \A f \in DOMAIN S : S[f] = segments[f]
      /\ S \in [DOMAIN S -> Nat \ {0}]
      /\ AllRecords(S) \subseteq AllRecords(segments)
      /\ AllRecords(segments) \ A \subseteq AllRecords(S)
  BY FrontIsAcked DEF PumpLeaves, A
<1>3. DOMAIN S = DOMAIN segments \ D
  BY DEF PumpLeaves, Without, A
<1>4. ASSUME NEW f \in D, NEW g \in DOMAIN segments, g < f
      PROVE  g \in D
  <2>1. f \in DOMAIN segments /\ f # Back(segments)
        /\ \A h \in DOMAIN segments : h <= f => Records(segments, h) \subseteq A
    BY DEF AckedFront
  <2>2. f \in Nat /\ g \in Nat /\ \A h \in DOMAIN segments : h \in Nat
    BY <2>1, SegmentTypes
  <2>3. g # Back(segments)
    BY <1>1, <1>4, <2>1, <2>2, BackIsLast
  <2>4. \A h \in DOMAIN segments : h <= g => h <= f
    BY <1>4, <2>2
  <2> QED
    BY <2>1, <2>3, <2>4 DEF AckedFront
<1>5. /\ \A f \in DOMAIN S : f + S[f] <= nextSeq
      /\ \A f \in DOMAIN S, g \in DOMAIN S : f < g => f + S[f] <= g
  BY <1>2 DEF SegmentsInOrder
<1> QED
  BY <1>1, <1>2, <1>3, <1>4, <1>5 DEF A

(* All that a pump sends lies above what was sent before, unless a failed  *)
(* delivery took sending back.                                             *)
LEMMA BatchIsAbove ==
  ASSUME TypeOK, SegmentsInOrder, CursorInside, SentBefore, up, ~FailedReport,
         DOMAIN PumpLeaves # {}
  PROVE  sentUpTo < Position(PumpLeaves, PumpFrom)
<1> DEFINE S == PumpLeaves
           D == AckedFront(segments, AckedByReports)
<1>1. sentUpTo \in Int
  <2>1. sentUpTo \in Seqs \cup {-1}
    BY DEF TypeOK
  <2>2. Seqs \subseteq Nat
    BY SpoolAssumption DEF Seqs
  <2> QED
    BY <2>1, <2>2
<1>2. DOMAIN segments # {} => sentUpTo < Position(segments, cursor)
  BY DEF SentBefore
<1>3. /\ DOMAIN S = DOMAIN segments \ D /\ DOMAIN S \subseteq Seqs
      /\ \A f \in D, g \in DOMAIN segments : g < f => g \in D
  BY PumpLeavesOrder
<1> HIDE DEF S, D
<1>4. DOMAIN S # {} /\ (\A f \in DOMAIN S : f \in DOMAIN segments \ D \/ sentUpTo < f)
      /\ (cursor.segment \in DOMAIN segments \ D => cursor.segment \in DOMAIN S)
  BY <1>3 DEF S
<1>5. sentUpTo < Position(S, cursor)
  BY <1>1, <1>2, <1>3, <1>4, PositionAdvances
<1> QED
  BY <1>5 DEF PumpFrom, S

(* pump keeps the invariant. *)
LEMMA PumpKeepsJ ==
  ASSUME JInv, NEW stop, Pump(stop)
  PROVE  JInv'
<1> DEFINE A == AckedByReports
           S == PumpLeaves
           from == PumpFrom
           readable == Readable(S, A, from)
           batch == PumpBatch(stop)
           x == IF FailedReport THEN -1 ELSE sentUpTo
           CursorMoved ==
             /\ DOMAIN S # {} => /\ cursor'.segment \in DOMAIN S
                                 /\ cursor'.offset <= S[cursor'.segment]
                                 /\ Position(S, cursor') \in Nat
             /\ DOMAIN S = {} => cursor' = Start
             /\ \A s \in batch : s < Position(S, cursor')
             /\ \A s \in readable : s \in batch \/ s >= Position(S, cursor')
             /\ DOMAIN S # {} /\ ~FailedReport => Position(S, from) <= Position(S, cursor')
<1>1. /\ Idle
      /\ stop \in readable \cup {MaxSeq + 1}
      /\ segments' = S
      /\ acked' = A \cap AllRecords(S)
      /\ cursor' = IF stop \in readable THEN CursorAt(S, stop) ELSE CursorAtEnd(S)
      /\ inflight' = [s \in Seqs |-> inflight[s] + IF s \in batch THEN 1 ELSE 0]
      /\ reports' = {}
      /\ sentUpTo' = Max({x} \cup batch)
      /\ UNCHANGED <<up, nextSeq, cumulative, lossDue, delivered, lostSince, lastReport>>
  BY DEF Pump, PumpLeaves, PumpFrom, PumpBatch
<1>2. /\ IInv /\ TypeOK /\ SegmentsInOrder /\ AcksAreDelivered /\ CursorInside /\ NothingStranded
      /\ SentBefore /\ LostBelow /\ LossAccounted /\ ReportKept
  BY DEF JInv, IInv
<1>3. up
  BY <1>1 DEF Idle
<1>4. /\ DOMAIN S = DOMAIN segments \ AckedFront(segments, A)
      /\ DOMAIN S \subseteq Seqs
      /\ \A f \in DOMAIN S : S[f] = segments[f]
      /\ S \in [DOMAIN S -> Nat \ {0}]
      /\ AllRecords(S) \subseteq AllRecords(segments)
      /\ AllRecords(segments) \ A \subseteq AllRecords(S)
      /\ \A f \in DOMAIN S : f + S[f] <= nextSeq
      /\ \A f \in DOMAIN S, g \in DOMAIN S : f < g => f + S[f] <= g
  BY <1>2, PumpLeavesOrder
<1>5. /\ readable = {s \in Unacked(S, A) : s >= Position(S, from)}
      /\ batch = {s \in readable : s < stop}
      /\ from = IF FailedReport THEN Rewind(S, A) ELSE cursor
  BY DEF Readable, PumpBatch, PumpFrom
<1>6. acked \subseteq A /\ A \subseteq delivered /\ \A s \in AllRecords(segments) : <<s, TRUE>> \in reports => s \in A
  <2>1. AllRecords(segments) \subseteq Seqs
    BY InAllRecords
  <2> QED
    BY <1>2, <2>1 DEF AckedByReports, AcksAreDelivered
<1>7. DOMAIN S # {} /\ ~FailedReport => sentUpTo < Position(S, from)
  BY <1>2, <1>3, BatchIsAbove
<1>8. ASSUME FailedReport
      PROVE  /\ from = Rewind(S, A)
             /\ \A s \in Unacked(S, A) : Position(S, from) <= s
  <2>1. from = Rewind(S, A)
    BY <1>5, <1>8
  <2> QED
    BY <1>4, <2>1, RewindIsBefore
<1>9. from \in [segment : Nat, offset : Nat]
  <2>1. cursor \in [segment : Nat, offset : Nat]
    BY <1>2 DEF TypeOK
  <2>2. Rewind(S, A) \in [segment : Nat, offset : Nat]
    BY <1>4, CursorTypes
  <2> QED
    BY <1>5, <2>1, <2>2
<1> HIDE DEF A, S, from, readable, batch, x
<1>10. \A s \in AllRecords(S) : s \in Seqs /\ s \in Nat /\ s <= MaxSeq /\ s < nextSeq
  <2> TAKE s \in AllRecords(S)
  <2>1. s \in Seqs /\ \E f \in DOMAIN S : s < f + S[f]
    BY InAllRecords
  <2>2. PICK f \in DOMAIN S : s < f + S[f] /\ f + S[f] <= nextSeq
    BY <1>4, <2>1
  <2>3. f \in Nat /\ S[f] \in Nat /\ nextSeq \in Nat /\ s \in Nat /\ s <= MaxSeq
    BY <1>2, <1>4, <2>1, <2>2, SpoolAssumption DEF Seqs, TypeOK
  <2> QED
    BY <2>1, <2>2, <2>3
<1>11. Unacked(S, A) \subseteq AllRecords(S) /\ readable \subseteq AllRecords(S) /\ batch \subseteq readable
  BY <1>5 DEF Unacked
<1>12. Unacked(segments', acked') = Unacked(S, A)
  BY <1>1 DEF Unacked
<1>13. \A s \in Seqs : inflight[s] \in Nat
  BY <1>2, SpoolAssumption DEF TypeOK
<1>14. CursorMoved
  <2>1. CASE stop \in readable
    <3>1. cursor' = CursorAt(S, stop) /\ stop \in AllRecords(S)
      BY <1>1, <1>11, <2>1
    <3>2. /\ Position(S, cursor') = stop /\ cursor'.segment \in DOMAIN S
          /\ cursor'.offset <= S[cursor'.segment]
      BY <1>4, <3>1, CursorAtIs
    <3>3. \A s \in batch : s < Position(S, cursor')
      BY <1>5, <3>2
    <3>4. \A s \in readable : s \in batch \/ s >= Position(S, cursor')
      BY <1>5, <1>10, <1>11, <2>1, <3>2
    <3>5. Position(S, from) <= Position(S, cursor') /\ Position(S, cursor') \in Nat
      <4>1. stop \in Nat /\ stop >= Position(S, from)
        BY <1>5, <1>10, <2>1, <3>1
      <4>2. Position(S, from) \in Nat
        BY <1>4, <1>9, PositionIs
      <4> QED
        BY <3>2, <4>1, <4>2
    <3> QED
      BY <3>2, <3>3, <3>4, <3>5
  <2>2. CASE stop \notin readable /\ DOMAIN S # {}
    <3>1. cursor' = CursorAtEnd(S) /\ stop = MaxSeq + 1
      BY <1>1, <2>2
    <3>2. /\ cursor'.segment \in DOMAIN S /\ cursor'.offset <= S[cursor'.segment]
          /\ \A f \in DOMAIN S : f + S[f] <= Position(S, cursor')
      BY <1>4, <2>2, <3>1, CursorAtEndIs
    <3>3. \A f \in DOMAIN S : f \in Nat /\ S[f] \in Nat
      BY <1>4, SpoolAssumption DEF Seqs
    <3>4. Position(S, cursor') \in Nat
      BY <1>4, <3>1, CursorTypes, PositionIs
    <3>5. ASSUME NEW s \in batch PROVE s < Position(S, cursor')
      <4>1. s \in AllRecords(S) /\ s \in Nat
        BY <1>10, <1>11
      <4>2. PICK f \in DOMAIN S : s < f + S[f]
        BY <4>1, InAllRecords
      <4> QED
        BY <3>2, <3>3, <3>4, <4>1, <4>2
    <3>6. \A s \in readable : s \in batch
      BY <1>5, <1>10, <1>11, <3>1, SpoolAssumption
    <3>7. ASSUME ~FailedReport PROVE Position(S, from) <= Position(S, cursor')
      <4>1. from = cursor
        BY <1>5, <3>7
      <4>2. /\ Position(S, from) \in Nat
            /\ from.segment \in DOMAIN S => Position(S, from) = from.segment + from.offset
            /\ from.segment \notin DOMAIN S => Position(S, from) \in DOMAIN S
        BY <1>4, <1>9, <2>2, PositionIs
      <4>3. CASE from.segment \in DOMAIN S
        <5>1. from.offset <= S[from.segment] /\ from.offset \in Nat
          BY <1>2, <1>4, <1>9, <4>1, <4>3 DEF CursorInside
        <5> QED
          BY <3>2, <3>3, <3>4, <4>2, <4>3, <5>1
      <4>4. CASE from.segment \notin DOMAIN S
        BY <3>2, <3>3, <3>4, <4>2, <4>4
      <4> QED
        BY <4>3, <4>4
    <3> QED
      BY <2>2, <3>2, <3>4, <3>5, <3>6, <3>7
  <2>3. CASE stop \notin readable /\ DOMAIN S = {}
    <3>1. AllRecords(S) = {} /\ cursor' = Start
      BY <1>1, <2>3 DEF AllRecords, CursorAtEnd
    <3> QED
      BY <1>11, <2>3, <3>1
  <2> QED
    BY <2>1, <2>2, <2>3
<1>15. CursorInside'
  <2>1. ASSUME DOMAIN S # {} PROVE cursor'.segment < nextSeq
    <3> DEFINE c == cursor'.segment
    <3>1. c \in DOMAIN S /\ c + S[c] <= nextSeq
      BY <1>4, <1>14, <2>1
    <3> HIDE DEF c
    <3>2. c \in Nat /\ S[c] \in Nat \ {0} /\ nextSeq \in Nat
      <4>1. c \in Seqs /\ S[c] \in Nat \ {0}
        BY <1>4, <3>1
      <4>2. nextSeq \in Nat /\ Seqs \subseteq Nat
        BY <1>2, SpoolAssumption DEF Seqs, TypeOK
      <4> QED
        BY <4>1, <4>2
    <3> QED
      BY <3>1, <3>2 DEF c
  <2> QED
    BY <1>1, <1>14, <2>1 DEF CursorInside
<1>16. NothingStranded'
  <2>1. ASSUME NEW s \in Unacked(S, A), ~(s >= Position(S, cursor'))
        PROVE  inflight'[s] > 0
    <3>1. s \in AllRecords(S) /\ s \in Seqs /\ s \in Nat
      BY <1>10, <1>11
    <3>2. CASE s \in readable
      <4>1. s \in batch
        BY <1>14, <2>1, <3>2
      <4> QED
        BY <1>1, <1>13, <3>1, <4>1
    <3>3. CASE s \notin readable
      <4>1. ~(s >= Position(S, from)) /\ Position(S, from) \in Nat
        BY <1>4, <1>5, <1>9, <3>3, PositionIs
      <4>2. ~FailedReport /\ from = cursor
        BY <1>5, <1>8, <3>1, <4>1
      <4>3. cursor.segment \in DOMAIN S /\ Position(S, from) = cursor.segment + cursor.offset
        BY <1>4, <1>9, <3>1, <4>1, <4>2, PositionIs
      <4>4. Position(segments, cursor) = cursor.segment + cursor.offset
        BY <1>4, <4>3 DEF Position
      <4>5. s \in Unacked(segments, acked) /\ s \notin A /\ s \in AllRecords(segments)
        BY <1>4, <1>6, <3>1 DEF Unacked
      <4>6. <<s, TRUE>> \notin reports
        BY <1>6, <4>5
      <4>7. inflight[s] > 0
        BY <1>2, <1>3, <4>1, <4>2, <4>3, <4>4, <4>5, <4>6 DEF NothingStranded
      <4> QED
        BY <1>1, <1>13, <3>1, <4>7
    <3> QED
      BY <3>2, <3>3
  <2> QED
    BY <1>1, <1>12, <2>1 DEF NothingStranded
<1>17. SentBefore'
  <2>1. x \in Int /\ x < nextSeq /\ nextSeq \in Nat
    <3>1. sentUpTo \in Seqs \cup {-1} /\ nextSeq \in Nat
      BY <1>2 DEF TypeOK
    <3>2. Seqs \subseteq Nat
      BY SpoolAssumption DEF Seqs
    <3>3. sentUpTo \in Int /\ sentUpTo < nextSeq
      BY <1>2, <1>3, <3>1, <3>2 DEF SentBefore
    <3> QED
      BY <3>1, <3>3 DEF x
  <2> DEFINE M == {x} \cup batch
  <2>2. batch \subseteq Nat /\ \A s \in batch : s < nextSeq
    BY <1>10, <1>11
  <2>3. M \in SUBSET Int /\ M # {} /\ nextSeq \in Int /\ \A y \in M : y <= nextSeq
    BY <2>1, <2>2
  <2>4. Max(M) \in M
    BY <2>3, MaxOfBounded
  <2>5. sentUpTo' = x \/ sentUpTo' \in batch
    BY <1>1, <2>4
  <2> HIDE DEF M
  <2>6. sentUpTo' < nextSeq
    BY <2>1, <2>2, <2>5
  <2>7. ASSUME DOMAIN S # {} PROVE sentUpTo' < Position(S, cursor')
    <3>1. CASE sentUpTo' \in batch
      BY <1>14, <3>1
    <3>2. CASE sentUpTo' = x /\ FailedReport
      <4>1. Position(S, cursor') \in Nat
        BY <1>14, <2>7
      <4> QED
        BY <3>2, <4>1 DEF x
    <3>3. CASE sentUpTo' = x /\ ~FailedReport
      <4>1. sentUpTo < Position(S, from) /\ Position(S, from) \in Nat /\ x = sentUpTo
        BY <1>4, <1>7, <1>9, <2>7, <3>3, PositionIs DEF x
      <4>2. Position(S, from) <= Position(S, cursor') /\ Position(S, cursor') \in Nat
        BY <1>14, <2>7, <3>3
      <4> QED
        BY <2>1, <3>3, <4>1, <4>2
    <3> QED
      BY <2>5, <3>1, <3>2, <3>3
  <2> QED
    BY <1>1, <2>6, <2>7 DEF SentBefore
<1>18. LostBelow' /\ LossAccounted'
  BY <1>1, <1>2, <1>4 DEF LostBelow, LossAccounted
<1>19. ReportKept'
  <2>1. Unacked(segments, acked) \subseteq Unacked(S, A) \cup delivered
    BY <1>4, <1>6 DEF Unacked
  <2> QED
    BY <1>1, <1>2, <1>12, <2>1 DEF ReportKept
<1>20. AtRest'
  BY <1>1, <1>3 DEF AtRest
<1>21. IInv'
  BY <1>2, PumpKeeps
<1> QED
  BY <1>15, <1>16, <1>17, <1>18, <1>19, <1>20, <1>21 DEF JInv

-----------------------------------------------------------------------------
(* The broker, housekeeping, crashes and restarts.                         *)

(* A delivery or a failed delivery keeps the invariant: the record leaves  *)
(* the queue and its report waits.                                         *)
LEMMA BrokerKeepsJ ==
  ASSUME JInv, IInv', NEW s \in Seqs, NEW ok \in BOOLEAN,
         inflight' = [inflight EXCEPT ![s] = @ - 1],
         delivered \subseteq delivered',
         reports' = reports \cup {<<s, ok>>},
         UNCHANGED <<disk, process, history>>
  PROVE  JInv'
<1>1. UNCHANGED <<segments, up, nextSeq, acked, cursor, cumulative, lossDue,
                  lostSince, lastReport, sentUpTo>>
  BY DEF disk, process, history
<1>2. /\ TypeOK /\ AtRest /\ CursorInside /\ NothingStranded /\ SentBefore
      /\ LostBelow /\ LossAccounted /\ ReportKept
  BY DEF JInv, IInv
<1>3. AtRest' /\ CursorInside' /\ SentBefore' /\ LostBelow' /\ LossAccounted' /\ ReportKept'
  BY <1>1, <1>2 DEF AtRest, CursorInside, SentBefore, LostBelow, LossAccounted, ReportKept
<1>4. FailedReport => FailedReport'
  BY DEF FailedReport
<1>5. <<s, TRUE>> \in reports' \/ FailedReport'
  <2>1. CASE ok = TRUE
    BY <2>1
  <2>2. CASE ok = FALSE
    BY <2>2 DEF FailedReport
  <2> QED
    BY <2>1, <2>2
<1>6. ASSUME NEW t \in Unacked(segments, acked), up,
             ~(t >= Position(segments, cursor))
      PROVE  inflight'[t] > 0 \/ <<t, TRUE>> \in reports' \/ FailedReport'
  <2>1. t \in Seqs
    BY InAllRecords DEF Unacked
  <2>2. inflight[t] > 0 \/ <<t, TRUE>> \in reports \/ FailedReport
    BY <1>2, <1>6 DEF NothingStranded
  <2>3. inflight \in [Seqs -> 0..MaxCopies]
    BY <1>2 DEF TypeOK
  <2>4. t # s => inflight'[t] = inflight[t]
    BY <2>1, <2>3
  <2> QED
    BY <1>4, <1>5, <2>2, <2>4
<1>7. NothingStranded'
  BY <1>1, <1>6 DEF NothingStranded
<1> QED
  BY <1>3, <1>7 DEF JInv

(* A successful delivery keeps the invariant. *)
LEMMA BrokerAppendKeepsJ ==
  ASSUME JInv, NEW s \in Seqs, BrokerAppend(s)
  PROVE  JInv'
<1>1. IInv'
  BY BrokerAppendKeeps DEF JInv
<1>2. /\ inflight' = [inflight EXCEPT ![s] = @ - 1]
      /\ delivered \subseteq delivered'
      /\ reports' = reports \cup {<<s, TRUE>>}
      /\ UNCHANGED <<disk, process, history>>
  BY DEF BrokerAppend
<1>3. TRUE \in BOOLEAN
  OBVIOUS
<1> QED
  BY <1>1, <1>2, <1>3, BrokerKeepsJ, Zenon

(* A failed delivery keeps the invariant. *)
LEMMA BrokerFailKeepsJ ==
  ASSUME JInv, NEW s \in Seqs, NEW stored \in BOOLEAN, BrokerFail(s, stored)
  PROVE  JInv'
<1>1. IInv'
  BY BrokerFailKeeps DEF JInv
<1>2. /\ inflight' = [inflight EXCEPT ![s] = @ - 1]
      /\ delivered \subseteq delivered'
      /\ reports' = reports \cup {<<s, FALSE>>}
      /\ UNCHANGED <<disk, process, history>>
  BY DEF BrokerFail
<1>3. FALSE \in BOOLEAN
  OBVIOUS
<1> QED
  BY <1>1, <1>2, <1>3, BrokerKeepsJ, Zenon

(* Steps that leave the directory, the cursor and the losses alone. *)
LEMMA OthersKeepJ ==
  ASSUME JInv, IInv',
         UNCHANGED <<segments, up, nextSeq, acked, cursor, cumulative, lossDue, inflight,
                     reports, delivered, lostSince, lastReport, sentUpTo>>
  PROVE  JInv'
<1>1. AtRest' /\ CursorInside' /\ SentBefore'
  BY DEF JInv, AtRest, CursorInside, SentBefore
<1>2. LostBelow' /\ LossAccounted' /\ ReportKept'
  BY DEF JInv, LostBelow, LossAccounted, ReportKept
<1>3. NothingStranded'
  BY DEF JInv, NothingStranded, FailedReport
<1> QED
  BY <1>1, <1>2, <1>3 DEF JInv

(* A crash of any kind forgets the cursor, the losses and the reports. *)
LEMMA DieKeepsJ ==
  ASSUME IInv', NEW got, Die(got)
  PROVE  JInv'
<1>1. /\ up' = FALSE /\ cursor' = Start /\ cumulative' = NoLoss /\ lossDue' = {}
      /\ lostSince' = {} /\ lastReport' = NoReport /\ sentUpTo' = -1
  BY DEF Die
<1>2. CursorInside'
  <2>1. ASSUME 0 \in DOMAIN segments' PROVE 0 <= segments'[0]
    BY <2>1 DEF IInv, TypeOK
  <2> QED
    BY <1>1, <2>1 DEF CursorInside, Start
<1>3. AtRest' /\ SentBefore' /\ NothingStranded' /\ ReportKept' /\ LostBelow'
  BY <1>1 DEF AtRest, SentBefore, NothingStranded, ReportKept, LostBelow
<1>4. LossAccounted'
  <2>1. Cardinality(lossDue') = 0 /\ Cardinality(lostSince') = 0 /\ cumulative'.count = 0
    BY <1>1, FS_EmptySet DEF NoLoss
  <2> QED
    BY <1>1, <2>1 DEF LossAccounted
<1> QED
  BY <1>2, <1>3, <1>4 DEF JInv

(* Open starts at the oldest record that is not known to be delivered. *)
LEMMA OpenKeepsJ == JInv /\ Open => JInv'
<1> SUFFICES ASSUME JInv, Open PROVE JInv'
  OBVIOUS
<1> DEFINE known == {s \in AllRecords(segments) : s < ackedFile}
           S == Without(segments, AckedFront(segments, known))
<1>1. /\ ~up /\ up' = TRUE
      /\ segments' = S
      /\ acked' = known \cap AllRecords(S)
      /\ cursor' = Rewind(S, known)
      /\ UNCHANGED <<cumulative, lossDue, inflight, reports, delivered, lostSince,
                     lastReport, sentUpTo>>
  BY DEF Open, client, history
<1>2. /\ IInv /\ IInv' /\ AtRest /\ LossAccounted
  BY OpenKeeps DEF JInv
<1>3. /\ lossDue = {} /\ lostSince = {} /\ lastReport = NoReport /\ sentUpTo = -1
  BY <1>1, <1>2 DEF AtRest
<1>4. TypeOK' /\ SegmentsInOrder'
  BY <1>2 DEF IInv
<1>5. DOMAIN S \subseteq Seqs /\ S \in [DOMAIN S -> Nat \ {0}]
  BY <1>1, <1>4 DEF TypeOK
<1> HIDE DEF S, known
<1>6. /\ \A s \in Unacked(S, known) : Position(S, cursor') <= s
      /\ cursor'.offset = 0
      /\ DOMAIN S # {} => cursor'.segment \in DOMAIN S
      /\ DOMAIN S = {} => cursor' = Start
  BY <1>1, <1>5, RewindIsBefore
<1>7. \A f \in DOMAIN S : f \in Nat /\ S[f] \in Nat /\ S[f] > 0
  BY <1>5, SpoolAssumption DEF Seqs
<1>8. CursorInside'
  <2>1. ASSUME DOMAIN S # {} PROVE cursor'.segment < nextSeq'
    <3>1. cursor'.segment \in DOMAIN S
      BY <1>6, <2>1
    <3>2. cursor'.segment + S[cursor'.segment] <= nextSeq' /\ nextSeq' \in Nat
      BY <1>1, <1>4, <3>1 DEF SegmentsInOrder, TypeOK
    <3> QED
      BY <1>7, <3>1, <3>2
  <2>2. cursor'.segment \in DOMAIN S => cursor'.offset <= S[cursor'.segment]
    BY <1>6, <1>7
  <2> QED
    BY <1>1, <1>6, <2>1, <2>2 DEF CursorInside
<1>9. cursor' \in [segment : Nat, offset : Nat] /\ nextSeq' \in Nat
  BY <1>4 DEF TypeOK
<1>10. Position(S, cursor') \in Nat
  BY <1>5, <1>9, PositionIs
<1>11. SentBefore'
  BY <1>1, <1>3, <1>9, <1>10 DEF SentBefore
<1>12. NothingStranded'
  <2>1. Unacked(segments', acked') = Unacked(S, known)
    BY <1>1 DEF Unacked
  <2>2. \A s \in Unacked(S, known) : s \in Nat
    BY InAllRecords, SpoolAssumption DEF Unacked, Seqs
  <2>3. \A s \in Unacked(S, known) : s >= Position(S, cursor')
    BY <1>6, <1>10, <2>2
  <2> QED
    BY <1>1, <2>1, <2>3 DEF NothingStranded
<1>13. AtRest' /\ LostBelow' /\ LossAccounted' /\ ReportKept'
  BY <1>1, <1>2, <1>3 DEF AtRest, LostBelow, LossAccounted, ReportKept
<1> QED
  BY <1>2, <1>8, <1>11, <1>12, <1>13 DEF JInv

-----------------------------------------------------------------------------
(* The theorems.                                                           *)

(* An empty spool directory satisfies the invariant. *)
LEMMA InitEstablishesJ == Init => JInv
<1> SUFFICES ASSUME Init PROVE JInv
  OBVIOUS
<1>1. IInv
  BY InitEstablishes
<1>2. DOMAIN segments = {} /\ AllRecords(segments) = {} /\ ~up
  BY InAllRecords DEF Init
<1>3. LossAccounted
  <2>1. Cardinality(lossDue) = 0 /\ Cardinality(lostSince) = 0 /\ cumulative.count = 0
        /\ lostSince = {}
    BY FS_EmptySet DEF Init, NoLoss
  <2> QED
    BY <2>1 DEF LossAccounted
<1>4. AtRest /\ CursorInside /\ NothingStranded /\ SentBefore /\ LostBelow /\ ReportKept
  BY <1>2 DEF Init, AtRest, CursorInside, NothingStranded, SentBefore, LostBelow, ReportKept
<1> QED
  BY <1>1, <1>3, <1>4 DEF JInv

(* Every step of the sensor, the client, the broker and of a crash keeps   *)
(* the invariant.                                                          *)
LEMMA StepKeepsJ == JInv /\ [Next]_vars => JInv'
<1> SUFFICES ASSUME JInv, [Next]_vars PROVE JInv'
  OBVIOUS
<1>0. IInv /\ IInv'
  BY StepKeeps DEF JInv
<1>1. CASE SubmitFlow
  BY <1>1, SubmitFlowKeepsJ
<1>2. CASE Housekeeping
  BY <1>0, <1>2, OthersKeepJ DEF Housekeeping, disk, client, history
<1>3. CASE SubmitHealth
  BY <1>3, SubmitHealthKeepsJ
<1>4. CASE ReportLoss
  BY <1>4, ReportLossKeepsJ
<1>5. CASE Sync
  BY <1>0, <1>5, OthersKeepJ DEF Sync, client, history
<1>6. CASE PumpAny
  BY <1>6, PumpKeepsJ DEF PumpAny
<1>7. CASE \E s \in Seqs : BrokerAppend(s)
  BY <1>7, BrokerAppendKeepsJ
<1>8. CASE \E s \in Seqs, stored \in BOOLEAN : BrokerFail(s, stored)
  BY <1>8, BrokerFailKeepsJ
<1>9. CASE Crash
  BY <1>0, <1>9, DieKeepsJ DEF Crash
<1>10. CASE \E len \in {FlowBytes, HealthBytes} : CrashInAppend(len)
  BY <1>0, <1>10, DieKeepsJ DEF CrashInAppend
<1>11. CASE PowerCut
  BY <1>0, <1>11, DieKeepsJ DEF PowerCut
<1>12. CASE Open
  BY <1>12, OpenKeepsJ
<1>13. CASE UNCHANGED vars
  BY <1>0, <1>13, OthersKeepJ DEF vars, disk, process, client, history
<1> QED
  BY <1>1, <1>2, <1>3, <1>4, <1>5, <1>6, <1>7, <1>8, <1>9, <1>10, <1>11, <1>12, <1>13 DEF Next

(* The invariant holds in every behaviour of the spool. *)
LEMMA InvarianceJ == Spec => []JInv
BY InitEstablishesJ, StepKeepsJ, PTL DEF Spec

(* No unacknowledged record is left behind the cursor without a copy in    *)
(* the client, a report on its way or a rewind to come: forward.rs:95-142. *)
THEOREM NothingIsStranded == Spec => []NothingStranded
<1>1. JInv => NothingStranded
  BY DEF JInv
<1> QED
  BY <1>1, InvarianceJ, PTL

(* The running loss total counts every dropped record exactly once and     *)
(* its range covers them, also those a report itself pushed out:           *)
(* forward.rs:144-190.                                                     *)
THEOREM LossIsAccounted == Spec => []LossAccounted
<1>1. JInv => LossAccounted
  BY DEF JInv
<1> QED
  BY <1>1, InvarianceJ, PTL

(* The newest loss report is delivered or still in the spool:              *)
(* forward.rs:57-58.                                                       *)
THEOREM NewestReportSurvives == Spec => []LatestReportSurvives
<1>1. JInv => LatestReportSurvives
  BY DEF JInv, ReportKept, LatestReportSurvives
<1> QED
  BY <1>1, InvarianceJ, PTL

(* Only a pump puts records into the client's queue, and unless a failed   *)
(* delivery took it back it sends only what lies above all it sent.        *)
LEMMA StepSendsForward ==
  ASSUME JInv, [Next]_vars, NEW s \in Seqs, inflight'[s] > inflight[s], ~FailedReport
  PROVE  sentUpTo < s
<1>1. /\ TypeOK /\ SegmentsInOrder /\ CursorInside /\ SentBefore
  BY DEF JInv, IInv
<1>2. inflight \in [Seqs -> 0..MaxCopies] /\ \A t \in Seqs : inflight[t] \in Nat
  <2>1. inflight \in [Seqs -> 0..MaxCopies] /\ MaxCopies \in Nat
    BY <1>1, SpoolAssumption DEF TypeOK
  <2> QED
    BY <2>1
<1>3. inflight' # inflight
  BY <1>2
<1>4. ASSUME NEW got, Die(got) PROVE FALSE
  <2>1. inflight' = NoneQueued
    BY <1>4 DEF Die
  <2>2. inflight'[s] = 0
    BY <2>1 DEF NoneQueued
  <2> QED
    BY <1>2, <2>2
<1>5. ASSUME NEW t \in Seqs, inflight' = [inflight EXCEPT ![t] = @ - 1] PROVE FALSE
  <2>1. inflight'[s] = inflight[s] \/ inflight'[s] = inflight[s] - 1
    BY <1>2, <1>5
  <2>2. inflight[s] \in Nat
    BY <1>2
  <2> QED
    BY <2>1, <2>2
<1>6. CASE PumpAny
  <2>1. PICK stop : Pump(stop)
    BY <1>6 DEF PumpAny
  <2> DEFINE S == PumpLeaves
             batch == PumpBatch(stop)
  <2>2. up /\ inflight' = [t \in Seqs |-> inflight[t] + IF t \in batch THEN 1 ELSE 0]
    BY <2>1 DEF Pump, PumpLeaves, PumpFrom, PumpBatch, Idle
  <2> HIDE DEF batch
  <2>3. s \in batch
    <3> SUFFICES ASSUME s \notin batch PROVE FALSE
      OBVIOUS
    <3>1. inflight'[s] = inflight[s] + 0 /\ inflight[s] \in Nat
      BY <1>2, <2>2
    <3> QED
      BY <3>1
  <2>4. s \in AllRecords(S) /\ s >= Position(S, PumpFrom)
    BY <2>3 DEF batch, PumpBatch, Readable, Unacked
  <2>5. DOMAIN S # {} /\ s \in Nat
    BY <2>4, InAllRecords, SpoolAssumption DEF Seqs
  <2>6. sentUpTo < Position(S, PumpFrom)
    BY <1>1, <2>2, <2>5, BatchIsAbove
  <2>7. sentUpTo \in Int /\ Position(S, PumpFrom) \in Int
    <3>1. sentUpTo \in Seqs \cup {-1} /\ Seqs \subseteq Nat /\ cursor \in [segment : Nat, offset : Nat]
      BY <1>1, SpoolAssumption DEF TypeOK, Seqs
    <3>2. PumpFrom = cursor
      BY DEF PumpFrom
    <3>3. DOMAIN S \subseteq Seqs
      BY <1>1, PumpLeavesOrder
    <3>4. Position(S, PumpFrom) \in Nat
      BY <3>1, <3>2, <3>3, PositionIs
    <3> QED
      BY <3>1, <3>4
  <2> QED
    BY <2>4, <2>5, <2>6, <2>7
<1>7. CASE \E t \in Seqs : BrokerAppend(t)
  BY <1>5, <1>7 DEF BrokerAppend
<1>8. CASE \E t \in Seqs, stored \in BOOLEAN : BrokerFail(t, stored)
  BY <1>5, <1>8 DEF BrokerFail
<1>9. CASE Crash \/ PowerCut \/ \E len \in {FlowBytes, HealthBytes} : CrashInAppend(len)
  BY <1>4, <1>9 DEF Crash, PowerCut, CrashInAppend
<1>10. ~SubmitFlow /\ ~SubmitHealth /\ ~ReportLoss
  BY <1>3 DEF SubmitFlow, SubmitHealth, ReportLoss, AppendRecord, client
<1>11. ~Housekeeping /\ ~Sync /\ ~Open /\ ~UNCHANGED vars
  BY <1>3 DEF Housekeeping, Sync, Open, client, vars
<1> QED
  BY <1>6, <1>7, <1>8, <1>9, <1>10, <1>11 DEF Next

(* Nothing is sent twice unless a delivery failed or the process died,     *)
(* also when segments are dropped under the cursor: forward.rs:95-142.     *)
THEOREM SendingGoesForward == Spec => SendsGoForward
<1>1. JInv /\ [Next]_vars =>
        [\A s \in Seqs : inflight'[s] > inflight[s] /\ ~FailedReport => sentUpTo < s]_vars
  BY StepSendsForward
<1> QED
  BY <1>1, InvarianceJ, PTL DEF Spec, SendsGoForward

-----------------------------------------------------------------------------
(* The limit.                                                              *)

(* One record more takes its length more. *)
LEMMA BytesOneMore ==
  ASSUME NEW K, K \subseteq Seqs, NEW n \in Seqs, n \notin K, NEW isHealth \in BOOLEAN,
         health' = IF isHealth THEN health \cup {n} ELSE health \ {n}
  PROVE  Bytes(K \cup {n})' = Bytes(K) + IF isHealth THEN HealthBytes ELSE FlowBytes
<1> DEFINE k1 == Cardinality(K \ health)
           k2 == Cardinality(K \cap health)
<1>1. IsFiniteSet(K \ health) /\ k1 \in Nat /\ IsFiniteSet(K \cap health) /\ k2 \in Nat
  BY SeqsFinite
<1>2. FlowBytes \in Nat /\ HealthBytes \in Nat
  BY SpoolAssumption
<1>3. Bytes(K \cup {n})' = Cardinality((K \cup {n}) \ health') * FlowBytes
                           + Cardinality((K \cup {n}) \cap health') * HealthBytes
  BY DEF Bytes
<1>4. Bytes(K) = k1 * FlowBytes + k2 * HealthBytes
  BY DEF Bytes
<1>5. CASE isHealth
  <2>1. (K \cup {n}) \ health' = K \ health /\ (K \cup {n}) \cap health' = (K \cap health) \cup {n}
    BY <1>5
  <2>2. n \notin K \cap health
    OBVIOUS
  <2>3. Cardinality((K \cap health) \cup {n}) = k2 + 1
    BY <1>1, <2>2, FS_AddElement
  <2> HIDE DEF k1, k2
  <2>4. (k2 + 1) * HealthBytes = k2 * HealthBytes + HealthBytes
    BY <1>1, <1>2
  <2>5. Bytes(K \cup {n})' = k1 * FlowBytes + (k2 + 1) * HealthBytes
    BY <1>3, <2>1, <2>3 DEF k1
  <2>6. k1 * FlowBytes \in Nat /\ k2 * HealthBytes \in Nat
    BY <1>1, <1>2
  <2> QED
    BY <1>2, <1>4, <1>5, <2>4, <2>5, <2>6
<1>6. CASE ~isHealth
  <2>1. (K \cup {n}) \ health' = (K \ health) \cup {n} /\ (K \cup {n}) \cap health' = K \cap health
    BY <1>6
  <2>2. n \notin K \ health
    OBVIOUS
  <2>3. Cardinality((K \ health) \cup {n}) = k1 + 1
    BY <1>1, <2>2, FS_AddElement
  <2> HIDE DEF k1, k2
  <2>4. (k1 + 1) * FlowBytes = k1 * FlowBytes + FlowBytes
    BY <1>1, <1>2
  <2>5. Bytes(K \cup {n})' = (k1 + 1) * FlowBytes + k2 * HealthBytes
    BY <1>3, <2>1, <2>3 DEF k2
  <2>6. k1 * FlowBytes \in Nat /\ k2 * HealthBytes \in Nat
    BY <1>1, <1>2
  <2> QED
    BY <1>2, <1>4, <1>6, <2>4, <2>5, <2>6
<1> QED
  BY <1>5, <1>6

(* What enforce_limit keeps has room for the record to be written. *)
LEMMA KeptHasRoom ==
  ASSUME TypeOK, SegmentsInOrder, WriterAtEnd, nextSeq <= MaxSeq, NEW len \in Nat, len <= MaxBytes,
         NEW D, D = OverLimit(Rotated(len), len),
         NEW K, K = AllRecords(Without(Rotated(len), D))
  PROVE  Bytes(K) + len <= MaxBytes
<1> DEFINE R == Rotated(len)
           a == Active(len)
           E == DOMAIN R \ D
<1>1. /\ Directory(R) /\ DOMAIN R = DOMAIN segments \cup {a}
      /\ Back(R) = a /\ \A f \in DOMAIN segments : R[f] = segments[f]
      /\ a + R[a] = nextSeq
  BY RotatedDirectory
<1>2. DOMAIN R \subseteq Seqs /\ \A f \in DOMAIN R : f \in Nat /\ R[f] \in Nat
  BY <1>1, SpoolAssumption DEF Directory, Seqs
<1>3. a \in DOMAIN R /\ \A f \in DOMAIN R : f <= a
  BY <1>1, <1>2, BackIsLast
<1>4. \A f \in DOMAIN R : f \in D <=> f # a /\ BytesFrom(R, f) + len > MaxBytes
  BY <1>1 DEF OverLimit
<1>5. MaxBytes \in Nat /\ SegmentBytes \in Nat /\ SegmentBytes <= MaxBytes
  BY SpoolAssumption
<1>6. K \subseteq Seqs /\ Bytes(K) \in Nat
  <2>1. K \subseteq Seqs
    BY InAllRecords
  <2> QED
    BY <2>1, BytesMonotone
<1> HIDE DEF R, a
<1>7. \A s \in K : s \in Nat /\ \E f \in E : f <= s /\ s < f + R[f]
  <2> TAKE s \in K
  <2>1. PICK f \in DOMAIN Without(R, D) : f <= s /\ s < f + Without(R, D)[f]
    BY InAllRecords DEF R
  <2>2. f \in E /\ Without(R, D)[f] = R[f]
    BY <2>1 DEF Without
  <2> QED
    BY <1>6, <2>1, <2>2, SpoolAssumption DEF Seqs
<1>8. CASE E \subseteq {a}
  <2>1. CASE MustRotate(len)
    <3>1. a = nextSeq
      BY <2>1 DEF Active, a
    <3>2. R[a] = 0
      BY <1>1, <1>2, <1>3, <3>1
    <3>3. K = {}
      BY <1>2, <1>3, <1>7, <1>8, <3>2
    <3>4. K \ health = {} /\ K \cap health = {}
      BY <3>3
    <3>5. Cardinality(K \ health) = 0 /\ Cardinality(K \cap health) = 0
      BY <3>4, FS_EmptySet
    <3>6. Bytes(K) = 0
      BY <3>5, SpoolAssumption DEF Bytes
    <3> QED
      BY <3>6
  <2>2. CASE ~MustRotate(len)
    <3>1. /\ a = Back(segments) /\ R = segments /\ DOMAIN segments # {}
          /\ ~(Bytes(Records(segments, Back(segments))) + len > SegmentBytes)
      BY <2>2 DEF Active, Rotated, MustRotate, a, R
    <3> DEFINE Q == Records(segments, Back(segments))
    <3>2. K \subseteq Q
      BY <1>6, <1>7, <1>8, <3>1 DEF Records
    <3>3. Q \subseteq Seqs
      BY DEF Records
    <3> HIDE DEF Q
    <3>4. Bytes(K) <= Bytes(Q) /\ Bytes(Q) \in Nat
      BY <3>2, <3>3, BytesMonotone
    <3>5. Bytes(Q) + len <= SegmentBytes
      BY <1>5, <3>1, <3>4 DEF Q
    <3> QED
      BY <1>5, <1>6, <3>4, <3>5
  <2> QED
    BY <2>1, <2>2
<1>9. CASE ~(E \subseteq {a})
  <2>1. PICK f \in E : f # a
    BY <1>9
  <2>2. E \in SUBSET Nat /\ E # {}
    BY <1>2, <2>1
  <2> DEFINE m == Min(E)
  <2>3. m \in E /\ \A g \in E : m <= g
    BY <2>2, MinOfNat
  <2> HIDE DEF m
  <2>4. m # a
    BY <1>2, <1>3, <2>1, <2>3
  <2>5. m \in Nat /\ ~(BytesFrom(R, m) + len > MaxBytes)
    BY <1>2, <1>4, <2>3, <2>4
  <2> DEFINE Q == {s \in AllRecords(R) : s >= m}
  <2>6. K \subseteq Q
    <3> SUFFICES ASSUME NEW s \in K PROVE s \in Q
      OBVIOUS
    <3>1. PICK g \in E : g <= s /\ s < g + R[g]
      BY <1>7
    <3>2. m <= g /\ g \in Nat /\ s \in Nat /\ s \in Seqs
      BY <1>2, <1>6, <1>7, <2>3
    <3>3. s \in AllRecords(R)
      BY <3>1, <3>2, InAllRecords
    <3> QED
      BY <2>5, <3>1, <3>2, <3>3
  <2>7. Q \subseteq Seqs
    BY InAllRecords
  <2>8. BytesFrom(R, m) = Bytes(Q)
    BY DEF BytesFrom
  <2> HIDE DEF Q
  <2>9. Bytes(K) <= Bytes(Q) /\ Bytes(Q) \in Nat
    BY <2>6, <2>7, BytesMonotone
  <2> QED
    BY <1>5, <1>6, <2>5, <2>8, <2>9
<1> QED
  BY <1>8, <1>9

(* Every record fits into the spool: the configured limit is no smaller    *)
(* than a record.                                                          *)
RecordsFit == FlowBytes <= MaxBytes /\ HealthBytes <= MaxBytes

(* An append ends within the limit. *)
LEMMA AppendIsBounded ==
  ASSUME RecordsFit, IInv, NEW isHealth \in BOOLEAN, AppendRecord(isHealth)
  PROVE  SpoolBounded'
<1> DEFINE len == IF isHealth THEN HealthBytes ELSE FlowBytes
           D == OverLimit(Rotated(len), len)
           K == AllRecords(Without(Rotated(len), D))
<1>0. TypeOK /\ SegmentsInOrder /\ WriterAtEnd
  BY DEF IInv
<1>1. len \in Nat /\ len <= MaxBytes
  BY SpoolAssumption DEF RecordsFit
<1> HIDE DEF len
<1>2. nextSeq \in Seqs /\ AllRecords(segments') = K \cup {nextSeq}
      /\ K = AllRecords(Without(segments, D))
  BY <1>0, AppendEffect DEF len
<1>3. nextSeq <= MaxSeq /\ health' = IF isHealth THEN health \cup {nextSeq} ELSE health \ {nextSeq}
  BY DEF AppendRecord
<1> HIDE DEF D
<1>4. K \subseteq AllRecords(segments)
  BY <1>0, <1>2, SegmentTypes, WithoutSegments
<1>5. nextSeq \notin AllRecords(segments) /\ AllRecords(segments) \subseteq Seqs
  BY <1>0, InAllRecords, SegmentTypes, SpoolAssumption DEF SegmentsInOrder, Seqs
<1>6. Bytes(K) + len <= MaxBytes
  BY <1>0, <1>1, <1>3, KeptHasRoom DEF D
<1> HIDE DEF K
<1>7. PICK Q : Q = K
  OBVIOUS
<1>8. PICK n : n = nextSeq
  OBVIOUS
<1>9. Q \subseteq Seqs /\ n \in Seqs /\ n \notin Q
  BY <1>2, <1>4, <1>5, <1>7, <1>8
<1>10. Bytes(Q \cup {n})' = Bytes(Q) + len
  BY <1>3, <1>8, <1>9, BytesOneMore DEF len
<1>11. TotalBytes(segments)' = Bytes(Q \cup {n})'
  BY <1>2, <1>7, <1>8 DEF TotalBytes, Bytes
<1> QED
  BY <1>6, <1>7, <1>10, <1>11 DEF SpoolBounded

(* A step that writes no record adds no bytes. *)
LEMMA FewerRecordsBounded ==
  ASSUME SpoolBounded, TypeOK, health' = health, AllRecords(segments') \subseteq AllRecords(segments)
  PROVE  SpoolBounded'
<1>1. AllRecords(segments) \subseteq Seqs
  BY InAllRecords
<1>2. /\ Bytes(AllRecords(segments')) \in Nat /\ Bytes(AllRecords(segments)) \in Nat
      /\ Bytes(AllRecords(segments')) <= Bytes(AllRecords(segments))
  BY <1>1, BytesMonotone
<1>3. TotalBytes(segments)' = Bytes(AllRecords(segments'))
  BY DEF TotalBytes, Bytes
<1> QED
  BY <1>2, <1>3, SpoolAssumption DEF SpoolBounded, TotalBytes

(* Nothing but an append adds records. *)
LEMMA OnlyAppendsAdd ==
  ASSUME IInv, [Next]_vars, ~SubmitFlow, ~SubmitHealth, ~ReportLoss
  PROVE  health' = health /\ AllRecords(segments') \subseteq AllRecords(segments)
<1>1. TypeOK /\ SegmentsInOrder /\ Directory(segments)
  BY SegmentTypes DEF IInv
<1>2. CASE Housekeeping \/ Sync \/ UNCHANGED vars
  BY <1>2 DEF Housekeeping, Sync, vars, disk
<1>3. CASE \E s \in Seqs : BrokerAppend(s)
  BY <1>3 DEF BrokerAppend, disk
<1>4. CASE \E s \in Seqs, stored \in BOOLEAN : BrokerFail(s, stored)
  BY <1>4 DEF BrokerFail, disk
<1>5. CASE PumpAny
  <2>1. segments' = PumpLeaves /\ health' = health
    BY <1>5 DEF PumpAny, Pump, PumpLeaves
  <2> QED
    BY <1>1, <2>1, PumpLeavesOrder
<1>6. CASE Open
  <2>1. PICK A : segments' = Without(segments, AckedFront(segments, A)) /\ health' = health
    BY <1>6 DEF Open
  <2> QED
    BY <1>1, <2>1, WithoutSegments
<1>7. CASE Crash
  BY <1>7 DEF Crash, Die
<1>8. CASE \E len \in {FlowBytes, HealthBytes} : CrashInAppend(len)
  <2>1. PICK D : segments' = Without(segments, D) /\ health' = health
    BY <1>8 DEF CrashInAppend, Die
  <2> QED
    BY <1>1, <2>1, WithoutSegments
<1>9. CASE PowerCut
  <2>1. PICK keep \in [DOMAIN segments -> 0..(MaxSeq + 1)] :
          /\ \A f \in DOMAIN segments : keep[f] <= segments[f]
          /\ segments' = Torn(keep)
    BY <1>9 DEF PowerCut
  <2>2. health' = health /\ nextSeq' = nextSeq
    BY <1>9 DEF PowerCut, Die
  <2>3. /\ DOMAIN segments' \subseteq DOMAIN segments
        /\ \A f \in DOMAIN segments' : segments'[f] = keep[f]
    BY <2>1 DEF Torn
  <2>4. \A f \in DOMAIN segments' : segments'[f] \in Nat /\ segments'[f] <= segments[f]
    BY <2>1, <2>3, SpoolAssumption
  <2>5. nextSeq' \in Nat /\ nextSeq' >= nextSeq
    BY <1>1, <2>2 DEF TypeOK
  <2> QED
    BY <1>1, <2>2, <2>3, <2>4, <2>5, ShrunkInOrder
<1> QED
  BY <1>2, <1>3, <1>4, <1>5, <1>6, <1>7, <1>8, <1>9 DEF Next

(* The spool never holds more bytes than its limit, if a record fits in    *)
(* it, also after crashes and restarts left short segments: spool.rs.      *)
THEOREM SpoolStaysBounded == RecordsFit => (Spec => []SpoolBounded)
<1> SUFFICES ASSUME RecordsFit PROVE Spec => []SpoolBounded
  OBVIOUS
<1>1. Init => SpoolBounded
  <2> SUFFICES ASSUME Init PROVE SpoolBounded
    OBVIOUS
  <2> DEFINE R == AllRecords(segments)
  <2>1. R \ health = {} /\ R \cap health = {}
    BY InAllRecords DEF Init
  <2> HIDE DEF R
  <2>2. Cardinality(R \ health) = 0 /\ Cardinality(R \cap health) = 0
    BY <2>1, FS_EmptySet
  <2>3. Bytes(R) = 0
    BY <2>2, SpoolAssumption DEF Bytes
  <2> QED
    BY <2>3, SpoolAssumption DEF SpoolBounded, TotalBytes, R
<1>2. IInv /\ SpoolBounded /\ [Next]_vars => SpoolBounded'
  <2> SUFFICES ASSUME IInv, SpoolBounded, [Next]_vars PROVE SpoolBounded'
    OBVIOUS
  <2>1. CASE SubmitFlow
    BY <2>1, AppendIsBounded DEF SubmitFlow
  <2>2. CASE SubmitHealth \/ ReportLoss
    BY <2>2, AppendIsBounded DEF SubmitHealth, ReportLoss
  <2>3. CASE ~SubmitFlow /\ ~SubmitHealth /\ ~ReportLoss
    BY <2>3, OnlyAppendsAdd, FewerRecordsBounded DEF IInv
  <2> QED
    BY <2>1, <2>2, <2>3
<1> QED
  BY <1>1, <1>2, Invariance, PTL DEF Spec

=============================================================================
