------------------------ MODULE GatewayHealthProofs ------------------------
(***************************************************************************)
(* Proofs about the way of a health report from the sensor to the table    *)
(* gateway_health, for any number of reports, faults and restarts.         *)
(***************************************************************************)
EXTENDS GatewayHealth, TLAPS, WellFoundedInduction

-----------------------------------------------------------------------------
(* The inductive invariant.                                                *)

(* What the sensor writes, what else may be in the topic, and a row. *)
Written == [kind : Kind, count : Nat, time : Nat]
Message == [kind : Kind \cup {""}, count : Nat, time : Nat]
Row == [kind : Kind \cup {"none"}, count : Nat, time : Nat]

(* Every variable the table depends on has its type. *)
TypeOK ==
  /\ now \in Nat
  /\ total \in [count : Nat, time : Nat]
  /\ reports \in Seq(Written)
  /\ sent \in 0 .. Len(reports)
  /\ log \in Seq(Message)
  /\ applied \in BOOLEAN
  /\ rows \in [Kind -> Row]

(* No report is of a time the sensor's clock has not reached. *)
NoneAhead ==
  /\ total.time <= now + 1
  /\ \A n \in DOMAIN reports : reports[n].time <= now + 1

(* Only reports of the sensor are in the topic and in the table. *)
OnlyReported ==
  /\ \A p \in DOMAIN log : log[p] = Malformed \/ \E n \in DOMAIN reports : log[p] = reports[n]
  /\ \A k \in Kind : rows[k] = NoReport \/ \E n \in Issued(k) : rows[k] = reports[n]

(* The table knows the message whose offset is not committed, or something *)
(* newer.                                                                  *)
HeadApplied ==
  applied =>
    /\ log # <<>>
    /\ Head(log) # Malformed =>
         \/ rows[Head(log).kind] = Head(log)
         \/ rows[Head(log).kind].time > Head(log).time

(* n is the newest report of its kind: none is later, and none of the same *)
(* time was written behind it.                                             *)
IsNewest(k, n) ==
  /\ n \in Issued(k)
  /\ \A m \in Issued(k) : reports[m].time <= reports[n].time
  /\ \A m \in Issued(k) : n < m => reports[m].time < reports[n].time

(* Behind position p of the topic no report of kind k would replace r. *)
Undisturbed(k, p, r) ==
  \A q \in DOMAIN log : p < q /\ log[q].kind = k => log[q] = r \/ log[q].time < r.time

(* Report n is in the topic or in the table, and nothing behind it in the  *)
(* topic will replace it.                                                  *)
Arrives(k, n) ==
  \/ \E p \in DOMAIN log : log[p] = reports[n] /\ Undisturbed(k, p, reports[n])
  \/ rows[k] = reports[n] /\ Undisturbed(k, 0, reports[n])

(* The newest report of a kind is still to be sent, or it arrives. *)
NewestOnItsWay ==
  \A k \in Kind, n \in DOMAIN reports : IsNewest(k, n) => sent < n \/ Arrives(k, n)

IInv ==
  /\ TypeOK
  /\ NoneAhead
  /\ OnlyReported
  /\ HeadApplied
  /\ NewestOnItsWay

-----------------------------------------------------------------------------
(* Sequences and extrema.                                                  *)

(* A nonempty set of numbers up to a bound has a greatest element, which   *)
(* Max picks.                                                              *)
LEMMA MaxOfBounded ==
  ASSUME NEW S \in SUBSET Nat, S # {}, NEW n \in Nat, \A y \in S : y <= n
  PROVE  Max(S) \in S /\ \A y \in S : Max(S) >= y
<1> DEFINE T == {n - y : y \in S}
<1>1. T \in SUBSET Nat /\ T # {}
  <2>1. \A y \in S : n - y \in Nat
    OBVIOUS
  <2>2. PICK y \in S : TRUE
    OBVIOUS
  <2>3. n - y \in T
    OBVIOUS
  <2> QED
    BY <2>1, <2>3
<1>2. PICK t \in T : \A u \in T : ~(<<u, t>> \in OpToRel(<, Nat))
  BY <1>1, NatLessThanWellFounded, WFMin, Zenon
<1>3. \A u \in T : ~(u < t)
  BY <1>1, <1>2, Zenon DEF OpToRel
<1>4. PICK x \in S : t = n - x
  BY <1>2
<1>5. \A y \in S : x >= y
  <2> TAKE y \in S
  <2>1. n - y \in T /\ ~(n - y < t)
    BY <1>3
  <2> QED
    BY <1>4, <2>1
<1> QED
  BY <1>5 DEF Max

(* What the type invariant says of reports and messages. *)
LEMMA ReportTypes ==
  ASSUME TypeOK
  PROVE  /\ Len(reports) \in Nat /\ DOMAIN reports = 1 .. Len(reports)
         /\ Len(log) \in Nat /\ DOMAIN log = 1 .. Len(log)
         /\ \A n \in DOMAIN reports :
              reports[n] \in Written /\ reports[n].kind \in Kind /\ reports[n].time \in Nat
         /\ \A p \in DOMAIN log : log[p].time \in Nat
         /\ \A k \in Kind : rows[k].time \in Nat
<1>1. reports \in Seq(Written) /\ log \in Seq(Message) /\ rows \in [Kind -> Row]
  BY DEF TypeOK
<1>2. \A n \in DOMAIN reports : reports[n] \in Written
  BY <1>1
<1>3. \A p \in DOMAIN log : log[p] \in Message
  BY <1>1
<1>4. \A k \in Kind : rows[k] \in Row
  BY <1>1
<1>5. /\ \A r \in Written : r.kind \in Kind /\ r.time \in Nat
      /\ \A r \in Message : r.time \in Nat
      /\ \A r \in Row : r.time \in Nat
  BY DEF Written, Message, Row
<1> QED
  BY <1>1, <1>2, <1>3, <1>4, <1>5

(* Some report of a kind is the latest one. *)
LEMMA LatestExists ==
  ASSUME TypeOK, NoneAhead, NEW I \in SUBSET DOMAIN reports, I # {}
  PROVE  \E n \in I : \A m \in I : reports[m].time <= reports[n].time
<1> DEFINE times == {reports[n].time : n \in I}
<1>1. \A n \in I : reports[n].time \in Nat /\ reports[n].time <= now + 1
  BY ReportTypes DEF NoneAhead
<1>2. times \in SUBSET Nat /\ times # {} /\ now + 1 \in Nat /\ \A t \in times : t <= now + 1
  BY <1>1 DEF TypeOK
<1>3. Max(times) \in times /\ \A t \in times : Max(times) >= t
  BY <1>2, MaxOfBounded
<1>4. PICK n \in I : Max(times) = reports[n].time
  BY <1>3
<1>5. \A m \in I : reports[n].time >= reports[m].time
  BY <1>3, <1>4
<1> QED
  BY <1>1, <1>5

(* The newest report of a kind is the one the table has to show. *)
LEMMA NewestIs ==
  ASSUME TypeOK, NoneAhead, NEW k \in Kind
  PROVE  \/ Issued(k) = {} /\ Newest(k) = NoReport
         \/ \E n \in DOMAIN reports : IsNewest(k, n) /\ Newest(k) = reports[n]
<1> DEFINE I == Issued(k)
           late == {n \in I : \A m \in I : reports[m].time <= reports[n].time}
<1>1. I \subseteq DOMAIN reports /\ DOMAIN reports = 1 .. Len(reports) /\ Len(reports) \in Nat
  BY ReportTypes DEF Issued
<1>2. \A n \in I : reports[n].time \in Nat /\ n \in Nat /\ n <= Len(reports)
  BY <1>1, ReportTypes
<1>3. Newest(k) = IF late = {} THEN NoReport ELSE reports[Max(late)]
  BY DEF Newest
<1>4. CASE I = {}
  BY <1>3, <1>4
<1>5. CASE I # {}
  <2>1. late # {}
    BY <1>1, <1>2, <1>5, LatestExists
  <2>2. late \in SUBSET Nat /\ \A n \in late : n <= Len(reports)
    BY <1>2
  <2> DEFINE n == Max(late)
  <2>3. n \in late /\ \A m \in late : n >= m
    BY <1>1, <2>1, <2>2, MaxOfBounded
  <2> HIDE DEF n
  <2>4. n \in I /\ \A m \in I : reports[m].time <= reports[n].time
    BY <2>3
  <2>5. ASSUME NEW m \in I, n < m PROVE reports[m].time < reports[n].time
    <3>1. m \notin late
      BY <1>2, <2>3, <2>4, <2>5
    <3>2. PICK l \in I : ~(reports[l].time <= reports[m].time)
      BY <3>1
    <3> QED
      BY <1>2, <2>4, <3>2
  <2>6. IsNewest(k, n) /\ n \in DOMAIN reports
    BY <1>1, <2>4, <2>5 DEF IsNewest
  <2> QED
    BY <1>3, <2>1, <2>6 DEF n
<1> QED
  BY <1>4, <1>5

-----------------------------------------------------------------------------
(* The sensor.                                                             *)

(* Writing further reports keeps the invariant: a new newest report is     *)
(* still to be sent, and otherwise the newest stays what it was.           *)
LEMMA WritingKeeps ==
  ASSUME IInv, NEW new \in Seq(Written), reports' = reports \o new,
         now' \in Nat, now' >= now, total' \in [count : Nat, time : Nat],
         total'.time <= now' + 1, \A i \in DOMAIN new : new[i].time <= now' + 1,
         UNCHANGED <<sent, log, applied, rows>>
  PROVE  IInv'
<1>1. TypeOK /\ NoneAhead /\ OnlyReported /\ HeadApplied /\ NewestOnItsWay
  BY DEF IInv
<1>2. /\ reports \in Seq(Written) /\ now \in Nat /\ sent \in 0 .. Len(reports)
      /\ log \in Seq(Message) /\ applied \in BOOLEAN /\ rows \in [Kind -> Row]
  BY <1>1 DEF TypeOK
<1>3. /\ reports' \in Seq(Written) /\ Len(reports') = Len(reports) + Len(new)
      /\ Len(reports) \in Nat /\ Len(new) \in Nat
      /\ DOMAIN reports = 1 .. Len(reports) /\ DOMAIN reports' = 1 .. Len(reports')
      /\ DOMAIN new = 1 .. Len(new)
  BY <1>2
<1>4. /\ \A n \in DOMAIN reports : n \in DOMAIN reports' /\ reports'[n] = reports[n]
      /\ \A n \in DOMAIN reports' \ DOMAIN reports :
           n - Len(reports) \in DOMAIN new /\ reports'[n] = new[n - Len(reports)]
  BY <1>2, <1>3
<1>5. TypeOK'
  BY <1>2, <1>3 DEF TypeOK
<1>6. NoneAhead'
  <2> SUFFICES ASSUME NEW n \in DOMAIN reports' PROVE reports'[n].time <= now' + 1
    BY DEF NoneAhead
  <2>1. CASE n \in DOMAIN reports
    <3>1. reports[n].time <= now + 1 /\ reports[n].time \in Nat /\ reports'[n] = reports[n]
      BY <1>1, <1>4, <2>1, ReportTypes DEF NoneAhead
    <3> QED
      BY <1>2, <3>1
  <2>2. CASE n \notin DOMAIN reports
    BY <1>4, <2>2
  <2> QED
    BY <2>1, <2>2
<1>7. \A k \in Kind : Issued(k) \subseteq Issued(k)'
  BY <1>4 DEF Issued
<1>8. OnlyReported'
  <2>1. ASSUME NEW p \in DOMAIN log, log[p] # Malformed
        PROVE  \E n \in DOMAIN reports' : log[p] = reports'[n]
    <3>1. PICK n \in DOMAIN reports : log[p] = reports[n]
      BY <1>1, <2>1 DEF OnlyReported
    <3> QED
      BY <1>4, <3>1
  <2>2. ASSUME NEW k \in Kind, rows[k] # NoReport
        PROVE  \E n \in Issued(k)' : rows[k] = reports'[n]
    <3>1. PICK n \in Issued(k) : rows[k] = reports[n]
      BY <1>1, <2>2 DEF OnlyReported
    <3>2. n \in Issued(k)' /\ reports'[n] = reports[n]
      BY <1>4, <1>7, <3>1 DEF Issued
    <3> QED
      BY <3>1, <3>2
  <2> QED
    BY <2>1, <2>2 DEF OnlyReported
<1>9. HeadApplied'
  BY <1>1 DEF HeadApplied
<1>10. NewestOnItsWay'
  <2> SUFFICES ASSUME NEW k \in Kind, NEW n \in DOMAIN reports', IsNewest(k, n)'
               PROVE  sent < n \/ Arrives(k, n)'
    BY DEF NewestOnItsWay
  <2>1. CASE n \in DOMAIN reports
    <3>1. reports'[n] = reports[n] /\ n \in Issued(k)
      BY <1>4, <2>1 DEF IsNewest, Issued
    <3>2. \A m \in Issued(k) : m \in Issued(k)' /\ reports'[m] = reports[m]
      BY <1>4, <1>7 DEF Issued
    <3>3. IsNewest(k, n)
      BY <3>1, <3>2 DEF IsNewest
    <3>4. Arrives(k, n)' <=> Arrives(k, n)
      BY <3>1 DEF Arrives, Undisturbed
    <3> QED
      BY <1>1, <2>1, <3>3, <3>4 DEF NewestOnItsWay
  <2>2. CASE n \notin DOMAIN reports
    BY <1>2, <1>3, <2>2
  <2> QED
    BY <2>1, <2>2
<1> QED
  BY <1>5, <1>6, <1>8, <1>9, <1>10 DEF IInv

(* A loss report keeps the invariant. *)
LEMMA ReportLossKeeps ==
  ASSUME IInv, NEW t \in 1 .. now + 1, ReportLoss(t)
  PROVE  IInv'
<1>1. now \in Nat /\ total \in [count : Nat, time : Nat] /\ reports \in Seq(Written) /\ total.time <= now + 1
  BY DEF IInv, TypeOK, NoneAhead
<1> DEFINE P == {total.time, t}
<1>2. P \in SUBSET Nat /\ P # {} /\ now + 1 \in Nat /\ \A y \in P : y <= now + 1
  BY <1>1
<1>3. Max(P) \in P
  BY <1>2, MaxOfBounded
<1>4. Max(P) \in Nat /\ Max(P) <= now + 1
  BY <1>2, <1>3
<1> HIDE DEF P
<1>5. total' = [count |-> total.count + 1, time |-> Max(P)]
      /\ reports' = Append(reports, Report(Loss, total'.count, total'.time))
      /\ UNCHANGED <<now, sent, log, applied, rows>>
  BY DEF ReportLoss, P, projector
<1>6. total' \in [count : Nat, time : Nat] /\ total'.time = Max(P) /\ total'.count \in Nat
  BY <1>1, <1>4, <1>5
<1> DEFINE r == Report(Loss, total'.count, total'.time)
<1>7. r \in Written /\ r.time = total'.time
  BY <1>4, <1>6 DEF Report, Written, Kind
<1> HIDE DEF r
<1>8. <<r>> \in Seq(Written) /\ reports' = reports \o <<r>> /\ DOMAIN <<r>> = 1 .. 1 /\ <<r>>[1] = r
  BY <1>1, <1>5, <1>7 DEF r
<1>9. \A i \in DOMAIN <<r>> : <<r>>[i].time <= now' + 1
  BY <1>4, <1>5, <1>6, <1>7, <1>8
<1>10. now' \in Nat /\ now' >= now /\ total'.time <= now' + 1
  BY <1>1, <1>4, <1>5, <1>6
<1>11. PICK new \in Seq(Written) : new = <<r>>
  BY <1>8
<1> QED
  BY <1>5, <1>6, <1>8, <1>9, <1>10, <1>11, WritingKeeps

(* Housekeeping keeps the invariant. *)
LEMMA HousekeepingKeeps ==
  ASSUME IInv, NEW frames \in 0 .. 1, NEW problem \in 0 .. 1, Housekeeping(frames, problem)
  PROVE  IInv'
<1>1. now \in Nat /\ total \in [count : Nat, time : Nat] /\ total.time \in Nat
      /\ reports \in Seq(Written) /\ total.time <= now + 1
  BY DEF IInv, TypeOK, NoneAhead
<1> DEFINE u == Report(Unattributed, frames, now + 1)
           h == Report(Heartbeat, problem, now + 1)
           window == IF frames > 0 THEN <<u>> ELSE <<>>
           new == window \o <<h>>
<1>2. u \in Written /\ h \in Written /\ u.time = now + 1 /\ h.time = now + 1
  BY <1>1 DEF Report, Written, Kind
<1>3. now' = now + 1 /\ reports' = reports \o new /\ UNCHANGED <<total, sent, log, applied, rows>>
  BY DEF Housekeeping, projector
<1> HIDE DEF u, h
<1>4. window \in Seq(Written) /\ \A i \in DOMAIN window : window[i] = u
  <2>1. CASE frames > 0
    <3>1. window = <<u>>
      BY <2>1
    <3> QED
      BY <1>2, <3>1
  <2>2. CASE ~(frames > 0)
    <3>1. window = <<>>
      BY <2>2
    <3> QED
      BY <3>1
  <2> QED
    BY <2>1, <2>2
<1> HIDE DEF window
<1>5. new \in Seq(Written) /\ \A i \in DOMAIN new : new[i].time = now + 1
  <2>1. <<h>> \in Seq(Written) /\ Len(<<h>>) = 1 /\ <<h>>[1] = h
    BY <1>2
  <2>2. \A i \in DOMAIN new : new[i] = u \/ new[i] = h
    BY <1>4, <2>1
  <2> QED
    BY <1>2, <1>4, <2>1, <2>2
<1> HIDE DEF new
<1>6. /\ now' \in Nat /\ now' >= now /\ total' \in [count : Nat, time : Nat]
      /\ total'.time <= now' + 1 /\ \A i \in DOMAIN new : new[i].time <= now' + 1
  BY <1>1, <1>3, <1>5
<1> QED
  BY <1>3, <1>5, <1>6, WritingKeeps

(* What a further message leaves as it was, if it was written by the       *)
(* sensor or is malformed; and nothing that arrives is disturbed by a      *)
(* message of another kind or of an earlier time.                          *)
LEMMA AppendLeaves ==
  ASSUME IInv, NEW r \in Message, r = Malformed \/ \E n \in DOMAIN reports : r = reports[n],
         log' = Append(log, r), UNCHANGED <<reports, applied, rows>>
  PROVE  /\ log' \in Seq(Message) /\ OnlyReported' /\ HeadApplied'
         /\ DOMAIN log' = 1 .. Len(log) + 1 /\ log'[Len(log) + 1] = r
         /\ \A k \in Kind, n \in DOMAIN reports :
              Arrives(k, n) /\ (r.kind = k => r.time < reports[n].time) => Arrives(k, n)'
<1>1. TypeOK /\ OnlyReported /\ HeadApplied
  BY DEF IInv
<1>2. log \in Seq(Message) /\ Len(log) \in Nat /\ DOMAIN log = 1 .. Len(log)
  BY <1>1, ReportTypes DEF TypeOK
<1> DEFINE e == Len(log) + 1
<1>3. /\ log' \in Seq(Message) /\ Len(log') = e /\ DOMAIN log' = 1 .. e
      /\ \A p \in DOMAIN log : log'[p] = log[p] /\ p \in DOMAIN log'
      /\ log'[e] = r /\ e \in DOMAIN log'
      /\ \A p \in DOMAIN log' : p \in DOMAIN log \/ p = e
  BY <1>2
<1>4. OnlyReported'
  <2>1. ASSUME NEW p \in DOMAIN log'
        PROVE  log'[p] = Malformed \/ \E n \in DOMAIN reports : log'[p] = reports[n]
    <3>1. CASE p \in DOMAIN log
      BY <1>1, <1>3, <3>1 DEF OnlyReported
    <3>2. CASE p = e
      BY <1>3, <3>2
    <3> QED
      BY <1>3, <3>1, <3>2
  <2> QED
    BY <1>1, <2>1 DEF OnlyReported, Issued
<1>5. HeadApplied'
  <2> SUFFICES ASSUME applied PROVE HeadApplied'
    BY DEF HeadApplied
  <2>1. log # <<>>
    BY <1>1 DEF HeadApplied
  <2>2. Head(log') = Head(log) /\ log' # <<>>
    BY <1>2, <2>1
  <2> QED
    BY <1>1, <2>2 DEF HeadApplied
<1>6. ASSUME NEW k \in Kind, NEW n \in DOMAIN reports, Arrives(k, n),
             r.kind = k => r.time < reports[n].time
      PROVE  Arrives(k, n)'
  <2>1. ASSUME NEW p, Undisturbed(k, p, reports[n])
        PROVE  Undisturbed(k, p, reports[n])'
    <3> SUFFICES ASSUME NEW q \in DOMAIN log', p < q, log'[q].kind = k
                 PROVE  log'[q] = reports[n] \/ log'[q].time < reports[n].time
      BY DEF Undisturbed
    <3>1. CASE q \in DOMAIN log
      BY <1>3, <2>1, <3>1 DEF Undisturbed
    <3>2. CASE q = e
      BY <1>3, <1>6, <3>2
    <3> QED
      BY <1>3, <3>1, <3>2
  <2>2. CASE \E p \in DOMAIN log : log[p] = reports[n] /\ Undisturbed(k, p, reports[n])
    <3>1. PICK p \in DOMAIN log : log[p] = reports[n] /\ Undisturbed(k, p, reports[n])
      BY <2>2
    <3>2. p \in DOMAIN log' /\ log'[p] = reports[n] /\ Undisturbed(k, p, reports[n])'
      BY <1>3, <2>1, <3>1
    <3> QED
      BY <3>2 DEF Arrives
  <2>3. CASE rows[k] = reports[n] /\ Undisturbed(k, 0, reports[n])
    BY <2>1, <2>3 DEF Arrives
  <2> QED
    BY <1>6, <2>2, <2>3 DEF Arrives
<1> QED
  BY <1>3, <1>4, <1>5, <1>6

(* A report goes out. *)
LEMMA SendKeeps == IInv /\ Send => IInv'
<1> SUFFICES ASSUME IInv, Send PROVE IInv'
  OBVIOUS
<1>1. TypeOK /\ NoneAhead /\ NewestOnItsWay
  BY DEF IInv
<1>2. /\ sent < Len(reports) /\ sent' = sent + 1 /\ log' = Append(log, reports[sent + 1])
      /\ UNCHANGED <<now, total, reports, applied, rows>>
  BY DEF Send, sensor, projector
<1>3. sent \in 0 .. Len(reports)
  BY <1>1 DEF TypeOK
<1>4. Len(reports) \in Nat /\ DOMAIN reports = 1 .. Len(reports) /\ Len(log) \in Nat
  BY <1>1, ReportTypes
<1>5. sent \in Nat /\ sent + 1 \in DOMAIN reports
  BY <1>2, <1>3, <1>4
<1>6. reports[sent + 1] \in Message
  <2>1. reports[sent + 1] \in Written
    BY <1>1, <1>5, ReportTypes
  <2>2. Written \subseteq Message
    BY DEF Written, Message
  <2> QED
    BY <2>1, <2>2
<1>7. PICK r \in Message : r = reports[sent + 1]
  BY <1>6
<1>8. /\ log' \in Seq(Message) /\ OnlyReported' /\ HeadApplied'
      /\ DOMAIN log' = 1 .. Len(log) + 1 /\ log'[Len(log) + 1] = r
      /\ \A k \in Kind, n \in DOMAIN reports :
           Arrives(k, n) /\ (r.kind = k => r.time < reports[n].time) => Arrives(k, n)'
  <2>1. r = Malformed \/ \E n \in DOMAIN reports : r = reports[n]
    BY <1>5, <1>7
  <2> QED
    BY <1>2, <1>7, <2>1, AppendLeaves
<1>9. TypeOK'
  <2>1. sent' \in 0 .. Len(reports')
    BY <1>2, <1>4, <1>5
  <2> QED
    BY <1>1, <1>2, <1>8, <2>1 DEF TypeOK
<1>10. NoneAhead'
  BY <1>1, <1>2 DEF NoneAhead
<1>11. NewestOnItsWay'
  <2> SUFFICES ASSUME NEW k \in Kind, NEW n \in DOMAIN reports, IsNewest(k, n), ~(sent' < n)
               PROVE  Arrives(k, n)'
    BY <1>2 DEF NewestOnItsWay, IsNewest, Issued
  <2>1. CASE n = sent + 1
    <3>1. PICK last \in DOMAIN log' : last = Len(log) + 1
      BY <1>4, <1>8
    <3>2. log'[last] = reports[n] /\ reports' = reports
      BY <1>2, <1>7, <1>8, <2>1, <3>1
    <3>3. ASSUME NEW q \in DOMAIN log', last < q PROVE FALSE
      BY <1>4, <1>8, <3>1, <3>3
    <3>4. Undisturbed(k, last, reports[n])'
      BY <3>3 DEF Undisturbed
    <3> QED
      BY <3>2, <3>4 DEF Arrives
  <2>2. CASE n # sent + 1
    <3>1. n < sent + 1 /\ ~(sent < n)
      BY <1>2, <1>4, <1>5, <2>2
    <3>2. r.kind = k => r.time < reports[n].time
      BY <1>5, <1>7, <3>1 DEF IsNewest, Issued
    <3>3. Arrives(k, n)
      BY <1>1, <3>1 DEF NewestOnItsWay
    <3> QED
      BY <1>8, <3>2, <3>3
  <2> QED
    BY <2>1, <2>2
<1> QED
  BY <1>8, <1>9, <1>10, <1>11 DEF IInv

(* A malformed message keeps the invariant: it is of no kind. *)
LEMMA MalformedKeeps == IInv /\ WriteMalformed => IInv'
<1> SUFFICES ASSUME IInv, WriteMalformed PROVE IInv'
  OBVIOUS
<1>1. TypeOK /\ NoneAhead /\ NewestOnItsWay
  BY DEF IInv
<1>2. log' = Append(log, Malformed) /\ UNCHANGED <<now, total, reports, sent, applied, rows>>
  BY DEF WriteMalformed, sensor, projector
<1>3. Malformed \in Message /\ Malformed.kind \notin Kind
  BY DEF Malformed, Report, Message, Kind, Loss, Unattributed, Heartbeat
<1>4. PICK r \in Message : r = Malformed
  BY <1>3
<1>5. /\ log' \in Seq(Message) /\ OnlyReported' /\ HeadApplied'
      /\ \A k \in Kind, n \in DOMAIN reports :
           Arrives(k, n) /\ (r.kind = k => r.time < reports[n].time) => Arrives(k, n)'
  BY <1>2, <1>4, AppendLeaves
<1>6. \A k \in Kind, n \in DOMAIN reports : Arrives(k, n) => Arrives(k, n)'
  BY <1>3, <1>4, <1>5
<1>7. TypeOK' /\ NoneAhead'
  BY <1>1, <1>2, <1>5 DEF TypeOK, NoneAhead
<1>8. NewestOnItsWay'
  BY <1>1, <1>2, <1>6 DEF NewestOnItsWay, IsNewest, Issued
<1> QED
  BY <1>5, <1>7, <1>8 DEF IInv

(* Sending begins again further back, in a new process or the same one. *)
LEMMA RewindKeeps ==
  ASSUME IInv, sent' \in 0 .. sent, UNCHANGED <<now, reports, log, applied, rows>>,
         total' = total \/ total' = [count |-> 0, time |-> 0]
  PROVE  IInv'
<1>1. TypeOK /\ NoneAhead /\ OnlyReported /\ HeadApplied /\ NewestOnItsWay
  BY DEF IInv
<1>2. now \in Nat /\ total \in [count : Nat, time : Nat] /\ sent \in 0 .. Len(reports)
      /\ Len(reports) \in Nat /\ DOMAIN reports = 1 .. Len(reports)
  BY <1>1, ReportTypes DEF TypeOK
<1>3. total' \in [count : Nat, time : Nat] /\ total'.time <= now + 1
  BY <1>1, <1>2 DEF NoneAhead
<1>4. sent' \in 0 .. Len(reports') /\ sent' <= sent /\ sent \in Nat /\ sent' \in Nat
  BY <1>2
<1>5. TypeOK'
  BY <1>1, <1>3, <1>4 DEF TypeOK
<1>6. NoneAhead'
  BY <1>1, <1>3 DEF NoneAhead
<1>7. OnlyReported' /\ HeadApplied'
  BY <1>1 DEF OnlyReported, HeadApplied, Issued
<1>8. NewestOnItsWay'
  <2> SUFFICES ASSUME NEW k \in Kind, NEW n \in DOMAIN reports, IsNewest(k, n)
               PROVE  sent' < n \/ Arrives(k, n)'
    BY DEF NewestOnItsWay, IsNewest, Issued
  <2>1. sent < n \/ Arrives(k, n)
    BY <1>1 DEF NewestOnItsWay
  <2>2. Arrives(k, n) => Arrives(k, n)'
    BY DEF Arrives, Undisturbed
  <2> QED
    BY <1>2, <1>4, <2>1, <2>2
<1> QED
  BY <1>5, <1>6, <1>7, <1>8 DEF IInv

-----------------------------------------------------------------------------
(* The projector.                                                          *)

(* The first message, unless it is malformed, is a report of its kind. *)
LEMMA HeadIsReport ==
  ASSUME IInv, log # <<>>, Head(log) # Malformed
  PROVE  /\ Head(log) = log[1] /\ 1 \in DOMAIN log
         /\ Head(log).kind \in Kind
         /\ \E n \in Issued(Head(log).kind) : Head(log) = reports[n]
<1>1. TypeOK /\ OnlyReported
  BY DEF IInv
<1>2. log \in Seq(Message)
  BY <1>1 DEF TypeOK
<1>3. Head(log) = log[1] /\ 1 \in DOMAIN log
  BY <1>2
<1>4. PICK n \in DOMAIN reports : log[1] = reports[n]
  BY <1>1, <1>3 DEF OnlyReported
<1>5. reports[n].kind \in Kind
  BY <1>1, ReportTypes
<1> QED
  BY <1>3, <1>4, <1>5 DEF Issued

(* Applying the first message keeps the invariant: it replaces no newer    *)
(* report.                                                                 *)
LEMMA ApplyingKeeps ==
  ASSUME IInv, log # <<>>, Head(log) # Malformed, ApplyHealth(Head(log)),
         applied' \in BOOLEAN, UNCHANGED <<now, total, reports, sent, log>>
  PROVE  IInv'
<1>1. TypeOK /\ NoneAhead /\ OnlyReported /\ HeadApplied /\ NewestOnItsWay
  BY DEF IInv
<1>2. /\ Head(log) = log[1] /\ 1 \in DOMAIN log /\ Head(log).kind \in Kind
      /\ \E n \in Issued(Head(log).kind) : Head(log) = reports[n]
  BY HeadIsReport
<1>3. PICK r : r = Head(log)
  OBVIOUS
<1>4. PICK i \in Issued(r.kind) : r = reports[i]
  BY <1>2, <1>3
<1>5. i \in DOMAIN reports /\ r \in Written /\ r.kind \in Kind /\ r.time \in Nat
  BY <1>1, <1>2, <1>3, <1>4, ReportTypes DEF Issued
<1>6. r \in Row
  BY <1>5 DEF Written, Row
<1>7. rows \in [Kind -> Row] /\ \A k \in Kind : rows[k].time \in Nat
  BY <1>1, ReportTypes DEF TypeOK
<1>8. \/ Replaces(rows[r.kind], r) /\ rows' = [rows EXCEPT ![r.kind] = r]
      \/ ~Replaces(rows[r.kind], r) /\ rows' = rows
  BY <1>3 DEF ApplyHealth
<1>9. rows' \in [Kind -> Row]
  BY <1>5, <1>6, <1>7, <1>8
<1>10. /\ \A k \in Kind : k # r.kind => rows'[k] = rows[k]
       /\ Replaces(rows[r.kind], r) => rows'[r.kind] = r
       /\ ~Replaces(rows[r.kind], r) => rows'[r.kind] = rows[r.kind]
  BY <1>5, <1>7, <1>8
<1>11. TypeOK'
  BY <1>1, <1>9 DEF TypeOK
<1>12. NoneAhead'
  BY <1>1 DEF NoneAhead
<1>13. OnlyReported'
  <2>1. ASSUME NEW k \in Kind
        PROVE  rows'[k] = NoReport \/ \E n \in Issued(k) : rows'[k] = reports[n]
    <3>1. rows[k] = NoReport \/ \E n \in Issued(k) : rows[k] = reports[n]
      BY <1>1 DEF OnlyReported
    <3>2. CASE rows'[k] = rows[k]
      BY <3>1, <3>2
    <3>3. CASE rows'[k] # rows[k]
      <4>1. k = r.kind /\ rows'[k] = r
        BY <1>10, <3>3
      <4> QED
        BY <1>4, <4>1
    <3> QED
      BY <3>2, <3>3
  <2> QED
    BY <1>1, <2>1 DEF OnlyReported, Issued
<1>14. HeadApplied'
  <2>1. rows'[r.kind] = r \/ rows'[r.kind].time > r.time
    BY <1>5, <1>7, <1>10 DEF Replaces
  <2> QED
    BY <1>3, <2>1 DEF HeadApplied
<1>15. NewestOnItsWay'
  <2> SUFFICES ASSUME NEW k \in Kind, NEW n \in DOMAIN reports, IsNewest(k, n), Arrives(k, n)
               PROVE  Arrives(k, n)'
    BY <1>1 DEF NewestOnItsWay, IsNewest, Issued
  <2>1. CASE \E p \in DOMAIN log : log[p] = reports[n] /\ Undisturbed(k, p, reports[n])
    BY <2>1 DEF Arrives, Undisturbed
  <2>2. CASE rows[k] = reports[n] /\ Undisturbed(k, 0, reports[n])
    <3>1. rows'[k] = reports[n]
      <4>1. CASE k # r.kind
        BY <1>10, <2>2, <4>1
      <4>2. CASE k = r.kind
        <5>1. r = reports[n] \/ r.time < reports[n].time
          BY <1>2, <1>3, <2>2, <4>2 DEF Undisturbed
        <5>2. CASE r = reports[n]
          BY <1>10, <2>2, <4>2, <5>2
        <5>3. CASE r.time < reports[n].time
          <6>1. rows[k] # NoReport
            <7>1. reports[n].kind \in Kind
              BY <1>1, ReportTypes
            <7>2. NoReport.kind \notin Kind
              BY DEF NoReport, Report, Kind, Loss, Unattributed, Heartbeat
            <7> QED
              BY <2>2, <7>1, <7>2
          <6>2. ~Replaces(rows[k], r)
            BY <1>5, <1>7, <2>2, <5>3, <6>1 DEF Replaces
          <6> QED
            BY <1>10, <2>2, <4>2, <6>2
        <5> QED
          BY <5>1, <5>2, <5>3
      <4> QED
        BY <4>1, <4>2
    <3>2. Undisturbed(k, 0, reports[n])'
      BY <2>2 DEF Undisturbed
    <3> QED
      BY <3>1, <3>2 DEF Arrives
  <2> QED
    BY <2>1, <2>2 DEF Arrives
<1> QED
  BY <1>11, <1>12, <1>13, <1>14, <1>15 DEF IInv

(* Nothing changes but whether the first message has been handled: it has  *)
(* not, or there is nothing to handle in it.                               *)
LEMMA MarkingKeeps ==
  ASSUME IInv, UNCHANGED <<now, total, reports, sent, log, rows>>, applied' \in BOOLEAN,
         applied' => applied \/ (log # <<>> /\ Head(log) = Malformed)
  PROVE  IInv'
<1>1. TypeOK /\ NoneAhead /\ OnlyReported /\ HeadApplied /\ NewestOnItsWay
  BY DEF IInv
<1>2. TypeOK' /\ NoneAhead' /\ OnlyReported'
  BY <1>1 DEF TypeOK, NoneAhead, OnlyReported, Issued
<1>3. HeadApplied'
  BY <1>1 DEF HeadApplied
<1>4. NewestOnItsWay'
  BY <1>1 DEF NewestOnItsWay, IsNewest, Issued, Arrives, Undisturbed
<1> QED
  BY <1>2, <1>3, <1>4 DEF IInv

(* The steps of the projector's transaction keep the invariant. *)
LEMMA ApplyKeeps == IInv /\ (Apply \/ ApplyUnheard) => IInv'
<1> SUFFICES ASSUME IInv, Apply \/ ApplyUnheard PROVE IInv'
  OBVIOUS
<1>1. applied \in BOOLEAN
  BY DEF IInv, TypeOK
<1>2. log # <<>> /\ UNCHANGED <<now, total, reports, sent, log>>
  BY DEF Apply, ApplyUnheard, Waiting, sensor
<1>3. applied' \in BOOLEAN
  BY <1>1 DEF Apply, ApplyUnheard
<1>4. CASE Head(log) # Malformed
  <2>1. ApplyHealth(Head(log))
    BY <1>4 DEF Apply, ApplyUnheard
  <2> QED
    BY <1>2, <1>3, <1>4, <2>1, ApplyingKeeps
<1>5. CASE Head(log) = Malformed
  <2>1. rows' = rows
    BY <1>5 DEF Apply, ApplyUnheard
  <2> QED
    BY <1>2, <1>3, <1>5, <2>1, MarkingKeeps
<1> QED
  BY <1>4, <1>5

(* Committing an offset keeps the invariant: the message was applied, so   *)
(* when it is the newest report of its kind the table has it.              *)
LEMMA CommitKeeps == IInv /\ CommitOffset => IInv'
<1> SUFFICES ASSUME IInv, CommitOffset PROVE IInv'
  OBVIOUS
<1>1. TypeOK /\ NoneAhead /\ OnlyReported /\ HeadApplied /\ NewestOnItsWay
  BY DEF IInv
<1>2. applied /\ applied' = FALSE /\ log' = Tail(log) /\ UNCHANGED <<now, total, reports, sent, rows>>
  BY DEF CommitOffset, sensor
<1>3. log \in Seq(Message) /\ log # <<>>
  BY <1>1, <1>2 DEF TypeOK, HeadApplied
<1>4. /\ log' \in Seq(Message) /\ Len(log) \in Nat /\ DOMAIN log = 1 .. Len(log)
      /\ DOMAIN log' = 1 .. Len(log) - 1 /\ \A p \in DOMAIN log' : log'[p] = log[p + 1]
      /\ \A p \in DOMAIN log' : p + 1 \in DOMAIN log /\ p \in Nat
      /\ \A p \in DOMAIN log : p = 1 \/ p - 1 \in DOMAIN log'
      /\ \A p \in DOMAIN log : p \in Nat
  BY <1>2, <1>3
<1>5. TypeOK'
  <2>1. applied' \in BOOLEAN
    BY <1>2
  <2> QED
    BY <1>1, <1>2, <1>4, <2>1 DEF TypeOK
<1>6. NoneAhead' /\ HeadApplied'
  BY <1>1, <1>2 DEF NoneAhead, HeadApplied
<1>7. OnlyReported'
  <2>1. ASSUME NEW p \in DOMAIN log'
        PROVE  log'[p] = Malformed \/ \E n \in DOMAIN reports : log'[p] = reports[n]
    BY <1>1, <1>4 DEF OnlyReported
  <2> QED
    BY <1>1, <1>2, <2>1 DEF OnlyReported, Issued
<1>8. NewestOnItsWay'
  <2> SUFFICES ASSUME NEW k \in Kind, NEW n \in DOMAIN reports, IsNewest(k, n), Arrives(k, n)
               PROVE  Arrives(k, n)'
    BY <1>1, <1>2 DEF NewestOnItsWay, IsNewest, Issued
  <2>1. ASSUME NEW p \in Nat, NEW q \in Nat, q <= p + 1, Undisturbed(k, q, reports[n])
        PROVE  Undisturbed(k, p, reports[n])'
    <3> SUFFICES ASSUME NEW j \in DOMAIN log', p < j, log'[j].kind = k
                 PROVE  log'[j] = reports[n] \/ log'[j].time < reports[n].time
      BY <1>2 DEF Undisturbed
    <3>1. j + 1 \in DOMAIN log /\ q < j + 1 /\ log'[j] = log[j + 1]
      BY <1>4, <2>1
    <3> QED
      BY <2>1, <3>1 DEF Undisturbed
  <2>2. ASSUME NEW p \in DOMAIN log, log[p] = reports[n], Undisturbed(k, p, reports[n])
        PROVE  Arrives(k, n)'
    <3>1. CASE p = 1
      <4>1. Head(log) = reports[n] /\ reports[n].kind = k
        BY <1>3, <2>2, <3>1 DEF IsNewest, Issued
      <4>2. Head(log) # Malformed
        <5>1. Malformed.kind \notin Kind
          BY DEF Malformed, Report, Kind, Loss, Unattributed, Heartbeat
        <5> QED
          BY <4>1, <5>1
      <4>3. rows[k] = reports[n] \/ rows[k].time > reports[n].time
        BY <1>1, <1>2, <4>1, <4>2 DEF HeadApplied
      <4>4. rows[k] = reports[n]
        <5> SUFFICES ASSUME rows[k].time > reports[n].time PROVE FALSE
          BY <4>3
        <5>1. reports[n].time \in Nat /\ \A m \in DOMAIN reports : reports[m].time \in Nat
          BY <1>1, ReportTypes
        <5>2. CASE rows[k] = NoReport
          <6>1. NoReport.time = 0
            BY DEF NoReport, Report
          <6> QED
            BY <5>1, <5>2, <6>1
        <5>3. CASE \E m \in Issued(k) : rows[k] = reports[m]
          <6>1. PICK m \in Issued(k) : rows[k] = reports[m]
            BY <5>3
          <6>2. m \in DOMAIN reports /\ reports[m].time <= reports[n].time
            BY DEF IsNewest, Issued
          <6> QED
            BY <5>1, <6>1, <6>2
        <5> QED
          BY <1>1, <5>2, <5>3 DEF OnlyReported
      <4>5. Undisturbed(k, 0, reports[n])'
        BY <2>1, <2>2, <3>1
      <4> QED
        BY <1>2, <4>4, <4>5 DEF Arrives
    <3>2. CASE p # 1
      <4>1. PICK m \in DOMAIN log' : m = p - 1
        BY <1>4, <3>2
      <4>2. m \in Nat /\ p \in Nat /\ p = m + 1 /\ log'[m] = reports[n]
        BY <1>4, <2>2, <4>1
      <4>3. Undisturbed(k, m, reports[n])'
        BY <2>1, <2>2, <4>2
      <4> QED
        BY <1>2, <4>2, <4>3 DEF Arrives
    <3> QED
      BY <3>1, <3>2
  <2>3. CASE rows[k] = reports[n] /\ Undisturbed(k, 0, reports[n])
    <3>1. Undisturbed(k, 0, reports[n])'
      BY <2>1, <2>3
    <3> QED
      BY <1>2, <2>3, <3>1 DEF Arrives
  <2> QED
    BY <2>2, <2>3 DEF Arrives
<1> QED
  BY <1>5, <1>6, <1>7, <1>8 DEF IInv

-----------------------------------------------------------------------------
(* The whole.                                                              *)

LEMMA InitIInv == Init => IInv
<1> SUFFICES ASSUME Init PROVE IInv
  OBVIOUS
<1>1. /\ now = 0 /\ total = [count |-> 0, time |-> 0] /\ reports = <<>> /\ sent = 0
      /\ log = <<>> /\ applied = FALSE /\ rows = NoRows
  BY DEF Init
<1>2. NoReport \in Row
  BY DEF NoReport, Report, Row
<1>3. rows \in [Kind -> Row] /\ \A k \in Kind : rows[k] = NoReport
  BY <1>1, <1>2 DEF NoRows
<1>4. DOMAIN reports = {} /\ DOMAIN log = {} /\ Len(reports) = 0
  BY <1>1
<1>5. TypeOK
  <2>1. applied \in BOOLEAN
    BY <1>1
  <2> QED
    BY <1>1, <1>3, <1>4, <2>1 DEF TypeOK
<1>6. NoneAhead
  BY <1>1, <1>4 DEF NoneAhead
<1>7. OnlyReported
  BY <1>3, <1>4 DEF OnlyReported
<1>8. HeadApplied
  BY <1>1 DEF HeadApplied
<1>9. NewestOnItsWay
  BY <1>4 DEF NewestOnItsWay
<1> QED
  BY <1>5, <1>6, <1>7, <1>8, <1>9 DEF IInv

LEMMA NextIInv == IInv /\ [Next]_vars => IInv'
<1> SUFFICES ASSUME IInv, [Next]_vars PROVE IInv'
  OBVIOUS
<1>1. ASSUME NEW t \in 1 .. now + 1, ReportLoss(t) PROVE IInv'
  BY <1>1, ReportLossKeeps
<1>2. ASSUME NEW frames \in 0 .. 1, NEW problem \in 0 .. 1, Housekeeping(frames, problem) PROVE IInv'
  BY <1>2, HousekeepingKeeps
<1>3. CASE SensorRestart \/ Rewind
  <2>1. sent \in Nat
    BY DEF IInv, TypeOK
  <2>2. sent' \in 0 .. sent
    BY <1>3, <2>1 DEF SensorRestart, Rewind
  <2>3. UNCHANGED <<now, reports, log, applied, rows>>
        /\ (total' = total \/ total' = [count |-> 0, time |-> 0])
    BY <1>3 DEF SensorRestart, Rewind, sensor, projector
  <2> QED
    BY <2>2, <2>3, RewindKeeps
<1>4. CASE Send
  BY <1>4, SendKeeps
<1>5. CASE WriteMalformed
  BY <1>5, MalformedKeeps
<1>6. CASE Apply \/ ApplyUnheard
  BY <1>6, ApplyKeeps
<1>7. CASE CommitOffset
  BY <1>7, CommitKeeps
<1>8. CASE ProjectorRestart
  BY <1>8, MarkingKeeps DEF ProjectorRestart, sensor
<1>9. CASE Serve \/ Disconnect \/ UNCHANGED vars
  <2>1. UNCHANGED <<now, total, reports, sent, log, applied, rows>>
    BY <1>9 DEF Serve, Connect, Listen, SendHealth, Wake, Disconnect, vars, sensor, projector
  <2>2. applied' \in BOOLEAN
    BY <2>1 DEF IInv, TypeOK
  <2> QED
    BY <2>1, <2>2, MarkingKeeps
<1> QED
  BY <1>1, <1>2, <1>3, <1>4, <1>5, <1>6, <1>7, <1>8, <1>9 DEF Next, Project

(* When everything sent has been handled, the table has for each kind the  *)
(* newest report (apply_health, handle): however many reports there are,   *)
(* whatever was sent again after a failed delivery or a restart of the     *)
(* sensor, applied again after a lost answer or a restart of the           *)
(* projector, and whatever else was written to the topic.                  *)
THEOREM HealthStaysNewest == Spec => []HealthIsNewest
<1>1. IInv => HealthIsNewest
  <2> SUFFICES ASSUME IInv, sent = Len(reports), log = <<>>, NEW k \in Kind
               PROVE  rows[k] = Newest(k)
    BY DEF HealthIsNewest
  <2>1. TypeOK /\ NoneAhead /\ OnlyReported /\ NewestOnItsWay
    BY DEF IInv
  <2>2. CASE Issued(k) = {} /\ Newest(k) = NoReport
    BY <2>1, <2>2 DEF OnlyReported
  <2>3. ASSUME NEW n \in DOMAIN reports, IsNewest(k, n), Newest(k) = reports[n]
        PROVE  rows[k] = Newest(k)
    <3>1. ~(sent < n)
      BY <2>1, ReportTypes
    <3>2. DOMAIN log = {}
      OBVIOUS
    <3> QED
      BY <2>1, <2>3, <3>1, <3>2 DEF NewestOnItsWay, Arrives
  <2> QED
    BY <2>1, <2>2, <2>3, NewestIs
<1> QED
  BY <1>1, InitIInv, NextIInv, PTL DEF Spec

=============================================================================
