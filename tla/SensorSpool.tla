---------------------------- MODULE SensorSpool ----------------------------
(***************************************************************************)
(* The sensor's path to Kafka: the segmented spool on disk (spool.rs), the *)
(* forwarder that appends to it, sends from it and applies delivery        *)
(* reports (forward.rs), and the housekeeping that writes health events    *)
(* and syncs (main.rs).  The Kafka client and the broker are external:     *)
(* they deliver in any order, fail, or lose the acknowledgement.           *)
(*                                                                         *)
(* Abstractions.                                                           *)
(*  - A record is its sequence number and its topic, which decides its     *)
(*    length; a segment is the number of records it holds, under its first *)
(*    sequence (its file name).                                            *)
(*  - One thread runs every handler, so handlers are atomic except for a   *)
(*    crash: append and report_loss are separate steps, and a crash may    *)
(*    hit inside an append after old segments were already unlinked.  An   *)
(*    I/O error ends the process and is such a crash.                      *)
(*  - A crash of the process keeps what it wrote (page cache).  A power    *)
(*    cut may also tear off what no sync_data covered, leave the acked     *)
(*    file (never synced) empty or at an earlier value and, unless         *)
(*    RenameDurable, undo the last rename of the sequence file (its        *)
(*    directory is never synced).                                          *)
(*  - pump's budget running out is a Full answer at the next entry: the    *)
(*    two cursors differ only by acknowledged records, which reads skip.   *)
(***************************************************************************)
EXTENDS Integers, Sequences, FiniteSets, FiniteSetsExt

CONSTANTS
  SEQUENCE_BLOCK,   \* numbers reserved per write of the sequence file
  SegmentBytes,     \* a segment is closed before it would exceed this
  MaxBytes,         \* the spool drops old segments before it exceeds this
  FlowBytes,        \* length of a flow record
  HealthBytes,      \* length of a health record
  MaxHealth,        \* health events of one housekeeping call (3 in main.rs)
  PowerCuts,        \* whether the power may fail
  RenameDurable,    \* whether a rename survives a power cut at once
  MaxSeq,           \* bound: last sequence number the model hands out
  MaxCrashes,       \* bound: crashes in a behaviour
  MaxFailures,      \* bound: failed deliveries in a behaviour
  MaxCopies         \* bound: copies of a record queued in the client

ASSUME SpoolAssumption ==
  /\ SEQUENCE_BLOCK \in Nat \ {0}
  /\ SegmentBytes \in Nat \ {0}
  /\ MaxBytes \in Nat
  /\ MaxBytes >= 2 * SegmentBytes
  /\ FlowBytes \in Nat \ {0}
  /\ HealthBytes \in Nat \ {0}
  /\ MaxHealth \in Nat \ {0}
  /\ PowerCuts \in BOOLEAN
  /\ RenameDurable \in BOOLEAN
  /\ MaxSeq \in Nat
  /\ MaxCrashes \in Nat
  /\ MaxFailures \in Nat
  /\ MaxCopies \in Nat \ {0}

VARIABLES
  (* on disk *)
  segments,     \* the files *.seg: first sequence -> number of records
  health,       \* records with Topic::Health, the others have Topic::Flows
  sequence,     \* the file `sequence`: numbers below it are reserved
  ackedFile,    \* the file `acked`: the watermark of the last sync
  unsynced,     \* records no sync_data has covered yet
  sequenceSafe, \* the value of `sequence` that surely survives a power cut
  (* in the process *)
  up,           \* the process runs
  nextSeq,      \* Spool.next_seq
  writer,       \* Spool.writer is Some: the last segment is open
  acked,        \* acknowledgement bits of the records in the spool
  cursor,       \* Forwarder.cursor: segment and record offset in it
  cumulative,   \* Forwarder.cumulative_loss: count, first and last sequence
  chores,       \* what is left of the housekeeping call
  lossDue,      \* records an append has just dropped, not yet reported
  (* the Kafka client, in the process, and the topic *)
  inflight,     \* copies of each record queued in the client
  reports,      \* delivery reports waiting for poll
  delivered,    \* records in the topic
  (* history, read by properties only *)
  issued,       \* sequences written so far
  dropped,      \* unacknowledged records removed by enforce_limit
  torn,         \* records a power cut tore off
  lostSince,    \* those dropped since the process started
  lastReport,   \* newest SPOOL_LOSS event of this process: sequence, count
  sentUpTo,     \* highest record sent since sending last went back
  crashes,
  failures

disk == <<segments, health, sequence, ackedFile, unsynced, sequenceSafe>>
process == <<up, nextSeq, writer, acked, cursor, cumulative, chores, lossDue>>
client == <<inflight, reports>>
history == <<issued, dropped, torn, lostSince, lastReport, sentUpTo>>
faults == <<crashes, failures>>
vars == <<disk, process, client, delivered, history, faults>>

Seqs == 0..MaxSeq
NoLoss == [count |-> 0, first |-> 0, last |-> 0]
NoReport == [seq |-> -1, count |-> 0]
Start == [segment |-> 0, offset |-> 0]
NoneQueued == [s \in Seqs |-> 0]

-----------------------------------------------------------------------------
(* Segments.  S is a directory of segments, A a set of acknowledged records *)

Records(S, f) == {s \in Seqs : f <= s /\ s < f + S[f]}
AllRecords(S) == UNION {Records(S, f) : f \in DOMAIN S}
Unacked(S, A) == AllRecords(S) \ A
Without(S, D) == [f \in DOMAIN S \ D |-> S[f]]
Back(S) == Max(DOMAIN S)
Bytes(R) == Cardinality(R \ health) * FlowBytes + Cardinality(R \cap health) * HealthBytes
BytesFrom(S, f) == Bytes({s \in AllRecords(S) : s >= f})
TotalBytes(S) == Bytes(AllRecords(S))

\* Mutant: a segment counts as acknowledged with its first acknowledged record.
AckedFrontTooEarly(S, A) == {f \in DOMAIN S : f # Back(S) /\ Records(S, f) \cap A # {}}

(* drop_acked_front: fully acknowledged segments at the front, except the  *)
(* last one.                                                               *)
AckedFront(S, A) ==
  {f \in DOMAIN S : /\ f # Back(S)
                    /\ \A g \in DOMAIN S : g <= f => Records(S, g) \subseteq A}

\* Mutant: the record to be written is not counted.
OverLimitBefore(S, incoming) ==
  {f \in DOMAIN S : f # Back(S) /\ BytesFrom(S, f) > MaxBytes}

(* enforce_limit: the oldest segments, never the last, that do not fit     *)
(* together with everything younger and `incoming` bytes.                  *)
OverLimit(S, incoming) ==
  {f \in DOMAIN S : f # Back(S) /\ BytesFrom(S, f) + incoming > MaxBytes}

\* Mutant: one past the newest acknowledged record.
WatermarkOfNewest(S, A) == IF A = {} THEN 0 ELSE Max(A) + 1

(* ack_watermark *)
Watermark(S, A) == IF Unacked(S, A) = {} THEN nextSeq ELSE Min(Unacked(S, A))

(* Where a cursor reads on: a cursor whose segment is gone continues at    *)
(* the oldest one.                                                         *)
Position(S, c) ==
  CASE c.segment \in DOMAIN S -> c.segment + c.offset
    [] c.segment \notin DOMAIN S /\ DOMAIN S # {} -> Min(DOMAIN S)
    [] OTHER -> 0

\* Mutant: sending resumes behind the last record.
RewindNowhere(S, A) ==
  IF DOMAIN S = {} THEN Start ELSE [segment |-> Back(S), offset |-> S[Back(S)]]

(* rewind: the oldest segment that still has unacknowledged records, else  *)
(* the last one.                                                           *)
Rewind(S, A) ==
  LET open == {f \in DOMAIN S : Records(S, f) \ A # {}}
  IN  CASE open # {} -> [segment |-> Min(open), offset |-> 0]
        [] open = {} /\ DOMAIN S # {} -> [segment |-> Back(S), offset |-> 0]
        [] OTHER -> Start

\* Mutant: the entry the client refused is skipped.
CursorPast(S, s) ==
  LET f == CHOOSE g \in DOMAIN S : s \in Records(S, g)
  IN  [segment |-> f, offset |-> s - f + 1]

\* Mutant: reading starts over in the segment of the refused entry.
CursorAtSegment(S, s) ==
  [segment |-> CHOOSE g \in DOMAIN S : s \in Records(S, g), offset |-> 0]

(* The position of record s. *)
CursorAt(S, s) ==
  LET f == CHOOSE g \in DOMAIN S : s \in Records(S, g)
  IN  [segment |-> f, offset |-> s - f]

(* Where reading to the end leaves the cursor. *)
CursorAtEnd(S) ==
  IF DOMAIN S = {} THEN Start
  ELSE [segment |-> Back(S), offset |-> S[Back(S)]]

-----------------------------------------------------------------------------
(* Spool::append.                                                          *)

\* Mutant: no new block is reserved.
ReservedOnce == sequence

(* reserve_sequences, when the reserved numbers are used up. *)
Reserved == IF nextSeq >= sequence THEN nextSeq + SEQUENCE_BLOCK ELSE sequence

MustRotate(len) ==
  \/ DOMAIN segments = {}
  \/ ~writer
  \/ Bytes(Records(segments, Back(segments))) + len > SegmentBytes

(* The directory once the segment the record goes to exists. *)
Rotated(len) ==
  IF MustRotate(len)
  THEN [f \in DOMAIN segments \cup {nextSeq} |->
          IF f = nextSeq THEN 0 ELSE segments[f]]
  ELSE segments

Active(len) == IF MustRotate(len) THEN nextSeq ELSE Back(segments)

(* Unacknowledged records that go with the segments D. *)
LossOf(D) == (UNION {Records(segments, f) : f \in D \cap DOMAIN segments}) \ acked

(* A sync_data covers the open segment and, through the file system's      *)
(* journal, every earlier rename; rotate syncs the segment it closes, and  *)
(* reserve_sequences syncs its new file before it renames it.              *)
OpenRecords == IF writer THEN Records(segments, Back(segments)) ELSE {}
UnsyncedAfter(len) == IF MustRotate(len) THEN unsynced \ OpenRecords ELSE unsynced
SequenceSafeAfter(len) ==
  CASE writer /\ MustRotate(len) -> Reserved
    [] ~(writer /\ MustRotate(len)) /\ Reserved # sequence -> sequence
    [] OTHER -> sequenceSafe

(* The whole append of a record of the given topic. *)
AppendRecord(isHealth) ==
  LET len == IF isHealth THEN HealthBytes ELSE FlowBytes
      S == Rotated(len)
      D == OverLimit(S, len)
      kept == Without(S, D)
  IN  /\ nextSeq <= MaxSeq
      /\ sequence' = Reserved
      /\ sequenceSafe' = SequenceSafeAfter(len)
      /\ segments' = [kept EXCEPT ![Active(len)] = @ + 1]
      /\ health' = IF isHealth THEN health \cup {nextSeq} ELSE health \ {nextSeq}
      /\ unsynced' = (UnsyncedAfter(len) \cap AllRecords(kept)) \cup {nextSeq}
      /\ writer' = TRUE
      /\ acked' = acked \cap AllRecords(kept)
      /\ nextSeq' = nextSeq + 1
      /\ issued' = issued \cup {nextSeq}
      /\ dropped' = dropped \cup LossOf(D)
      /\ lostSince' = lostSince \cup LossOf(D)
      /\ UNCHANGED <<ackedFile, up, cursor, client, delivered, torn, sentUpTo, faults>>

AppendLoss(len) == LossOf(OverLimit(Rotated(len), len))

Idle == up /\ lossDue = {} /\ chores = <<>>

(* Forwarder::submit_flow; a loss makes report_loss the next step. *)
SubmitFlow ==
  /\ Idle
  /\ nextSeq < MaxSeq
  /\ AppendRecord(FALSE)
  /\ lossDue' = AppendLoss(FlowBytes)
  /\ UNCHANGED <<cumulative, chores, lastReport>>

(* KafkaSink::housekeeping starts: the unattributed and eviction events    *)
(* are written only if their counters moved, the heartbeat always.         *)
Housekeeping ==
  /\ Idle
  /\ \E n \in 1..MaxHealth :
       /\ nextSeq + 2 * n <= MaxSeq + 1
       /\ chores' = [i \in 1..(n + 1) |-> IF i <= n THEN "health" ELSE "sync"]
  /\ UNCHANGED <<disk, up, nextSeq, writer, acked, cursor, cumulative, lossDue,
                 client, delivered, history, faults>>

(* Forwarder::submit_health *)
SubmitHealth ==
  /\ up /\ lossDue = {}
  /\ chores # <<>> /\ Head(chores) = "health"
  /\ AppendRecord(TRUE)
  /\ lossDue' = AppendLoss(HealthBytes)
  /\ chores' = Tail(chores)
  /\ UNCHANGED <<cumulative, lastReport>>

(* The running total with one more loss. *)
Accumulate(total, loss) ==
  [count |-> total.count + Cardinality(loss),
   first |-> Min(loss \cup IF total.count = 0 THEN {} ELSE {total.first}),
   last  |-> Max(loss \cup IF total.count = 0 THEN {} ELSE {total.last})]

\* Mutant: what the report itself pushed out is forgotten.
AddNestedNot(total, nested) == total

AddNested(total, nested) ==
  IF nested = {} THEN total
  ELSE [total EXCEPT !.count = @ + Cardinality(nested), !.last = Max(nested \cup {@})]

(* Forwarder::report_loss: the running total is written as a health event; *)
(* what that append drops in turn is added to the total but not reported.  *)
ReportLoss ==
  LET total == Accumulate(cumulative, lossDue)
  IN  /\ up /\ lossDue # {}
      /\ AppendRecord(TRUE)
      /\ lastReport' = [seq |-> nextSeq, count |-> total.count]
      /\ cumulative' = AddNested(total, AppendLoss(HealthBytes))
      /\ lossDue' = {}
      /\ UNCHANGED chores

(* Spool::sync, the end of housekeeping. *)
Sync ==
  /\ up /\ lossDue = {}
  /\ chores # <<>> /\ Head(chores) = "sync"
  /\ ackedFile' = Watermark(segments, acked)
  /\ unsynced' = unsynced \ OpenRecords
  /\ sequenceSafe' = IF writer THEN sequence ELSE sequenceSafe
  /\ chores' = Tail(chores)
  /\ UNCHANGED <<segments, health, sequence, up, nextSeq, writer, acked, cursor,
                 cumulative, lossDue, client, delivered, history, faults>>

-----------------------------------------------------------------------------
(* Forwarder::pump: apply every waiting report (ack, drop_acked_front), go *)
(* back if one failed, then send records in order from the cursor until    *)
(* the client answers Full at `stop` or the spool is read to its end.      *)

FailedReport == \E s \in Seqs : <<s, FALSE>> \in reports

\* Mutant: a failed delivery acknowledges too.
AckedByAnyReport ==
  acked \cup {s \in AllRecords(segments) : \E ok \in BOOLEAN : <<s, ok>> \in reports}

AckedByReports ==
  acked \cup {s \in AllRecords(segments) : <<s, TRUE>> \in reports}

Readable(S, A, c) == {s \in Unacked(S, A) : s >= Position(S, c)}

Pump(stop) ==
  LET A == AckedByReports
      S == Without(segments, AckedFront(segments, A))
      from == IF FailedReport THEN Rewind(S, A) ELSE cursor
      readable == Readable(S, A, from)
      batch == {s \in readable : s < stop}
  IN  /\ Idle
      /\ stop \in readable \cup {MaxSeq + 1}
      /\ \A s \in batch : inflight[s] < MaxCopies
      /\ segments' = S
      /\ acked' = A \cap AllRecords(S)
      /\ cursor' = IF stop \in readable THEN CursorAt(S, stop) ELSE CursorAtEnd(S)
      /\ inflight' = [s \in Seqs |-> inflight[s] + IF s \in batch THEN 1 ELSE 0]
      /\ reports' = {}
      /\ sentUpTo' = Max({IF FailedReport THEN -1 ELSE sentUpTo} \cup batch)
      /\ unsynced' = unsynced \cap AllRecords(S)
      /\ UNCHANGED <<health, sequence, ackedFile, sequenceSafe, up, nextSeq, writer,
                     cumulative, chores, lossDue, delivered, issued, dropped, torn,
                     lostSince, lastReport, faults>>

-----------------------------------------------------------------------------
(* The delivery callback of the Kafka client; the broker is external.      *)

BrokerAppend(s) ==
  /\ up /\ inflight[s] > 0
  /\ inflight' = [inflight EXCEPT ![s] = @ - 1]
  /\ delivered' = delivered \cup {s}
  /\ reports' = reports \cup {<<s, TRUE>>}
  /\ UNCHANGED <<disk, process, history, faults>>

(* A failed delivery; the broker may have the record all the same. *)
BrokerFail(s, stored) ==
  /\ up /\ inflight[s] > 0
  /\ failures < MaxFailures
  /\ failures' = failures + 1
  /\ inflight' = [inflight EXCEPT ![s] = @ - 1]
  /\ delivered' = IF stored THEN delivered \cup {s} ELSE delivered
  /\ reports' = reports \cup {<<s, FALSE>>}
  /\ UNCHANGED <<disk, process, history, crashes>>

-----------------------------------------------------------------------------
(* The process dies and is started again.                                  *)

(* Everything in memory goes; records on the wire may still arrive. *)
Die(got) ==
  /\ crashes < MaxCrashes
  /\ crashes' = crashes + 1
  /\ got \subseteq {s \in Seqs : inflight[s] > 0}
  /\ delivered' = delivered \cup got
  /\ up' = FALSE
  /\ writer' = FALSE
  /\ acked' = {}
  /\ cursor' = Start
  /\ cumulative' = NoLoss
  /\ chores' = <<>>
  /\ lossDue' = {}
  /\ inflight' = NoneQueued
  /\ reports' = {}
  /\ lostSince' = {}
  /\ lastReport' = NoReport
  /\ sentUpTo' = -1
  /\ UNCHANGED <<health, nextSeq, issued, failures>>

Crash ==
  /\ up
  /\ \E got \in SUBSET Seqs : Die(got)
  /\ UNCHANGED <<segments, sequence, ackedFile, unsynced, sequenceSafe, dropped, torn>>

(* Inside an append, after reserving and after unlinking the segments up   *)
(* to `cut`; the empty new segment is removed again by open.               *)
Appending(len) ==
  \/ Idle /\ len = FlowBytes /\ nextSeq < MaxSeq
  \/ up /\ lossDue # {} /\ len = HealthBytes
  \/ up /\ chores # <<>> /\ Head(chores) = "health" /\ len = HealthBytes

CrashInAppend(len) ==
  LET D == OverLimit(Rotated(len), len)
  IN  /\ Appending(len)
      /\ \E got \in SUBSET Seqs : Die(got)
      /\ sequence' = Reserved
      /\ \E cut \in D :
           LET unlinked == {f \in D : f <= cut}
               kept == Without(segments, unlinked)
           IN  /\ segments' = kept
               /\ unsynced' = UnsyncedAfter(len) \cap AllRecords(kept)
               /\ dropped' = dropped \cup LossOf(unlinked)
      /\ sequenceSafe' = SequenceSafeAfter(len)
      /\ UNCHANGED <<ackedFile, torn>>

(* The power fails: every file keeps a prefix that holds what was synced,  *)
(* files left empty are removed by open.                                   *)
Torn(keep) == [f \in {g \in DOMAIN segments : keep[g] > 0} |-> keep[f]]

PowerCut ==
  /\ up /\ PowerCuts
  /\ \E got \in SUBSET Seqs : Die(got)
  /\ \E keep \in [DOMAIN segments -> 0..(MaxSeq + 1)] :
       LET lost == AllRecords(segments) \ AllRecords(Torn(keep))
       IN  /\ \A f \in DOMAIN segments : keep[f] <= segments[f]
           /\ lost \subseteq unsynced
           /\ segments' = Torn(keep)
           /\ unsynced' = unsynced \ lost
           /\ torn' = torn \cup (lost \ acked)
  /\ sequence' \in IF RenameDurable THEN {sequence} ELSE {sequence, sequenceSafe}
  /\ sequenceSafe' = sequence'
  /\ ackedFile' \in 0..ackedFile
  /\ UNCHANGED dropped

(* Spool::open and Forwarder::new. *)
Open ==
  LET recovered == IF AllRecords(segments) = {} THEN sequence
                   ELSE Max({sequence, Max(AllRecords(segments)) + 1})
      known == {s \in AllRecords(segments) : s < ackedFile}
      S == Without(segments, AckedFront(segments, known))
  IN  /\ ~up
      /\ up' = TRUE
      /\ nextSeq' = recovered
      /\ sequence' = recovered + SEQUENCE_BLOCK
      /\ sequenceSafe' = sequence
      /\ segments' = S
      /\ acked' = known \cap AllRecords(S)
      /\ cursor' = Rewind(S, known)
      /\ unsynced' = unsynced \cap AllRecords(S)
      /\ UNCHANGED <<health, ackedFile, writer, cumulative, chores, lossDue, client,
                     delivered, history, faults>>

-----------------------------------------------------------------------------
Init ==
  /\ segments = [f \in {} |-> 0]
  /\ health = {}
  /\ sequence = 0
  /\ ackedFile = 0
  /\ unsynced = {}
  /\ sequenceSafe = 0
  /\ up = FALSE
  /\ nextSeq = 0
  /\ writer = FALSE
  /\ acked = {}
  /\ cursor = Start
  /\ cumulative = NoLoss
  /\ chores = <<>>
  /\ lossDue = {}
  /\ inflight = NoneQueued
  /\ reports = {}
  /\ delivered = {}
  /\ issued = {}
  /\ dropped = {}
  /\ torn = {}
  /\ lostSince = {}
  /\ lastReport = NoReport
  /\ sentUpTo = -1
  /\ crashes = 0
  /\ failures = 0

PumpAny == \E stop \in 0..(MaxSeq + 1) : Pump(stop)

Next ==
  \/ SubmitFlow
  \/ Housekeeping
  \/ SubmitHealth
  \/ ReportLoss
  \/ Sync
  \/ PumpAny
  \/ \E s \in Seqs : BrokerAppend(s)
  \/ \E s \in Seqs, stored \in BOOLEAN : BrokerFail(s, stored)
  \/ Crash
  \/ \E len \in {FlowBytes, HealthBytes} : CrashInAppend(len)
  \/ PowerCut
  \/ Open

Spec == Init /\ [][Next]_vars

-----------------------------------------------------------------------------
(***************************************************************************)
(* Fairness.  The capture loop pumps every 20 ms and the client's queue    *)
(* drains, so time and again a pump reads the spool to its end.  The       *)
(* client has no message timeout: it retries through outages, so a record  *)
(* queued again and again is in the end appended.  A handler that started  *)
(* ends, and Kubernetes starts a dead sensor again.                        *)
(***************************************************************************)
PumpToEnd == Pump(MaxSeq + 1)

FairSpec ==
  /\ Spec
  /\ SF_vars(PumpToEnd)
  /\ WF_vars(SubmitHealth \/ ReportLoss \/ Sync)
  /\ WF_vars(Open)
  /\ \A s \in Seqs : SF_vars(BrokerAppend(s))

-----------------------------------------------------------------------------
(* Properties.                                                             *)

(* Every variable has the type the code gives it. *)
TypeOK ==
  /\ DOMAIN segments \subseteq Seqs
  /\ segments \in [DOMAIN segments -> Nat \ {0}]
  /\ health \subseteq Seqs
  /\ sequence \in Nat
  /\ ackedFile \in Nat
  /\ unsynced \subseteq AllRecords(segments)
  /\ sequenceSafe \in Nat
  /\ up \in BOOLEAN
  /\ nextSeq \in Nat
  /\ writer \in BOOLEAN
  /\ acked \subseteq AllRecords(segments)
  /\ cursor \in [segment : Nat, offset : Nat]
  /\ cumulative \in [count : Nat, first : Nat, last : Nat]
  /\ chores \in Seq({"health", "sync"})
  /\ lossDue \subseteq Seqs
  /\ inflight \in [Seqs -> 0..MaxCopies]
  /\ reports \subseteq Seqs \X BOOLEAN
  /\ delivered \subseteq Seqs
  /\ issued \subseteq Seqs
  /\ dropped \subseteq Seqs
  /\ torn \subseteq Seqs
  /\ lostSince \subseteq Seqs
  /\ lastReport \in [seq : Nat \cup {-1}, count : Nat]
  /\ sentUpTo \in Seqs \cup {-1}
  /\ crashes \in 0..MaxCrashes
  /\ failures \in 0..MaxFailures

(* "removed only after the broker acknowledges it, so a broker outage or a *)
(* sensor restart does not lose events" (spool.rs:3-5): every event that   *)
(* was written is in the topic, still to be sent, dropped by enforce_limit *)
(* or torn off by a power cut before its first sync - whatever crashes,    *)
(* failed deliveries and restarts happened.                                *)
NoEventVanishes ==
  issued \subseteq delivered \cup dropped \cup torn \cup Unacked(segments, acked)

(* "numbers are never reused after a restart" (spool.rs:7): the number the *)
(* next append takes, now or after the next open, was never written.       *)
NumbersNeverReused ==
  \A s \in issued :
    IF up THEN s < nextSeq
    ELSE s < sequence \/ \E t \in AllRecords(segments) : s <= t

(* "every sequence below it is delivered" (spool.rs:10): the watermark on  *)
(* disk, which makes open skip records, never covers an event the broker   *)
(* does not have, unless the spool has lost that event for good.           *)
WatermarkIsDelivered ==
  \A s \in issued : s < ackedFile => s \in delivered \cup dropped \cup torn

(* "never reuses an ID" (sensor README:43): no event ever gets the number   *)
(* of an event the consumers already have.                                 *)
DeliveredIdsStayUnique == up => \A s \in delivered : s < nextSeq

(* No record is stranded behind the read cursor: an unacknowledged record  *)
(* the cursor has passed is in the client's queue, or a delivery report    *)
(* for it, or a failed one that will rewind the cursor, is waiting.        *)
NothingStranded ==
  up => \A s \in Unacked(segments, acked) :
          \/ s >= Position(segments, cursor)
          \/ inflight[s] > 0
          \/ <<s, TRUE>> \in reports
          \/ FailedReport

(* Sending goes forward: unless a failed delivery rewinds it, a pump sends *)
(* only records above everything it sent before, so nothing is sent twice  *)
(* even when segments are dropped under the cursor or the client is Full.  *)
SendsGoForward ==
  [][\A s \in Seqs :
       inflight'[s] > inflight[s] /\ ~FailedReport => sentUpTo < s]_vars

(* The running loss total counts every record dropped since the start      *)
(* exactly once, and its sequence range covers them all.                   *)
LossAccounted ==
  /\ cumulative.count + Cardinality(lossDue) = Cardinality(lostSince)
  /\ \A s \in lostSince \ lossDue : cumulative.first <= s /\ s <= cumulative.last

(* "a later report survives even if earlier ones were dropped"             *)
(* (forward.rs:57-58): the newest SPOOL_LOSS event is never lost to the    *)
(* limit itself; it is delivered or still waits in the spool.              *)
LatestReportSurvives ==
  up /\ lossDue = {} /\ lastReport # NoReport =>
    lastReport.seq \in delivered \cup Unacked(segments, acked)

(* The spool never outgrows its limit, also after restarts left short      *)
(* segments behind.                                                        *)
SpoolBounded == TotalBytes(segments) <= MaxBytes

(* Every event that was written reaches the topic or is dropped by the     *)
(* limit, whatever failures and restarts come between.                     *)
EventuallyDelivered ==
  \A s \in Seqs : s \in issued ~> s \in delivered \cup dropped \cup torn

(* "A loss report can itself push the spool over its limit only if a       *)
(* segment is smaller than one record" (forward.rs:161-162): with segments *)
(* that hold any record, the newest report carries the whole loss.         *)
LossFullyReported ==
  up /\ lossDue = {} => lastReport.count = cumulative.count

(* The spool and forwarder implement the abstract outbox. *)
Outbox == INSTANCE EventOutbox WITH
            Event <- Seqs,
            pending <- Unacked(segments, acked),
            dropped <- dropped \cup torn

(* Every step is a step of the outbox: fresh numbers, nothing forgotten    *)
(* before it is delivered or dropped.                                      *)
ImplementsOutbox == Outbox!Spec
=============================================================================
