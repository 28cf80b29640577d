---------------------------- MODULE GatewayHealth ----------------------------
(***************************************************************************)
(* How the state of a sensor reaches the live page: health reports of the  *)
(* sensor (forward.rs, main.rs), the topic traffic.health.v2, the table    *)
(* gateway_health (projector.py, db.py), the API's WebSocket handler       *)
(* (main.py) and the page's banner (index.html).                           *)
(*                                                                         *)
(* Abstractions.                                                           *)
(*  - One gateway and one page.  FLOW_TABLE_EVICTION, reported the way of  *)
(*    UNATTRIBUTED, is left out; so are the texts and sequence numbers.    *)
(*  - The spool sends in order and begins again further back after a       *)
(*    failed delivery or a restart (module SensorSpool); that it may drop  *)
(*    a report is left out.  The topic has one partition.                  *)
(*  - The sensor's clock does not go back; it is advanced by housekeeping, *)
(*    which runs at most once per instant.                                 *)
(*  - The projector handles one message at a time, so the topic is what it *)
(*    has not committed yet.                                               *)
(*  - A message to the page arrives in the step that sends it, or the      *)
(*    connection is lost before.                                           *)
(*  - PostgreSQL is external: a transaction is one step, a notification is *)
(*    kept for a session that LISTENs.                                     *)
(***************************************************************************)
EXTENDS Integers, Sequences, FiniteSets, FiniteSetsExt

CONSTANTS
  MaxReports,       \* bound: health reports
  MaxSensorFaults,  \* bound: restarts, failed deliveries, malformed messages
  MaxReaderFaults   \* bound: restarts and lost connections behind the topic

ASSUME HealthAssumption ==
  MaxReports \in Nat /\ MaxSensorFaults \in Nat /\ MaxReaderFaults \in Nat

VARIABLES
  (* the sensor *)
  now,          \* its clock, when housekeeping ran last
  total,        \* Forwarder.cumulative_loss: [count, time]
  reports,      \* the health reports in its spool
  sent,         \* how many of them were sent since the last rewind
  (* the topic and the projector *)
  log,          \* messages behind the committed offset
  applied,      \* the first is in the database, its offset is not committed
  rows,         \* gateway_health: kind -> report, NoReport if there is none
  (* the handler and the page *)
  stage,        \* "closed", "listen", "read", "idle"
  notified,     \* a notification of HEALTH_CHANNEL waits
  shown,        \* state.health
  (* how many faults there were *)
  sensorFaults, readerFaults

sensor == <<now, total, reports>>
projector == <<applied, rows>>
handler == <<stage, notified>>
faults == <<sensorFaults, readerFaults>>
vars == <<sensor, sent, log, projector, handler, shown, faults>>

Loss == "SPOOL_LOSS"
Unattributed == "UNATTRIBUTED"
Heartbeat == "HEARTBEAT"
Kind == {Loss, Unattributed, Heartbeat}

(* count is, for a heartbeat, whether its detail names a problem.          *)
Report(kind, count, time) == [kind |-> kind, count |-> count, time |-> time]
Malformed == Report("", 0, 0)
NoReport == Report("none", 0, 0)
NoRows == [k \in Kind |-> NoReport]

SensorFault ==
  sensorFaults < MaxSensorFaults /\ sensorFaults' = sensorFaults + 1 /\ UNCHANGED readerFaults
ReaderFault ==
  readerFaults < MaxReaderFaults /\ readerFaults' = readerFaults + 1 /\ UNCHANGED sensorFaults

-----------------------------------------------------------------------------
(* The sensor.                                                             *)

(* report_loss: the spool has dropped a segment whose newest event is of   *)
(* time t; the report is about everything lost since the process started.  *)
ReportLoss(t) ==
  /\ Len(reports) < MaxReports
  /\ total' = [count |-> total.count + 1, time |-> Max({total.time, t})]
  /\ reports' = Append(reports, Report(Loss, total'.count, total'.time))
  /\ UNCHANGED <<now, sent, log, projector, handler, shown, faults>>

(* housekeeping: what happened since the last time, and the heartbeat.     *)
Housekeeping(frames, problem) ==
  LET window == IF frames > 0 THEN <<Report(Unattributed, frames, now + 1)>> ELSE <<>>
      new == window \o <<Report(Heartbeat, problem, now + 1)>>
  IN  /\ Len(reports) + Len(new) <= MaxReports
      /\ now' = now + 1
      /\ reports' = reports \o new
      /\ UNCHANGED <<total, sent, log, projector, handler, shown, faults>>

(* The totals begin again; the spool and its order stay.                   *)
SensorRestart ==
  /\ SensorFault
  /\ total' = [count |-> 0, time |-> 0]
  /\ \E n \in 0 .. sent : sent' = n
  /\ UNCHANGED <<now, reports, log, projector, handler, shown>>

(* Forwarder.pump: the next report goes out, or sending begins again at    *)
(* one whose delivery failed.                                              *)
Send ==
  /\ sent < Len(reports)
  /\ sent' = sent + 1
  /\ log' = Append(log, reports[sent + 1])
  /\ UNCHANGED <<sensor, projector, handler, shown, faults>>

Rewind ==
  /\ SensorFault
  /\ \E n \in 0 .. (sent - 1) : sent' = n
  /\ UNCHANGED <<sensor, log, projector, handler, shown>>

(* Something else writes to the topic (external).                          *)
WriteMalformed ==
  /\ SensorFault
  /\ log' = Append(log, Malformed)
  /\ UNCHANGED <<sensor, sent, projector, handler, shown>>

-----------------------------------------------------------------------------
(* The projector.                                                          *)

\* Mutant: a report replaces an older one only.
ReplacesOlder(old, new) == old = NoReport \/ old.time < new.time

(* The WHERE of the upsert.                                                *)
Replaces(old, new) == old = NoReport \/ old.time <= new.time

(* apply_health, one transaction: a row per kind (ON CONFLICT); whoever    *)
(* listens is told of a change.                                            *)
ApplyHealth(r) ==
  IF Replaces(rows[r.kind], r)
  THEN /\ rows' = [rows EXCEPT ![r.kind] = r]
       /\ notified' = (notified \/ stage \in {"read", "idle"})
  ELSE UNCHANGED <<rows, notified>>

Waiting == ~applied /\ log # <<>>

(* Projector._health; a malformed message is skipped.                      *)
Apply ==
  /\ Waiting
  /\ IF Head(log) = Malformed THEN UNCHANGED <<rows, notified>>
     ELSE ApplyHealth(Head(log))
  /\ applied' = TRUE
  /\ UNCHANGED <<sensor, sent, log, stage, shown, faults>>

(* _with_retry: the connection is lost after the commit.                   *)
ApplyUnheard ==
  /\ Waiting /\ Head(log) # Malformed
  /\ ReaderFault
  /\ ApplyHealth(Head(log))
  /\ UNCHANGED <<sensor, sent, log, applied, stage, shown>>

(* Projector.handle, the offset.                                           *)
CommitOffset ==
  /\ applied
  /\ applied' = FALSE
  /\ log' = Tail(log)
  /\ UNCHANGED <<sensor, sent, rows, handler, shown, faults>>

(* It resumes at the committed offset.                                     *)
ProjectorRestart ==
  /\ ReaderFault
  /\ applied' = FALSE
  /\ UNCHANGED <<sensor, sent, log, rows, handler, shown>>

-----------------------------------------------------------------------------
(* The API and the page.                                                   *)

(* A connection is accepted; nothing has been asked of the database.       *)
Connect ==
  /\ stage = "closed"
  /\ stage' = "listen"
  /\ UNCHANGED <<sensor, sent, log, projector, notified, shown, faults>>

\* Mutant: the table is read, and only then LISTEN is sent.
ListenLate ==
  /\ \/ stage = "listen" /\ stage' = "late" /\ shown' = rows
     \/ stage = "late" /\ stage' = "idle" /\ UNCHANGED shown
  /\ UNCHANGED <<sensor, sent, log, projector, notified, faults>>

(* LISTEN, before the table is read.                                       *)
Listen ==
  /\ stage = "listen"
  /\ stage' = "read"
  /\ UNCHANGED <<sensor, sent, log, projector, notified, shown, faults>>

(* Store.health; the page shows what it gets, and the handler waits.       *)
SendHealth ==
  /\ stage = "read"
  /\ stage' = "idle"
  /\ shown' = rows
  /\ UNCHANGED <<sensor, sent, log, projector, notified, faults>>

Wake ==
  /\ stage = "idle" /\ notified
  /\ notified' = FALSE
  /\ stage' = "read"
  /\ UNCHANGED <<sensor, sent, log, projector, shown, faults>>

(* The handler ends; the page keeps what it shows.                         *)
Disconnect ==
  /\ stage # "closed"
  /\ ReaderFault
  /\ stage' = "closed"
  /\ notified' = FALSE
  /\ UNCHANGED <<sensor, sent, log, projector, shown>>

(* renderHealth: the kinds the banner names.                               *)
Problems(health) == {k \in Kind : health[k].count > 0}

-----------------------------------------------------------------------------
Init ==
  /\ now = 0
  /\ total = [count |-> 0, time |-> 0]
  /\ reports = <<>>
  /\ sent = 0
  /\ log = <<>>
  /\ applied = FALSE
  /\ rows = NoRows
  /\ stage = "closed" /\ notified = FALSE
  /\ shown = NoRows
  /\ sensorFaults = 0 /\ readerFaults = 0

Project == Apply \/ CommitOffset
Serve == Connect \/ Listen \/ SendHealth \/ Wake

Next ==
  \/ \E t \in 1 .. now + 1 : ReportLoss(t)
  \/ \E frames \in 0 .. 1, problem \in 0 .. 1 : Housekeeping(frames, problem)
  \/ SensorRestart \/ Send \/ Rewind \/ WriteMalformed
  \/ Project \/ ApplyUnheard \/ ProjectorRestart
  \/ Serve
  \/ Disconnect

(* Every part goes on working; nothing has to be reported.                 *)
Spec ==
  /\ Init /\ [][Next]_vars
  /\ WF_vars(Send) /\ WF_vars(Project) /\ WF_vars(Serve)

-----------------------------------------------------------------------------
(* Properties.                                                             *)

Issued(k) == {n \in DOMAIN reports : reports[n].kind = k}

(* Of the reports of a kind: the last one of the latest event time.        *)
Newest(k) ==
  LET late == {n \in Issued(k) : \A m \in Issued(k) : reports[m].time <= reports[n].time}
  IN  IF late = {} THEN NoReport ELSE reports[Max(late)]

(* When everything sent has been handled, the table has for each kind the  *)
(* newest report, whatever was sent twice, handled twice or interrupted    *)
(* before its offset was committed (apply_health, handle).                 *)
HealthIsNewest ==
  sent = Len(reports) /\ log = <<>> => \A k \in Kind : rows[k] = Newest(k)

(* A loss that was reported appears on the page and is never taken back:   *)
(* no change falls between LISTEN, the first read and the wait (main.py    *)
(* live), and neither other reports nor a restart of the sensor, whose     *)
(* totals begin again, hide it (spec live-threat-notifications, "Ingestion *)
(* loss reported").                                                        *)
LossStaysVisible == (Issued(Loss) # {}) ~> [](Loss \in Problems(shown))

=============================================================================
