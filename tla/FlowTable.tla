----------------------------- MODULE FlowTable -----------------------------
(***************************************************************************)
(* The sensor from captured frames to micro-flow records (lib.rs,          *)
(* attribution.rs, the capture loop of main.rs): frames are attributed to  *)
(* a client, gathered in a bounded table of open micro-flows and closed by *)
(* the idle and active timeouts, by a later frame, or by an eviction.      *)
(*                                                                         *)
(* Abstractions.                                                           *)
(*  - A 5-tuple is a TCP connection between two MACs; a flow key is a      *)
(*    connection with the end that is the client.  UDP differs only in     *)
(*    frames it does not have.  Bytes and DNS names are left out.          *)
(*  - Frames carry the time of their capture, in order; they are processed *)
(*    at that time or later, while timeouts are also read off the wall     *)
(*    clock.  Frames that are not IP or malformed change counters only.    *)
(*  - Ties between equally old flows, broken by key, go either way.        *)
(*  - What happens to an emitted record is the subject of SensorSpool.     *)
(***************************************************************************)
EXTENDS Integers, Sequences, FiniteSets, SequencesExt

CONSTANTS
  Conn,         \* connections: [init, resp] MACs, with a name
  Mac,          \* MACs that may be clients
  Capacity,     \* FlowTable.capacity
  IdleTimeout,  \* DEFAULT_IDLE_US
  ActiveTimeout,\* DEFAULT_ACTIVE_US
  TTL,          \* CONTINUATION_TTL_US
  None,         \* no known direction
  MaxTime,      \* bound: the wall clock
  MaxFrames,    \* bound: frames captured
  MaxChanges    \* bound: lease changes and failures of capture

Direction == {"outbound", "inbound"}

ASSUME FlowTableAssumption ==
  /\ Capacity \in Nat \ {0}
  /\ IdleTimeout \in Nat \ {0} /\ ActiveTimeout \in Nat \ {0}
  /\ TTL \in Nat
  /\ None \notin Direction
  /\ MaxTime \in Nat /\ MaxFrames \in Nat /\ MaxChanges \in Nat

VARIABLES
  now,        \* the wall clock
  lastTime,   \* time of the last frame
  capturing,  \* FALSE: capture failed and the process is gone
  leases,     \* clients in dnsmasq's lease file
  clients,    \* Sensor.clients
  entries,    \* FlowTable.entries: key -> open micro-flow
  recent,     \* FlowTable.recent: key -> [direction, flushed]
  out,        \* records closed and not yet emitted
  stats,      \* SensorStats, the counters a health event is made of
  reported,   \* the part of stats that health events told
  (* history, read by properties only *)
  frames,
  seen,       \* key -> frames attributed to it
  emitted,    \* key -> frames of it in emitted records
  lastSeen,   \* key -> time of its last frame
  oriented,   \* keys whose initiator could be told all along
  answered,   \* open flows whose attempt was answered since they opened
  connected,  \* connections the responder accepted
  changes,
  announced   \* sums of the health events

table == <<entries, recent, out>>
counters == <<stats, reported, announced>>
history == <<frames, changes, seen, lastSeen, oriented, answered, connected>>
vars == <<now, lastTime, capturing, leases, clients, table, counters, history, emitted>>

End == {"init", "resp"}
Other(end) == IF end = "init" THEN "resp" ELSE "init"
FlowKey == [conn : Conn, device : End]

(* TCP frames; only a responder sends a SYN-ACK or is quoted by ICMP. *)
Frame ==
  [conn : Conn, kind : {"syn"}, sender : {"init"}]
    \cup [conn : Conn, kind : {"data", "rst"}, sender : End]
    \cup [conn : Conn, kind : {"synack", "unreachable"}, sender : {"resp"}]

Zero == [k \in FlowKey |-> 0]
NoCounts == [unattributed |-> 0, evictions |-> 0]

With(f, k, v) == [x \in DOMAIN f \cup {k} |-> IF x = k THEN v ELSE f[x]]

-----------------------------------------------------------------------------
(* MicroFlow.                                                              *)

Opposite(d) == IF d = "outbound" THEN "inbound" ELSE "outbound"

FromDevice(k, f) == f.sender = k.device

Sender(k, f) == IF FromDevice(k, f) THEN "outbound" ELSE "inbound"

(* MicroFlow::new, for a 5-tuple nothing is known of. *)
Guess(k, f) ==
  IF f.kind \in {"synack", "unreachable"} THEN Opposite(Sender(k, f)) ELSE Sender(k, f)

(* MicroFlow::new *)
NewFlow(k, f, t, known) ==
  [first |-> t, last |-> t,
   direction |-> IF known = None THEN Guess(k, f) ELSE known,
   packets |-> 0,
   initiatingSyn |-> FALSE, established |-> FALSE, rejected |-> FALSE]

FromInitiator(flow, k, f) == FromDevice(k, f) <=> flow.direction = "outbound"

IsAnswer(flow, k, f) == f.kind = "synack" /\ ~FromInitiator(flow, k, f)

(* MicroFlow::record *)
Recorded(flow, k, f, t) ==
  [flow EXCEPT
     !.first = IF t < @ THEN t ELSE @,
     !.last = IF t > @ THEN t ELSE @,
     !.packets = @ + 1,
     !.established = @ \/ IsAnswer(flow, k, f),
     !.initiatingSyn = @ \/ (f.kind = "syn" /\ FromInitiator(flow, k, f)),
     !.rejected = @ \/ (f.kind = "rst" /\ ~FromInitiator(flow, k, f))
                    \/ f.kind = "unreachable"]

(* MicroFlow::attempt_outcome *)
Outcome(flow) ==
  CASE flow.established -> "established"
    [] ~flow.established /\ flow.rejected -> "rejected"
    [] ~flow.established /\ ~flow.rejected /\ flow.initiatingSyn -> "unanswered"
    [] OTHER -> "n/a"

-----------------------------------------------------------------------------
(* FlowTable.  T is a table: its entries, recent and out.                  *)

Table == [entries |-> entries, recent |-> recent, out |-> out]

\* Mutant: a closed flow is forgotten at once.
RememberedNot(T, keys) == T.recent

Remembered(T, keys) ==
  [k \in DOMAIN T.recent \cup keys |->
     IF k \in keys THEN [direction |-> T.entries[k].direction, flushed |-> T.entries[k].last]
     ELSE T.recent[k]]

(* Removing the keys of a sequence from the entries, and close of each in  *)
(* turn; no key occurs twice.                                              *)
Closed(T, order) ==
  [entries |-> Restrict(T.entries, DOMAIN T.entries \ Range(order)),
   recent |-> Remembered(T, Range(order)),
   out |-> T.out \o [i \in DOMAIN order |->
                       [key |-> order[i], flow |-> T.entries[order[i]],
                        outcome |-> Outcome(T.entries[order[i]]),
                        continuation |-> order[i] \in DOMAIN T.recent]]]

Close(T, k) == Closed(T, <<k>>)

Due(flow, t) == t - flow.first >= ActiveTimeout \/ t - flow.last >= IdleTimeout

Full(T) == Cardinality(DOMAIN T.entries) >= Capacity

Oldest(T) ==
  {k \in DOMAIN T.entries : \A x \in DOMAIN T.entries : T.entries[k].last <= T.entries[x].last}

\* Mutant: the evicted flow is dropped.
EvictSilently(T, k) == [T EXCEPT !.entries = Restrict(@, DOMAIN @ \ {k})]

Evict(T, k) == Close(T, k)

(* The end of upsert: the frame opens a flow. *)
Insert(T, k, f, t) ==
  LET known == IF k \in DOMAIN T.recent THEN T.recent[k].direction ELSE None
  IN  [T EXCEPT !.entries = With(@, k, Recorded(NewFlow(k, f, t, known), k, f, t))]

(* upsert: the tables it may leave. *)
Upsert(T, k, f, t) ==
  LET open == k \in DOMAIN T.entries
      closed == IF open THEN Close(T, k) ELSE T
  IN  CASE open /\ ~Due(T.entries[k], t) ->
             {[T EXCEPT !.entries[k] = Recorded(@, k, f, t)]}
        [] ~(open /\ ~Due(T.entries[k], t)) /\ Full(closed) ->
             {Insert(Evict(closed, v), k, f, t) : v \in Oldest(closed)}
        [] OTHER -> {Insert(closed, k, f, t)}

(* UpsertResult::Evicted *)
Evicts(T, k, t) ==
  /\ k \in DOMAIN T.entries => Due(T.entries[k], t)
  /\ Full(IF k \in DOMAIN T.entries THEN Close(T, k) ELSE T)

(* drain, oldest first: the tables it may leave. *)
Drain(T, keys) ==
  {Closed(T, order) :
     order \in {o \in SetToSeqs(keys) :
                  \A i, j \in DOMAIN o : i < j => T.entries[o[i]].first <= T.entries[o[j]].first}}

(* What is left of recent at time t. *)
Forgotten(T, t) ==
  [T EXCEPT !.recent = Restrict(@, {k \in DOMAIN @ : t - @[k].flushed < TTL})]

FlushDue(T, t) ==
  {Forgotten(D, t) : D \in Drain(T, {k \in DOMAIN T.entries : Due(T.entries[k], t)})}

FlushAll(T) == Drain(T, DOMAIN T.entries)

-----------------------------------------------------------------------------
(* Sensor.                                                                 *)

(* Clients::attribute: the source before the destination. *)
Attributed(f) ==
  IF f.conn[f.sender] \in clients THEN {[conn |-> f.conn, device |-> f.sender]}
  ELSE IF f.conn[Other(f.sender)] \in clients
       THEN {[conn |-> f.conn, device |-> Other(f.sender)]}
       ELSE {}

Answers(f) == f.sender = "resp" /\ f.kind # "data"
Handshake(f) == f.kind \in {"syn", "synack", "unreachable"}

(* process_frame, the part the properties remember. *)
Remember(k, f, t, opened) ==
  /\ seen' = [seen EXCEPT ![k] = @ + 1]
  /\ lastSeen' = [lastSeen EXCEPT ![k] = t]
  /\ oriented' =
       IF \/ Handshake(f) /\ (seen[k] = 0 \/ k \in oriented)
          \/ k \in oriented /\ now - lastSeen[k] < TTL
       THEN oriented \cup {k} ELSE oriented \ {k}
  /\ answered' =
       LET before == {x \in answered : x \in DOMAIN entries' /\ ~(x = k /\ opened)}
       IN  before \cup (IF Answers(f) THEN {x \in DOMAIN entries' : x.conn = f.conn} ELSE {})
  /\ connected' = IF f.kind = "synack" THEN connected \cup {f.conn}
                  ELSE IF f.kind = "syn" THEN connected \ {f.conn} ELSE connected

(* process_frame *)
ProcessFrame(f, t) ==
  /\ capturing
  /\ frames < MaxFrames
  /\ t \in lastTime..now
  /\ lastTime' = t
  /\ frames' = frames + 1
  /\ \/ /\ Attributed(f) = {}
        /\ stats' = [stats EXCEPT !.unattributed = @ + 1]
        /\ UNCHANGED <<table, seen, lastSeen, oriented, answered, connected>>
     \/ \E k \in Attributed(f) :
          /\ \E T \in Upsert(Table, k, f, t) :
               /\ entries' = T.entries /\ recent' = T.recent /\ out' = T.out
          /\ stats' = [stats EXCEPT !.evictions = @ + (IF Evicts(Table, k, t) THEN 1 ELSE 0)]
          /\ Remember(k, f, t, k \in DOMAIN entries => Due(entries[k], t))
  /\ UNCHANGED <<now, capturing, leases, clients, reported, announced, emitted, changes>>

-----------------------------------------------------------------------------
(* The capture loop.                                                       *)

(* The packets of k in a sequence of records, counted one by one. *)
PacketsIn(records, k) ==
  Cardinality(UNION {{i} \X (1..records[i].flow.packets) :
                       i \in {j \in DOMAIN records : records[j].key = k}})

(* Sink::emit, of the records of T *)
Emit(T) ==
  /\ entries' = T.entries /\ recent' = T.recent /\ out' = <<>>
  /\ emitted' = [k \in FlowKey |-> emitted[k] + PacketsIn(T.out, k)]

(* Every 20 ms or later: flush_due, emit. *)
Flush ==
  /\ capturing
  /\ \E T \in FlushDue(Table, now) : Emit(T)
  /\ answered' = answered \cap DOMAIN entries'
  /\ UNCHANGED <<now, lastTime, capturing, leases, clients, counters, frames, changes, seen,
                 lastSeen, oriented, connected>>

(* KafkaSink::housekeeping: health events for the counters that moved. *)
TellHealth ==
  /\ announced' = [c \in DOMAIN stats |-> announced[c] + (stats[c] - reported[c])]
  /\ reported' = stats

(* Every 10 s or later. *)
Housekeeping ==
  /\ capturing
  /\ TellHealth
  /\ clients' = leases
  /\ UNCHANGED <<now, lastTime, capturing, leases, table, stats, history, emitted>>

Change == changes < MaxChanges /\ changes' = changes + 1

(* next_packet fails: flush_all, emit, housekeeping, and the process ends. *)
CaptureFails ==
  /\ capturing
  /\ Change
  /\ capturing' = FALSE
  /\ \E T \in FlushAll(Table) : Emit(T)
  /\ TellHealth
  /\ answered' = {}
  /\ UNCHANGED <<now, lastTime, leases, clients, stats, frames, seen, lastSeen, oriented,
                 connected>>

(* The next process knows nothing. *)
Restart ==
  /\ ~capturing
  /\ capturing' = TRUE
  /\ clients' = leases
  /\ recent' = <<>>
  /\ stats' = NoCounts /\ reported' = NoCounts /\ announced' = NoCounts
  /\ seen' = Zero /\ emitted' = Zero /\ lastSeen' = Zero
  /\ oriented' = {} /\ connected' = {}
  /\ UNCHANGED <<now, lastTime, leases, entries, out, frames, changes, answered>>

(* dnsmasq gives or takes back a lease. *)
LeaseChange(m) ==
  /\ Change
  /\ leases' = IF m \in leases THEN leases \ {m} ELSE leases \cup {m}
  /\ UNCHANGED <<now, lastTime, capturing, clients, table, counters, frames, seen, lastSeen,
                 oriented, answered, connected, emitted>>

Tick ==
  /\ now < MaxTime
  /\ now' = now + 1
  /\ UNCHANGED <<lastTime, capturing, leases, clients, table, counters, history, emitted>>

Init ==
  /\ now = 0 /\ lastTime = 0
  /\ capturing = TRUE
  /\ leases = Mac /\ clients = Mac
  /\ entries = <<>> /\ recent = <<>> /\ out = <<>>
  /\ stats = NoCounts /\ reported = NoCounts /\ announced = NoCounts
  /\ frames = 0 /\ changes = 0
  /\ seen = Zero /\ emitted = Zero /\ lastSeen = Zero
  /\ oriented = {} /\ answered = {} /\ connected = {}

Next ==
  \/ \E f \in Frame, t \in 0..now : ProcessFrame(f, t)
  \/ Flush
  \/ Housekeeping
  \/ CaptureFails
  \/ Restart
  \/ \E m \in Mac : LeaseChange(m)
  \/ Tick

Spec == Init /\ [][Next]_vars

-----------------------------------------------------------------------------
(* Properties.                                                             *)

MicroFlow ==
  [first : 0..MaxTime, last : 0..MaxTime, direction : Direction, packets : 1..MaxFrames,
   initiatingSyn : BOOLEAN, established : BOOLEAN, rejected : BOOLEAN]

(* The table has the shape the code gives it and never holds more flows    *)
(* than its capacity (upsert: "Bounded table of open micro-flows").        *)
TypeOK ==
  /\ DOMAIN entries \subseteq FlowKey
  /\ Cardinality(DOMAIN entries) <= Capacity
  /\ \A k \in DOMAIN entries : entries[k] \in MicroFlow
  /\ \A k \in DOMAIN recent : k \in FlowKey /\ recent[k].direction \in Direction
  /\ \A i \in DOMAIN out : out[i].flow \in MicroFlow
  /\ clients \subseteq Mac /\ leases \subseteq Mac

(* Every frame attributed to a client is in exactly one record or open     *)
(* flow.                                                                   *)
FramesAddUp ==
  \A k \in FlowKey :
    seen[k] = emitted[k] + PacketsIn(out, k)
                + (IF k \in DOMAIN entries THEN entries[k].packets ELSE 0)

(* The health events add up to the counters of the process, and no count   *)
(* is left untold when capture fails.                                      *)
HealthAddsUp ==
  /\ \A c \in DOMAIN stats : announced[c] <= stats[c]
  /\ ~capturing => announced = stats

(* Every frame is accounted for, as part of a record or by a health event: *)
(* evictions, flows closed by a later frame, flushes and a failing capture *)
(* lose none and count none twice (upsert, flush_due, flush_all,           *)
(* housekeeping).                                                          *)
EveryFrameReported == FramesAddUp /\ HealthAddsUp

Initiator(k) == IF k.device = "init" THEN "outbound" ELSE "inbound"

(* A connection whose first frame told who began it, and whose pauses were *)
(* shorter than the time a closed flow is remembered, keeps the right      *)
(* direction through every eviction, flush and late frame (MicroFlow::new, *)
(* close: "keep their direction").                                         *)
DirectionIsKept ==
  \A k \in oriented \cap DOMAIN entries : entries[k].direction = Initiator(k)

-----------------------------------------------------------------------------
(* What events.proto says and the code does not do; both are refuted with  *)
(* the constants the README gives (Observations).                          *)

(* events.proto: UNANSWERED means that no answer had been seen when the    *)
(* micro-flow was flushed (record, attempt_outcome).                       *)
UnansweredIsUnanswered ==
  \A k \in DOMAIN entries : Outcome(entries[k]) = "unanswered" => k \notin answered

(* events.proto: REJECTED means that the responder answered the attempt    *)
(* with RST or an ICMP unreachable: not that it ended a connection it had  *)
(* accepted (record).                                                      *)
RejectedIsRejected ==
  \A k \in oriented \cap DOMAIN entries :
    Outcome(entries[k]) = "rejected" => k.conn \notin connected

=============================================================================
