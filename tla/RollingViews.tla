---------------------------- MODULE RollingViews ----------------------------
(***************************************************************************)
(* The first half of the detection job for one device: duplicates and late *)
(* events are removed (DedupeAndLateness.java), the rest is kept in two    *)
(* rolling windows whose aggregates are maintained incrementally           *)
(* (DeviceWindows.java), and a view set is emitted whenever an aggregate   *)
(* changes, by a flow or by a processing-time timer (RollingViews.java).   *)
(*                                                                         *)
(* Abstractions.                                                           *)
(*  - A flow is its ID, event time, target and whether the attempt failed. *)
(*    Bytes and remote addresses are left out: where they would make       *)
(*    sameCounts differ, a view set is emitted or not.                     *)
(*  - One device: every operator is keyed by the device.  The channel      *)
(*    between the two operators is a queue that drains before the wall     *)
(*    clock moves on; a timer may fire while a flow is in it.              *)
(*  - The state backend is on the heap, so a change made to a state object *)
(*    stays without an update call.                                        *)
(*  - A timer fires at most TimerDelay late.  A flow reaches the job for   *)
(*    the first time at most MaxLag after its event time.                  *)
(***************************************************************************)
EXTENDS Integers, Sequences, FiniteSets, FiniteSetsExt

CONSTANTS
  Target,            \* (protocol, remote IP, remote port)
  ShortHorizon,      \* 60 s
  LongHorizon,       \* 900 s
  Lateness,          \* 30 s
  FirstTick,         \* 1 s
  Tick,              \* 5 s
  TimerDelay,        \* bound: how late a timer may fire
  MaxLag,            \* bound: how old a flow may be when it first arrives
  MaxNow,            \* bound: last wall time
  MaxFlows,          \* bound: flows of the device
  MaxResent,         \* bound: flows delivered again
  MaxQueue           \* bound: flows between the operators

ASSUME ViewsAssumption ==
  /\ ShortHorizon \in Nat \ {0}
  /\ LongHorizon \in Nat /\ LongHorizon > ShortHorizon
  /\ Lateness \in Nat
  /\ FirstTick \in Nat \ {0}
  /\ Tick \in Nat \ {0}
  /\ TimerDelay \in Nat
  /\ MaxLag \in Nat
  /\ MaxNow \in Nat
  /\ MaxFlows \in Nat
  /\ MaxResent \in Nat
  /\ MaxQueue \in Nat \ {0}

VARIABLES
  now,            \* the wall clock (processing time)
  sent,           \* flows the sensor has sent: each may come again
  resent,         \* flows that did
  (* DedupeAndLateness *)
  deviceClock,    \* greatest event time accepted, or None
  seen,           \* flow ID -> wall time it was remembered
  queue,          \* accepted flows on their way to RollingViews
  (* RollingViews *)
  windows,        \* DeviceWindows, or Null
  lastEventWall,  \* wall time of the last flow that moved the clock, or None
  pendingTimer,   \* the registered timer, or None
  lastViews,      \* the view counts compared with, or NoViews
  (* history, read by properties only *)
  emitted,        \* the view counts sent downstream last
  taken,          \* flows added since the windows were created
  lastFlowWall,   \* wall time of the last flow added
  copies          \* old flows added in a row, with no recent one between them

dedupeVars == <<deviceClock, seen>>
viewVars == <<windows, lastEventWall, pendingTimer, lastViews, emitted, taken, lastFlowWall,
              copies>>
vars == <<now, sent, resent, dedupeVars, queue, viewVars>>

None == -1
NoViews == <<>>
Null == [clock |-> None, horizons |-> <<>>]
FlowId == 1..MaxFlows
Flow == [id : FlowId, time : 0..MaxNow, target : Target, failed : BOOLEAN]
Length == <<ShortHorizon, LongHorizon>>
Retention == LongHorizon + Lateness

One(b) == IF b THEN 1 ELSE 0
Maximum(a, b) == IF a > b THEN a ELSE b

-----------------------------------------------------------------------------
(* DeviceWindows.  A horizon is its contributions in event-time order, the *)
(* latest outcome per target and the number of failed targets.             *)

EmptyHorizon == [contributions |-> <<>>, targets |-> [t \in {} |-> 0], failedTargets |-> 0]
NewTarget == [refs |-> 0, latest |-> None, failed |-> FALSE]

(* Horizon.add, the place in time order: behind the last that is not newer. *)
Place(q, c) == Max({0} \cup {i \in DOMAIN q : q[i].time <= c.time})

Inserted(q, c) ==
  SubSeq(q, 1, Place(q, c)) \o <<c>> \o SubSeq(q, Place(q, c) + 1, Len(q))

\* Mutant: older evidence that arrives late overrides newer evidence.
TargetAlways(t, c) == [refs |-> t.refs + 1, latest |-> c.time, failed |-> c.failed]

(* Horizon.add, the target's latest outcome. *)
TargetWith(t, c) ==
  IF c.time >= t.latest
  THEN [refs |-> t.refs + 1, latest |-> c.time, failed |-> c.failed]
  ELSE [t EXCEPT !.refs = @ + 1]

(* Horizon.add *)
HorizonAdd(h, c) ==
  LET old == IF c.target \in DOMAIN h.targets THEN h.targets[c.target] ELSE NewTarget
      new == TargetWith(old, c)
  IN  [contributions |-> Inserted(h.contributions, c),
       targets |-> [t \in DOMAIN h.targets \cup {c.target} |->
                      IF t = c.target THEN new ELSE h.targets[t]],
       failedTargets |-> h.failedTargets + One(new.failed) - One(old.failed)]

\* Mutant: a contribution at the end of the window still counts.
ExpiredBefore(d, cutoff) == d.time < cutoff

(* Outside the window (clock - length, clock]. *)
Expired(d, cutoff) == d.time <= cutoff

(* Horizon.expire: how many contributions expire, from the first on. *)
Expiring(q, cutoff) ==
  Min({Len(q)} \cup {i - 1 : i \in {j \in DOMAIN q : ~Expired(q[j], cutoff)}})

(* The contributions of a target, by their places. *)
Of(q, t) == {i \in DOMAIN q : q[i].target = t}

(* Horizon.expire *)
HorizonExpire(h, cutoff) ==
  LET n == Expiring(h.contributions, cutoff)
      Gone(t) == Cardinality({i \in Of(h.contributions, t) : i <= n})
      dead == {t \in DOMAIN h.targets : h.targets[t].refs = Gone(t)}
  IN  [contributions |-> SubSeq(h.contributions, n + 1, Len(h.contributions)),
       targets |-> [t \in DOMAIN h.targets \ dead |->
                      [h.targets[t] EXCEPT !.refs = @ - Gone(t)]],
       failedTargets |-> h.failedTargets - Cardinality({t \in dead : h.targets[t].failed})]

NewWindows == [clock |-> None, horizons |-> [i \in 1..2 |-> EmptyHorizon]]

(* DeviceWindows.advanceTo *)
AdvanceTo(w, clock) ==
  IF clock <= w.clock THEN w
  ELSE [clock |-> clock,
        horizons |-> [i \in 1..2 |-> HorizonExpire(w.horizons[i], clock - Length[i])]]

(* DeviceWindows.add *)
WindowsAdd(w, c) ==
  LET v == AdvanceTo(w, Maximum(w.clock, c.time))
  IN  [v EXCEPT !.horizons =
         [i \in 1..2 |-> IF c.time > v.clock - Length[i]
                         THEN HorizonAdd(v.horizons[i], c) ELSE v.horizons[i]]]

IsEmpty(w) == \A i \in 1..2 : w.horizons[i].contributions = <<>>

(* DeviceWindows.views, the counts that sameCounts compares. *)
Counts(w) ==
  [i \in 1..2 |-> [flows |-> Len(w.horizons[i].contributions),
                   targets |-> Cardinality(DOMAIN w.horizons[i].targets),
                   failed |-> w.horizons[i].failedTargets]]

NoCounts == [i \in 1..2 |-> [flows |-> 0, targets |-> 0, failed |-> 0]]

\* Mutant: the contributions are added newest first.
RestoredBackwards(q) ==
  LET after[n \in 0..Len(q)] ==
        IF n = 0 THEN EmptyHorizon ELSE HorizonAdd(after[n - 1], q[Len(q) + 1 - n])
  IN  after[Len(q)]

(* DeviceWindowsSerializer writes the clock and the contributions; restore *)
(* adds them again in their order.                                         *)
RestoredHorizon(q) ==
  LET after[n \in 0..Len(q)] ==
        IF n = 0 THEN EmptyHorizon ELSE HorizonAdd(after[n - 1], q[n])
  IN  after[Len(q)]

Restored(w) ==
  [clock |-> w.clock,
   horizons |-> [i \in 1..2 |-> RestoredHorizon(w.horizons[i].contributions)]]

-----------------------------------------------------------------------------
(* DedupeAndLateness.processElement, of a new flow or one sent before.     *)

\* Mutant: IDs are forgotten after the long horizon alone.
RemembersBriefly(id) == id \in DOMAIN seen /\ now - seen[id] < LongHorizon

(* seen.contains: entries older than the retention are never returned. *)
Remembers(id) == id \in DOMAIN seen /\ now - seen[id] < Retention

Remember(id) ==
  seen' = [i \in DOMAIN seen \cup {id} |-> IF i = id THEN now ELSE seen[i]]

TooLate(c) == deviceClock # None /\ c.time < deviceClock - Lateness

Receive(c) ==
  /\ Len(queue) < MaxQueue
  /\ \/ c \in sent /\ resent < MaxResent /\ resent' = resent + 1
     \/ /\ c.id = Cardinality(sent) + 1 /\ c.time \in (now - MaxLag)..now
        /\ UNCHANGED resent
  /\ sent' = sent \cup {c}
  /\ \/ /\ Remembers(c.id)
        /\ UNCHANGED <<dedupeVars, queue>>
     \/ /\ ~Remembers(c.id) /\ TooLate(c)
        /\ Remember(c.id)
        /\ UNCHANGED <<deviceClock, queue>>
     \/ /\ ~Remembers(c.id) /\ ~TooLate(c)
        /\ Remember(c.id)
        /\ deviceClock' = Maximum(deviceClock, c.time)
        /\ queue' = Append(queue, c)
  /\ UNCHANGED <<now, viewVars>>

-----------------------------------------------------------------------------
(* RollingViews.                                                           *)

\* Mutant: changes of the failed targets alone are not noticed.
CountsChangedFlows(old, new) ==
  old = NoViews \/ \E i \in 1..2 : old[i].flows # new[i].flows

(* emitChanged compares with the views of the last call. *)
CountsChanged(old, new) == old = NoViews \/ old # new

(* emitChanged, what goes downstream; bytes and remote addresses may differ *)
(* where these counts do not.                                              *)
EmitChanged(w) ==
  \/ emitted' = Counts(w)
  \/ ~CountsChanged(lastViews, Counts(w)) /\ UNCHANGED emitted

(* schedule replaces the registered timer. *)
Schedule(at) == pendingTimer' = at

(* Too old to come for the first time: the flow was delivered before. *)
OldFlow(c) == c.time < now - MaxLag

(* RollingViews.processElement *)
ProcessElement ==
  LET c == Head(queue)
      w == IF windows = Null THEN NewWindows ELSE windows
      v == WindowsAdd(w, c)
  IN  /\ queue # <<>>
      /\ queue' = Tail(queue)
      /\ windows' = v
      /\ lastEventWall' = IF v.clock > w.clock THEN now ELSE lastEventWall
      /\ EmitChanged(v)
      /\ lastViews' = Counts(v)
      /\ Schedule(now + FirstTick)
      /\ taken' = (IF windows = Null THEN {} ELSE taken) \cup {c}
      /\ lastFlowWall' = now
      /\ copies' = IF windows # Null /\ OldFlow(c) THEN copies + 1 ELSE 0
      /\ UNCHANGED <<now, sent, resent, dedupeVars>>

(* The newest event time in the windows, that of a last contribution, else *)
(* their clock.                                                            *)
LatestEventTime(w) ==
  IF IsEmpty(w) THEN w.clock
  ELSE Max({w.horizons[i].contributions[Len(w.horizons[i].contributions)].time :
              i \in {j \in 1..2 : w.horizons[j].contributions # <<>>}})

\* Mutant: the silent clock does not move.
SilentClockStands(w, timestamp) == LatestEventTime(w)

(* onTimer: the clock at the last event plus the silence since then. *)
SilentClock(w, timestamp) ==
  LatestEventTime(w)
    + (IF lastEventWall = None THEN 0 ELSE Maximum(0, timestamp - lastEventWall))

(* RollingViews.onTimer; the timestamp is the one the timer was set for. *)
OnTimer ==
  LET timestamp == pendingTimer
      w == AdvanceTo(windows, SilentClock(windows, timestamp))
      changed == w.horizons # windows.horizons
  IN  /\ pendingTimer # None /\ pendingTimer <= now
      /\ windows # Null
      /\ IF changed THEN EmitChanged(w) ELSE UNCHANGED emitted
      /\ \/ /\ IsEmpty(w)
            /\ windows' = Null
            /\ lastEventWall' = None
            /\ lastViews' = NoViews
            /\ pendingTimer' = None
            /\ taken' = {}
            /\ copies' = 0
         \/ /\ ~IsEmpty(w)
            /\ windows' = w
            /\ lastViews' = IF changed THEN Counts(w) ELSE lastViews
            /\ UNCHANGED <<lastEventWall, taken, copies>>
            /\ Schedule(timestamp + Tick)
      /\ UNCHANGED <<now, sent, resent, dedupeVars, queue, lastFlowWall>>

Pass ==
  /\ now < MaxNow /\ queue = <<>>
  /\ pendingTimer = None \/ now < pendingTimer + TimerDelay
  /\ now' = now + 1
  /\ UNCHANGED <<sent, resent, dedupeVars, queue, viewVars>>

Init ==
  /\ now = 0
  /\ sent = {}
  /\ resent = 0
  /\ deviceClock = None
  /\ seen = [i \in {} |-> 0]
  /\ queue = <<>>
  /\ windows = Null
  /\ lastEventWall = None
  /\ pendingTimer = None
  /\ lastViews = NoViews
  /\ emitted = NoCounts
  /\ taken = {}
  /\ lastFlowWall = 0
  /\ copies = 0

Next ==
  \/ \E c \in Flow : Receive(c)
  \/ ProcessElement
  \/ OnTimer
  \/ Pass

Spec == Init /\ [][Next]_vars

-----------------------------------------------------------------------------
(* Properties.                                                             *)

(* Types; a device has a timer exactly as long as it has windows, so that  *)
(* its evidence is sure to expire (RollingViews.schedule, onTimer).        *)
TypeOK ==
  /\ now \in 0..MaxNow
  /\ sent \subseteq Flow
  /\ resent \in 0..MaxResent
  /\ deviceClock \in 0..MaxNow \cup {None}
  /\ DOMAIN seen \subseteq FlowId /\ \A i \in DOMAIN seen : seen[i] \in 0..now
  /\ Len(queue) <= MaxQueue /\ \A i \in DOMAIN queue : queue[i] \in sent
  /\ windows = Null \/ (windows.clock \in Nat /\ DOMAIN windows.horizons = 1..2)
  /\ lastEventWall \in 0..now \cup {None}
  /\ pendingTimer \in Nat \cup {None}
  /\ pendingTimer = None <=> windows = Null
  /\ taken \subseteq sent
  /\ copies \in Nat

Items(h) == {h.contributions[i] : i \in DOMAIN h.contributions}

(* The window (clock - length, clock] of each horizon holds exactly the    *)
(* flows taken since the windows were created that fall into it, in event- *)
(* time order, whatever the order they came in and however the clock moved *)
(* (DeviceWindows.add, advanceTo, Horizon.add, Horizon.expire).            *)
WindowIsExact ==
  windows # Null =>
    \A i \in 1..2 :
      LET q == windows.horizons[i].contributions IN
      /\ Items(windows.horizons[i]) =
           {c \in taken : c.time > windows.clock - Length[i] /\ c.time <= windows.clock}
      /\ \A j, k \in DOMAIN q : j < k => q[j].time <= q[k].time

(* The outcome of a target by definition: that of its last contribution in *)
(* time order.                                                             *)
FailedIn(h) ==
  {t \in {c.target : c \in Items(h)} :
     h.contributions[Max(Of(h.contributions, t))].failed}

(* The incrementally maintained aggregates are those a recomputation from  *)
(* the contributions would give: the targets present, how many flows each  *)
(* has, and the targets whose latest attempt failed (Horizon.add, expire). *)
AggregatesMatch ==
  windows # Null =>
    \A i \in 1..2 :
      LET h == windows.horizons[i] IN
      /\ DOMAIN h.targets = {c.target : c \in Items(h)}
      /\ \A t \in DOMAIN h.targets :
           h.targets[t].refs = Cardinality(Of(h.contributions, t))
      /\ h.failedTargets = Cardinality(FailedIn(h))

(* A checkpoint holds only the clock and the contributions; rebuilding the *)
(* aggregates from them (DeviceWindowsSerializer, DeviceWindows.restore)   *)
(* gives the windows the running job had, latest outcomes included.        *)
RestoreSame == windows # Null => Restored(windows) = windows

(* What the rule was told last are the device's current counts, zero once  *)
(* the windows are dropped (RollingViews.emitChanged, onTimer): evidence   *)
(* never lingers downstream after it expired here.                         *)
DownstreamCurrent ==
  emitted = IF windows = Null THEN NoCounts ELSE Counts(windows)

(* A silent device's windows are dropped within the long horizon and one   *)
(* tick of its last flow, plus what timers are late (RollingViews.onTimer  *)
(* with the timers schedule registers).                                    *)
SilenceForgets ==
  windows # Null =>
    now - lastFlowWall <= LongHorizon + Maximum(FirstTick, Tick) + TimerDelay

(* No flow is counted twice at the same time, though any flow may be       *)
(* redelivered: the IDs are remembered long enough for the first copy to   *)
(* have left the windows (DedupeAndLateness retention), unless old flows   *)
(* keep replacing the silence timer (RollingViews.schedule).               *)
CountedOnce ==
  windows # Null =>
    \A i \in 1..2 :
      LET q == windows.horizons[i].contributions IN
      \A j, k \in DOMAIN q : q[j].id = q[k].id => j = k

(* How far the windows may fall behind the wall clock: the lag of a recent *)
(* flow, and a tick and a late timer for each old flow that follows it.    *)
Slack(n) == MaxLag + n * (Maximum(FirstTick, Tick) + TimerDelay)

(* The lateness that the retention has on top of the long horizon makes up *)
(* for it.                                                                 *)
CopiesAreFew ==
  \A i \in DOMAIN queue : Slack(IF OldFlow(queue[i]) THEN copies + 1 ELSE 0) <= Lateness

(* docs/STREAMING-DETECTION.md:18: during silence a timer "moves the device *)
(* clock forward by the wall time since the device's last event".  Event   *)
(* times are never in the future, so the clock would not pass the wall     *)
(* clock and evidence would not expire early (RollingViews.onTimer).       *)
ClockBehindWall == windows # Null => windows.clock <= now

(* How far it passes the wall clock at most: beyond the long horizon it    *)
(* would leave all evidence behind, and onTimer drops such windows.        *)
ClockNearWall == windows # Null => windows.clock < now + LongHorizon

=============================================================================
