# pi-agents: a TLA+ model of the detection path

pi-agents watches the IoT devices of a Wi-Fi gateway. A sensor on the gateway
turns captured frames into flow records and hands them to Kafka; a Flink job
finds port scans; a projector writes incidents to PostgreSQL; an API pushes them
to a live page. Next to that an agent runs the access point itself. This
directory models that path from the captured frame to the browser, the gateway
agent and the research runs that produce labelled traffic, checks the models
with TLC and proves their safety properties with TLAPS.

## 1. The system

| part | code | state it keeps | operations |
|---|---|---|---|
| flow table, attribution | `sensors/rust-sensor/src/lib.rs`, `attribution.rs`, loop of `main.rs` | open micro-flows, directions of recently closed ones, clients, counters | `process_frame` (attribute, upsert, evict), `flush_due`, `flush_all`, lease reload, housekeeping |
| spool, forwarder | `spool.rs`, `forward.rs`, `kafka.rs` | segment files, `sequence`, `acked`, read cursor, acknowledgement bits, running loss | `append` (reserve, rotate, enforce limit), `submit_*`, `report_loss`, `pump`, `ack`, `rewind`, `sync`, `open` |
| dedupe and lateness | `DedupeAndLateness.java` | seen IDs (TTL), device clock | `processElement` |
| rolling views | `DeviceWindows.java`, `DeviceWindowsSerializer.java`, `RollingViews.java` | contributions and aggregates of two horizons, device clock, timer, last views | `processElement`, `onTimer`, checkpoint and restore |
| port-scan rule | `PortScanRule.java`, `RuleState.java`, `PortScanDetector.java` | incident status, revision, hold, cooldown, clock, timer | `onViews`, `onClock`, `evaluate`, `finish` |
| feature throttle | `FeatureThrottle.java` | last sent, pending view set | not modelled |
| projector | `images/incident-projector/app` | offset, tables `incident_transitions`, `incidents`, `incident_feed`, `gateway_health` | `apply_transition`, `apply_health`, `_with_retry`, offset commit, `prune_feed` |
| incident API, live page | `images/incident-api/app/main.py`, `static/index.html` | last cursor sent, notifications; rows shown, health shown, cursor | snapshot, changes, reset, health, wake, ping; `onmessage`, `onclose`, reconnect, banner |
| gateway agent | `images/gateway-agent/app` | `wifi_config.json`, snapshot, `last_apply.json`, two processes, iptables rules | apply, rollback, restore, block, unblock, start, stop |
| research runner | `research.py`, `scripts/research-traffic-runner.py` | plan, current phase, stop flag; `markers.jsonl`, `status.json`, `summary.json` | plan, detach, start and reap a phase, gap, signal, report |
| traffic generators | `scripts/port-sweep.py`, `scripts/iot-device-emulator.py` | cycle, pairs left, deadline, stop flag; `summary.json` | look up targets, cycle, probe, signal, report |
| parsing, encoding, serializers, wiring, schemas, other scripts, charts, CI | see `components` in PROJECT.json | none | not modelled |

How they interact. Sensor and job are coupled by Kafka topics, at least once:
the spool may send a record again, in another order, after any failure, and the
event ID (made of the sequence number) is what makes a copy recognisable.
In the job three keyed operators pass flows, view sets and transitions on; each
has processing-time timers beside its input. The job's transitions go to the
projector through a topic it reads uncommitted, so it sees every copy of a
replay and recognises it by (incident, revision). Projector and API share the
database and `NOTIFY`; API and page share a socket that breaks at any time.
Losses and problems of the sensor travel the same way as its flows, as health
reports with running totals. A research run stands beside all this: a runner
starts one traffic generator per phase, and the markers it writes are the ground
truth that detection results are compared with; launcher, runner and generator
share files, exit codes and the signals of the operator.

What is hard here: a crash or power cut between two file operations; delivery
reports in any order, failing after the broker has the record; a spool at its
limit dropping what is being sent; frames processed late while timeouts follow
the wall clock; flows out of event-time order, duplicated long after the first
copy; two clocks (event time and processing time) advanced by two sources;
commits to two systems that cannot be atomic; a reader that catches up while the
feed grows and is pruned; commands of an apply failing halfway; totals that
begin again with a restarted process and meet older ones; a signal that reaches
one of two processes between any two steps of either.

## 2. Modules

| module | models | composed with |
|---|---|---|
| `EventOutbox` | abstract: what the delivery path promises (fresh numbers, nothing forgotten unless delivered or dropped, at least once) | refined by `SensorSpool` |
| `SensorSpool` | spool, forwarder, housekeeping, Kafka client, crashes, power cuts | instantiates `EventOutbox` |
| `SensorSpoolProofs` | theorems about `SensorSpool` | extends it |
| `FlowTable`, `MCFlowTable`, `FlowTableProofs` | frames to micro-flow records | |
| `RollingViews`, `MCRollingViews`, `RollingViewsProofs` | dedupe and windows of one device | two operators with a queue between them |
| `PortScan`, `MCPortScan` | rule and detector of one device | |
| `PortScanProofs` | theorems about `PortScan` | extends it |
| `IncidentProjector` | projector and its tables | |
| `IncidentFeed` | API handler, socket, page | extends `IncidentProjector` |
| `IncidentFeedProofs` | theorems about both | extends `IncidentFeed` |
| `GatewayHealth`, `GatewayHealthProofs` | health reports from the sensor to the page's banner | sensor, topic, projector, API, page |
| `GatewayAgent`, `GatewayAgentProofs` | the agent, its files, processes and firewall | |
| `TrafficChild` | the traffic generator of one phase, a sweep or the emulator | |
| `ResearchRun`, `MCResearchRun`, `ResearchRunProofs` | launcher, runner and operator of a research run | extends `TrafficChild` |

State and actions carry the names of the code; PROJECT.json maps each definition
to its lines. The conventions are the same everywhere: variables under
"history" are written by the model for the properties and never read by an
action; a constant commented "bound" limits the model and has no counterpart in
the code; an operator under a "Mutant" comment is a plausible bug of the
definition below it, and no specification uses it.

**SensorSpool.** One thread runs every handler, so a handler is one step, except
where a crash can cut it: `append` and `report_loss` are separate steps,
`CrashInAppend` unlinks old segments without writing the record, and
`housekeeping` is a sequence of chores. A segment is its first number and its
record count. `Crash` keeps everything written; `PowerCut` also tears unsynced
records off the end, leaves the never-synced `acked` file empty or old and,
unless `RenameDurable`, undoes the last rename of `sequence`. `BrokerAppend` and
`BrokerFail` are the external client: any order, an error although the broker
has the record.

**FlowTable.** A frame is a connection, a kind and a sender; it is processed at or
after its capture time, in capture order. `Upsert` is the set of tables the code
may leave: ties between equally old victims go either way; so is `Drain`. The
table's `FlushDue` uses the wall clock, as the capture loop does. `CaptureFails` is the
error exit of the loop, followed by `Restart` with empty memory.

**RollingViews.** `Receive` is the dedupe operator and `ProcessElement`, `OnTimer` are
the view operator. `EmitChanged` may send a view set although the counts are the
same, since bytes and remote addresses, which the code compares too, are not in
the model. `Restored` is what serialising and restoring the state yields. The
history variable `copies` counts the old flows added in a row, those that can only
be redeliveries because they are older than `MaxLag`.

**PortScan.** View sets are arbitrary, with a window end at most `ViewSkew` from the
wall clock. Normally that is lag, tick and timer delay, seconds; but the clock of
`RollingViews` may run ahead (section 5), while it has evidence by up to the long
horizon (`ClockStaysNear`). `SilentClock` is the clock a timer evaluates with. `None`
stands for `Long.MIN_VALUE`, a time before that of any view, and for no timer.

**IncidentProjector, IncidentFeed.** The topic may hold any transitions in any
order and number, and malformed messages. `Apply` and `CommitOffset` are two steps;
`ApplyUnheard` and `ApplyRolledBack` are the two ways a retried transaction can
have ended. In the feed every SQL statement is one step, `changes()` therefore
two (`ReadOldest`, `ReadRows`). The constants `PruneAll` and `PruneInRead` switch on the
two prunings that break the protocol (section 5).

**GatewayAgent.** `_apply_locked` is a sequence of steps under the lock (`pc`), each of
which may raise; blocks are not under the lock. `Ensured(fw, c, made, n)` is the firewall
after the chains `made` and the first `n` of the six commands that raise;
`PartlyEnsured` are those a failure or a kill on the way leaves behind.
A chain that could not be made is noticed only by the jump to it. `Teardown(n, more)` is
the first `n` of teardown's nine commands, of which any may fail without being
noticed: `Abandon` and `Disable` take all nine, `CrashInTeardown` fewer. A failed
command changes nothing; the rule for replies comes and goes with the ACCEPT rule.
`wanted` and `wiped` record which devices requests have blocked and whose rules a
flushed chain or a reboot has removed since.

**GatewayHealth.** One path through five programs: `ReportLoss` and `Housekeeping` write
reports, `Send` and `Rewind` are the forwarder, `Apply`, `ApplyUnheard` and `CommitOffset` the
projector, `Connect`, `Listen`, `SendHealth` and `Wake` the handler. A report is its kind,
count and event time; a loss report's time is that of the newest event lost, so
two reports can have the same time and different totals. `SensorRestart` sets the
totals to zero and keeps the spool.

**TrafficChild, ResearchRun.** `child` is the process the runner waits for, from `Spawn`
to its exit code. A sweep handles signals from `SweepBoot` on, the emulator never.
One flag stands for the deadline that the program at work looks at, the child's
or the gap's. The plan is chosen at the start, a shuffled preset or a list of
phases. The runner's steps are the code between two looks at `STOP_REQUESTED`; the
operator interrupts the runner, the child or, attached, both at once.

## 3. Runs

| run | bounds | what it shows |
|---|---|---|
| `spool_crash` | 5 numbers, segments of 2 bytes, limit 4, one crash or power cut, health twice as long as a flow | `NoEventVanishes`: an issued event is in the spool, delivered, dropped by the limit or torn off. `NumbersNeverReused`. `WatermarkIsDelivered`: the file `acked` never covers an undelivered event. `LossAccounted`: the running loss equals what was dropped. `SpoolBounded`. `ImplementsOutbox`: refinement of `EventOutbox` |
| `spool_failure` | 5 numbers, one failed delivery, two queued copies | `NothingStranded`: no unsent, unacknowledged record is behind the cursor. `SendsGoForward`: nothing is sent twice unless sending went back. `LatestReportSurvives`: the newest loss report is never dropped undelivered |
| `spool_live` | 3 numbers, one crash, two failures | `EventuallyDelivered` |
| `flows` | table of 1, two connections, 3 frames, 5 instants, one lease change or failure | `EveryFrameReported`: conservation of frames through evictions, flushes, restarts; health events account for the rest. `DirectionIsKept`: a continued flow has the direction of the connection |
| `views` | two targets, 3 flows, one redelivered, 8 instants, timers up to 1 late | `WindowIsExact`, `AggregatesMatch`, `RestoreSame`: incremental state equals its definition. `DownstreamCurrent`: the rule was told the current counts. `SilenceForgets`, `CountedOnce` |
| `views_clock` | one target, 2 flows | refutes `ClockBehindWall` (finding) |
| `scan` | thresholds 2 and 6, 3 view sets, 11 instants, skew 1, timers up to 1 late | `TransitionIdsUnique`: none is used twice, over dropped rule states too. `IncidentIsCurrent`: the last transition shows what the views show. `ResolveHeld`, `CooldownDecides`, `SilenceResolves`: hold and cooldown up to the clock's error |
| `feed` | one incident, 2 revisions, 3 messages, one projector fault, 2 disconnects, batches of 1 | `NothingSkipped`, `FedOnce`, `NewestShown` of the database; `PageIsCurrent`, `CursorCovers`, `PageCatchesUp` of the page |
| `feed_empty` | as `feed`, two incidents, the feed may be pruned to nothing | refutes `PageIsCurrent` (finding) |
| `gateway` | two enabled and one disabled configuration, two devices, 3 faults, 6 requests | `SnapshotWasGood`: a snapshot is a configuration that ran. `AcceptIsGuarded`: as long as an access point is served the block chain comes first, whatever failed or interrupted setups and teardowns left behind. `OneConfigServed`. `BlockKept`: a blocked device stays in the block chain, which comes first as long as an access point is served, unless the chain was flushed since |
| `health` | 3 reports, one fault on each side of the topic | `HealthIsNewest`: once everything sent is handled, the table has the newest report of each kind. `LossStaysVisible`: a reported loss appears on the page and is never taken back |
| `research` | plans of up to 3 phases, two targets, one port, 2 cycles, 2 signals, attached and detached | `TrafficInWindow`: traffic lies between the markers of its own phase. `PassedPhaseCovered`: a passed phase left a summary of full coverage that no other phase overwrote. `OutcomeIsTrue`: exit code, summary and status agree with what happened. `WindowsAddUp`: the markers account for every phase and gap. `StopIsObeyed` |

Every property of a passing run has a mutant in PROJECT.json, a plausible bug in
the code it is about, under which TLC finds the property violated in that run.

Why the bounds are enough. In the spool a segment holds two records, the limit
two segments, and five numbers fill it, rotate, drop and report a loss that
itself drops a segment; one crash at any point of that is what the protocol has
to survive, and a second one starts from states the first reached (the proofs
have no bound). A table of one makes every second flow evict; three frames reach
open, close and continue. Three flows are the least for an order between two
that expire and one that arrives late; with two targets symmetry is sound, as
nothing orders targets. `views` keeps lag, tick and timer delay together below the
lateness (1 + 1 + 1 < 4; 5 s ticks against 30 s in the code) and redelivers one flow,
so `CopiesAreFew` (section 4) holds throughout: beyond that a flow that comes again
after its ID was forgotten can meet its first copy, whose window clock lags the wall clock. Three view sets open, clear and reopen an
incident. Incidents do not influence one another in the projector and the
page, so one with two revisions suffices; batches of one make every catch-up end
on a full batch. Three faults are a failed command, a crash and a reboot; six
requests block two devices, take one back and apply three times in between.
Three health reports are two losses of one event time and a heartbeat, or two
processes' totals; each can be sent again, handled twice and read at any moment.
In a research run three phases have a first, a middle and a last, one profile
occurs twice, and two cycles are one more than `--repeat`; of two signals the
second can come while the first is still unanswered. A child that has used up its
cycles waits for its deadline, as it would while cycling on.

`CHECK_DEADLOCK FALSE` stands where the bounded clock or the bounded requests end
a behaviour, and in `research`, whose runs end; in the spool and the flow table some
step is always possible.

Fairness. `spool_live`: `SF(PumpToEnd)` - the capture loop calls `pump` at least every
20 ms and the client's queue has room again and again; `WF` of the chores and of
`Open` - the loop runs housekeeping and the kubelet restarts the sensor;
`SF(BrokerAppend(s))` - a record queued again and again is some time accepted (the
producer retries without a message timeout). `feed`: `WF(Serve)` - the handler's
coroutine runs and the page reconnects (`setTimeout` in `onclose`); `WF(OnMessage)` -
what the socket carries arrives. `health`: `WF` of `Send` (the loop pumps), of `Project`
(the consumer polls) and of `Serve` (as in `feed`). `research`: `WF` of the launcher, the
runner and the child, which are running processes, and of `Expire`, the clock. No
fairness is assumed of faults, signals, disconnects or, in `feed`, of the
projector.

## 4. Proofs

TLAPS proves the following for every value of the constants that satisfies the
`ASSUME` of the module: thresholds, sizes and delays as well as all bounds (numbers
issued, crashes, failures, messages, requests, signals) are arbitrary, so these
results have none of the bounds of section 3.

| theorem | states | hypothesis |
|---|---|---|
| `SensorSpoolProofs!TypeCorrect` | `TypeOK` | |
| `EventsAreKept` | `NoEventVanishes` | |
| `WatermarkIsSafe` | `WatermarkIsDelivered` | |
| `NumbersAreFresh` | `NumbersNeverReused` | `RenameDurable` |
| `SpoolImplementsOutbox` | `ImplementsOutbox` | `RenameDurable` |
| `NothingIsStranded` | `NothingStranded` | |
| `LossIsAccounted` | `LossAccounted` | |
| `NewestReportSurvives` | `LatestReportSurvives` | |
| `SendingGoesForward` | `SendsGoForward` (action property) | |
| `SpoolStaysBounded` | `SpoolBounded` | `RecordsFit` |
| `FlowTableProofs!FramesAreReported` | `EveryFrameReported` | |
| `DirectionsAreKept` | `DirectionIsKept` | |
| `TableIsBounded` | at most `Capacity` open flows (part of `TypeOK`) | |
| `RollingViewsProofs!ViewsTypeCorrect` | `TypeOK` | |
| `WindowsAreExact` | `WindowIsExact` | |
| `AggregatesAlwaysMatch` | `AggregatesMatch` | |
| `RestoresAreSame` | `RestoreSame` | |
| `DownstreamIsCurrent` | `DownstreamCurrent` | |
| `SilenceIsForgotten` | `SilenceForgets` | |
| `EachIsCountedOnce` | `CountedOnce` | `[]CopiesAreFew` |
| `ClockStaysNear` | `ClockNearWall`: the clock passes the wall clock by less than `LongHorizon` | |
| `PortScanProofs!IncidentsAreCurrent` | `IncidentIsCurrent` | |
| `SilenceAlwaysResolves` | `SilenceResolves` | |
| `ResolvesAreHeld` | `ResolveHeld` (action property) | |
| `CooldownsDecide` | `CooldownDecides` (action property) | |
| `IdsAreUnique` | `TransitionIdsUnique` | `SkewIsSmall` |
| `IncidentFeedProofs!NothingIsSkipped` | `NothingSkipped` | |
| `EachIsFedOnce` | `FedOnce` | |
| `NewestIsShown` | `NewestShown` | |
| `CursorsCover` | `CursorCovers` | `~PruneAll`, `~PruneInRead` |
| `PagesAreCurrent` | `PageIsCurrent` | `~PruneAll`, `~PruneInRead` |
| `GatewayHealthProofs!HealthStaysNewest` | `HealthIsNewest` | |
| `GatewayAgentProofs!SnapshotsAreGood` | `SnapshotWasGood` | |
| `AcceptStaysGuarded` | `AcceptIsGuarded` | |
| `OneConfigIsServed` | `OneConfigServed` | |
| `BlocksAreKept` | `BlockKept` | |
| `ResearchRunProofs!TrafficStaysInWindow` | `TrafficInWindow` | |
| `PassedPhasesAreCovered` | `PassedPhaseCovered` | |
| `OutcomesAreTrue` | `OutcomeIsTrue` | |
| `WindowsAlwaysAddUp` | `WindowsAddUp` | |

The hypotheses, and what happens without them:

- `RenameDurable` - a rename survives a power cut. Without it a number can be issued
  again (`DeliveredIdsStayUnique`, section 5).
- `RecordsFit` - a single record fits the spool's limit. The code checks only that
  the limit is two segments (`spool.rs:228`); with 64 MiB segments every record of
  the sensor fits. A longer one is written once only the last segment is left.
- `SkewIsSmall` - twice the error of the device clock is less than hold and cooldown
  together (60 s and 300 s in the code). The code guarantees that only as long as
  the clock does not run far ahead: `ClockStaysNear` bounds that by 900 s. Without
  it a new incident can begin at the very device time at which a dropped one
  began, and so gets its ID: TLC finds that with `ViewSkew = 4` in `PortScan.cfg`.
- `~PruneAll`, `~PruneInRead` - the two prunings of section 5 that break the protocol.
- `CopiesAreFew` - what an ID is remembered for exceeds the long horizon by the
  lateness, and the windows' clock may not fall further than that behind the
  wall clock. A recent flow leaves it behind by at most its lag; an old one added
  after it replaces the timer and so can hold the clock back by another tick and
  timer delay. `Slack(n)` is the sum for `n` old flows with no recent one in between.
  With 30 s of lateness and ticks of 5 s about five in a row are harmless; each
  must have been forgotten by the dedupe operator before it came. Nothing
  in the code enforces it: section 5 shows `CountedOnce` fail without it.

None of these properties is inductive. Each module defines the inductive
invariant, proves one lemma per action and puts them together at its end; TLC
checked each of these invariants on the instance of the module's run, too.

**SensorSpool.** That an event is still in some segment after an append depends on
segments not overlapping, and that a deleted segment's records were delivered
depends on what an acknowledgement bit means. `IInv` therefore adds to `TypeOK`,
`NoEventVanishes` and `WatermarkIsDelivered`: segments are disjoint and ascending
(`SegmentsInOrder`); an open writer is at the end of the last one (`WriterAtEnd`);
housekeeping syncs only behind an append (`SyncAfterAppend`); acknowledged records
and stored ones below the watermark are in the topic (`AcksAreDelivered`); what is
stored or queued was issued (`OnlyIssued`); watermark, `nextSeq` and the sequence file
are in order (`NumbersAhead`). The callers of `append` share `AppendEffect` (the
directory after rotation and limit). The refinement adds `DownForgets` and maps each
action to an outbox step or a stutter.
The theorems from `NothingIsStranded` on rest on `JInv`, which adds where the
cursor stands (`CursorInside`), what a process at rest or down holds (`AtRest`),
that all before the cursor was sent (`SentBefore`), that what is lost is below
what is stored (`LostBelow`), and where the newest report is (`ReportKept`). For
the limit, the oldest segment that stays fits together with everything younger,
and what stays is counted by the cardinalities of the sets of its records.

**FlowTable.** `upsert`, a flush and a failing capture are compositions of the same few
changes of a table: closing flows in some order, forgetting closed ones, opening a
flow, adding a frame to one. `KeyOK` says of one key what the table knows of it,
given its history: the frames in records and in the open flow make up those seen
and not yet emitted; open flow and remembered one have the key's last time and, of
an oriented key, its direction; and an oriented key the table knows nothing of was
silent for the TTL. Each change keeps `KeyOK` of every key, so their
compositions do. The packets in a sequence of records are counted as the
cardinality of a set of marks (`PacketsAdd`), which needs no induction over the
sequence; that an order of a set names all of it is a pigeonhole argument
(`SetOrder`).

**RollingViews.** The windows are updated step by step, so the invariant says what
they are a function of. `TargetIs` gives a target's state from its contributions
alone, by their places in the sequence: how many there are and the time and
outcome of the last one; `HorizonOf` says that contributions are ordered by time and the
targets and the count of failed ones are what those make of them (`AggregateOf`). Adding a flow
shifts the places behind it, expiring a prefix splits a target's places into two
disjoint sets whose cardinalities add up. `WindowsOf` adds the clock and that each
contribution is a flow taken and each flow taken in the range a contribution;
`TimerKnown` that the pending timer is early enough for the windows to be dropped in
time; `ViewsKnown` that the views sent last are those of the windows. A restore
adds the contributions again one by one with a recursive function. Induction over
it goes without the library's theorem: a function that meets its
equation is given (the horizon of each prefix, `PrefixOf`), and any other would
differ from it at a smallest length, which the equation excludes.
`CountedOnce` relates three clocks: when an ID was taken, when it is forgotten and
how far the windows have come. `KInv` says that since a flow was taken the windows' clock
has gone on as far as the wall clock, up to `Slack(copies)` (`KeepsUp`), that a kept
window has a contribution (`NeverEmpty`), and what the dedupe operator knows of the flows sent and queued
(`SentNumbered`, `QueueRemembered`). `OnceInv` says that no ID is in a horizon twice and that
one in the queue is in neither (`Uncounted`): when a forgotten ID is accepted
again, its first copy has expired.

**PortScan.** `Step` describes an evaluation by the state it starts from, the clock
it uses and what it emits; views (`ViewsStep`) and timers (`TimerStep`) are both
such steps, and the rest of the proof is about `Step` alone. `IInv` relates
the two clocks: the device clock is within `ViewSkew` of the wall time of the view
that moved it (`ClockInStep`), the hold and the end of an incident began at moments
both clocks know (`ClearInStep`, `ResolvedInStep`), and the timer of an active
incident is early enough to see the hold end (`TimerInStep`), whether it was
registered for this hold or long before. `IdsInv` adds for the IDs that all issued
ones belong to earlier incidents or are earlier ones of the incident the rule
knows, and that after dropping it they are older than hold and cooldown.

**IncidentProjector, IncidentFeed.** `ProjectorIInv` adds that whatever the projector has
handled is stored (`HandledIsStored`) and that cursors only grow (`CursorsAhead`); it
is proved for the projector alone and again for the composition. `FeedIInv` follows a
row from the database through the handler's reads to the socket and the page:
pruning takes a prefix of the feed (`PrunedBelow`), what the channel carries is in
the order of the cursors (`ChannelInOrder`), the handler's last cursor covers what it
sent (`HandlerInStep`), and the page has what was delivered (`PageInStep`).

**GatewayHealth.** `HealthIsNewest` says nothing while reports are on their way, so the
invariant says where the newest report of a kind is (`NewestOnItsWay`): still to
be sent, or in the topic or the table with nothing behind it that would replace
it. `NoneAhead`, `OnlyReported` and `HeadApplied` tie offset, topic and table together.

**GatewayAgent.** The parts of `IInv` are what each `pc` knows: what is applied is what
was saved (`AppliesSaved`), processes run what the apply has come to
(`ProcessesFollow`), the rules it has set up stay until it ends (`RulesFollow`), and the
rules of blocked devices survive setting the chains up again (`BlocksInForce`).
Whatever setups and teardowns stopped half-way, FORWARD is one of four sequences
(`Forward`): a setup keeps the block chain in front (`EnsuredKeeps`) and a teardown may
not (`TornDownKeeps`), but it comes only when no process is left.

**ResearchRun.** `ChildInPhase` and `SweepInStep` say what the child has done as a
function of its progress, `ExitHasEvidence` that an exit code of zero has a summary
behind it, `RecordsInStep` and `ExitCodeInStep` that the runner's records and code
follow its children, `ReportLast` that nothing is written behind the report. That a
full cycle has tried every pair needs a pigeonhole argument (`OrderIsComplete`).
`MarksInStep` counts: there is a start and an end marker for each phase that is over,
one more start for the phase or gap at hand. What the
plan has to add up to is shown of the round-robin preset round by round (`RoundAdds`,
`PresetCounted`), of a shuffle because it is a bijection of places (`ShuffleCounted`). The
recursive functions of the preset are treated as those of `RollingViews`.

Only model-checked: liveness under fairness, which is out of the prover's reach:
`EventuallyDelivered`, `PageCatchesUp`, `LossStaysVisible`, `StopIsObeyed`. All other properties
of the passing runs are theorems.

## 5. Where code and documentation disagree

Findings, each with a run that ends in TLC's counterexample:

- `views_clock` (bug): `RollingViews.processElement` sets `lastEventWallMs` only when the
  flow moves the clock. After a silent tick, a newer flow still behind the
  advanced clock raises the newest event time, and the next tick adds the whole
  silence to it again: the device clock passes the wall clock, evidence expires
  early.
- `feed_empty` (bug): when all rows of the feed are older than seven days, an old
  cursor is not recognised as expired; the page is declared live and stays stale
  until its incidents change.

Observations without a run of their own. The property, the configuration it
starts from and the change to make are given; TLC then finds the counterexample.

- `DeliveredIdsStayUnique`, `SpoolCrash.cfg` with `RenameDurable = FALSE`: the sensor's
  README (line 43) says "a restart skips ahead and never reuses an ID".
  `reserve_sequences` does not sync the directory after the rename
  (`spool.rs:299`); a power cut that undoes it and tears unsynced records off
  hands out numbers the broker already has.
- `RejectedIsRejected`, `Flows.cfg` with `Capacity = 2`, `MaxFrames = 4`: a connection that was
  established in an earlier micro-flow and later reset by the server is reported
  as `REJECTED` (`lib.rs:150`), which `events.proto:47` reserves for an answer to the
  attempt.
- `LossFullyReported`, `SpoolCrash.cfg`: the comment at `forward.rs:161-162` says a
  loss report overflows the spool only if a segment is smaller than a record. A
  crash leaves a short segment, and then it does with larger segments too; the
  nested loss is in the running total and in no report until the next loss.
- `CursorCovers`, `Feed.cfg` with `PruneInRead = TRUE`: rows pruned between the two
  statements of `changes()` are skipped without a reset (`main.py:5-6`: "a client
  sees every change once and in order").
- `UnansweredIsUnanswered`, `Flows.cfg` with `Capacity = 2`, `MaxFrames = 4`,
  `Conn <- TwoClients`, `Mac = {Client, Neighbour}`:
  between two clients each direction is attributed to its own sender, so an
  answered attempt is reported unanswered.
- `Gateway.cfg`: `StaysDisabled` - after a restart the snapshot of the last enabled
  configuration wins over a saved disabled one. `RollbackRestores` - a kill while
  the snapshot is copied in place leaves a rollback nothing to go back to.
  `BlockHolds` - blocks live in the kernel only; disabling or a reboot removes them
  while the configuration is restored. `LastApplyIsLast` - an apply that ends in an
  exception leaves an earlier status in `last_apply.json`.
  `BlockBeforeAccept` - the comment at `iptables.py:47` says "Block chain must be
  checked BEFORE the forwarding accept rules". A gateway is disabled, the jump to
  the block chain and that chain go, but deleting the jump to `IOT_GATEWAY_FWD` (line
  160) and flushing that chain (line 163) fail unnoticed: FORWARD accepts without
  asking the block chain, and `apply` answers that disabling succeeded. Nothing is
  served at that point; before anything is, the next apply has put the block chain in
  front again (`AcceptIsGuarded`).
- Health: `apply_health` replaces a row by a report of the same time, and a loss
  report has the time of the newest event lost. A redelivered older report can so
  stand in the table until the newer one has come again too, although its comment
  says "redelivery and reordering are harmless" (`db.py:163-164`). After a restart a
  smaller total replaces a larger one, if it is about newer events. `UNATTRIBUTED` is
  never reported as zero, so the banner keeps a past problem.
- Research: the launcher writes "detached" to `status.json` after it started the
  runner, so the status of a short run may stay "detached". `PORT_SWEEP_RESEARCH.md`
  (line 141) says `summary.json` is still written after Ctrl+C; that holds of the
  runner once its handlers are installed (`StopIsObeyed`), but a generator that is
  still booting, or the emulator, which handles no signal, leaves no summary of
  its own.
- `CountedOnce`, `Views.cfg` with `Target = {t1}`, `Lateness = 2`, `TimerDelay = 0`,
  `MaxLag = 0`, `MaxFlows = 4`, `MaxResent = 5`, `MaxNow = 8`: `STREAMING-DETECTION.md:17`
  says that "sensor resends after restarts are not counted twice". IDs are
  remembered for the longest horizon and the lateness of wall time, while the windows go
  by the device clock, which in silence only timers move. Every flow replaces the
  pending timer (`RollingViews.schedule`), so copies of forgotten flows that come
  once per tick keep the clock standing until one of them is forgotten again and
  meets its first copy in the window. `CopiesAreFew` says how many it takes.
- Not modelled: `FeatureThrottle` sends a view set that arrives when the interval is
  over and the timer not yet called at once, without clearing the pending one,
  and the timer then sends the older set after it.

## 6. Not modelled

- Packet, pcap and lease-file parsing, protobuf encoding, serializers: pure
  conversions with unit tests and fixtures.
- REST endpoints (single reads through the functions the socket uses); the
  500-row limit of a snapshot; the migration at the projector's start.
- `FeatureThrottle`: feeds an observability topic only.
- Exactly-once delivery of the job's transactions and the replay from a
  checkpoint: the projector's topic is therefore arbitrary, which covers every
  replay, but that a replay emits the same transitions is not shown.
- Clock steps on the gateway; more than one device, page or partition (all state
  is keyed by device, one projector replica runs).
- A research run whose `--run-id` names an existing directory: it appends to the
  markers of the earlier run. Argument parsing.
- A loss in the spool that the process does not live to report: the running
  totals die with it (`LossAccounted` is about the totals of one process).
- Rates, jitter and network outcomes of the traffic generators: they are logged
  and decide nothing.
- Other scripts. `validate_event_contract.py` compares static files;
  `benchmark_capture.py` measures one process; `model-backtest.py` needs
  `images/ml-pipeline`, and `model-activate.py`, `reset-db.sh` and `verify-e2e.sh` the
  database of that pipeline, which are not in the repository any more.
- Text templates and read-only status queries of the agent, manifests, CI.

## 7. Plan

Done, in this order: `EventOutbox`, `SensorSpool` and its proofs (the only part that
can lose evidence for good), `RollingViews`, `PortScan` (what decides an incident),
`IncidentProjector`, `IncidentFeed` (what shows it), `GatewayAgent`, `FlowTable`,
`GatewayHealth`, `TrafficChild`, `ResearchRun`.

Next modules and extensions:

1. `DetectionDelivery`: detector, transactional sink, checkpoint and replay, read by
   the read_uncommitted projector; abstract specification: the incident stream of
   a run without failures.
2. `FlowTable` with a stepping clock; `IncidentFeed` with the limit of a snapshot;
   `FeatureThrottle`.

Next theorem: that a run of detector and sink implements the incident stream, with
`DetectionDelivery`.

## 8. Running

In this directory: `tlc -config SpoolCrash.cfg SensorSpool` (likewise for the other
pairs under `runs` in PROJECT.json), `tlapm SensorSpoolProofs.tla`
(likewise for the other modules of section 4). Each run takes at most two minutes on two
workers.
