------------------------------ MODULE PortScan ------------------------------
(***************************************************************************)
(* The port-scan rule (PortScanRule.java, RuleState.java) and the Flink    *)
(* operator that feeds it views and timers (PortScanDetector.java), for    *)
(* one device.                                                             *)
(*                                                                         *)
(* Abstractions.                                                           *)
(*  - A view is the horizon's failed targets; whether any flow is left in  *)
(*    either window is one flag.  Times are integers, and an incident ID   *)
(*    (a hash of the device and the episode start) is the episode start.   *)
(*  - RollingViews sends any views.  The end of their window, which is the *)
(*    device clock there, is at most ViewSkew off the wall clock.          *)
(*  - A timer fires at most TimerDelay late.                               *)
(***************************************************************************)
EXTENDS Integers, FiniteSets

CONSTANTS
  Horizon,        \* the horizons, short and long
  Threshold,      \* openThresholds: horizon -> failed targets
  ClearNum,       \* clearFraction = ClearNum / ClearDen
  ClearDen,
  MediumRatio,
  HighRatio,
  HoldMs,
  CooldownMs,
  TICK_MS,
  Value,          \* failed targets a view may show
  ViewSkew,       \* bound: device clock against wall clock
  TimerDelay,     \* bound: how late a timer may fire
  MaxNow,         \* bound: last wall time
  MaxViews        \* bound: views in a behaviour

ASSUME RuleAssumption ==
  /\ Value \subseteq Nat /\ 0 \in Value
  /\ Threshold \in [Horizon -> Nat \ {0}]
  /\ ClearNum \in Nat /\ ClearDen \in Nat /\ ClearNum < ClearDen
  /\ MediumRatio \in Nat /\ HighRatio \in Nat
  /\ HoldMs \in Nat \ {0}
  /\ CooldownMs \in Nat
  /\ TICK_MS \in Nat \ {0}
  /\ ViewSkew \in Nat
  /\ TimerDelay \in Nat
  /\ MaxNow \in Nat
  /\ MaxViews \in Nat

VARIABLES
  now,           \* the wall clock
  rule,          \* RuleState, or NoState
  pendingTimer,  \* the registered timer, or None
  (* history, read by properties only *)
  views,         \* views received
  last,          \* the transition emitted last
  issued,        \* (incident, revision) of every transition emitted
  twice,         \* a transition ID was emitted twice
  clearWall,     \* wall time since which every view was clear, or None
  resolvedWall   \* wall time of the last RESOLVE

vars == <<now, rule, pendingTimer, views, last, issued, twice, clearWall, resolvedWall>>

None == -ViewSkew - 1   \* Long.MIN_VALUE, before any time; and no value
NoView == [failed |-> [h \in Horizon |-> 0], flows |-> FALSE]
NoTransition == [kind |-> "NONE", incident |-> None, revision |-> 0, mask |-> {},
                 severity |-> 0]
View == {v \in [failed : [Horizon -> Value], flows : BOOLEAN] :
           ~v.flows => \A h \in Horizon : v.failed[h] = 0}

(* new RuleState() *)
NewState ==
  [status |-> "NONE", incident |-> None, revision |-> 0, overMask |-> {}, severity |-> 0,
   clearSince |-> None, resolvedAt |-> 0, view |-> NoView, clock |-> None, clockWall |-> 0]
NoState == [NewState EXCEPT !.status = "ABSENT"]

Maximum(a, b) == IF a > b THEN a ELSE b

-----------------------------------------------------------------------------
(* PortScanRule.                                                           *)

OverMask(s) == {h \in Horizon : s.view.failed[h] >= Threshold[h]}

Reaches(s, ratio) == \E h \in Horizon : s.view.failed[h] >= ratio * Threshold[h]

Severity(s) ==
  CASE Reaches(s, HighRatio) -> 3
    [] ~Reaches(s, HighRatio) /\ Reaches(s, MediumRatio) -> 2
    [] OTHER -> 1

\* Mutant: one quiet horizon is enough.
ClearInOne(s) == \E h \in Horizon : s.view.failed[h] * ClearDen <= ClearNum * Threshold[h]

Clear(s) == \A h \in Horizon : s.view.failed[h] * ClearDen <= ClearNum * Threshold[h]

(* A transition with its state; `kind` is the TransitionStatus. *)
Emit(s, kind) ==
  [rule |-> s,
   out |-> {[kind |-> kind, incident |-> s.incident, revision |-> s.revision,
             mask |-> s.overMask, severity |-> s.severity]}]

Silent(s) == [rule |-> s, out |-> {}]

(* The state that shows the current mask and severity. *)
Shown(s) == [s EXCEPT !.overMask = OverMask(s), !.severity = Severity(s)]

\* Mutant: reopening does not count the revision up.
CrossedSameRevision(s, clock) ==
  LET reopen == s.status = "RESOLVED" /\ clock - s.resolvedAt < CooldownMs
      t == [s EXCEPT !.status = "ACTIVE", !.clearSince = None]
  IN  IF reopen
      THEN Emit(Shown(t), "REOPEN")
      ELSE Emit(Shown([t EXCEPT !.revision = 1, !.incident = clock]), "OPEN")

(* evaluate, a horizon over its threshold while no incident is active. *)
Crossed(s, clock) ==
  LET reopen == s.status = "RESOLVED" /\ clock - s.resolvedAt < CooldownMs
      t == [s EXCEPT !.status = "ACTIVE", !.clearSince = None]
  IN  IF reopen
      THEN Emit(Shown([t EXCEPT !.revision = @ + 1]), "REOPEN")
      ELSE Emit(Shown([t EXCEPT !.revision = 1, !.incident = clock]), "OPEN")

\* Mutant: the hold is counted from the start of the episode.
TrackedFromStart(s, clock) ==
  [s EXCEPT !.clearSince = IF Clear(s) THEN s.incident ELSE None]

(* evaluate, since when the evidence is clear. *)
Tracked(s, clock) ==
  [s EXCEPT !.clearSince = IF ~Clear(s) THEN None ELSE IF @ = None THEN clock ELSE @]

(* evaluate, an active incident. *)
Continued(s, clock) ==
  LET t == Tracked(s, clock)
  IN  CASE Clear(t) /\ clock - t.clearSince >= HoldMs ->
             Emit(Shown([t EXCEPT !.revision = @ + 1, !.status = "RESOLVED",
                                  !.resolvedAt = clock]), "RESOLVE")
        [] ~(Clear(t) /\ clock - t.clearSince >= HoldMs) /\ Shown(t) # t ->
             Emit(Shown([t EXCEPT !.revision = @ + 1]), "UPDATE")
        [] OTHER -> Silent(t)

Evaluate(s, clock) ==
  CASE s.status # "ACTIVE" /\ OverMask(s) # {} -> Crossed(s, clock)
    [] s.status = "ACTIVE" -> Continued(s, clock)
    [] OTHER -> Silent(s)

(* onViews, the state before the evaluation. *)
WithViews(s, v, end) ==
  LET t == [s EXCEPT !.view = v]
  IN  IF end > s.clock THEN [t EXCEPT !.clock = end, !.clockWall = now] ELSE t

\* Mutant: the device clock stands still during silence.
ClockStands(s, at) == s.clock

(* onClock: the device clock advanced by wall time; finish computes it too. *)
SilentClock(s, at) == s.clock + Maximum(0, at - s.clockWall)

\* Mutant: the cooldown is not waited for.
IdleAtOnce(s, clock) == ~s.view.flows /\ s.status # "ACTIVE"

Idle(s, clock) ==
  /\ ~s.view.flows
  /\ \/ s.status = "NONE"
     \/ s.status = "RESOLVED" /\ clock - s.resolvedAt >= CooldownMs

-----------------------------------------------------------------------------
(* PortScanDetector.                                                       *)

NeedsTimer(s) == s.status # "NONE"

(* finish *)
Finish(s, at, timer) ==
  IF Idle(s, SilentClock(s, at))
  THEN rule' = NoState /\ pendingTimer' = None
  ELSE /\ rule' = s
       /\ pendingTimer' = IF NeedsTimer(s) /\ timer = None THEN at + TICK_MS ELSE timer

(* What properties remember of the transitions emitted and the views. *)
Record(s, out) ==
  /\ last' = IF out = {} THEN last ELSE CHOOSE t \in out : TRUE
  /\ issued' = issued \cup {<<t.incident, t.revision>> : t \in out}
  /\ twice' = (twice \/ \E t \in out : <<t.incident, t.revision>> \in issued)
  /\ resolvedWall' = IF \E t \in out : t.kind = "RESOLVE" THEN now ELSE resolvedWall
  /\ clearWall' = IF ~Clear(s) THEN None ELSE IF clearWall = None THEN now ELSE clearWall

ProcessElement(v, end) ==
  LET s == IF rule = NoState THEN NewState ELSE rule
      t == WithViews(s, v, end)
      e == Evaluate(t, t.clock)
  IN  /\ views < MaxViews
      /\ views' = views + 1
      /\ end \in (now - ViewSkew)..(now + ViewSkew)
      /\ Record(e.rule, e.out)
      /\ Finish(e.rule, now, pendingTimer)
      /\ UNCHANGED now

OnTimer ==
  LET at == pendingTimer
      e == Evaluate(rule, SilentClock(rule, at))
  IN  /\ pendingTimer # None /\ pendingTimer <= now
      /\ rule # NoState
      /\ Record(e.rule, e.out)
      /\ Finish(e.rule, at, None)
      /\ UNCHANGED <<now, views>>

Pass ==
  /\ now < MaxNow
  /\ pendingTimer = None \/ now < pendingTimer + TimerDelay
  /\ now' = now + 1
  /\ UNCHANGED <<rule, pendingTimer, views, last, issued, twice, clearWall, resolvedWall>>

Init ==
  /\ now = 0
  /\ rule = NoState
  /\ pendingTimer = None
  /\ views = 0
  /\ last = NoTransition
  /\ issued = {}
  /\ twice = FALSE
  /\ clearWall = None
  /\ resolvedWall = None

Next ==
  \/ \E v \in View, skew \in (-ViewSkew)..ViewSkew : ProcessElement(v, now + skew)
  \/ OnTimer
  \/ Pass

Spec == Init /\ [][Next]_vars

-----------------------------------------------------------------------------
(* Properties.                                                             *)

Transition ==
  [kind : {"OPEN", "UPDATE", "REOPEN", "RESOLVE"}, incident : Int, revision : Nat \ {0},
   mask : SUBSET Horizon, severity : 1..3]

RuleState ==
  [status : {"NONE", "ACTIVE", "RESOLVED"}, incident : Int, revision : Nat,
   overMask : SUBSET Horizon, severity : 0..3, clearSince : Int, resolvedAt : Int,
   view : View, clock : Int, clockWall : Nat]

(* Types of the rule's state and of its last transition; a transition has  *)
(* a revision above zero (RuleState, Transition).                          *)
TypeOK ==
  /\ now \in Nat
  /\ rule \in RuleState \cup {NoState}
  /\ pendingTimer \in Nat \cup {None}
  /\ views \in Nat
  /\ last \in Transition \cup {NoTransition}
  /\ issued \subseteq Int \X (Nat \ {0})
  /\ twice \in BOOLEAN
  /\ clearWall \in Int /\ resolvedWall \in Int

Active == rule.status = "ACTIVE"

(* The projector keeps one row per transition ID and skips a repeated one: *)
(* the job gives no two transitions the same incident ID and revision,     *)
(* dropped and rebuilt rule state included (evaluate, finish).             *)
TransitionIdsUnique == ~twice

(* What the rule said last is what its latest views show: an active        *)
(* incident has the horizons and the severity of those views, and no       *)
(* horizon is over its threshold without an active incident (evaluate).    *)
IncidentIsCurrent ==
  IF Active THEN /\ last.kind # "RESOLVE"
                 /\ last.mask = OverMask(rule) /\ last.severity = Severity(rule)
  ELSE OverMask(rule) = {} /\ last.kind \in {"NONE", "RESOLVE"}

(* An incident is resolved only after the views were clear without a break *)
(* for the hold time, but for what the device clock is off: a clock that   *)
(* advances by views and by timers never makes the hold much shorter       *)
(* (evaluate, onClock).                                                    *)
ResolveHeld ==
  [][last' # last /\ last'.kind = "RESOLVE" =>
       clearWall' # None /\ now - clearWall' >= HoldMs - 2 * ViewSkew]_vars

(* A clear incident is resolved by timers alone, within the hold time, a   *)
(* tick and the clock's error (onTimer, finish).                           *)
SilenceResolves ==
  Active /\ clearWall # None =>
    now - clearWall <= HoldMs + TICK_MS + 2 * ViewSkew + TimerDelay

(* An incident is reopened only within the cooldown of its resolution and  *)
(* a new one opened only behind it (evaluate).                             *)
CooldownDecides ==
  [][last' # last /\ last.kind = "RESOLVE" =>
       IF last'.kind = "REOPEN"
       THEN now - resolvedWall < CooldownMs + 2 * ViewSkew
       ELSE now - resolvedWall >= CooldownMs - 2 * ViewSkew - TimerDelay]_vars

=============================================================================
