--------------------------- MODULE PortScanProofs ---------------------------
(***************************************************************************)
(* Proofs about the port-scan rule and its operator, for any thresholds,   *)
(* times, views and delays of the timers.                                  *)
(***************************************************************************)
EXTENDS PortScan, TLAPS

-----------------------------------------------------------------------------
(* The inductive invariant.                                                *)

(* The device clock is as far off the wall clock as the last view that     *)
(* moved it.                                                               *)
ClockInStep(s) ==
  /\ s.clockWall <= now
  /\ s.clockWall - ViewSkew <= s.clock /\ s.clock <= s.clockWall + ViewSkew

(* An active incident is clear since a moment that both clocks know. *)
ClearInStep ==
  Active =>
    /\ Clear(rule) <=> clearWall # None
    /\ rule.clearSince # None <=> clearWall # None
    /\ clearWall # None =>
         /\ clearWall - ViewSkew <= rule.clearSince /\ rule.clearSince <= clearWall + ViewSkew
         /\ clearWall <= now

(* So is the end of a resolved one; once it is forgotten, the cooldown is  *)
(* over.                                                                   *)
ResolvedInStep ==
  /\ rule.status = "RESOLVED" =>
       /\ resolvedWall - ViewSkew - TimerDelay <= rule.resolvedAt
       /\ rule.resolvedAt <= resolvedWall + ViewSkew
  /\ rule.status \in {"NONE", "ABSENT"} /\ last.kind = "RESOLVE" =>
       now - resolvedWall >= CooldownMs - 2 * ViewSkew - TimerDelay

(* What was said last is what the rule's state shows. *)
SaidLast == Active => last.mask = rule.overMask /\ last.severity = rule.severity

(* The timer of an incident: it fires in time to see the hold end. *)
TimerInStep ==
  /\ pendingTimer # None => pendingTimer <= now + TICK_MS /\ now <= pendingTimer + TimerDelay
  /\ rule.status \in {"ACTIVE", "RESOLVED"} => pendingTimer # None
  /\ Active /\ clearWall # None => pendingTimer - TICK_MS <= clearWall + HoldMs + 2 * ViewSkew

IInv ==
  /\ TypeOK
  /\ rule # NoState => ClockInStep(rule)
  /\ ClearInStep /\ ResolvedInStep
  /\ SaidLast /\ IncidentIsCurrent
  /\ TimerInStep

(* The transition IDs: every transition so far belongs to an earlier       *)
(* incident or is an earlier one of the incident the rule knows; once that *)
(* is forgotten, all are so old that no view of the device is.             *)
Known(s, ids) ==
  /\ s.incident <= s.clock
  /\ s.status = "ACTIVE" /\ s.clearSince # None => s.incident <= s.clearSince
  /\ s.status = "RESOLVED" => s.incident + HoldMs <= s.resolvedAt
  /\ \A x \in ids : x[1] < s.incident \/ (x[1] = s.incident /\ x[2] <= s.revision)

KnownIncident == rule.status \in {"ACTIVE", "RESOLVED"} => Known(rule, issued)

ForgottenIncidents ==
  rule.status \in {"NONE", "ABSENT"} =>
    \A x \in issued : /\ x[1] + HoldMs + CooldownMs <= now + ViewSkew
                      /\ rule # NoState => x[1] < rule.clock

IdsInv == IInv /\ KnownIncident /\ ForgottenIncidents /\ TransitionIdsUnique

(* The clocks of devices and gateway are less apart than an episode and    *)
(* its cooldown are long.                                                  *)
SkewIsSmall == 2 * ViewSkew < HoldMs + CooldownMs

-----------------------------------------------------------------------------
(* What an evaluation makes of the rule's state.                           *)

(* Since when an active incident is clear, at device clock d. *)
Since(s, d) == IF ~Clear(s) THEN None ELSE IF s.clearSince = None THEN d ELSE s.clearSince

Held(s, d) == Clear(s) /\ d - Since(s, d) >= HoldMs

(* The state r, and the kind of transition, or "NONE". *)
Outcome(s, d, r, kind) ==
  /\ r \in RuleState
  /\ r.view = s.view /\ r.clock = s.clock /\ r.clockWall = s.clockWall
  /\ \/ /\ kind \in {"OPEN", "REOPEN"} /\ s.status # "ACTIVE" /\ OverMask(s) # {}
        /\ kind = "REOPEN" <=> s.status = "RESOLVED" /\ d - s.resolvedAt < CooldownMs
        /\ r.status = "ACTIVE" /\ r.clearSince = None
        /\ kind = "REOPEN" => r.incident = s.incident /\ r.revision = s.revision + 1
        /\ kind = "OPEN" => r.incident = d /\ r.revision = 1
        /\ r.overMask = OverMask(s) /\ r.severity = Severity(s)
     \/ /\ kind = "RESOLVE" /\ s.status = "ACTIVE" /\ Held(s, d)
        /\ r.status = "RESOLVED" /\ r.resolvedAt = d
        /\ r.incident = s.incident /\ r.revision = s.revision + 1
        /\ r.overMask = OverMask(s) /\ r.severity = Severity(s)
     \/ /\ kind \in {"UPDATE", "NONE"} /\ s.status = "ACTIVE" /\ ~Held(s, d)
        /\ r.status = "ACTIVE" /\ r.clearSince = Since(s, d) /\ r.incident = s.incident
        /\ kind = "UPDATE" => r.revision = s.revision + 1
        /\ kind = "NONE" => /\ r.revision = s.revision
                            /\ r.overMask = s.overMask /\ r.severity = s.severity
        /\ r.overMask = OverMask(s) /\ r.severity = Severity(s)
     \/ /\ kind = "NONE" /\ s.status # "ACTIVE" /\ OverMask(s) = {}
        /\ r = s

(* A transition as it is emitted. *)
Said(r, kind) ==
  [kind |-> kind, incident |-> r.incident, revision |-> r.revision, mask |-> r.overMask,
   severity |-> r.severity]

LEMMA SeverityType == \A s : Severity(s) \in 1 .. 3
BY DEF Severity

LEMMA ShownFields ==
  ASSUME NEW t \in RuleState
  PROVE  /\ Shown(t) \in RuleState
         /\ Shown(t).status = t.status /\ Shown(t).incident = t.incident
         /\ Shown(t).revision = t.revision /\ Shown(t).clearSince = t.clearSince
         /\ Shown(t).resolvedAt = t.resolvedAt /\ Shown(t).view = t.view
         /\ Shown(t).clock = t.clock /\ Shown(t).clockWall = t.clockWall
         /\ Shown(t).overMask = OverMask(t) /\ Shown(t).severity = Severity(t)
<1>1. OverMask(t) \in SUBSET Horizon
  BY DEF OverMask
<1>2. Severity(t) \in 0 .. 3
  BY SeverityType
<1> QED
  BY <1>1, <1>2 DEF Shown, RuleState

(* What depends on the view alone. *)
LEMMA SameView ==
  ASSUME NEW s, NEW t, s.view = t.view
  PROVE  OverMask(s) = OverMask(t) /\ Severity(s) = Severity(t) /\ (Clear(s) <=> Clear(t))
BY DEF OverMask, Severity, Reaches, Clear

(* No horizon is over its threshold while all are clear. *)
LEMMA ClearIsBelow ==
  ASSUME NEW s \in RuleState, Clear(s)
  PROVE  OverMask(s) = {}
<1> SUFFICES ASSUME NEW h \in Horizon, s.view.failed[h] >= Threshold[h] PROVE FALSE
  BY DEF OverMask
<1>1. s.view \in View
  BY DEF RuleState
<1>2. s.view \in [failed : [Horizon -> Value], flows : BOOLEAN]
  BY <1>1 DEF View
<1>3. s.view.failed[h] \in Nat /\ Threshold[h] \in Nat \ {0} /\ ClearNum \in Nat /\ ClearDen \in Nat
      /\ ClearNum < ClearDen
  BY <1>2, RuleAssumption DEF RuleAssumption
<1>4. PICK f \in Nat, t \in Nat \ {0} : f = s.view.failed[h] /\ t = Threshold[h]
  BY <1>3
<1>5. f >= t /\ f * ClearDen <= ClearNum * t
  BY <1>4 DEF Clear
<1>6. f * ClearDen >= t * ClearDen
  BY <1>3, <1>5
<1>7. t * ClearDen > t * ClearNum
  BY <1>3
<1>8. t * ClearNum = ClearNum * t
  BY <1>3
<1>9. f * ClearDen \in Nat /\ t * ClearDen \in Nat /\ t * ClearNum \in Nat
  BY <1>3
<1> QED
  BY <1>5, <1>6, <1>7, <1>8, <1>9

LEMMA CrossedCases ==
  ASSUME NEW s \in RuleState, NEW d \in Int, s.status # "ACTIVE", OverMask(s) # {}
  PROVE  \E kind \in {"OPEN", "REOPEN"} :
           /\ Outcome(s, d, Crossed(s, d).rule, kind)
           /\ Crossed(s, d).out = {Said(Crossed(s, d).rule, kind)}
<1> DEFINE reopen == s.status = "RESOLVED" /\ d - s.resolvedAt < CooldownMs
           t == [s EXCEPT !.status = "ACTIVE", !.clearSince = None]
<1>1. None \in Int
  BY RuleAssumption DEF RuleAssumption, None
<1>2. CASE reopen
  <2> DEFINE u == [t EXCEPT !.revision = @ + 1]
             r == Shown(u)
  <2>1. /\ u \in RuleState /\ u.status = "ACTIVE" /\ u.clearSince = None /\ u.view = s.view
        /\ u.incident = s.incident /\ u.revision = s.revision + 1
        /\ u.clock = s.clock /\ u.clockWall = s.clockWall
    <3>1. s.revision + 1 \in Nat
      BY DEF RuleState
    <3>2. PICK n \in Nat : n = s.revision + 1
      BY <3>1
    <3>3. u = [s EXCEPT !.status = "ACTIVE", !.clearSince = None, !.revision = n]
      BY <3>2 DEF RuleState
    <3> QED
      BY <1>1, <3>2, <3>3 DEF RuleState
  <2>2. Crossed(s, d) = Emit(r, "REOPEN")
    BY <1>2 DEF Crossed
  <2> HIDE DEF u
  <2>3. Crossed(s, d).rule = r /\ Crossed(s, d).out = {Said(r, "REOPEN")}
    BY <2>2 DEF Emit, Said
  <2>4. OverMask(u) = OverMask(s) /\ Severity(u) = Severity(s)
    BY <2>1, SameView
  <2>5. Outcome(s, d, r, "REOPEN")
    BY <1>2, <2>1, <2>4, ShownFields DEF Outcome
  <2> QED
    BY <2>3, <2>5
<1>3. CASE ~reopen
  <2> DEFINE u == [t EXCEPT !.revision = 1, !.incident = d]
             r == Shown(u)
  <2>1. /\ u \in RuleState /\ u.status = "ACTIVE" /\ u.clearSince = None /\ u.view = s.view
        /\ u.incident = d /\ u.revision = 1
        /\ u.clock = s.clock /\ u.clockWall = s.clockWall
    BY <1>1 DEF RuleState
  <2>2. Crossed(s, d) = Emit(r, "OPEN")
    BY <1>3 DEF Crossed
  <2> HIDE DEF u
  <2>3. Crossed(s, d).rule = r /\ Crossed(s, d).out = {Said(r, "OPEN")}
    BY <2>2 DEF Emit, Said
  <2>4. OverMask(u) = OverMask(s) /\ Severity(u) = Severity(s)
    BY <2>1, SameView
  <2>5. Outcome(s, d, r, "OPEN")
    BY <1>3, <2>1, <2>4, ShownFields DEF Outcome
  <2> QED
    BY <2>3, <2>5
<1> QED
  BY <1>2, <1>3

LEMMA ContinuedCases ==
  ASSUME NEW s \in RuleState, NEW d \in Int, s.status = "ACTIVE"
  PROVE  \E kind \in {"RESOLVE", "UPDATE", "NONE"} :
           /\ Outcome(s, d, Continued(s, d).rule, kind)
           /\ Continued(s, d).out = IF kind = "NONE" THEN {} ELSE {Said(Continued(s, d).rule, kind)}
<1> DEFINE t == Tracked(s, d)
<1>1. None \in Int
  BY RuleAssumption DEF RuleAssumption, None
<1>2. Since(s, d) \in Int
  BY <1>1 DEF Since, RuleState
<1>3. t = [s EXCEPT !.clearSince = Since(s, d)]
  BY DEF Tracked, Since
<1>4. /\ t \in RuleState /\ t.status = "ACTIVE" /\ t.clearSince = Since(s, d) /\ t.view = s.view
      /\ t.incident = s.incident /\ t.revision = s.revision /\ t.overMask = s.overMask
      /\ t.severity = s.severity /\ t.clock = s.clock /\ t.clockWall = s.clockWall
  BY <1>2, <1>3 DEF RuleState
<1> HIDE DEF t
<1>5. OverMask(t) = OverMask(s) /\ Severity(t) = Severity(s) /\ (Clear(t) <=> Clear(s))
  BY <1>4, SameView
<1>6. Clear(t) /\ d - t.clearSince >= HoldMs <=> Held(s, d)
  BY <1>4, <1>5 DEF Held
<1>7. CASE Held(s, d)
  <2> DEFINE u == [t EXCEPT !.revision = @ + 1, !.status = "RESOLVED", !.resolvedAt = d]
             r == Shown(u)
  <2>1. /\ u \in RuleState /\ u.status = "RESOLVED" /\ u.resolvedAt = d /\ u.view = t.view
        /\ u.incident = s.incident /\ u.revision = s.revision + 1
        /\ u.clock = s.clock /\ u.clockWall = s.clockWall
    <3>1. s.revision + 1 \in Nat
      BY DEF RuleState
    <3>2. PICK n \in Nat : n = s.revision + 1
      BY <3>1
    <3>3. u = [t EXCEPT !.revision = n, !.status = "RESOLVED", !.resolvedAt = d]
      BY <1>4, <3>2
    <3> QED
      BY <1>4, <3>2, <3>3 DEF RuleState
  <2>2. Continued(s, d) = Emit(r, "RESOLVE")
    BY <1>6, <1>7 DEF Continued, t
  <2> HIDE DEF u
  <2>3. Continued(s, d).rule = r /\ Continued(s, d).out = {Said(r, "RESOLVE")}
    BY <2>2 DEF Emit, Said
  <2>4. OverMask(u) = OverMask(t) /\ Severity(u) = Severity(t)
    BY <2>1, SameView
  <2>5. Outcome(s, d, r, "RESOLVE")
    BY <1>4, <1>5, <1>7, <2>1, <2>4, ShownFields DEF Outcome
  <2> QED
    BY <2>3, <2>5
<1>8. CASE ~Held(s, d) /\ Shown(t) # t
  <2> DEFINE u == [t EXCEPT !.revision = @ + 1]
             r == Shown(u)
  <2>1. /\ u \in RuleState /\ u.status = "ACTIVE" /\ u.clearSince = t.clearSince /\ u.view = t.view
        /\ u.incident = s.incident /\ u.revision = s.revision + 1
        /\ u.clock = s.clock /\ u.clockWall = s.clockWall
    BY <1>4 DEF RuleState
  <2>2. Continued(s, d) = Emit(r, "UPDATE")
    BY <1>6, <1>8 DEF Continued, t
  <2> HIDE DEF u
  <2>3. Continued(s, d).rule = r /\ Continued(s, d).out = {Said(r, "UPDATE")}
    BY <2>2 DEF Emit, Said
  <2>4. OverMask(u) = OverMask(t) /\ Severity(u) = Severity(t)
    BY <2>1, SameView
  <2>5. Outcome(s, d, r, "UPDATE")
    BY <1>4, <1>5, <1>8, <2>1, <2>4, ShownFields DEF Outcome
  <2> QED
    BY <2>3, <2>5
<1>9. CASE ~Held(s, d) /\ Shown(t) = t
  <2>1. Continued(s, d) = Silent(t)
    BY <1>6, <1>9 DEF Continued, t
  <2>2. Continued(s, d).rule = t /\ Continued(s, d).out = {}
    BY <2>1 DEF Silent
  <2>3. t.overMask = OverMask(t) /\ t.severity = Severity(t)
    BY <1>4, <1>9, ShownFields
  <2>4. Outcome(s, d, t, "NONE")
    BY <1>4, <1>5, <1>9, <2>3 DEF Outcome
  <2> QED
    BY <2>2, <2>4
<1> QED
  BY <1>7, <1>8, <1>9

LEMMA EvaluateCases ==
  ASSUME NEW s \in RuleState, NEW d \in Int
  PROVE  \E kind \in {"OPEN", "REOPEN", "RESOLVE", "UPDATE", "NONE"} :
           /\ Outcome(s, d, Evaluate(s, d).rule, kind)
           /\ Evaluate(s, d).out = IF kind = "NONE" THEN {} ELSE {Said(Evaluate(s, d).rule, kind)}
<1>1. CASE s.status # "ACTIVE" /\ OverMask(s) # {}
  <2>1. Evaluate(s, d) = Crossed(s, d)
    BY <1>1 DEF Evaluate
  <2> QED
    BY <1>1, <2>1, CrossedCases
<1>2. CASE s.status = "ACTIVE"
  <2>1. Evaluate(s, d) = Continued(s, d)
    BY <1>2 DEF Evaluate
  <2> QED
    BY <1>2, <2>1, ContinuedCases
<1>3. CASE s.status # "ACTIVE" /\ OverMask(s) = {}
  <2>1. Evaluate(s, d) = Silent(s)
    BY <1>3 DEF Evaluate
  <2>2. Evaluate(s, d).rule = s /\ Evaluate(s, d).out = {}
    BY <2>1 DEF Silent
  <2>3. Outcome(s, d, s, "NONE")
    BY <1>3 DEF Outcome
  <2> QED
    BY <2>2, <2>3
<1> QED
  BY <1>1, <1>2, <1>3

-----------------------------------------------------------------------------
(* A step of the operator: the state it evaluates, when, and what it does. *)

LEMMA ConstantTypes ==
  /\ None \in Int /\ None < -ViewSkew /\ None < 0 /\ ViewSkew \in Nat /\ TimerDelay \in Nat
  /\ TICK_MS \in Nat \ {0} /\ HoldMs \in Nat \ {0} /\ CooldownMs \in Nat
BY RuleAssumption DEF RuleAssumption, None

LEMMA RuleStateTypes ==
  ASSUME NEW s \in RuleState
  PROVE  /\ s.status \in {"NONE", "ACTIVE", "RESOLVED"} /\ s.incident \in Int /\ s.revision \in Nat
         /\ s.clearSince \in Int /\ s.resolvedAt \in Int /\ s.clock \in Int /\ s.clockWall \in Nat
BY DEF RuleState

LEMMA NewStateType == NewState \in RuleState /\ NewState.status = "NONE" /\ NewState.clock = None
<1>1. [h \in Horizon |-> 0] \in [Horizon -> Value]
  BY RuleAssumption DEF RuleAssumption
<1>2. NoView \in View
  <2>1. NoView \in [failed : [Horizon -> Value], flows : BOOLEAN]
    <3>1. FALSE \in BOOLEAN
      OBVIOUS
    <3> QED
      BY <1>1, <3>1 DEF NoView
  <2>2. \A h \in Horizon : NoView.failed[h] = 0
    BY DEF NoView
  <2> QED
    BY <2>1, <2>2 DEF View
<1> QED
  BY <1>2, ConstantTypes DEF NewState, RuleState

LEMMA NoStateFields ==
  NoState.status = "ABSENT" /\ NoState \notin RuleState /\ OverMask(NoState) = {}
<1>1. NoState.status = "ABSENT" /\ NoState.view = NoView
  BY DEF NoState, NewState
<1>2. \A h \in Horizon : NoView.failed[h] = 0 /\ Threshold[h] \in Nat \ {0}
  BY RuleAssumption DEF RuleAssumption, NoView
<1> QED
  BY <1>1, <1>2, RuleStateTypes DEF OverMask

(* The rule is there or not. *)
LEMMA RuleCases ==
  ASSUME TypeOK
  PROVE  /\ rule = NoState => rule.status = "ABSENT"
         /\ rule # NoState => rule \in RuleState /\ rule.status \in {"NONE", "ACTIVE", "RESOLVED"}
BY NoStateFields, RuleStateTypes DEF TypeOK

LEMMA SilentClockBounds ==
  ASSUME NEW s \in RuleState, NEW at \in Nat, now \in Nat, at <= now, ClockInStep(s)
  PROVE  /\ SilentClock(s, at) \in Int /\ s.clock <= SilentClock(s, at)
         /\ at - ViewSkew <= SilentClock(s, at) /\ SilentClock(s, at) <= now + ViewSkew
<1>1. s.clock \in Int /\ s.clockWall \in Nat /\ ViewSkew \in Nat
  BY RuleStateTypes, ConstantTypes
<1>2. /\ s.clockWall <= now
      /\ s.clockWall - ViewSkew <= s.clock /\ s.clock <= s.clockWall + ViewSkew
  BY DEF ClockInStep
<1>3. SilentClock(s, at) = s.clock + (IF 0 > at - s.clockWall THEN 0 ELSE at - s.clockWall)
  BY DEF SilentClock, Maximum
<1> QED
  BY <1>1, <1>2, <1>3

(* The state s that is evaluated at device clock d; `at` is the wall time  *)
(* the operator knows and `timer` the one that stays registered.           *)
Stands(s, d, at, timer) ==
  /\ s \in RuleState /\ d \in Int /\ at \in Nat
  /\ ClockInStep(s)
  /\ s.clock <= d /\ at - ViewSkew <= d /\ d <= now + ViewSkew
  /\ at <= now /\ now <= at + TimerDelay
  /\ timer \in {None, pendingTimer}
  /\ s = rule \/ (at = now /\ d = s.clock)
  /\ rule = NoState => s.status = "NONE" /\ now - ViewSkew <= s.clock
  /\ rule # NoState =>
       /\ s.status = rule.status /\ s.incident = rule.incident /\ s.revision = rule.revision
       /\ s.overMask = rule.overMask /\ s.severity = rule.severity
       /\ s.clearSince = rule.clearSince /\ s.resolvedAt = rule.resolvedAt
       /\ rule.clock <= s.clock

Step(s, d, at, timer, r, kind) ==
  /\ Stands(s, d, at, timer)
  /\ Outcome(s, d, r, kind) /\ kind \in {"OPEN", "REOPEN", "RESOLVE", "UPDATE", "NONE"}
  /\ now' = now
  /\ last' = IF kind = "NONE" THEN last ELSE Said(r, kind)
  /\ issued' = issued \cup (IF kind = "NONE" THEN {} ELSE {<<r.incident, r.revision>>})
  /\ twice' = (twice \/ (kind # "NONE" /\ <<r.incident, r.revision>> \in issued))
  /\ resolvedWall' = IF kind = "RESOLVE" THEN now ELSE resolvedWall
  /\ clearWall' = IF ~Clear(r) THEN None ELSE IF clearWall = None THEN now ELSE clearWall
  /\ Finish(r, at, timer)

LEMMA RecordSays ==
  ASSUME NEW r, NEW kind \in {"OPEN", "REOPEN", "RESOLVE", "UPDATE", "NONE"},
         NEW out, out = IF kind = "NONE" THEN {} ELSE {Said(r, kind)}, Record(r, out)
  PROVE  /\ last' = IF kind = "NONE" THEN last ELSE Said(r, kind)
         /\ issued' = issued \cup (IF kind = "NONE" THEN {} ELSE {<<r.incident, r.revision>>})
         /\ twice' = (twice \/ (kind # "NONE" /\ <<r.incident, r.revision>> \in issued))
         /\ resolvedWall' = IF kind = "RESOLVE" THEN now ELSE resolvedWall
         /\ clearWall' = IF ~Clear(r) THEN None ELSE IF clearWall = None THEN now ELSE clearWall
<1>1. CASE kind = "NONE"
  <2>1. out = {}
    BY <1>1
  <2>2. /\ last' = last /\ resolvedWall' = resolvedWall
        /\ issued' = issued \cup {<<t.incident, t.revision>> : t \in {}}
        /\ twice' = (twice \/ FALSE)
        /\ clearWall' = IF ~Clear(r) THEN None ELSE IF clearWall = None THEN now ELSE clearWall
    BY <2>1 DEF Record
  <2> QED
    BY <1>1, <2>2
<1>2. CASE kind # "NONE"
  <2> DEFINE t == Said(r, kind)
  <2>1. t.kind = kind /\ t.incident = r.incident /\ t.revision = r.revision
    BY DEF Said
  <2>2. out = {t}
    BY <1>2
  <2> HIDE DEF t
  <2>3. (CHOOSE u \in out : TRUE) = t
    BY <2>2
  <2>4. last' = t
    BY <2>2, <2>3 DEF Record
  <2>5. issued' = issued \cup {<<r.incident, r.revision>>}
    BY <2>1, <2>2 DEF Record
  <2>6. twice' = (twice \/ <<r.incident, r.revision>> \in issued)
    BY <2>1, <2>2 DEF Record
  <2>7. resolvedWall' = IF kind = "RESOLVE" THEN now ELSE resolvedWall
    BY <2>1, <2>2 DEF Record
  <2>8. clearWall' = IF ~Clear(r) THEN None ELSE IF clearWall = None THEN now ELSE clearWall
    BY DEF Record
  <2> QED
    BY <1>2, <2>4, <2>5, <2>6, <2>7, <2>8 DEF t
<1> QED
  BY <1>1, <1>2

(* What the views of a device make of its state. *)
LEMMA WithViewsFields ==
  ASSUME NEW s \in RuleState, NEW v \in View, NEW end \in Int, now \in Nat
  PROVE  LET t == WithViews(s, v, end) IN
         /\ t \in RuleState /\ t.status = s.status /\ t.incident = s.incident
         /\ t.revision = s.revision /\ t.overMask = s.overMask /\ t.severity = s.severity
         /\ t.clearSince = s.clearSince /\ t.resolvedAt = s.resolvedAt /\ t.view = v
         /\ end > s.clock => t.clock = end /\ t.clockWall = now
         /\ ~(end > s.clock) => t.clock = s.clock /\ t.clockWall = s.clockWall
<1> DEFINE u == [s EXCEPT !.view = v]
           t == WithViews(s, v, end)
<1>1. CASE end > s.clock
  <2>1. t = [u EXCEPT !.clock = end, !.clockWall = now]
    BY <1>1 DEF WithViews
  <2>2. t = [s EXCEPT !.view = v, !.clock = end, !.clockWall = now]
    BY <2>1 DEF RuleState
  <2> QED
    BY <1>1, <2>2 DEF RuleState
<1>2. CASE ~(end > s.clock)
  <2>1. t = u
    BY <1>2 DEF WithViews
  <2> QED
    BY <1>2, <2>1 DEF RuleState
<1> QED
  BY <1>1, <1>2

LEMMA ViewsStep ==
  ASSUME IInv, NEW v \in View, NEW skew \in (-ViewSkew) .. ViewSkew, ProcessElement(v, now + skew)
  PROVE  \E s, d, at, timer, r, kind : Step(s, d, at, timer, r, kind)
<1>1. TypeOK /\ (rule # NoState => ClockInStep(rule)) /\ TimerInStep
  BY DEF IInv
<1>2. now \in Nat /\ pendingTimer \in Nat \cup {None}
  BY <1>1 DEF TypeOK
<1>3. PICK end \in Int : end = now + skew
  BY <1>2, ConstantTypes
<1>4. now - ViewSkew <= end /\ end <= now + ViewSkew
  BY <1>2, <1>3, ConstantTypes
<1> DEFINE old == IF rule = NoState THEN NewState ELSE rule
<1>5. PICK s \in RuleState : s = old
  BY <1>1, RuleCases, NewStateType
<1>6. PICK t : t = WithViews(s, v, end)
  OBVIOUS
<1>7. /\ t \in RuleState /\ t.status = s.status /\ t.incident = s.incident
      /\ t.revision = s.revision /\ t.overMask = s.overMask /\ t.severity = s.severity
      /\ t.clearSince = s.clearSince /\ t.resolvedAt = s.resolvedAt
      /\ end > s.clock => t.clock = end /\ t.clockWall = now
      /\ ~(end > s.clock) => t.clock = s.clock /\ t.clockWall = s.clockWall
  BY <1>2, <1>6, WithViewsFields
<1>8. s.clock \in Int /\ s.clockWall \in Nat /\ t.clock \in Int
  BY <1>7, RuleStateTypes
<1>9. rule # NoState => ClockInStep(s)
  BY <1>1, <1>5
<1>10. rule = NoState => end > s.clock /\ s.status = "NONE"
  BY <1>2, <1>4, <1>5, NewStateType, ConstantTypes
<1>11. ClockInStep(t)
  <2>1. CASE end > s.clock
    BY <1>2, <1>4, <1>7, <2>1 DEF ClockInStep
  <2>2. CASE ~(end > s.clock)
    BY <1>7, <1>9, <1>10, <2>2 DEF ClockInStep
  <2> QED
    BY <2>1, <2>2
<1>12. now - ViewSkew <= t.clock /\ s.clock <= t.clock /\ t.clock <= now + ViewSkew
  <2>1. now - ViewSkew <= t.clock /\ s.clock <= t.clock
    BY <1>2, <1>3, <1>4, <1>7, <1>8, ConstantTypes
  <2>2. t.clockWall <= now /\ t.clock <= t.clockWall + ViewSkew /\ t.clockWall \in Nat
    BY <1>7, <1>11, RuleStateTypes DEF ClockInStep
  <2> QED
    BY <1>2, <1>8, <2>1, <2>2, ConstantTypes
<1>13. Stands(t, t.clock, now, pendingTimer)
  <2>1. now <= now + TimerDelay
    BY <1>2, ConstantTypes
  <2>2. rule # NoState =>
          /\ t.status = rule.status /\ t.incident = rule.incident /\ t.revision = rule.revision
          /\ t.overMask = rule.overMask /\ t.severity = rule.severity
          /\ t.clearSince = rule.clearSince /\ t.resolvedAt = rule.resolvedAt
          /\ rule.clock <= t.clock
    BY <1>5, <1>7, <1>12
  <2>3. rule = NoState => t.status = "NONE" /\ now - ViewSkew <= t.clock
    BY <1>7, <1>10, <1>12
  <2>4. t.clock <= t.clock
    BY <1>8
  <2>5. now <= now
    BY <1>2
  <2> QED
    BY <1>2, <1>7, <1>8, <1>11, <1>12, <2>1, <2>2, <2>3, <2>4, <2>5 DEF Stands
<1>14. PICK e : e = Evaluate(t, t.clock)
  OBVIOUS
<1>15. PICK kind \in {"OPEN", "REOPEN", "RESOLVE", "UPDATE", "NONE"} :
         Outcome(t, t.clock, e.rule, kind) /\ e.out = IF kind = "NONE" THEN {} ELSE {Said(e.rule, kind)}
  BY <1>7, <1>8, <1>14, EvaluateCases
<1>16. Record(e.rule, e.out) /\ Finish(e.rule, now, pendingTimer) /\ now' = now
  BY <1>3, <1>5, <1>6, <1>14 DEF ProcessElement
<1>17. PICK r, out : r = e.rule /\ out = e.out
  OBVIOUS
<1>18. Step(t, t.clock, now, pendingTimer, r, kind)
  BY <1>13, <1>15, <1>16, <1>17, RecordSays DEF Step
<1> QED
  BY <1>18

LEMMA TimerStep ==
  ASSUME IInv, OnTimer
  PROVE  \E s, d, at, timer, r, kind : Step(s, d, at, timer, r, kind)
<1>1. TypeOK /\ (rule # NoState => ClockInStep(rule)) /\ TimerInStep
  BY DEF IInv
<1>2. now \in Nat /\ pendingTimer \in Nat \cup {None}
  BY <1>1 DEF TypeOK
<1>3. pendingTimer # None /\ pendingTimer <= now /\ rule # NoState
  BY DEF OnTimer
<1>4. PICK at \in Nat : at = pendingTimer
  BY <1>2, <1>3
<1>5. PICK s \in RuleState : s = rule
  BY <1>1, <1>3, RuleCases
<1>6. PICK d : d = SilentClock(s, at)
  OBVIOUS
<1>7. ClockInStep(s) /\ at <= now /\ now <= at + TimerDelay
  BY <1>1, <1>3, <1>4, <1>5 DEF TimerInStep
<1>8. d \in Int /\ s.clock <= d /\ at - ViewSkew <= d /\ d <= now + ViewSkew
  BY <1>2, <1>6, <1>7, SilentClockBounds
<1>9. Stands(s, d, at, None)
  <2>1. rule.clock <= s.clock
    BY <1>5, RuleStateTypes
  <2> QED
    BY <1>3, <1>5, <1>7, <1>8, <2>1 DEF Stands
<1>10. PICK e : e = Evaluate(s, d)
  OBVIOUS
<1>11. PICK kind \in {"OPEN", "REOPEN", "RESOLVE", "UPDATE", "NONE"} :
         Outcome(s, d, e.rule, kind) /\ e.out = IF kind = "NONE" THEN {} ELSE {Said(e.rule, kind)}
  BY <1>8, <1>10, EvaluateCases
<1>12. Record(e.rule, e.out) /\ Finish(e.rule, at, None) /\ now' = now
  BY <1>4, <1>5, <1>6, <1>10 DEF OnTimer
<1>13. PICK r, out : r = e.rule /\ out = e.out
  OBVIOUS
<1>14. Step(s, d, at, None, r, kind)
  BY <1>9, <1>11, <1>12, <1>13, RecordSays DEF Step
<1> QED
  BY <1>14

-----------------------------------------------------------------------------
(* A step keeps the invariant.                                             *)

(* What the evaluated state owes to the invariant. *)
LEMMA StepStart ==
  ASSUME IInv, NEW s, NEW d, NEW at, NEW timer, Stands(s, d, at, timer)
  PROVE  /\ s.status = "ACTIVE" => Active /\ rule # NoState
         /\ s.status = "RESOLVED" => rule.status = "RESOLVED" /\ rule # NoState
         /\ s.status = "NONE" => rule.status \in {"NONE", "ABSENT"}
         /\ s.status \in {"NONE", "ACTIVE", "RESOLVED"}
         /\ s.status = "ACTIVE" => last.kind # "RESOLVE"
         /\ s.status # "ACTIVE" => last.kind \in {"NONE", "RESOLVE"}
<1>1. TypeOK /\ IncidentIsCurrent
  BY DEF IInv
<1>2. s.status \in {"NONE", "ACTIVE", "RESOLVED"}
  BY RuleStateTypes DEF Stands
<1>3. rule = NoState => s.status = "NONE" /\ rule.status = "ABSENT"
  BY <1>1, RuleCases DEF Stands
<1>4. rule # NoState => s.status = rule.status
  BY DEF Stands
<1> QED
  BY <1>1, <1>2, <1>3, <1>4 DEF Active, IncidentIsCurrent

LEMMA SaidType ==
  ASSUME NEW s \in RuleState, NEW d, NEW r, NEW kind, kind # "NONE", Outcome(s, d, r, kind)
  PROVE  Said(r, kind) \in Transition /\ <<r.incident, r.revision>> \in Int \X (Nat \ {0})
<1>1. r \in RuleState /\ r.incident \in Int /\ r.overMask \in SUBSET Horizon
  BY DEF Outcome, RuleState
<1>2. s.revision \in Nat
  BY RuleStateTypes
<1>3. r.revision \in {1, s.revision + 1}
  BY DEF Outcome
<1>4. r.revision \in Nat \ {0}
  BY <1>2, <1>3
<1>5. r.severity = Severity(s)
  BY DEF Outcome
<1>6. r.severity \in 1 .. 3
  BY <1>5, SeverityType
<1>7. kind \in {"OPEN", "UPDATE", "REOPEN", "RESOLVE"}
  BY DEF Outcome
<1> QED
  BY <1>1, <1>4, <1>6, <1>7 DEF Said, Transition

LEMMA StepTypes ==
  ASSUME IInv, NEW s, NEW d, NEW at, NEW timer, NEW r, NEW kind, Step(s, d, at, timer, r, kind),
         views' \in Nat
  PROVE  TypeOK'
<1>1. TypeOK
  BY DEF IInv
<1>2. Stands(s, d, at, timer) /\ Outcome(s, d, r, kind) /\ Finish(r, at, timer) /\ now' = now
  BY DEF Step
<1>3. now' \in Nat
  BY <1>1, <1>2 DEF TypeOK
<1>4. rule' \in RuleState \cup {NoState}
  BY <1>2 DEF Finish, Outcome
<1>5. pendingTimer' \in Nat \cup {None}
  <2>1. timer \in Nat \cup {None} /\ at \in Nat
    BY <1>1, <1>2 DEF Stands, TypeOK
  <2>2. at + TICK_MS \in Nat
    BY <2>1, ConstantTypes
  <2> QED
    BY <1>2, <2>1, <2>2 DEF Finish
<1>6. last' \in Transition \cup {NoTransition}
  BY <1>1, <1>2, SaidType DEF Step, Stands, TypeOK
<1>7. issued' \subseteq Int \X (Nat \ {0})
  <2>1. CASE kind = "NONE"
    BY <1>1, <2>1 DEF Step, TypeOK
  <2>2. CASE kind # "NONE"
    <3>1. <<r.incident, r.revision>> \in Int \X (Nat \ {0})
      BY <1>2, <2>2, SaidType DEF Stands
    <3> QED
      BY <1>1, <2>2, <3>1 DEF Step, TypeOK
  <2> QED
    BY <2>1, <2>2
<1>8. twice' \in BOOLEAN
  BY <1>1, Zenon DEF Step, TypeOK
<1>9. clearWall' \in Int /\ resolvedWall' \in Int
  BY <1>1, ConstantTypes DEF Step, TypeOK
<1> QED
  BY <1>3, <1>4, <1>5, <1>6, <1>7, <1>8, <1>9 DEF TypeOK

(* What the state after the evaluation owes to the step. *)
LEMMA StepEnd ==
  ASSUME IInv, NEW s, NEW d, NEW at, NEW timer, NEW r, NEW kind, Step(s, d, at, timer, r, kind)
  PROVE  /\ r.status = "RESOLVED" =>
              /\ resolvedWall' - ViewSkew - TimerDelay <= r.resolvedAt
              /\ r.resolvedAt <= resolvedWall' + ViewSkew
         /\ r.status = "NONE" /\ last'.kind = "RESOLVE" =>
              now' - resolvedWall' >= CooldownMs - 2 * ViewSkew - TimerDelay
         /\ r.status # "ACTIVE" => OverMask(r) = {} /\ last'.kind \in {"NONE", "RESOLVE"}
         /\ r.status = "ACTIVE" => /\ last'.kind # "RESOLVE"
                                   /\ last'.mask = r.overMask /\ last'.severity = r.severity
                                   /\ last'.mask = OverMask(r) /\ last'.severity = Severity(r)
<1>1. TypeOK /\ ResolvedInStep /\ SaidLast
  BY DEF IInv
<1>2. Stands(s, d, at, timer) /\ Outcome(s, d, r, kind)
  BY DEF Step
<1>3. s \in RuleState /\ d \in Int /\ at \in Nat /\ now \in Nat /\ resolvedWall \in Int
  BY <1>1, <1>2 DEF Stands, TypeOK
<1>4. at - ViewSkew <= d /\ d <= now + ViewSkew /\ now <= at + TimerDelay
  BY <1>2 DEF Stands
<1>5. OverMask(r) = OverMask(s) /\ Severity(r) = Severity(s)
  BY <1>2, SameView DEF Outcome
<1>6. rule # NoState =>
        s.resolvedAt = rule.resolvedAt /\ s.overMask = rule.overMask /\ s.severity = rule.severity
  BY <1>2 DEF Stands
<1>7. /\ s.status = "ACTIVE" => Active /\ rule # NoState
      /\ s.status = "RESOLVED" => rule.status = "RESOLVED" /\ rule # NoState
      /\ s.status = "NONE" => rule.status \in {"NONE", "ABSENT"}
      /\ s.status \in {"NONE", "ACTIVE", "RESOLVED"}
      /\ s.status = "ACTIVE" => last.kind # "RESOLVE"
      /\ s.status # "ACTIVE" => last.kind \in {"NONE", "RESOLVE"}
  BY <1>2, StepStart
<1>8. CASE kind \in {"OPEN", "REOPEN", "UPDATE"}
  <2>1. r.status = "ACTIVE" /\ r.overMask = OverMask(s) /\ r.severity = Severity(s)
    BY <1>2, <1>8 DEF Outcome
  <2>2. last'.kind = kind /\ last'.mask = r.overMask /\ last'.severity = r.severity
    BY <1>8 DEF Step, Said
  <2> QED
    BY <1>5, <1>8, <2>1, <2>2
<1>9. CASE kind = "RESOLVE"
  <2>1. r.status = "RESOLVED" /\ r.resolvedAt = d /\ Held(s, d)
    BY <1>2, <1>9 DEF Outcome
  <2>2. last'.kind = "RESOLVE" /\ resolvedWall' = now
    BY <1>9 DEF Step, Said
  <2>3. OverMask(r) = {}
    BY <1>3, <1>5, <2>1, ClearIsBelow DEF Held
  <2> QED
    BY <1>3, <1>4, <2>1, <2>2, <2>3, ConstantTypes
<1>10. CASE kind = "NONE" /\ s.status = "ACTIVE"
  <2>1. r.status = "ACTIVE" /\ r.overMask = OverMask(s) /\ r.severity = Severity(s)
        /\ r.overMask = s.overMask /\ r.severity = s.severity
    BY <1>2, <1>10 DEF Outcome
  <2>2. last' = last
    BY <1>10 DEF Step
  <2> QED
    BY <1>1, <1>5, <1>6, <1>7, <1>10, <2>1, <2>2 DEF SaidLast
<1>11. CASE kind = "NONE" /\ s.status # "ACTIVE"
  <2>1. r = s /\ OverMask(s) = {}
    BY <1>2, <1>11 DEF Outcome
  <2>2. last' = last /\ resolvedWall' = resolvedWall /\ now' = now
    BY <1>11 DEF Step
  <2> QED
    BY <1>1, <1>6, <1>7, <1>11, <2>1, <2>2 DEF ResolvedInStep
<1>12. kind \in {"OPEN", "REOPEN", "RESOLVE", "UPDATE", "NONE"}
  BY DEF Step
<1> QED
  BY <1>8, <1>9, <1>10, <1>11, <1>12

(* The state is dropped, after the cooldown. *)
LEMMA DropKeeps ==
  ASSUME IInv, NEW s, NEW d, NEW at, NEW timer, NEW r, NEW kind, Step(s, d, at, timer, r, kind),
         views' \in Nat, Idle(r, SilentClock(r, at))
  PROVE  IInv'
<1>1. TypeOK'
  BY StepTypes
<1>2. rule' = NoState /\ pendingTimer' = None /\ now' = now
  BY DEF Step, Finish
<1>3. rule'.status = "ABSENT" /\ OverMask(rule') = {}
  BY <1>2, NoStateFields
<1>4. r.status \in {"NONE", "RESOLVED"}
  BY DEF Idle
<1>5. last'.kind \in {"NONE", "RESOLVE"}
  BY <1>4, StepEnd
<1>6. last'.kind = "RESOLVE" => now' - resolvedWall' >= CooldownMs - 2 * ViewSkew - TimerDelay
  <2>1. CASE r.status = "NONE"
    BY <2>1, StepEnd
  <2>2. CASE r.status = "RESOLVED"
    <3>1. SilentClock(r, at) - r.resolvedAt >= CooldownMs
      BY <2>2 DEF Idle
    <3>2. r \in RuleState /\ at \in Nat /\ at <= now /\ ClockInStep(r) /\ now \in Nat
      <4>1. r \in RuleState /\ r.clock = s.clock /\ r.clockWall = s.clockWall
        BY DEF Step, Outcome
      <4>2. ClockInStep(s) /\ at \in Nat /\ at <= now
        BY DEF Step, Stands
      <4> QED
        BY <4>1, <4>2 DEF ClockInStep, IInv, TypeOK
    <3>3. SilentClock(r, at) \in Int /\ SilentClock(r, at) <= now + ViewSkew
      BY <3>2, SilentClockBounds
    <3>4. resolvedWall' - ViewSkew - TimerDelay <= r.resolvedAt
      BY <2>2, StepEnd
    <3>5. resolvedWall' \in Int /\ r.resolvedAt \in Int
      BY <1>1, <3>2, RuleStateTypes DEF TypeOK
    <3>6. PICK w \in Int, c \in Int, e \in Int :
            w = resolvedWall' /\ c = SilentClock(r, at) /\ e = r.resolvedAt
      BY <3>3, <3>5
    <3>7. c - e >= CooldownMs /\ c <= now + ViewSkew /\ w - ViewSkew - TimerDelay <= e
      BY <3>1, <3>3, <3>4, <3>6
    <3>8. now - w >= CooldownMs - 2 * ViewSkew - TimerDelay
      BY <3>2, <3>7, ConstantTypes
    <3> QED
      BY <1>2, <3>6, <3>8
  <2> QED
    BY <1>4, <2>1, <2>2
<1>7. ~Active'
  BY <1>3 DEF Active
<1>8. ClearInStep' /\ SaidLast'
  BY <1>7 DEF ClearInStep, SaidLast
<1>9. ResolvedInStep'
  BY <1>3, <1>6 DEF ResolvedInStep
<1>10. IncidentIsCurrent'
  BY <1>3, <1>5, <1>7 DEF IncidentIsCurrent
<1>11. TimerInStep'
  <2>1. None' = None
    BY DEF None
  <2> QED
    BY <1>2, <1>3, <1>7, <2>1 DEF TimerInStep
<1>12. NoState' = NoState
  BY DEF NoState, NewState, None, NoView
<1> QED
  BY <1>1, <1>2, <1>8, <1>9, <1>10, <1>11, <1>12 DEF IInv

(* How an active incident's state is clear, on both clocks. *)
LEMMA ClearStep ==
  ASSUME IInv, NEW s, NEW d, NEW at, NEW timer, NEW r, NEW kind, Step(s, d, at, timer, r, kind),
         r.status = "ACTIVE"
  PROVE  /\ Clear(r) <=> clearWall' # None
         /\ r.clearSince # None <=> clearWall' # None
         /\ clearWall' # None =>
              /\ clearWall' - ViewSkew <= r.clearSince /\ r.clearSince <= clearWall' + ViewSkew
              /\ clearWall' <= now
              /\ s.status = "ACTIVE" /\ d - r.clearSince < HoldMs
              /\ clearWall # None => clearWall' = clearWall
              /\ clearWall = None => clearWall' = now
<1>1. TypeOK /\ ClearInStep
  BY DEF IInv
<1>2. Stands(s, d, at, timer) /\ Outcome(s, d, r, kind)
  BY DEF Step
<1>3. s \in RuleState /\ r \in RuleState /\ d \in Int /\ at \in Nat /\ now \in Nat /\ clearWall \in Int
  BY <1>1, <1>2 DEF Stands, TypeOK, Outcome
<1>4. at - ViewSkew <= d /\ d <= now + ViewSkew /\ (at = now \/ s = rule)
  BY <1>2 DEF Stands
<1>5. clearWall' = IF ~Clear(r) THEN None ELSE IF clearWall = None THEN now ELSE clearWall
  BY DEF Step
<1>6. Clear(r) <=> Clear(s)
  BY <1>2, SameView DEF Outcome
<1>7. now # None
  BY <1>3, ConstantTypes
<1>8. Clear(r) <=> clearWall' # None
  BY <1>5, <1>7
<1>9. CASE s.status # "ACTIVE"
  <2>1. OverMask(s) # {} /\ r.clearSince = None
    BY <1>2, <1>9 DEF Outcome
  <2>2. ~Clear(r)
    BY <1>3, <1>6, <2>1, ClearIsBelow
  <2> QED
    BY <1>5, <1>8, <2>1, <2>2
<1>10. CASE s.status = "ACTIVE"
  <2>1. r.clearSince = Since(s, d) /\ ~Held(s, d)
    BY <1>2, <1>10 DEF Outcome
  <2>2. Active /\ rule # NoState
    BY <1>2, <1>10, StepStart
  <2>3. s.clearSince = rule.clearSince
    BY <1>2, <2>2 DEF Stands
  <2>4. /\ Clear(rule) <=> clearWall # None
        /\ s.clearSince # None <=> clearWall # None
        /\ clearWall # None =>
             /\ clearWall - ViewSkew <= s.clearSince /\ s.clearSince <= clearWall + ViewSkew
             /\ clearWall <= now
    BY <1>1, <2>2, <2>3 DEF ClearInStep
  <2>5. CASE ~Clear(s)
    <3>1. r.clearSince = None
      BY <2>1, <2>5 DEF Since
    <3> QED
      BY <1>5, <1>6, <1>8, <2>5, <3>1
  <2>6. CASE Clear(s) /\ clearWall = None
    <3>1. r.clearSince = d
      BY <2>1, <2>4, <2>6 DEF Since
    <3>2. at = now
      BY <1>4, <2>4, <2>6
    <3>3. clearWall' = now
      BY <1>5, <1>6, <2>6
    <3>4. d # None
      BY <1>3, <1>4, <3>2, ConstantTypes
    <3>5. d - d < HoldMs
      BY <1>3, ConstantTypes
    <3>6. now - ViewSkew <= d /\ d <= now + ViewSkew /\ now <= now
      BY <1>3, <1>4, <3>2
    <3> QED
      BY <1>7, <1>8, <1>10, <2>6, <3>1, <3>3, <3>4, <3>5, <3>6
  <2>7. CASE Clear(s) /\ clearWall # None
    <3>1. r.clearSince = s.clearSince
      BY <2>1, <2>4, <2>7 DEF Since
    <3>2. clearWall' = clearWall
      BY <1>5, <1>6, <2>7
    <3>3. s.clearSince \in Int
      BY <1>3, RuleStateTypes
    <3>4. d - s.clearSince < HoldMs
      BY <1>3, <2>1, <2>7, <3>1, <3>3, ConstantTypes DEF Held
    <3> QED
      BY <1>8, <1>10, <2>4, <2>7, <3>1, <3>2, <3>4
  <2> QED
    BY <2>5, <2>6, <2>7
<1> QED
  BY <1>9, <1>10

LEMMA TickInTime ==
  ASSUME NEW at \in Nat, NEW c \in Int, NEW d \in Int, NEW w \in Int,
         at - ViewSkew <= d, d - c < HoldMs, c <= w + ViewSkew
  PROVE  (at + TICK_MS) - TICK_MS <= w + HoldMs + 2 * ViewSkew
BY ConstantTypes

LEMMA TimerInTime ==
  ASSUME NEW p \in Nat, NEW n \in Nat, p <= n + TICK_MS
  PROVE  p - TICK_MS <= n + HoldMs + 2 * ViewSkew
BY ConstantTypes

(* The timer that finish leaves. *)
LEMMA TimerAfter ==
  ASSUME IInv, NEW s, NEW d, NEW at, NEW timer, NEW r, NEW kind, Step(s, d, at, timer, r, kind),
         ~Idle(r, SilentClock(r, at)), NEW p \in Nat \cup {None}, p = pendingTimer',
         NEW w \in Int, w = clearWall'
  PROVE  /\ p # None => p <= now + TICK_MS /\ now <= p + TimerDelay
         /\ r.status \in {"ACTIVE", "RESOLVED"} => p # None
         /\ r.status = "ACTIVE" /\ w # None => p - TICK_MS <= w + HoldMs + 2 * ViewSkew
<1>1. TypeOK /\ TimerInStep
  BY DEF IInv
<1>2. Stands(s, d, at, timer) /\ Outcome(s, d, r, kind)
  BY DEF Step
<1>3. /\ s \in RuleState /\ r \in RuleState /\ d \in Int /\ at \in Nat /\ now \in Nat
      /\ at <= now /\ now <= at + TimerDelay /\ at - ViewSkew <= d
      /\ pendingTimer \in Nat \cup {None} /\ timer \in {None, pendingTimer} /\ clearWall \in Int
  BY <1>1, <1>2 DEF Stands, TypeOK, Outcome
<1>4. p = IF NeedsTimer(r) /\ timer = None THEN at + TICK_MS ELSE timer
  BY DEF Step, Finish
<1>5. r.status \in {"ACTIVE", "RESOLVED"} => NeedsTimer(r)
  BY DEF NeedsTimer
<1>6. CASE NeedsTimer(r) /\ timer = None
  <2>1. p = at + TICK_MS
    BY <1>4, <1>6
  <2>2. p # None /\ p <= now + TICK_MS /\ now <= p + TimerDelay
    BY <1>3, <2>1, ConstantTypes
  <2>3. ASSUME r.status = "ACTIVE", w # None
        PROVE  p - TICK_MS <= w + HoldMs + 2 * ViewSkew
    <3>1. PICK c \in Int : c = r.clearSince
      BY <1>3, RuleStateTypes
    <3>2. c <= w + ViewSkew /\ d - c < HoldMs
      BY <2>3, <3>1, ClearStep
    <3> QED
      BY <1>3, <2>1, <3>1, <3>2, TickInTime
  <2> QED
    BY <2>2, <2>3
<1>7. CASE timer # None
  <2>1. p = pendingTimer /\ p # None
    BY <1>3, <1>4, <1>7
  <2>2. p <= now + TICK_MS /\ now <= p + TimerDelay
    BY <1>1, <2>1 DEF TimerInStep
  <2>3. ASSUME r.status = "ACTIVE", w # None
        PROVE  p - TICK_MS <= w + HoldMs + 2 * ViewSkew
    <3>1. /\ s.status = "ACTIVE"
          /\ clearWall # None => w = clearWall
          /\ clearWall = None => w = now
      BY <2>3, ClearStep
    <3>2. CASE clearWall # None
      <4>1. Active
        BY <1>2, <3>1, StepStart
      <4> QED
        BY <1>1, <2>1, <3>1, <3>2, <4>1 DEF TimerInStep
    <3>3. CASE clearWall = None
      <4>1. w = now
        BY <3>1, <3>3
      <4>2. p \in Nat
        BY <2>1
      <4> QED
        BY <1>3, <2>2, <4>1, <4>2, TimerInTime
    <3> QED
      BY <3>2, <3>3
  <2> QED
    BY <2>1, <2>2, <2>3
<1>8. CASE ~NeedsTimer(r) /\ timer = None
  BY <1>4, <1>5, <1>8
<1> QED
  BY <1>6, <1>7, <1>8

LEMMA StayKeeps ==
  ASSUME IInv, NEW s, NEW d, NEW at, NEW timer, NEW r, NEW kind, Step(s, d, at, timer, r, kind),
         views' \in Nat, ~Idle(r, SilentClock(r, at))
  PROVE  IInv'
<1>1. TypeOK'
  BY StepTypes
<1>2. rule' = r /\ now' = now /\ r \in RuleState
  BY DEF Step, Finish, Outcome
<1>3. PICK p \in Nat \cup {None}, w \in Int : p = pendingTimer' /\ w = clearWall'
  <2>1. pendingTimer' \in Nat \cup {None}
    BY <1>1 DEF TypeOK, None
  <2> QED
    BY <1>1, <2>1 DEF TypeOK
<1>4. ClockInStep(rule)'
  <2>1. ClockInStep(s) /\ r.clock = s.clock /\ r.clockWall = s.clockWall
    BY DEF Step, Stands, Outcome
  <2> QED
    BY <1>2, <2>1 DEF ClockInStep
<1>5. None' = None /\ Active' = (r.status = "ACTIVE")
  BY <1>2 DEF None, Active
<1>6. ClearInStep'
  <2>1. r.status = "ACTIVE" =>
          /\ Clear(r) <=> clearWall' # None
          /\ r.clearSince # None <=> clearWall' # None
          /\ clearWall' # None =>
               /\ clearWall' - ViewSkew <= r.clearSince /\ r.clearSince <= clearWall' + ViewSkew
               /\ clearWall' <= now
    BY ClearStep
  <2>2. Clear(rule)' <=> Clear(r)
    BY <1>2 DEF Clear
  <2> QED
    BY <1>2, <1>5, <2>1, <2>2 DEF ClearInStep
<1>7. ResolvedInStep'
  <2>1. r.status # "ABSENT"
    BY <1>2, RuleStateTypes
  <2> QED
    BY <1>2, <2>1, StepEnd DEF ResolvedInStep
<1>8. SaidLast'
  BY <1>2, <1>5, StepEnd DEF SaidLast
<1>9. IncidentIsCurrent'
  <2>1. OverMask(rule)' = OverMask(r) /\ Severity(rule)' = Severity(r)
    BY <1>2 DEF OverMask, Severity, Reaches
  <2> QED
    BY <1>5, <2>1, StepEnd DEF IncidentIsCurrent
<1>10. TimerInStep'
  <2>1. /\ p # None => p <= now + TICK_MS /\ now <= p + TimerDelay
        /\ r.status \in {"ACTIVE", "RESOLVED"} => p # None
        /\ r.status = "ACTIVE" /\ w # None => p - TICK_MS <= w + HoldMs + 2 * ViewSkew
    BY <1>3, TimerAfter
  <2> QED
    BY <1>2, <1>3, <1>5, <2>1 DEF TimerInStep
<1> QED
  BY <1>1, <1>4, <1>6, <1>7, <1>8, <1>9, <1>10 DEF IInv

(* A step that takes no time is a Step. *)
LEMMA NextSteps ==
  ASSUME IInv, Next
  PROVE  \/ Pass
         \/ views' \in Nat /\ \E s, d, at, timer, r, kind : Step(s, d, at, timer, r, kind)
<1>1. views \in Nat
  BY DEF IInv, TypeOK
<1>2. ASSUME NEW v \in View, NEW skew \in (-ViewSkew) .. ViewSkew, ProcessElement(v, now + skew)
      PROVE  views' \in Nat /\ \E s, d, at, timer, r, kind : Step(s, d, at, timer, r, kind)
  <2>1. views' = views + 1
    BY <1>2 DEF ProcessElement
  <2> QED
    BY <1>1, <1>2, <2>1, ViewsStep
<1>3. ASSUME OnTimer
      PROVE  views' \in Nat /\ \E s, d, at, timer, r, kind : Step(s, d, at, timer, r, kind)
  <2>1. views' = views
    BY <1>3 DEF OnTimer
  <2> QED
    BY <1>1, <1>3, <2>1, TimerStep
<1> QED
  BY <1>2, <1>3 DEF Next

LEMMA PassKeeps ==
  ASSUME IInv, Pass
  PROVE  IInv'
<1>1. TypeOK /\ ClearInStep /\ ResolvedInStep /\ SaidLast /\ IncidentIsCurrent /\ TimerInStep
      /\ (rule # NoState => ClockInStep(rule))
  BY DEF IInv
<1>2. /\ now' = now + 1 /\ rule' = rule /\ pendingTimer' = pendingTimer /\ views' = views
      /\ last' = last /\ issued' = issued /\ twice' = twice /\ clearWall' = clearWall
      /\ resolvedWall' = resolvedWall
      /\ pendingTimer = None \/ now < pendingTimer + TimerDelay
  BY DEF Pass
<1>3. now \in Nat /\ clearWall \in Int /\ resolvedWall \in Int /\ pendingTimer \in Nat \cup {None}
  BY <1>1 DEF TypeOK
<1>4. TypeOK'
  BY <1>1, <1>2 DEF TypeOK
<1>5. (rule # NoState => ClockInStep(rule))'
  <2>1. rule # NoState => rule.clockWall \in Nat
    BY <1>1, RuleCases, RuleStateTypes
  <2> QED
    BY <1>1, <1>2, <1>3, <2>1 DEF ClockInStep
<1>6. ClearInStep'
  <2>1. Active' = Active /\ Clear(rule)' = Clear(rule)
    BY <1>2 DEF Active, Clear
  <2>2. clearWall <= now => clearWall <= now + 1
    BY <1>3
  <2> QED
    BY <1>1, <1>2, <2>1, <2>2 DEF ClearInStep
<1>7. ResolvedInStep'
  <2>1. ASSUME now - resolvedWall >= CooldownMs - 2 * ViewSkew - TimerDelay
        PROVE  (now + 1) - resolvedWall >= CooldownMs - 2 * ViewSkew - TimerDelay
    BY <1>3, <2>1, ConstantTypes
  <2> QED
    BY <1>1, <1>2, <2>1 DEF ResolvedInStep
<1>8. SaidLast'
  BY <1>1, <1>2 DEF SaidLast, Active
<1>9. IncidentIsCurrent'
  BY <1>1, <1>2 DEF IncidentIsCurrent, Active, OverMask, Severity, Reaches
<1>10. TimerInStep'
  <2>1. ASSUME pendingTimer # None
        PROVE  pendingTimer <= (now + 1) + TICK_MS /\ now + 1 <= pendingTimer + TimerDelay
    <3>1. pendingTimer \in Nat /\ pendingTimer <= now + TICK_MS /\ now < pendingTimer + TimerDelay
      BY <1>1, <1>2, <1>3, <2>1 DEF TimerInStep
    <3> QED
      BY <1>3, <3>1, ConstantTypes
  <2> QED
    BY <1>1, <1>2, <2>1 DEF TimerInStep, Active
<1> QED
  BY <1>4, <1>5, <1>6, <1>7, <1>8, <1>9, <1>10 DEF IInv

LEMMA StutterKeeps ==
  ASSUME IInv, UNCHANGED vars
  PROVE  IInv'
<1>1. /\ now' = now /\ rule' = rule /\ pendingTimer' = pendingTimer /\ views' = views
      /\ last' = last /\ issued' = issued /\ twice' = twice /\ clearWall' = clearWall
      /\ resolvedWall' = resolvedWall
  BY DEF vars
<1>2. TypeOK'
  BY <1>1 DEF IInv, TypeOK
<1>3. (rule # NoState => ClockInStep(rule))'
  BY <1>1 DEF IInv, ClockInStep
<1>4. ClearInStep' /\ ResolvedInStep' /\ SaidLast'
  BY <1>1 DEF IInv, ClearInStep, ResolvedInStep, SaidLast, Active, Clear
<1>5. IncidentIsCurrent'
  BY <1>1 DEF IInv, IncidentIsCurrent, Active, OverMask, Severity, Reaches
<1>6. TimerInStep'
  BY <1>1 DEF IInv, TimerInStep, Active
<1> QED
  BY <1>2, <1>3, <1>4, <1>5, <1>6 DEF IInv

LEMMA NextKeeps ==
  ASSUME IInv, [Next]_vars
  PROVE  IInv'
<1>1. CASE Pass
  BY <1>1, PassKeeps
<1>2. ASSUME NEW s, NEW d, NEW at, NEW timer, NEW r, NEW kind, Step(s, d, at, timer, r, kind),
             views' \in Nat
      PROVE  IInv'
  <2>1. CASE Idle(r, SilentClock(r, at))
    BY <1>2, <2>1, DropKeeps
  <2>2. CASE ~Idle(r, SilentClock(r, at))
    BY <1>2, <2>2, StayKeeps
  <2> QED
    BY <2>1, <2>2
<1>3. CASE UNCHANGED vars
  BY <1>3, StutterKeeps
<1> QED
  BY <1>1, <1>2, <1>3, NextSteps

LEMMA InitIInv == Init => IInv
<1> SUFFICES ASSUME Init PROVE IInv
  OBVIOUS
<1>1. rule = NoState /\ rule.status = "ABSENT" /\ OverMask(rule) = {}
  BY NoStateFields DEF Init
<1>2. last.kind = "NONE"
  BY DEF Init, NoTransition
<1>3. TypeOK
  BY ConstantTypes DEF Init, TypeOK
<1>4. ~Active
  BY <1>1 DEF Active
<1>5. ClearInStep /\ ResolvedInStep /\ SaidLast /\ IncidentIsCurrent
  BY <1>1, <1>2, <1>4 DEF ClearInStep, ResolvedInStep, SaidLast, IncidentIsCurrent
<1>6. TimerInStep
  BY <1>1, <1>4 DEF TimerInStep, Init
<1> QED
  BY <1>1, <1>3, <1>5, <1>6 DEF IInv

(* The rule's clocks, timer and transitions stay in step, whatever views   *)
(* and timers do (PortScanRule, PortScanDetector).                         *)
LEMMA InvariantHolds == Spec => []IInv
BY InitIInv, NextKeeps, PTL DEF Spec

(* What the rule said last is what its latest views show, whatever the     *)
(* thresholds and however views, timers and resets of the rule's state     *)
(* come between each other (evaluate, finish).                             *)
THEOREM IncidentsAreCurrent == Spec => []IncidentIsCurrent
<1>1. IInv => IncidentIsCurrent
  BY DEF IInv
<1> QED
  BY <1>1, InvariantHolds, PTL

(* Silence resolves a clear incident within the hold time, a tick, the     *)
(* clock's error and the delay of a timer: finish leaves no active         *)
(* incident without a timer, and the timer it keeps is an early one        *)
(* (onTimer, finish).                                                      *)
THEOREM SilenceAlwaysResolves == Spec => []SilenceResolves
<1>1. ASSUME IInv PROVE SilenceResolves
  <2> SUFFICES ASSUME Active, clearWall # None
               PROVE  now - clearWall <= HoldMs + TICK_MS + 2 * ViewSkew + TimerDelay
    BY DEF SilenceResolves
  <2>1. TypeOK /\ TimerInStep
    BY <1>1 DEF IInv
  <2>2. pendingTimer # None
    BY <2>1 DEF TimerInStep, Active
  <2>3. now <= pendingTimer + TimerDelay
        /\ pendingTimer - TICK_MS <= clearWall + HoldMs + 2 * ViewSkew
    BY <2>1, <2>2 DEF TimerInStep
  <2>4. now \in Nat /\ clearWall \in Int /\ pendingTimer \in Nat
    BY <2>1, <2>2 DEF TypeOK
  <2> QED
    BY <2>3, <2>4, ConstantTypes
<1> QED
  BY <1>1, InvariantHolds, PTL

-----------------------------------------------------------------------------
(* What a step never does.                                                 *)

LEMMA HoldIsWaited ==
  ASSUME IInv, NEW s, NEW d, NEW at, NEW timer, NEW r, Step(s, d, at, timer, r, "RESOLVE")
  PROVE  clearWall' # None /\ now - clearWall' >= HoldMs - 2 * ViewSkew
<1>1. TypeOK /\ ClearInStep
  BY DEF IInv
<1>2. Stands(s, d, at, timer) /\ Outcome(s, d, r, "RESOLVE")
  BY DEF Step
<1>3. s.status = "ACTIVE" /\ Held(s, d) /\ s \in RuleState /\ d \in Int /\ d <= now + ViewSkew
  BY <1>2 DEF Outcome, Stands
<1>4. now \in Nat /\ clearWall \in Int /\ s.clearSince \in Int
  BY <1>1, <1>3, RuleStateTypes DEF TypeOK
<1>5. Active /\ rule # NoState
  BY <1>2, <1>3, StepStart
<1>6. s.clearSince = rule.clearSince
  BY <1>2, <1>5 DEF Stands
<1>7. Clear(s) /\ d - Since(s, d) >= HoldMs
  BY <1>3 DEF Held
<1>8. s.clearSince # None
  <2> SUFFICES ASSUME s.clearSince = None PROVE FALSE
    OBVIOUS
  <2>1. Since(s, d) = d
    BY <1>7 DEF Since
  <2> QED
    BY <1>3, <1>7, <2>1, ConstantTypes
<1>9. clearWall # None /\ clearWall - ViewSkew <= s.clearSince
  BY <1>1, <1>5, <1>6, <1>8 DEF ClearInStep
<1>10. d - s.clearSince >= HoldMs
  BY <1>7, <1>8 DEF Since
<1>11. clearWall' = clearWall
  <2>1. Clear(r)
    BY <1>2, <1>7, SameView DEF Outcome
  <2> QED
    BY <1>9, <2>1 DEF Step
<1>12. now - clearWall >= HoldMs - 2 * ViewSkew
  BY <1>3, <1>4, <1>9, <1>10, ConstantTypes
<1> QED
  BY <1>9, <1>11, <1>12

LEMMA CooldownIsWaited ==
  ASSUME IInv, NEW s, NEW d, NEW at, NEW timer, NEW r, NEW kind, Step(s, d, at, timer, r, kind),
         last.kind = "RESOLVE", kind # "NONE"
  PROVE  /\ last'.kind = "REOPEN" => now - resolvedWall < CooldownMs + 2 * ViewSkew
         /\ last'.kind # "REOPEN" =>
              now - resolvedWall >= CooldownMs - 2 * ViewSkew - TimerDelay
<1>1. TypeOK /\ ResolvedInStep /\ IncidentIsCurrent
  BY DEF IInv
<1>2. Stands(s, d, at, timer) /\ Outcome(s, d, r, kind)
  BY DEF Step
<1>3. /\ s.status # "ACTIVE" /\ s \in RuleState /\ d \in Int
      /\ at - ViewSkew <= d /\ d <= now + ViewSkew
  BY <1>2, StepStart DEF Stands
<1>4. /\ kind \in {"OPEN", "REOPEN"} /\ OverMask(s) # {}
      /\ kind = "REOPEN" <=> s.status = "RESOLVED" /\ d - s.resolvedAt < CooldownMs
  BY <1>2, <1>3 DEF Outcome
<1>5. last'.kind = kind
  BY <1>4 DEF Step, Said
<1>6. now \in Nat /\ resolvedWall \in Int /\ s.resolvedAt \in Int
  BY <1>1, <1>3, RuleStateTypes DEF TypeOK
<1>7. at = now
  <2>1. ASSUME s = rule PROVE FALSE
    BY <1>1, <1>3, <1>4, <2>1 DEF IncidentIsCurrent, Active
  <2> QED
    BY <1>2, <2>1 DEF Stands
<1>8. s.status = "RESOLVED" =>
        /\ resolvedWall - ViewSkew - TimerDelay <= s.resolvedAt
        /\ s.resolvedAt <= resolvedWall + ViewSkew
  <2>1. s.status = "RESOLVED" => rule.status = "RESOLVED" /\ s.resolvedAt = rule.resolvedAt
    BY <1>2, StepStart DEF Stands
  <2> QED
    BY <1>1, <2>1 DEF ResolvedInStep
<1>9. CASE kind = "REOPEN"
  <2>1. s.resolvedAt <= resolvedWall + ViewSkew /\ d - s.resolvedAt < CooldownMs
    BY <1>4, <1>8, <1>9
  <2>2. now - resolvedWall < CooldownMs + 2 * ViewSkew
    BY <1>3, <1>6, <1>7, <2>1, ConstantTypes
  <2> QED
    BY <1>5, <1>9, <2>2
<1>10. CASE kind = "OPEN" /\ s.status = "RESOLVED"
  <2>1. resolvedWall - ViewSkew - TimerDelay <= s.resolvedAt /\ d - s.resolvedAt >= CooldownMs
    BY <1>3, <1>4, <1>6, <1>8, <1>10, ConstantTypes
  <2>2. now - resolvedWall >= CooldownMs - 2 * ViewSkew - TimerDelay
    BY <1>3, <1>6, <2>1, ConstantTypes
  <2> QED
    BY <1>5, <1>10, <2>2
<1>11. CASE kind = "OPEN" /\ s.status # "RESOLVED"
  <2>1. rule.status \in {"NONE", "ABSENT"}
    BY <1>2, <1>3, <1>11, StepStart
  <2> QED
    BY <1>1, <1>5, <1>11, <2>1 DEF ResolvedInStep
<1> QED
  BY <1>4, <1>9, <1>10, <1>11

(* No incident is resolved before the views were clear for the hold time   *)
(* without a break, but for twice the clock's error: a hold that ends on a *)
(* timer is no shorter than one that ends on a view (evaluate, onClock).   *)
THEOREM ResolvesAreHeld == Spec => ResolveHeld
<1>1. ASSUME IInv, [Next]_vars, last' # last, last'.kind = "RESOLVE"
      PROVE  clearWall' # None /\ now - clearWall' >= HoldMs - 2 * ViewSkew
  <2>1. ~Pass /\ ~UNCHANGED vars
    BY <1>1 DEF Pass, vars
  <2>2. PICK s, d, at, timer, r, kind : Step(s, d, at, timer, r, kind)
    BY <1>1, <2>1, NextSteps
  <2>3. kind = "RESOLVE"
    BY <1>1, <2>2 DEF Step, Said
  <2> QED
    BY <1>1, <2>2, <2>3, HoldIsWaited
<1>2. ASSUME IInv, [Next]_vars
      PROVE  [last' # last /\ last'.kind = "RESOLVE" =>
                clearWall' # None /\ now - clearWall' >= HoldMs - 2 * ViewSkew]_vars
  BY <1>1, <1>2
<1> QED
  BY <1>2, InvariantHolds, PTL DEF Spec, ResolveHeld

(* A resolved incident is reopened only within its cooldown and a new one  *)
(* opened only behind it, also when the rule's state was dropped in        *)
(* between (evaluate, idle, finish).                                       *)
THEOREM CooldownsDecide == Spec => CooldownDecides
<1>1. ASSUME IInv, [Next]_vars, last' # last, last.kind = "RESOLVE"
      PROVE  IF last'.kind = "REOPEN"
             THEN now - resolvedWall < CooldownMs + 2 * ViewSkew
             ELSE now - resolvedWall >= CooldownMs - 2 * ViewSkew - TimerDelay
  <2>1. ~Pass /\ ~UNCHANGED vars
    BY <1>1 DEF Pass, vars
  <2>2. PICK s, d, at, timer, r, kind : Step(s, d, at, timer, r, kind)
    BY <1>1, <2>1, NextSteps
  <2>3. kind # "NONE"
    BY <1>1, <2>2 DEF Step
  <2> QED
    BY <1>1, <2>2, <2>3, CooldownIsWaited
<1>2. ASSUME IInv, [Next]_vars
      PROVE  [last' # last /\ last.kind = "RESOLVE" =>
                IF last'.kind = "REOPEN"
                THEN now - resolvedWall < CooldownMs + 2 * ViewSkew
                ELSE now - resolvedWall >= CooldownMs - 2 * ViewSkew - TimerDelay]_vars
  BY <1>1, <1>2
<1> QED
  BY <1>2, InvariantHolds, PTL DEF Spec, CooldownDecides

-----------------------------------------------------------------------------
(* The transition IDs.                                                     *)

(* The IDs as the evaluated state knows them. *)
LEMMA IdsBefore ==
  ASSUME SkewIsSmall, IdsInv, NEW s, NEW d, NEW at, NEW timer, Stands(s, d, at, timer)
  PROVE  /\ s.status \in {"ACTIVE", "RESOLVED"} => Known(s, issued)
         /\ s.status = "NONE" =>
              \A x \in issued : x[1] < s.clock /\ x[1] + HoldMs + CooldownMs <= now + ViewSkew
<1>1. IInv /\ TypeOK /\ KnownIncident /\ ForgottenIncidents
  BY DEF IdsInv, IInv
<1>2. s \in RuleState /\ s.clock \in Int /\ s.incident \in Int
  BY RuleStateTypes DEF Stands
<1>3. /\ s.status = "ACTIVE" => Active /\ rule # NoState
      /\ s.status = "RESOLVED" => rule.status = "RESOLVED" /\ rule # NoState
      /\ s.status = "NONE" => rule.status \in {"NONE", "ABSENT"}
  BY <1>1, StepStart
<1>4. rule # NoState => rule \in RuleState /\ rule.clock \in Int /\ rule.clock <= s.clock
  BY <1>1, RuleCases, RuleStateTypes DEF Stands
<1>5. ASSUME s.status \in {"ACTIVE", "RESOLVED"}
      PROVE  Known(s, issued)
  <2>1. Known(rule, issued) /\ rule # NoState
    BY <1>1, <1>3, <1>5 DEF KnownIncident, Active
  <2>2. /\ s.status = rule.status /\ s.incident = rule.incident /\ s.revision = rule.revision
        /\ s.clearSince = rule.clearSince /\ s.resolvedAt = rule.resolvedAt
    BY <2>1 DEF Stands
  <2>3. s.incident <= s.clock
    BY <1>2, <1>4, <2>1, <2>2 DEF Known
  <2> QED
    BY <2>1, <2>2, <2>3 DEF Known
<1>6. ASSUME s.status = "NONE", NEW x \in issued
      PROVE  x[1] < s.clock /\ x[1] + HoldMs + CooldownMs <= now + ViewSkew
  <2>1. x[1] \in Int /\ now \in Nat
    BY <1>1 DEF TypeOK
  <2>2. x[1] + HoldMs + CooldownMs <= now + ViewSkew /\ (rule # NoState => x[1] < rule.clock)
    BY <1>1, <1>3, <1>6 DEF ForgottenIncidents
  <2>3. CASE rule # NoState
    BY <1>2, <1>4, <2>1, <2>2, <2>3
  <2>4. CASE rule = NoState
    <3>1. now - ViewSkew <= s.clock
      BY <2>4 DEF Stands
    <3>2. PICK y \in Int, c \in Int : y = x[1] /\ c = s.clock
      BY <1>2, <2>1
    <3>3. y < c
      BY <2>1, <2>2, <3>1, <3>2, ConstantTypes DEF SkewIsSmall
    <3> QED
      BY <2>2, <3>2, <3>3
  <2> QED
    BY <2>3, <2>4
<1> QED
  BY <1>5, <1>6

(* A transition's ID is new. *)
LEMMA IdIsNew ==
  ASSUME SkewIsSmall, IdsInv, NEW s, NEW d, NEW at, NEW timer, NEW r, NEW kind,
         Step(s, d, at, timer, r, kind), kind # "NONE"
  PROVE  \A x \in issued :
           x[1] < r.incident \/ (s.status # "NONE" /\ x[1] = r.incident /\ x[2] < r.revision)
<1>1. Stands(s, d, at, timer) /\ Outcome(s, d, r, kind)
  BY DEF Step
<1>2. /\ s \in RuleState /\ d \in Int /\ s.clock \in Int /\ s.incident \in Int /\ s.revision \in Nat
      /\ s.resolvedAt \in Int /\ s.clock <= d /\ s.status \in {"NONE", "ACTIVE", "RESOLVED"}
  BY <1>1, RuleStateTypes DEF Stands
<1>3. TAKE x \in issued
<1>4. x[1] \in Int /\ x[2] \in Nat
  BY DEF IdsInv, IInv, TypeOK
<1>5. CASE kind \in {"UPDATE", "RESOLVE", "REOPEN"}
  <2>1. r.incident = s.incident /\ r.revision = s.revision + 1 /\ s.status \in {"ACTIVE", "RESOLVED"}
    BY <1>1, <1>5 DEF Outcome
  <2>2. x[1] < s.incident \/ (x[1] = s.incident /\ x[2] <= s.revision)
    BY <1>1, <2>1, IdsBefore DEF Known
  <2>3. x[2] <= s.revision => x[2] < s.revision + 1
    BY <1>2, <1>4
  <2> QED
    BY <2>1, <2>2, <2>3
<1>6. CASE kind = "OPEN"
  <2>1. r.incident = d /\ s.status \in {"NONE", "RESOLVED"}
        /\ ~(s.status = "RESOLVED" /\ d - s.resolvedAt < CooldownMs)
    BY <1>1, <1>2, <1>6 DEF Outcome
  <2>2. CASE s.status = "NONE"
    <3>1. x[1] < s.clock
      BY <1>1, <2>2, IdsBefore
    <3> QED
      BY <1>2, <1>4, <2>1, <3>1
  <2>3. CASE s.status = "RESOLVED"
    <3>1. s.incident + HoldMs <= s.resolvedAt /\ (x[1] < s.incident \/ x[1] = s.incident)
      BY <1>1, <2>3, IdsBefore DEF Known
    <3>2. d - s.resolvedAt >= CooldownMs
      BY <1>2, <2>1, <2>3, ConstantTypes
    <3>3. x[1] < d
      BY <1>2, <1>4, <3>1, <3>2, ConstantTypes
    <3> QED
      BY <2>1, <3>3
  <2> QED
    BY <2>1, <2>2, <2>3
<1> QED
  BY <1>5, <1>6 DEF Step

(* The IDs as the state after the evaluation knows them. *)
LEMMA IdsAfter ==
  ASSUME SkewIsSmall, IdsInv, NEW s, NEW d, NEW at, NEW timer, NEW r, NEW kind,
         Step(s, d, at, timer, r, kind), r.status \in {"ACTIVE", "RESOLVED"}
  PROVE  Known(r, issued')
<1>1. Stands(s, d, at, timer) /\ Outcome(s, d, r, kind)
  BY DEF Step
<1>2. /\ s \in RuleState /\ d \in Int /\ s.clock \in Int /\ s.incident \in Int /\ s.revision \in Nat
      /\ s.resolvedAt \in Int /\ s.clearSince \in Int /\ s.clock <= d /\ r.clock = s.clock
      /\ r.revision \in Nat /\ r.incident \in Int
  BY <1>1, RuleStateTypes DEF Stands, Outcome
<1>3. CASE kind \in {"OPEN", "REOPEN"}
  <2>1. r.status = "ACTIVE" /\ r.clearSince = None /\ s.status # "ACTIVE" /\ OverMask(s) # {}
    BY <1>1, <1>3 DEF Outcome
  <2>2. d = s.clock
    <3>1. ASSUME s = rule PROVE FALSE
      BY <2>1, <3>1 DEF IdsInv, IInv, IncidentIsCurrent, Active
    <3> QED
      BY <1>1, <3>1 DEF Stands
  <2>3. r.incident <= r.clock
    <3>1. CASE kind = "OPEN"
      <4>1. r.incident = d
        BY <1>1, <3>1 DEF Outcome
      <4> QED
        BY <1>2, <2>2, <4>1
    <3>2. CASE kind = "REOPEN"
      <4>1. r.incident = s.incident /\ s.status = "RESOLVED"
        BY <1>1, <3>2 DEF Outcome
      <4> QED
        BY <1>1, <1>2, <4>1, IdsBefore DEF Known
    <3> QED
      BY <1>3, <3>1, <3>2
  <2>4. \A x \in issued' : x[1] < r.incident \/ (x[1] = r.incident /\ x[2] <= r.revision)
    <3> SUFFICES ASSUME NEW x \in issued'
                 PROVE  x[1] < r.incident \/ (x[1] = r.incident /\ x[2] <= r.revision)
      OBVIOUS
    <3>1. x \in issued \/ x = <<r.incident, r.revision>>
      BY <1>3 DEF Step
    <3>2. CASE x \in issued
      <4>1. x[2] \in Nat
        BY <3>2 DEF IdsInv, IInv, TypeOK
      <4>2. x[1] < r.incident \/ (s.status # "NONE" /\ x[1] = r.incident /\ x[2] < r.revision)
        BY <1>3, <3>2, IdIsNew
      <4> QED
        BY <1>2, <4>1, <4>2
    <3>3. CASE x = <<r.incident, r.revision>>
      BY <1>2, <3>3
    <3> QED
      BY <3>1, <3>2, <3>3
  <2> QED
    BY <2>1, <2>3, <2>4 DEF Known
<1>4. CASE kind \in {"UPDATE", "RESOLVE", "NONE"} /\ s.status = "ACTIVE"
  <2>1. Known(s, issued) /\ r.incident = s.incident
    BY <1>1, <1>4, IdsBefore DEF Outcome
  <2>2. Clear(s) => s.incident <= Since(s, d)
    BY <1>2, <1>4, <2>1 DEF Known, Since
  <2>3. r.status = "ACTIVE" /\ r.clearSince # None => r.incident <= r.clearSince
    <3>1. r.status = "ACTIVE" => r.clearSince = Since(s, d)
      BY <1>1, <1>4 DEF Outcome
    <3>2. Since(s, d) # None => Clear(s)
      BY DEF Since
    <3> QED
      BY <2>1, <2>2, <3>1, <3>2
  <2>4. r.status = "RESOLVED" => r.incident + HoldMs <= r.resolvedAt
    <3> SUFFICES ASSUME r.status = "RESOLVED" PROVE r.incident + HoldMs <= r.resolvedAt
      OBVIOUS
    <3>1. r.resolvedAt = d /\ Clear(s) /\ d - Since(s, d) >= HoldMs
      BY <1>1, <1>4 DEF Outcome, Held
    <3>2. PICK e \in Int : e = Since(s, d)
      BY <1>2, ConstantTypes DEF Since
    <3>3. s.incident <= e /\ d - e >= HoldMs
      BY <2>2, <3>1, <3>2
    <3>4. s.incident + HoldMs <= d
      BY <1>2, <3>3, ConstantTypes
    <3> QED
      BY <2>1, <3>1, <3>4
  <2>5. \A x \in issued' : x[1] < r.incident \/ (x[1] = r.incident /\ x[2] <= r.revision)
    <3> SUFFICES ASSUME NEW x \in issued'
                 PROVE  x[1] < r.incident \/ (x[1] = r.incident /\ x[2] <= r.revision)
      OBVIOUS
    <3>1. r.revision \in {s.revision, s.revision + 1}
      BY <1>1, <1>4 DEF Outcome
    <3>2. x \in issued \/ x = <<r.incident, r.revision>>
      BY DEF Step
    <3>3. CASE x \in issued
      <4>1. x[2] \in Nat
        BY <3>3 DEF IdsInv, IInv, TypeOK
      <4>2. x[1] < s.incident \/ (x[1] = s.incident /\ x[2] <= s.revision)
        BY <2>1, <3>3 DEF Known
      <4>3. x[2] <= s.revision => x[2] <= r.revision
        BY <1>2, <3>1, <4>1
      <4> QED
        BY <2>1, <4>2, <4>3
    <3>4. CASE x = <<r.incident, r.revision>>
      BY <1>2, <3>4
    <3> QED
      BY <3>2, <3>3, <3>4
  <2> QED
    BY <1>2, <2>1, <2>3, <2>4, <2>5 DEF Known
<1>5. CASE kind = "NONE" /\ s.status # "ACTIVE"
  <2>1. r = s /\ issued' = issued
    BY <1>1, <1>5 DEF Outcome, Step
  <2> QED
    BY <1>1, <1>5, <2>1, IdsBefore
<1> QED
  BY <1>1, <1>3, <1>4, <1>5 DEF Outcome

LEMMA StepKeepsIds ==
  ASSUME SkewIsSmall, IdsInv, IInv', NEW s, NEW d, NEW at, NEW timer, NEW r, NEW kind,
         Step(s, d, at, timer, r, kind)
  PROVE  IdsInv'
<1>1. /\ Stands(s, d, at, timer) /\ Outcome(s, d, r, kind) /\ Finish(r, at, timer)
      /\ IInv /\ TypeOK /\ now' = now
  BY DEF Step, IdsInv, IInv
<1>2. /\ r \in RuleState /\ r.status \in {"NONE", "ACTIVE", "RESOLVED"} /\ r.incident \in Int
      /\ r.resolvedAt \in Int /\ r.clock = s.clock /\ r.revision \in Nat /\ now \in Nat
      /\ s.status \in {"NONE", "ACTIVE", "RESOLVED"}
  BY <1>1, RuleStateTypes, StepStart DEF Outcome, TypeOK
<1>3. TransitionIdsUnique'
  <2>1. ASSUME kind # "NONE" PROVE <<r.incident, r.revision>> \notin issued
    <3> SUFFICES ASSUME <<r.incident, r.revision>> \in issued PROVE FALSE
      OBVIOUS
    <3>1. r.incident < r.incident \/ r.revision < r.revision
      BY <2>1, IdIsNew
    <3> QED
      BY <1>2, <3>1
  <2> QED
    BY <2>1 DEF Step, IdsInv, TransitionIdsUnique
<1>4. r.status = "NONE" =>
        \A x \in issued' : x[1] < r.clock /\ x[1] + HoldMs + CooldownMs <= now + ViewSkew
  <2> SUFFICES ASSUME r.status = "NONE"
               PROVE  \A x \in issued' : /\ x[1] < r.clock
                                         /\ x[1] + HoldMs + CooldownMs <= now + ViewSkew
    OBVIOUS
  <2>1. r = s /\ kind = "NONE"
    BY <1>1 DEF Outcome
  <2>2. issued' = issued
    BY <2>1 DEF Step
  <2> QED
    BY <1>1, <2>1, <2>2, IdsBefore
<1>5. CASE Idle(r, SilentClock(r, at))
  <2>1. rule' = NoState /\ rule'.status = "ABSENT" /\ NoState' = NoState
    BY <1>1, <1>5, NoStateFields DEF Finish, NoState, NewState, None, NoView
  <2>2. ASSUME NEW x \in issued' PROVE x[1] + HoldMs + CooldownMs <= now + ViewSkew
    <3>1. CASE r.status = "NONE"
      BY <1>4, <3>1
    <3>2. CASE r.status = "RESOLVED"
      <4>1. Known(r, issued')
        BY <3>2, IdsAfter
      <4>2. x[1] < r.incident \/ x[1] = r.incident
        BY <4>1 DEF Known
      <4>3. r.incident + HoldMs <= r.resolvedAt /\ SilentClock(r, at) - r.resolvedAt >= CooldownMs
        BY <1>5, <3>2, <4>1 DEF Known, Idle
      <4>4. ClockInStep(r) /\ at \in Nat /\ at <= now
        BY <1>1 DEF ClockInStep, Stands, Outcome
      <4>5. SilentClock(r, at) \in Int /\ SilentClock(r, at) <= now + ViewSkew
        BY <1>2, <4>4, SilentClockBounds
      <4>6. x[1] \in Int
        BY DEF IInv, TypeOK
      <4>7. PICK y \in Int, c \in Int, i \in Int, e \in Int :
              y = x[1] /\ c = SilentClock(r, at) /\ i = r.incident /\ e = r.resolvedAt
        BY <1>2, <4>5, <4>6
      <4>8. y <= i /\ i + HoldMs <= e /\ c - e >= CooldownMs /\ c <= now + ViewSkew
        BY <4>2, <4>3, <4>5, <4>7
      <4>9. y + HoldMs + CooldownMs <= now + ViewSkew
        BY <1>2, <4>8, ConstantTypes
      <4> QED
        BY <4>7, <4>9
    <3> QED
      BY <1>5, <3>1, <3>2 DEF Idle
  <2>3. KnownIncident'
    BY <2>1 DEF KnownIncident
  <2>4. ForgottenIncidents'
    BY <1>1, <2>1, <2>2 DEF ForgottenIncidents
  <2> QED
    BY <1>3, <2>3, <2>4 DEF IdsInv
<1>6. CASE ~Idle(r, SilentClock(r, at))
  <2>1. rule' = r
    BY <1>1, <1>6 DEF Finish
  <2>2. KnownIncident'
    <3>1. r.status \in {"ACTIVE", "RESOLVED"} => Known(r, issued')
      BY IdsAfter
    <3>2. Known(rule, issued)' = Known(r, issued')
      BY <2>1 DEF Known, None
    <3> QED
      BY <2>1, <3>1, <3>2 DEF KnownIncident
  <2>3. ForgottenIncidents'
    BY <1>1, <1>2, <1>4, <2>1 DEF ForgottenIncidents
  <2> QED
    BY <1>3, <2>2, <2>3 DEF IdsInv
<1> QED
  BY <1>5, <1>6

LEMMA NextKeepsIds ==
  ASSUME SkewIsSmall, IdsInv, [Next]_vars
  PROVE  IdsInv'
<1>1. IInv /\ KnownIncident /\ ForgottenIncidents /\ TransitionIdsUnique
  BY DEF IdsInv
<1>2. IInv'
  BY <1>1, NextKeeps
<1>3. CASE Pass \/ UNCHANGED vars
  <2>1. rule' = rule /\ issued' = issued /\ twice' = twice /\ now' \in {now, now + 1}
    BY <1>3 DEF Pass, vars
  <2>2. KnownIncident' /\ TransitionIdsUnique'
    BY <1>1, <2>1 DEF KnownIncident, Known, TransitionIdsUnique, None
  <2>3. ForgottenIncidents'
    <3>1. now \in Nat
      BY <1>1 DEF IInv, TypeOK
    <3>2. ASSUME NEW x \in issued, x[1] + HoldMs + CooldownMs <= now + ViewSkew
          PROVE  x[1] + HoldMs + CooldownMs <= now' + ViewSkew
      <4>1. x[1] \in Int
        BY <1>1 DEF IInv, TypeOK
      <4>2. PICK y \in Int, n \in Nat : y = x[1] /\ n = now'
        BY <2>1, <3>1, <4>1
      <4>3. now <= n
        BY <2>1, <3>1, <4>2
      <4>4. y + HoldMs + CooldownMs <= n + ViewSkew
        BY <3>1, <3>2, <4>2, <4>3, ConstantTypes
      <4> QED
        BY <4>2, <4>4
    <3>3. NoState' = NoState
      BY DEF NoState, NewState, None, NoView
    <3> QED
      BY <1>1, <2>1, <3>2, <3>3 DEF ForgottenIncidents
  <2> QED
    BY <1>2, <2>2, <2>3 DEF IdsInv
<1>4. ASSUME NEW s, NEW d, NEW at, NEW timer, NEW r, NEW kind, Step(s, d, at, timer, r, kind)
      PROVE  IdsInv'
  BY <1>2, <1>4, StepKeepsIds
<1> QED
  BY <1>1, <1>3, <1>4, NextSteps

(* No two transitions of a device have the same incident ID and revision,  *)
(* dropped and rebuilt rule state included, as long as its clock is off by *)
(* less than half a hold and its cooldown: a larger error may give a new   *)
(* incident the start, and so the ID, of one whose state was dropped       *)
(* (evaluate, finish).                                                     *)
THEOREM IdsAreUnique == ASSUME SkewIsSmall PROVE Spec => []TransitionIdsUnique
<1>1. Init => IdsInv
  <2> SUFFICES ASSUME Init PROVE IdsInv
    OBVIOUS
  <2>1. rule.status = "ABSENT" /\ issued = {} /\ twice = FALSE
    BY NoStateFields DEF Init
  <2> QED
    BY <2>1, InitIInv DEF IdsInv, KnownIncident, ForgottenIncidents, TransitionIdsUnique
<1>2. IdsInv /\ [Next]_vars => IdsInv'
  BY NextKeepsIds
<1>3. IdsInv => TransitionIdsUnique
  BY DEF IdsInv
<1> QED
  BY <1>1, <1>2, <1>3, PTL DEF Spec

=============================================================================
