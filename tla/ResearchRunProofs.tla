-------------------------- MODULE ResearchRunProofs --------------------------
(***************************************************************************)
(* Proofs about a research run, for any plan, any number of targets,       *)
(* ports, repetitions and signals.                                         *)
(***************************************************************************)
EXTENDS ResearchRun, FiniteSetTheorems, SequenceTheorems, WellFoundedInduction, TLAPS

-----------------------------------------------------------------------------
(* The inductive invariant.                                                *)

(* What a line of markers.jsonl says, and the number of a phase. *)
Event == {"research_run_start", "phase_start", "phase_end", "gap_start", "gap_end",
          "research_run_end"}
Marker == Event \X Nat

(* Where the runner is while no phase has failed. *)
Before == {"none", "start", "open", "check", "spawn", "wait"}
Ahead == Before \cup {"gap"}

(* Every variable the properties depend on has its type. *)
TypeOK ==
  /\ runner \in Ahead \cup {"finish", "exited"}
  /\ idx \in Nat \ {0}
  /\ stop \in BOOLEAN
  /\ exitCode \in Int
  /\ markers \in Seq(Marker)
  /\ records \in Seq(Int)

(* A child is a record of these fields. *)
ChildTypeOK ==
  /\ child = [pc |-> child.pc, id |-> child.id, timed |-> child.timed,
              source |-> child.source, stop |-> child.stop, items |-> child.items,
              left |-> child.left, cycle |-> child.cycle, done |-> child.done,
              rc |-> child.rc]
  /\ child.pc \in {"none", "boot", "load", "loop", "cycle", "exit"}
  /\ child.stop \in BOOLEAN
  /\ child.cycle \in Nat
  /\ child.rc \in Int

(* There is a child only while the runner waits for it, it is the one of   *)
(* the current phase, and while it is alive its window is the open one.    *)
ChildInPhase ==
  /\ runner # "wait" => child.pc = "none"
  /\ child.pc # "none" => child.id = PhaseRunId
  /\ Alive => markers # <<>> /\ Last(markers) = <<"phase_start", idx>>

(* A sweep that nobody stopped has tried each pair in every cycle so far   *)
(* or as often as asked for; what it has not yet tried in this cycle is    *)
(* left to try.                                                            *)
Tried(x) ==
  \/ child.done[x] >= Repeat
  \/ child.done[x] >= child.cycle
  \/ child.pc = "cycle" /\ x \in Range(child.left) /\ child.done[x] >= child.cycle - 1

SweepInStep ==
  /\ child.pc \in {"boot", "load"} => child.cycle = 0
  /\ IsSweep /\ child.pc \in {"loop", "cycle"} =>
       /\ IsFiniteSet(child.items) /\ child.done \in [child.items -> Nat]
       /\ child.pc = "cycle" => child.left \in Seq(child.items)
       /\ ~child.stop => \A x \in child.items : Tried(x)

(* The summary of a phase that passed. *)
Evidence(o) == ~o.interrupted /\ (o.id[2] # Normal => o.covered)

(* A child that exits with code 0 has left one. *)
ExitHasEvidence ==
  child.pc = "exit" /\ child.rc = 0 => \E o \in out : o.id = child.id /\ Evidence(o)

(* One record for each phase that is over. *)
RecordsInStep ==
  /\ runner \in Before => Len(records) = idx - 1
  /\ runner = "gap" => Len(records) = idx

(* Before the end no phase has failed.  At the end the exit code is 0 only *)
(* when the run was stopped or everything was done.                        *)
ExitCodeInStep ==
  /\ runner \in Ahead => exitCode = 0 /\ \A i \in DOMAIN records : records[i] = 0
  /\ \A i \in DOMAIN records : records[i] # 0 => i = Len(records)
  /\ runner = "finish" /\ exitCode = 0 =>
       /\ \A i \in DOMAIN records : records[i] = 0
       /\ stop \/ Len(records) = Len(args.phases)

(* Nobody but an attached run's own runner writes its status. *)
ReportLast ==
  /\ ~args.detach => launcher = "done"
  /\ launcher = "popen" => runner = "none"
  /\ runner # "exited" => summary = NoSummary
  /\ OutcomeIsTrue

IInv ==
  /\ TypeOK /\ ChildTypeOK
  /\ ChildInPhase
  /\ SweepInStep /\ ExitHasEvidence
  /\ RecordsInStep /\ PassedPhaseCovered
  /\ ExitCodeInStep /\ ReportLast

-----------------------------------------------------------------------------
(* Sets and sequences.                                                     *)

(* A sequence of all elements of a finite set leaves none out. *)
LEMMA OrderIsComplete ==
  ASSUME NEW S, IsFiniteSet(S), NEW s \in SetToSeqs(S)
  PROVE  s \in Seq(S) /\ Range(s) = S
<1> DEFINE n == Cardinality(S)
           D == 1 .. n
<1>1. n \in Nat
  BY FS_CardinalityType
<1>2. s \in [D -> S] /\ \A i, j \in D : i # j => s[i] # s[j]
  BY DEF SetToSeqs
<1>3. IsFiniteSet(D) /\ Cardinality(D) = n
  <2>1. IsFiniteSet(1 .. n) /\ Cardinality(1 .. n) = IF 1 > n THEN 0 ELSE n - 1 + 1
    BY <1>1, FS_Interval
  <2> QED
    BY <1>1, <2>1
<1>4. s \in Seq(S)
  BY <1>1, <1>2
<1>5. ASSUME NEW x \in S, x \notin Range(s) PROVE FALSE
  <2> DEFINE T == S \ {x}
  <2>1. IsFiniteSet(T) /\ Cardinality(T) = n - 1
    BY FS_RemoveElement
  <2>2. \A i \in D : s[i] \in T
    BY <1>2, <1>5 DEF Range
  <2>3. s \in [D -> T]
    BY <1>2, <2>2
  <2>4. Cardinality(T) < Cardinality(D)
    BY <1>1, <1>3, <2>1
  <2> HIDE DEF D, T
  <2>5. \E i, j \in D : i # j /\ s[i] = s[j]
    BY <1>3, <2>1, <2>3, <2>4, FS_PigeonHole
  <2> QED
    BY <1>2, <2>5
<1>6. Range(s) \subseteq S
  BY <1>2 DEF Range
<1> QED
  BY <1>4, <1>5, <1>6

(* Events that are written at once. *)
LEMMA EventSequences ==
  \A a, b \in Event : <<a>> \in Seq(Event) /\ <<a, b>> \in Seq(Event)
OBVIOUS

(* What Mark appends. *)
LEMMA MarkAppends ==
  ASSUME TypeOK, NEW events \in Seq(Event), Mark(events)
  PROVE  /\ markers' \in Seq(Marker)
         /\ events = <<"phase_start">> => markers' # <<>> /\ Last(markers') = <<"phase_start", idx>>
<1> DEFINE new == [k \in DOMAIN events |-> <<events[k], idx>>]
<1>1. markers \in Seq(Marker) /\ idx \in Nat
  BY DEF TypeOK
<1>2. new \in Seq(Marker) /\ Len(new) = Len(events)
  <2>1. \A k \in DOMAIN events : <<events[k], idx>> \in Marker
    BY <1>1 DEF Marker
  <2>2. DOMAIN events = 1 .. Len(events) /\ Len(events) \in Nat
    OBVIOUS
  <2> QED
    BY <2>1, <2>2
<1>3. PICK w \in Seq(Marker) : w = new
  BY <1>2
<1>4. markers' = markers \o w
  BY <1>3 DEF Mark
<1>5. markers' \in Seq(Marker) /\ Len(markers') = Len(markers) + Len(w)
  BY <1>1, <1>4
<1>6. ASSUME events = <<"phase_start">>
      PROVE  markers' # <<>> /\ Last(markers') = <<"phase_start", idx>>
  <2>1. Len(events) = 1 /\ DOMAIN events = 1 .. 1 /\ events[1] = "phase_start"
    BY <1>6
  <2>2. Len(w) = 1
    BY <1>2, <1>3, <2>1
  <2>3. w[1] = <<"phase_start", idx>>
    BY <1>3, <2>1
  <2> HIDE DEF new
  <2>4. Len(markers) \in Nat /\ Len(markers') = Len(markers) + 1
    BY <1>1, <1>5, <2>2
  <2>5. markers'[Len(markers) + 1] = w[1]
    BY <1>1, <1>4, <2>2, <2>4
  <2>6. Last(markers') = w[1]
    BY <2>4, <2>5 DEF Last
  <2> QED
    BY <2>3, <2>4, <2>6
<1> QED
  BY <1>5, <1>6

-----------------------------------------------------------------------------
(* What the steps of a child do to its record.                             *)

LEMMA ExitFields ==
  ASSUME ChildTypeOK, NEW code \in Int, Exit(code)
  PROVE  ChildTypeOK' /\ child'.id = child.id /\ child'.pc = "exit" /\ child'.rc = code
BY DEF ChildTypeOK, Exit

LEMMA OpenedFields ==
  ASSUME ChildTypeOK, NEW items, Opened(items)
  PROVE  /\ ChildTypeOK' /\ child'.id = child.id /\ child'.pc = "loop" /\ child'.stop = child.stop
         /\ child'.items = items /\ child'.done = [x \in items |-> 0] /\ child'.cycle = child.cycle
BY DEF ChildTypeOK, Opened

LEMMA BeginFields ==
  ASSUME ChildTypeOK, NEW sequence, Begin(sequence)
  PROVE  /\ ChildTypeOK' /\ child'.id = child.id /\ child'.pc = "cycle" /\ child'.stop = child.stop
         /\ child'.items = child.items /\ child'.done = child.done
         /\ child'.cycle = child.cycle + 1 /\ child'.left = sequence
<1>1. child.cycle \in Nat
  BY DEF ChildTypeOK
<1>2. PICK n \in Nat : n = child.cycle + 1
  BY <1>1
<1>3. child' = [child EXCEPT !.pc = "cycle", !.cycle = n, !.left = sequence]
  BY <1>2 DEF Begin
<1> QED
  BY <1>2, <1>3 DEF ChildTypeOK

LEMMA OperateFields ==
  ASSUME ChildTypeOK, NEW y, Operate(y)
  PROVE  /\ ChildTypeOK' /\ child'.id = child.id /\ child'.pc = child.pc /\ child'.stop = child.stop
         /\ child'.items = child.items /\ child'.done = [child.done EXCEPT ![y] = @ + 1]
         /\ child'.cycle = child.cycle /\ child'.left = Tail(child.left)
BY DEF ChildTypeOK, Operate

LEMMA EndFields ==
  ASSUME ChildTypeOK, End
  PROVE  /\ ChildTypeOK' /\ child'.id = child.id /\ child'.pc = "loop" /\ child'.stop = child.stop
         /\ child'.items = child.items /\ child'.done = child.done /\ child'.cycle = child.cycle
BY DEF ChildTypeOK, End

LEMMA SignalledFields ==
  ASSUME ChildTypeOK, Signalled
  PROVE  \/ /\ ChildTypeOK' /\ child'.id = child.id /\ Alive
            /\ child'.pc = "exit" /\ child'.rc = Killed
         \/ /\ ChildTypeOK' /\ child'.id = child.id /\ child'.pc = child.pc /\ child'.rc = child.rc
            /\ child'.stop = Alive /\ child'.items = child.items /\ child'.done = child.done
            /\ child'.cycle = child.cycle /\ child'.left = child.left
<1>1. CASE child.pc = "boot" \/ (Alive /\ ~IsSweep)
  <2>1. Killed \in Int /\ Exit(Killed) /\ Alive
    BY <1>1 DEF Signalled, Killed, Alive
  <2> QED
    BY <2>1, ExitFields
<1>2. CASE ~(child.pc = "boot" \/ (Alive /\ ~IsSweep))
  <2>1. child' = [child EXCEPT !.stop = Alive] /\ Alive \in BOOLEAN
    BY <1>2 DEF Signalled, Alive
  <2> HIDE DEF Alive
  <2> QED
    BY <2>1 DEF ChildTypeOK
<1> QED
  BY <1>1, <1>2

-----------------------------------------------------------------------------
(* The child.                                                              *)

(* What does not depend on the child. *)
RunnerRests ==
  UNCHANGED <<args, launcher, runner, idx, exitCode, stop, markers, records, status, summary>>

LEMMA RunnerRestsKeeps ==
  ASSUME IInv, RunnerRests
  PROVE  TypeOK' /\ RecordsInStep' /\ ExitCodeInStep' /\ ReportLast'
<1>1. TypeOK /\ RecordsInStep /\ ExitCodeInStep /\ ReportLast
  BY DEF IInv
<1>2. TypeOK'
  BY <1>1 DEF TypeOK, RunnerRests
<1>3. RecordsInStep' /\ ExitCodeInStep'
  BY <1>1 DEF RecordsInStep, ExitCodeInStep, RunnerRests
<1>4. ReportLast'
  BY <1>1 DEF ReportLast, OutcomeIsTrue, RunnerRests
<1> QED
  BY <1>2, <1>3, <1>4

(* A step of the child that is not its last one keeps the invariant if it  *)
(* keeps the child in step.                                                *)
LEMMA ChildMoves ==
  ASSUME IInv, RunnerRests, out' = out, ChildTypeOK', child'.id = child.id,
         Alive, child'.pc \in {"load", "loop", "cycle"} \/ (child'.pc = "exit" /\ child'.rc # 0),
         SweepInStep'
  PROVE  IInv'
<1>1. ChildInPhase /\ PassedPhaseCovered
  BY DEF IInv
<1>2. child.pc # "none"
  BY DEF Alive
<1>3. ChildInPhase'
  <2>1. runner' = "wait"
    BY <1>1, <1>2 DEF ChildInPhase, RunnerRests
  <2>2. PhaseRunId' = PhaseRunId
    BY DEF PhaseRunId, RunnerRests
  <2>3. child'.id = PhaseRunId'
    BY <1>1, <1>2, <2>2 DEF ChildInPhase
  <2>4. markers' # <<>> /\ Last(markers') = <<"phase_start", idx'>>
    BY <1>1 DEF ChildInPhase, RunnerRests
  <2> QED
    BY <2>1, <2>3, <2>4 DEF ChildInPhase
<1>4. ExitHasEvidence'
  BY DEF ExitHasEvidence
<1>5. PassedPhaseCovered'
  BY <1>1 DEF PassedPhaseCovered, RunnerRests
<1> QED
  BY <1>3, <1>4, <1>5, RunnerRestsKeeps DEF IInv

LEMMA SweepBootKeeps ==
  ASSUME IInv, RunnerRests, out' = out, SweepBoot
  PROVE  IInv'
<1>1. ChildTypeOK /\ SweepInStep
  BY DEF IInv
<1>2. child.pc = "boot" /\ child' = [child EXCEPT !.pc = "load"] /\ Alive
  BY DEF SweepBoot, Alive
<1>3. ChildTypeOK' /\ child'.id = child.id /\ child'.pc = "load" /\ child'.cycle = child.cycle
  BY <1>1, <1>2 DEF ChildTypeOK
<1>4. SweepInStep'
  BY <1>1, <1>2, <1>3 DEF SweepInStep
<1> QED
  BY <1>2, <1>3, <1>4, ChildMoves

LEMMA LoadTargetsKeeps ==
  ASSUME IInv, RunnerRests, out' = out, LoadTargets
  PROVE  IInv'
<1>1. ChildTypeOK /\ SweepInStep
  BY DEF IInv
<1>2. child.pc = "load" /\ Alive
  BY DEF LoadTargets, Alive
<1>3. PICK found \in SUBSET Target : IF found = {} THEN Exit(1) ELSE Opened(found \X Port)
  BY DEF LoadTargets
<1>4. CASE found = {}
  <2>1. ChildTypeOK' /\ child'.id = child.id /\ child'.pc = "exit" /\ child'.rc = 1
    BY <1>1, <1>3, <1>4, ExitFields
  <2>2. SweepInStep'
    BY <2>1 DEF SweepInStep
  <2> QED
    BY <1>2, <2>1, <2>2, ChildMoves
<1>5. CASE found # {}
  <2> DEFINE items == found \X Port
  <2>1. IsFiniteSet(items)
    BY ChildAssumption, FS_Subset, FS_Product DEF ChildAssumption
  <2> HIDE DEF items
  <2>2. /\ ChildTypeOK' /\ child'.id = child.id /\ child'.pc = "loop" /\ child'.stop = child.stop
        /\ child'.items = items /\ child'.done = [x \in items |-> 0] /\ child'.cycle = child.cycle
    BY <1>1, <1>3, <1>5, OpenedFields DEF items
  <2>3. child'.cycle = 0 /\ child'.done \in [items -> Nat] /\ \A x \in items : child'.done[x] = 0
    BY <1>1, <1>2, <2>2 DEF SweepInStep
  <2>4. \A x \in items : Tried(x)'
    BY <2>3 DEF Tried
  <2>5. SweepInStep'
    BY <2>1, <2>2, <2>3, <2>4 DEF SweepInStep
  <2> QED
    BY <1>2, <2>2, <2>5, ChildMoves
<1> QED
  BY <1>4, <1>5

LEMMA SweepCycleKeeps ==
  ASSUME IInv, RunnerRests, out' = out, SweepCycle
  PROVE  IInv'
<1>1. ChildTypeOK /\ SweepInStep
  BY DEF IInv
<1>2. child.pc = "loop" /\ IsSweep /\ Alive
  BY DEF SweepCycle, Alive
<1>3. IsFiniteSet(child.items) /\ child.done \in [child.items -> Nat] /\ child.cycle \in Nat
  BY <1>1, <1>2 DEF SweepInStep, ChildTypeOK
<1>4. PICK s \in SetToSeqs(child.items) : Begin(s)
  BY DEF SweepCycle
<1>5. s \in Seq(child.items) /\ Range(s) = child.items
  BY <1>3, OrderIsComplete
<1>6. /\ ChildTypeOK' /\ child'.id = child.id /\ child'.pc = "cycle" /\ child'.stop = child.stop
      /\ child'.items = child.items /\ child'.done = child.done
      /\ child'.cycle = child.cycle + 1 /\ child'.left = s
  BY <1>1, <1>4, BeginFields
<1>7. ASSUME ~child.stop, NEW x \in child.items PROVE Tried(x)'
  <2>1. Tried(x)
    BY <1>1, <1>2, <1>7 DEF SweepInStep
  <2>2. child.done[x] \in Nat
    BY <1>3
  <2>3. child.done[x] >= Repeat \/ child.done[x] >= child.cycle
    BY <1>2, <2>1 DEF Tried
  <2>4. CASE child.done[x] >= Repeat
    BY <1>6, <2>4 DEF Tried
  <2>5. CASE child.done[x] >= child.cycle
    <3>1. child'.done[x] >= child'.cycle - 1
      BY <1>3, <1>6, <2>2, <2>5
    <3>2. x \in Range(child'.left)
      BY <1>5, <1>6
    <3> QED
      BY <1>6, <3>1, <3>2 DEF Tried
  <2> QED
    BY <2>3, <2>4, <2>5
<1>8. SweepInStep'
  BY <1>3, <1>5, <1>6, <1>7 DEF SweepInStep
<1> QED
  BY <1>2, <1>6, <1>8, ChildMoves

LEMMA ProbeKeeps ==
  ASSUME IInv, RunnerRests, out' = out, Probe
  PROVE  IInv'
<1>1. ChildTypeOK /\ SweepInStep
  BY DEF IInv
<1>2. child.pc = "cycle" /\ IsSweep /\ Alive
  BY DEF Probe, Alive
<1>3. /\ IsFiniteSet(child.items) /\ child.done \in [child.items -> Nat] /\ child.cycle \in Nat
      /\ child.left \in Seq(child.items)
  BY <1>1, <1>2 DEF SweepInStep, ChildTypeOK
<1>4. \A x \in child.items : child.done[x] \in Nat
  BY <1>3
<1>5. Repeat \in Nat
  BY ChildAssumption DEF ChildAssumption
<1>6. ~child.stop => \A x \in child.items : Tried(x)
  BY <1>1, <1>2 DEF SweepInStep
<1>7. CASE child.left = <<>> \/ CutShort
  <2>1. End
    BY <1>7 DEF Probe
  <2>2. /\ ChildTypeOK' /\ child'.id = child.id /\ child'.pc = "loop" /\ child'.stop = child.stop
        /\ child'.items = child.items /\ child'.done = child.done /\ child'.cycle = child.cycle
    BY <1>1, <2>1, EndFields
  <2>3. ASSUME ~child.stop, NEW x \in child.items PROVE Tried(x)'
    <3>1. child.done[x] >= Repeat \/ child.done[x] >= child.cycle
      <4>1. CASE child.left = <<>>
        <5>1. Range(child.left) = {}
          BY <4>1 DEF Range
        <5> QED
          BY <1>6, <2>3, <5>1 DEF Tried
      <4>2. CASE child.cycle > Repeat
        BY <1>3, <1>4, <1>5, <1>6, <2>3, <4>2 DEF Tried
      <4> QED
        BY <1>7, <2>3, <4>1, <4>2 DEF CutShort
    <3> QED
      BY <2>2, <3>1 DEF Tried
  <2>4. SweepInStep'
    BY <1>3, <2>2, <2>3 DEF SweepInStep
  <2> QED
    BY <1>2, <2>2, <2>4, ChildMoves
<1>8. CASE ~(child.left = <<>> \/ CutShort)
  <2>1. Operate(Head(child.left)) /\ child.left # <<>>
    BY <1>8 DEF Probe
  <2>2. PICK y : y = Head(child.left)
    OBVIOUS
  <2>3. /\ ChildTypeOK' /\ child'.id = child.id /\ child'.pc = child.pc /\ child'.stop = child.stop
        /\ child'.items = child.items /\ child'.done = [child.done EXCEPT ![y] = @ + 1]
        /\ child'.cycle = child.cycle /\ child'.left = Tail(child.left)
    BY <1>1, <2>1, <2>2, OperateFields
  <2>4. /\ y \in child.items /\ Tail(child.left) \in Seq(child.items)
        /\ \A x \in Range(child.left) : x = y \/ x \in Range(Tail(child.left))
    <3>1. PICK l \in Seq(child.items) : l = child.left
      BY <1>3
    <3>2. l # <<>> /\ y = l[1] /\ Len(l) \in Nat /\ Len(l) >= 1 /\ DOMAIN l = 1 .. Len(l)
      BY <2>1, <2>2, <3>1
    <3>3. Tail(l) \in Seq(child.items) /\ DOMAIN Tail(l) = 1 .. Len(l) - 1
          /\ \A i \in 1 .. Len(l) - 1 : Tail(l)[i] = l[i + 1]
      <4>1. Tail(l) \in Seq(child.items)
        BY <3>2
      <4>2. Len(Tail(l)) = Len(l) - 1
        BY <3>2
      <4>3. DOMAIN Tail(l) = 1 .. Len(l) - 1
        BY <4>1, <4>2
      <4>4. \A i \in 1 .. Len(l) - 1 : Tail(l)[i] = l[i + 1]
        BY <3>2
      <4> QED
        BY <4>1, <4>3, <4>4
    <3>4. ASSUME NEW i \in DOMAIN l, i # 1 PROVE l[i] \in Range(Tail(l))
      <4>1. i - 1 \in DOMAIN Tail(l) /\ l[i] = Tail(l)[i - 1]
        BY <3>2, <3>3, <3>4
      <4> QED
        BY <4>1 DEF Range
    <3>5. ASSUME NEW x \in Range(l) PROVE x = y \/ x \in Range(Tail(l))
      <4>1. PICK i \in DOMAIN l : x = l[i]
        BY DEF Range
      <4> QED
        BY <3>2, <3>4, <4>1
    <3>6. y \in child.items
      BY <3>1, <3>2
    <3> QED
      BY <3>1, <3>3, <3>5, <3>6
  <2>5. /\ child'.done \in [child.items -> Nat]
        /\ \A x \in child.items : child'.done[x] = IF x = y THEN child.done[x] + 1 ELSE child.done[x]
    BY <1>3, <1>4, <2>3, <2>4
  <2>6. ASSUME ~child.stop, NEW x \in child.items PROVE Tried(x)'
    <3>1. Tried(x) /\ child.done[x] \in Nat
      BY <1>4, <1>6, <2>6
    <3>2. CASE x = y
      <4>1. child'.done[x] = child.done[x] + 1
        BY <2>5, <3>2
      <4>2. child'.done[x] >= Repeat \/ child'.done[x] >= child.cycle
        BY <1>3, <1>5, <3>1, <4>1 DEF Tried
      <4> QED
        BY <2>3, <4>2 DEF Tried
    <3>3. CASE x # y
      <4>1. child'.done[x] = child.done[x]
        BY <2>5, <3>3
      <4>2. x \in Range(child.left) => x \in Range(child'.left)
        BY <2>3, <2>4, <3>3
      <4> QED
        BY <2>3, <3>1, <4>1, <4>2 DEF Tried
    <3> QED
      BY <3>2, <3>3
  <2>7. SweepInStep'
    BY <1>2, <1>3, <2>3, <2>4, <2>5, <2>6 DEF SweepInStep
  <2> QED
    BY <1>2, <2>3, <2>7, ChildMoves
<1> QED
  BY <1>7, <1>8

(* The last step of a child: its summary takes the place of none of an     *)
(* earlier phase, and with code 0 it is evidence.                          *)
LEMMA FinishKeeps ==
  ASSUME IInv, RunnerRests, Alive, NEW interrupted \in BOOLEAN, NEW code \in Int,
         Report(interrupted), Exit(code),
         code = 0 => ~interrupted /\ (IsSweep => Covered)
  PROVE  IInv'
<1>1. TypeOK /\ ChildTypeOK /\ ChildInPhase /\ RecordsInStep /\ PassedPhaseCovered
  BY DEF IInv
<1>2. child.pc # "none" /\ runner = "wait" /\ child.id = PhaseRunId
  BY <1>1 DEF Alive, ChildInPhase
<1>3. child.id[1] = idx /\ idx \in Nat /\ Len(records) = idx - 1 /\ DOMAIN records = 1 .. idx - 1
  BY <1>1, <1>2 DEF PhaseRunId, TypeOK, RecordsInStep, Before
<1>4. ChildTypeOK' /\ child'.id = child.id /\ child'.pc = "exit" /\ child'.rc = code
  BY <1>1, ExitFields
<1>5. SweepInStep'
  BY <1>4 DEF SweepInStep
<1>6. ChildInPhase'
  <2>1. runner' = "wait"
    BY <1>2 DEF RunnerRests
  <2>2. child'.id = PhaseRunId'
    BY <1>2, <1>4 DEF PhaseRunId, RunnerRests
  <2> QED
    BY <1>4, <2>1, <2>2 DEF ChildInPhase, Alive
<1>7. ExitHasEvidence'
  <2> SUFFICES ASSUME code = 0 PROVE \E o \in out' : o.id = child.id /\ Evidence(o)
    BY <1>4 DEF ExitHasEvidence, Evidence
  <2> DEFINE o == [id |-> child.id, interrupted |-> interrupted, covered |-> Covered]
  <2>1. o \in out'
    BY DEF Report
  <2>2. o.id = child.id /\ o.interrupted = interrupted /\ o.covered = Covered
    OBVIOUS
  <2>3. interrupted = FALSE /\ (child.id[2] # Normal => Covered)
    BY DEF IsSweep
  <2> HIDE DEF o
  <2>4. Evidence(o)
    BY <2>2, <2>3 DEF Evidence
  <2>5. PICK e : e = o
    OBVIOUS
  <2>6. e \in out' /\ e.id = child.id /\ Evidence(e)
    BY <2>1, <2>2, <2>4, <2>5
  <2> QED
    BY <2>6
<1>8. PassedPhaseCovered'
  <2> SUFFICES ASSUME NEW i \in DOMAIN records, records[i] = 0
               PROVE  \E o \in out' : o.id[1] = i /\ ~o.interrupted /\ (o.id[2] # Normal => o.covered)
    BY DEF PassedPhaseCovered, RunnerRests
  <2>1. PICK o \in out : o.id[1] = i /\ ~o.interrupted /\ (o.id[2] # Normal => o.covered)
    BY <1>1 DEF PassedPhaseCovered
  <2>2. o.id # child.id
    BY <1>3, <2>1
  <2>3. o \in out'
    BY <2>2 DEF Report
  <2> QED
    BY <2>1, <2>3
<1> QED
  BY <1>4, <1>5, <1>6, <1>7, <1>8, RunnerRestsKeeps DEF IInv

LEMMA SweepFinishKeeps ==
  ASSUME IInv, RunnerRests, SweepFinish
  PROVE  IInv'
<1>1. ChildTypeOK /\ SweepInStep
  BY DEF IInv
<1>2. /\ IsSweep /\ child.pc = "loop" /\ SweepDone /\ Report(child.stop)
      /\ Exit(IF child.stop THEN 130 ELSE 0) /\ child.stop \in BOOLEAN /\ Alive
  BY <1>1 DEF SweepFinish, Alive, ChildTypeOK
<1>3. PICK code \in Int : code = IF child.stop THEN 130 ELSE 0
  OBVIOUS
<1>4. PICK b \in BOOLEAN : b = child.stop
  BY <1>2
<1>5. ASSUME code = 0 PROVE ~b /\ Covered
  <2>1. ~child.stop /\ child.cycle >= Repeat
    BY <1>2, <1>3, <1>5 DEF SweepDone
  <2>2. child.done \in [child.items -> Nat] /\ child.cycle \in Nat /\ Repeat \in Nat
    BY <1>1, <1>2, ChildAssumption DEF SweepInStep, ChildTypeOK, ChildAssumption
  <2>3. ASSUME NEW x \in child.items PROVE child.done[x] >= Repeat
    <3>1. child.done[x] \in Nat
      BY <2>2
    <3>2. Tried(x)
      BY <1>1, <1>2, <2>1 DEF SweepInStep
    <3>3. child.done[x] >= Repeat \/ child.done[x] >= child.cycle
      BY <1>2, <3>2 DEF Tried
    <3> QED
      BY <2>1, <2>2, <3>1, <3>3
  <2> QED
    BY <1>4, <2>1, <2>3 DEF Covered
<1>6. Report(b) /\ Exit(code)
  BY <1>2, <1>3, <1>4
<1> QED
  BY <1>2, <1>5, <1>6, FinishKeeps

(* The emulator is no sweep: only its exit matters. *)
LEMMA EmulatorKeeps ==
  ASSUME IInv, RunnerRests,
         \/ (EmulatorBoot \/ EmulatorCycle \/ Emulate) /\ out' = out
         \/ EmulatorFinish
  PROVE  IInv'
<1>1. ChildTypeOK
  BY DEF IInv
<1>2. ~IsSweep /\ Alive
  BY DEF EmulatorBoot, EmulatorCycle, Emulate, EmulatorFinish, Alive
<1>3. ASSUME ChildTypeOK', child'.id = child.id, child'.pc \in {"loop", "cycle"}, out' = out
      PROVE  IInv'
  <2>1. SweepInStep'
    BY <1>2, <1>3 DEF SweepInStep, IsSweep
  <2> QED
    BY <1>2, <1>3, <2>1, ChildMoves
<1>4. CASE EmulatorBoot /\ out' = out
  <2>1. PICK items : Opened(items)
    BY <1>4 DEF EmulatorBoot
  <2>2. ChildTypeOK' /\ child'.id = child.id /\ child'.pc = "loop"
    BY <1>1, <2>1, OpenedFields
  <2> QED
    BY <1>3, <1>4, <2>2
<1>5. CASE EmulatorCycle /\ out' = out
  <2>1. PICK s : Begin(s)
    BY <1>5 DEF EmulatorCycle
  <2>2. ChildTypeOK' /\ child'.id = child.id /\ child'.pc = "cycle"
    BY <1>1, <2>1, BeginFields
  <2> QED
    BY <1>3, <1>5, <2>2
<1>6. CASE Emulate /\ out' = out
  <2>1. child.pc = "cycle" /\ (End \/ \E y : Operate(y))
    BY <1>6 DEF Emulate
  <2>2. CASE End
    <3>1. ChildTypeOK' /\ child'.id = child.id /\ child'.pc = "loop"
      BY <1>1, <2>2, EndFields
    <3> QED
      BY <1>3, <1>6, <3>1
  <2>3. CASE \E y : Operate(y)
    <3>1. PICK y : Operate(y)
      BY <2>3
    <3>2. ChildTypeOK' /\ child'.id = child.id /\ child'.pc = "cycle"
      BY <1>1, <2>1, <3>1, OperateFields
    <3> QED
      BY <1>3, <1>6, <3>2
  <2> QED
    BY <2>1, <2>2, <2>3
<1>7. CASE EmulatorFinish
  <2>1. PICK b \in BOOLEAN : b = FALSE
    BY Zenon
  <2>2. PICK code \in Int : code = 0
    OBVIOUS
  <2>3. Report(b) /\ Exit(code) /\ ~b
    BY <1>7, <2>1, <2>2 DEF EmulatorFinish
  <2> QED
    BY <1>2, <2>3, FinishKeeps
<1> QED
  BY <1>4, <1>5, <1>6, <1>7

(* Every step of a child keeps the invariant. *)
LEMMA ChildKeeps == IInv /\ ChildRuns => IInv'
<1> SUFFICES ASSUME IInv, ChildRuns PROVE IInv'
  OBVIOUS
<1>1. RunnerRests /\ ChildStep
  BY DEF ChildRuns, RunnerRests, operator, files
<1>2. CASE SweepBoot /\ out' = out
  BY <1>1, <1>2, SweepBootKeeps
<1>3. CASE LoadTargets /\ out' = out
  BY <1>1, <1>3, LoadTargetsKeeps
<1>4. CASE SweepCycle /\ out' = out
  BY <1>1, <1>4, SweepCycleKeeps
<1>5. CASE Probe /\ out' = out
  BY <1>1, <1>5, ProbeKeeps
<1>6. CASE SweepFinish
  BY <1>1, <1>6, SweepFinishKeeps
<1>7. CASE (EmulatorBoot \/ EmulatorCycle \/ Emulate) /\ out' = out
  BY <1>1, <1>7, EmulatorKeeps
<1>8. CASE EmulatorFinish
  BY <1>1, <1>8, EmulatorKeeps
<1> QED
  BY <1>1, <1>2, <1>3, <1>4, <1>5, <1>6, <1>7, <1>8 DEF ChildStep

-----------------------------------------------------------------------------
(* Signals.                                                                *)

(* What a signal does to a child keeps it in step; and it leaves the       *)
(* runner's step as it was.                                                *)
LEMMA SignalledKeeps ==
  ASSUME IInv, Signalled \/ child' = child, UNCHANGED <<args, idx, markers, records, out>>,
         runner' = runner \/ (runner = "start" /\ runner' = "exited")
  PROVE  ChildTypeOK' /\ ChildInPhase' /\ SweepInStep' /\ ExitHasEvidence' /\ PassedPhaseCovered'
<1>1. ChildTypeOK /\ ChildInPhase /\ SweepInStep /\ ExitHasEvidence /\ PassedPhaseCovered
  BY DEF IInv
<1>2. PassedPhaseCovered'
  BY <1>1 DEF PassedPhaseCovered
<1>3. PhaseRunId' = PhaseRunId
  BY DEF PhaseRunId
<1>4. CASE child' = child
  <2>1. ChildTypeOK'
    BY <1>1, <1>4 DEF ChildTypeOK
  <2>2. ChildInPhase'
    BY <1>1, <1>3, <1>4 DEF ChildInPhase, Alive
  <2>3. SweepInStep'
    BY <1>1, <1>4 DEF SweepInStep, IsSweep, Tried
  <2>4. ExitHasEvidence'
    BY <1>1, <1>4 DEF ExitHasEvidence, Evidence
  <2> QED
    BY <1>2, <2>1, <2>2, <2>3, <2>4
<1>5. CASE /\ ChildTypeOK' /\ child'.id = child.id /\ Alive
           /\ child'.pc = "exit" /\ child'.rc = Killed
  <2>1. child.pc # "none" /\ runner = "wait" /\ runner' = "wait"
    BY <1>1, <1>5 DEF Alive, ChildInPhase
  <2>2. ChildInPhase'
    BY <1>1, <1>3, <1>5, <2>1 DEF ChildInPhase, Alive
  <2>3. SweepInStep' /\ ExitHasEvidence'
    BY <1>5 DEF SweepInStep, ExitHasEvidence, Killed
  <2> QED
    BY <1>2, <1>5, <2>2, <2>3
<1>6. CASE /\ ChildTypeOK' /\ child'.id = child.id /\ child'.pc = child.pc /\ child'.rc = child.rc
           /\ child'.stop = Alive /\ child'.items = child.items /\ child'.done = child.done
           /\ child'.cycle = child.cycle /\ child'.left = child.left
  <2>1. Alive' <=> Alive
    BY <1>6 DEF Alive
  <2>2. ChildInPhase'
    BY <1>1, <1>3, <1>6, <2>1 DEF ChildInPhase
  <2>3. child.pc \in {"loop", "cycle"} => Alive
    BY DEF Alive
  <2>4. SweepInStep'
    BY <1>1, <1>6, <2>3 DEF SweepInStep, IsSweep
  <2>5. ExitHasEvidence'
    BY <1>1, <1>6 DEF ExitHasEvidence, Evidence
  <2> QED
    BY <1>2, <1>6, <2>2, <2>4, <2>5
<1> QED
  BY <1>1, <1>4, <1>5, <1>6, SignalledFields

(* A signal to the runner, its child or both keeps the invariant. *)
LEMMA SignalKeeps == IInv /\ (CtrlC \/ Terminate \/ TerminateChild) => IInv'
<1> SUFFICES ASSUME IInv, CtrlC \/ Terminate \/ TerminateChild PROVE IInv'
  OBVIOUS
<1>1. TypeOK /\ RecordsInStep /\ ExitCodeInStep /\ ReportLast
  BY DEF IInv
<1>2. UNCHANGED <<args, launcher, idx, markers, records, status, summary, out>>
  BY DEF CtrlC, Terminate, TerminateChild, Signal, files
<1>3. Signalled \/ child' = child
  BY DEF CtrlC, Terminate, TerminateChild
<1>4. \/ UNCHANGED <<runner, exitCode, stop>>
      \/ runner = "start" /\ runner' = "exited" /\ exitCode' = Killed /\ stop' = stop
      \/ runner \notin {"none", "exited"} /\ stop' = TRUE /\ UNCHANGED <<runner, exitCode>>
  BY DEF CtrlC, Terminate, TerminateChild, Interrupted, Running
<1>5. ChildTypeOK' /\ ChildInPhase' /\ SweepInStep' /\ ExitHasEvidence' /\ PassedPhaseCovered'
  BY <1>2, <1>3, <1>4, SignalledKeeps
<1>6. CASE UNCHANGED <<runner, exitCode, stop>>
  BY <1>2, <1>5, <1>6, RunnerRestsKeeps DEF RunnerRests, IInv
<1>7. CASE runner = "start" /\ runner' = "exited" /\ exitCode' = Killed /\ stop' = stop
  <2>1. TypeOK'
    BY <1>1, <1>2, <1>7 DEF TypeOK, Killed
  <2>2. RecordsInStep' /\ ExitCodeInStep'
    BY <1>1, <1>2, <1>7 DEF RecordsInStep, ExitCodeInStep, Ahead, Before
  <2>3. ReportLast'
    BY <1>1, <1>2, <1>7 DEF ReportLast, OutcomeIsTrue
  <2> QED
    BY <1>5, <2>1, <2>2, <2>3 DEF IInv
<1>8. CASE runner \notin {"none", "exited"} /\ stop' = TRUE /\ UNCHANGED <<runner, exitCode>>
  <2>1. TypeOK'
    BY <1>1, <1>2, <1>8 DEF TypeOK
  <2>2. RecordsInStep' /\ ExitCodeInStep'
    BY <1>1, <1>2, <1>8 DEF RecordsInStep, ExitCodeInStep
  <2>3. ReportLast'
    BY <1>1, <1>2, <1>8 DEF ReportLast, OutcomeIsTrue
  <2> QED
    BY <1>5, <2>1, <2>2, <2>3 DEF IInv
<1> QED
  BY <1>4, <1>6, <1>7, <1>8

-----------------------------------------------------------------------------
(* The launcher and the runner.                                            *)

(* While there is no child, nothing of it is disturbed. *)
LEMMA ChildlessKeeps ==
  ASSUME IInv, runner # "wait", UNCHANGED <<child, out>>
  PROVE  /\ child.pc = "none" /\ ChildTypeOK' /\ ChildInPhase' /\ SweepInStep' /\ ExitHasEvidence'
         /\ records' = records => PassedPhaseCovered'
<1>1. child.pc = "none" /\ ChildTypeOK /\ PassedPhaseCovered
  BY DEF IInv, ChildInPhase
<1>2. ChildTypeOK'
  BY <1>1 DEF ChildTypeOK
<1>3. ChildInPhase' /\ SweepInStep' /\ ExitHasEvidence'
  BY <1>1 DEF ChildInPhase, SweepInStep, ExitHasEvidence, Alive
<1>4. records' = records => PassedPhaseCovered'
  BY <1>1 DEF PassedPhaseCovered
<1> QED
  BY <1>1, <1>2, <1>3, <1>4

(* The launcher's steps keep the invariant. *)
LEMMA LauncherKeeps == IInv /\ (LauncherPopen \/ LauncherRecord) => IInv'
<1> SUFFICES ASSUME IInv, LauncherPopen \/ LauncherRecord PROVE IInv'
  OBVIOUS
<1>1. TypeOK /\ RecordsInStep /\ ExitCodeInStep /\ ReportLast
  BY DEF IInv
<1>2. CASE LauncherPopen
  <2>1. /\ launcher = "popen" /\ runner = "none" /\ launcher' = "record" /\ runner' = "start"
        /\ UNCHANGED <<args, idx, exitCode, stop, markers, records, status, summary, child, out>>
    BY <1>1, <1>2 DEF LauncherPopen, ReportLast, operator, files, childVars
  <2>2. TypeOK'
    BY <1>1, <2>1 DEF TypeOK, Ahead, Before
  <2>3. RecordsInStep' /\ ExitCodeInStep'
    BY <1>1, <2>1 DEF RecordsInStep, ExitCodeInStep, Ahead, Before
  <2>4. ReportLast'
    BY <1>1, <2>1 DEF ReportLast, OutcomeIsTrue
  <2> QED
    BY <2>1, <2>2, <2>3, <2>4, ChildlessKeeps DEF IInv
<1>3. CASE LauncherRecord
  <2>1. /\ launcher = "record" /\ launcher' = "done"
        /\ UNCHANGED <<args, runner, idx, exitCode, stop, markers, records, summary, child, out>>
    BY <1>3 DEF LauncherRecord, operator, childVars
  <2>2. TypeOK'
    BY <1>1, <2>1 DEF TypeOK
  <2>3. RecordsInStep' /\ ExitCodeInStep'
    BY <1>1, <2>1 DEF RecordsInStep, ExitCodeInStep
  <2>4. ReportLast'
    BY <1>1, <2>1 DEF ReportLast, OutcomeIsTrue
  <2>5. ChildTypeOK' /\ ChildInPhase' /\ SweepInStep' /\ ExitHasEvidence' /\ PassedPhaseCovered'
    BY <2>1, SignalledKeeps
  <2> QED
    BY <2>2, <2>3, <2>4, <2>5 DEF IInv
<1> QED
  BY <1>2, <1>3

(* The runner's steps up to the start of a phase keep the invariant. *)
LEMMA StartKeeps == IInv /\ (RunnerStart \/ RunnerOpen \/ RunnerCheck) => IInv'
<1> SUFFICES ASSUME IInv, RunnerStart \/ RunnerOpen \/ RunnerCheck PROVE IInv'
  OBVIOUS
<1>1. TypeOK /\ RecordsInStep /\ ExitCodeInStep /\ ReportLast
  BY DEF IInv
<1>2. /\ runner \in {"start", "open", "check"} /\ stop \in BOOLEAN
      /\ UNCHANGED <<args, launcher, idx, exitCode, stop, records, summary, child, out>>
  BY <1>1 DEF RunnerStart, RunnerOpen, RunnerCheck, operator, files, childVars, TypeOK
<1>3. runner' \in {"open", "check", "spawn"} \/ (runner' = "finish" /\ stop)
  BY DEF RunnerStart, RunnerOpen, RunnerCheck
<1>4. markers' \in Seq(Marker)
  <2>1. CASE RunnerOpen
    <3>1. "research_run_start" \in Event /\ Mark(<<"research_run_start">>)
      BY <2>1 DEF RunnerOpen, Event
    <3> QED
      BY <1>1, <3>1, EventSequences, MarkAppends
  <2>2. CASE RunnerStart \/ RunnerCheck
    BY <1>1, <2>2 DEF RunnerStart, RunnerCheck, files, TypeOK
  <2> QED
    BY <2>1, <2>2
<1>5. TypeOK'
  BY <1>1, <1>2, <1>3, <1>4 DEF TypeOK, Ahead, Before
<1>6. RecordsInStep' /\ ExitCodeInStep'
  BY <1>1, <1>2, <1>3 DEF RecordsInStep, ExitCodeInStep, Ahead, Before
<1>7. ReportLast'
  <2>1. summary' = NoSummary /\ runner' # "exited" /\ runner # "none"
    BY <1>1, <1>2, <1>3 DEF ReportLast
  <2> QED
    BY <1>1, <1>2, <2>1 DEF ReportLast, OutcomeIsTrue
<1> QED
  BY <1>2, <1>5, <1>6, <1>7, ChildlessKeeps DEF IInv

(* The start of a phase opens its window and starts its child. *)
LEMMA SpawnKeeps == IInv /\ RunnerSpawn => IInv'
<1> SUFFICES ASSUME IInv, RunnerSpawn PROVE IInv'
  OBVIOUS
<1>1. TypeOK /\ RecordsInStep /\ PassedPhaseCovered /\ ExitCodeInStep /\ ReportLast
  BY DEF IInv
<1>2. /\ runner = "spawn" /\ runner' = "wait" /\ Mark(<<"phase_start">>)
      /\ UNCHANGED <<args, launcher, idx, exitCode, stop, records, summary, out>>
  BY DEF RunnerSpawn, StartPhase, operator
<1>3. PICK timed, source :
        child' = [NoChild EXCEPT !.pc = "boot", !.id = PhaseRunId, !.timed = timed, !.source = source]
  BY DEF RunnerSpawn, StartPhase, Spawn
<1>4. ChildTypeOK' /\ child'.pc = "boot" /\ child'.id = PhaseRunId /\ child'.cycle = 0
  <2>1. child' = [pc |-> "boot", id |-> PhaseRunId, timed |-> timed, source |-> source,
                  stop |-> FALSE, items |-> {}, left |-> <<>>, cycle |-> 0, done |-> <<>>, rc |-> 0]
    BY <1>3 DEF NoChild
  <2>2. child'.stop = FALSE /\ child'.cycle = 0 /\ child'.rc = 0 /\ child'.pc = "boot"
        /\ child'.id = PhaseRunId
    BY <2>1
  <2>3. child'.stop \in BOOLEAN
    BY <2>2
  <2> QED
    BY <2>1, <2>2, <2>3 DEF ChildTypeOK
<1>5. markers' \in Seq(Marker) /\ markers' # <<>> /\ Last(markers') = <<"phase_start", idx>>
  <2>1. "phase_start" \in Event
    BY DEF Event
  <2>2. PICK events \in Seq(Event) : events = <<"phase_start">>
    BY <2>1, EventSequences
  <2> QED
    BY <1>1, <1>2, <2>2, MarkAppends
<1>6. TypeOK'
  BY <1>1, <1>2, <1>5 DEF TypeOK, Ahead, Before
<1>7. PhaseRunId' = PhaseRunId
  BY <1>2 DEF PhaseRunId
<1>8. ChildInPhase'
  BY <1>2, <1>4, <1>5, <1>7 DEF ChildInPhase
<1>9. SweepInStep' /\ ExitHasEvidence'
  BY <1>4 DEF SweepInStep, ExitHasEvidence
<1>10. RecordsInStep' /\ ExitCodeInStep'
  BY <1>1, <1>2 DEF RecordsInStep, ExitCodeInStep, Ahead, Before
<1>11. PassedPhaseCovered'
  BY <1>1, <1>2 DEF PassedPhaseCovered
<1>12. ReportLast'
  BY <1>1, <1>2 DEF ReportLast, OutcomeIsTrue
<1> QED
  BY <1>4, <1>6, <1>8, <1>9, <1>10, <1>11, <1>12 DEF IInv

LEMMA NoChildFields ==
  ASSUME child' = NoChild
  PROVE  ChildTypeOK' /\ child'.pc = "none"
<1>1. child' = [pc |-> "none", id |-> <<0, Normal>>, timed |-> FALSE, source |-> "named",
                stop |-> FALSE, items |-> {}, left |-> <<>>, cycle |-> 0, done |-> <<>>, rc |-> 0]
  BY DEF NoChild
<1>2. PICK id : id = <<0, Normal>>
  OBVIOUS
<1>3. child' = [pc |-> "none", id |-> id, timed |-> FALSE, source |-> "named",
                stop |-> FALSE, items |-> {}, left |-> <<>>, cycle |-> 0, done |-> <<>>, rc |-> 0]
  BY <1>1, <1>2
<1>4. child'.stop = FALSE /\ child'.cycle = 0 /\ child'.rc = 0 /\ child'.pc = "none"
  BY <1>3
<1>5. child'.stop \in BOOLEAN
  BY <1>4
<1> QED
  BY <1>3, <1>4, <1>5 DEF ChildTypeOK

(* The end of a phase: its record has the evidence its child left, and     *)
(* only after a phase that passed the run goes on.                         *)
LEMMA ReapKeeps == IInv /\ RunnerReap => IInv'
<1> SUFFICES ASSUME IInv, RunnerReap PROVE IInv'
  OBVIOUS
<1>1. /\ TypeOK /\ ChildTypeOK /\ ChildInPhase /\ ExitHasEvidence /\ RecordsInStep
      /\ PassedPhaseCovered /\ ExitCodeInStep /\ ReportLast
  BY DEF IInv
<1>2. /\ runner = "wait" /\ child.pc = "exit" /\ child' = NoChild
      /\ records' = Append(records, child.rc) /\ exitCode' = child.rc
      /\ UNCHANGED <<args, launcher, stop, summary, out>>
  BY DEF RunnerReap, Reap, operator
<1>3. \/ (child.rc # 0 \/ idx = Len(args.phases)) /\ runner' = "finish" /\ idx' = idx
      \/ child.rc = 0 /\ runner' = "gap" /\ idx' = idx
      \/ child.rc = 0 /\ runner' = "check" /\ idx' = idx + 1
  BY DEF RunnerReap, Reap
<1>4. /\ records \in Seq(Int) /\ child.rc \in Int /\ idx \in Nat \ {0} /\ Len(records) = idx - 1
      /\ child.id = PhaseRunId
  BY <1>1, <1>2 DEF TypeOK, ChildTypeOK, RecordsInStep, Before, ChildInPhase
<1>5. /\ records' \in Seq(Int) /\ Len(records') = idx /\ DOMAIN records' = 1 .. idx
      /\ DOMAIN records = 1 .. idx - 1 /\ records'[idx] = child.rc
      /\ \A i \in DOMAIN records : records'[i] = records[i] /\ i \in DOMAIN records'
      /\ \A i \in DOMAIN records' : i \in DOMAIN records \/ i = idx
  BY <1>2, <1>4
<1>6. \A i \in DOMAIN records : records[i] = 0
  BY <1>1, <1>2 DEF ExitCodeInStep, Ahead, Before
<1>7. markers' \in Seq(Marker)
  <2>1. "phase_end" \in Event /\ "gap_start" \in Event
    BY DEF Event
  <2>2. Mark(<<"phase_end", "gap_start">>) \/ Mark(<<"phase_end">>)
    BY DEF RunnerReap, Reap
  <2> QED
    BY <1>1, <2>1, <2>2, EventSequences, MarkAppends
<1>8. TypeOK'
  <2>1. idx' \in Nat \ {0} /\ runner' \in {"finish", "gap", "check"}
    BY <1>3, <1>4
  <2> QED
    BY <1>1, <1>2, <1>4, <1>5, <1>7, <2>1 DEF TypeOK, Ahead, Before
<1>9. ChildTypeOK' /\ child'.pc = "none"
  BY <1>2, NoChildFields
<1>10. ChildInPhase' /\ SweepInStep' /\ ExitHasEvidence'
  BY <1>9 DEF ChildInPhase, SweepInStep, ExitHasEvidence, Alive
<1>11. RecordsInStep'
  BY <1>3, <1>4, <1>5 DEF RecordsInStep, Before
<1>12. PassedPhaseCovered'
  <2> SUFFICES ASSUME NEW i \in DOMAIN records', records'[i] = 0
               PROVE  \E o \in out : o.id[1] = i /\ ~o.interrupted /\ (o.id[2] # Normal => o.covered)
    BY <1>2 DEF PassedPhaseCovered
  <2>1. CASE i \in DOMAIN records
    BY <1>1, <1>5, <2>1 DEF PassedPhaseCovered
  <2>2. CASE i = idx
    <3>1. PICK o \in out : o.id = child.id /\ Evidence(o)
      BY <1>1, <1>2, <1>5, <2>2 DEF ExitHasEvidence
    <3>2. o.id[1] = i
      BY <1>4, <2>2, <3>1 DEF PhaseRunId
    <3> QED
      BY <3>1, <3>2 DEF Evidence
  <2> QED
    BY <1>5, <2>1, <2>2
<1>13. ExitCodeInStep'
  <2>1. \A i \in DOMAIN records' : records'[i] # 0 => i = Len(records')
    BY <1>5, <1>6
  <2>2. child.rc = 0 => \A i \in DOMAIN records' : records'[i] = 0
    BY <1>5, <1>6
  <2>3. runner' \in Ahead => child.rc = 0
    BY <1>3 DEF Ahead, Before
  <2>4. runner' = "finish" /\ child.rc = 0 => Len(records') = Len(args'.phases)
    BY <1>2, <1>3, <1>5
  <2> QED
    BY <1>2, <2>1, <2>2, <2>3, <2>4 DEF ExitCodeInStep
<1>14. ReportLast'
  <2>1. summary' = NoSummary /\ launcher # "popen"
    BY <1>1, <1>2 DEF ReportLast
  <2> QED
    BY <1>1, <1>2, <2>1 DEF ReportLast, OutcomeIsTrue
<1> QED
  BY <1>8, <1>9, <1>10, <1>11, <1>12, <1>13, <1>14 DEF IInv

(* The end of a gap. *)
LEMMA GapEndKeeps == IInv /\ RunnerGapEnd => IInv'
<1> SUFFICES ASSUME IInv, RunnerGapEnd PROVE IInv'
  OBVIOUS
<1>1. TypeOK /\ RecordsInStep /\ ExitCodeInStep /\ ReportLast
  BY DEF IInv
<1>2. /\ runner = "gap" /\ runner' = "check" /\ idx' = idx + 1 /\ Mark(<<"gap_end">>)
      /\ UNCHANGED <<args, launcher, exitCode, stop, records, summary, child, out>>
  BY DEF RunnerGapEnd, EndGap, operator, childVars
<1>3. markers' \in Seq(Marker)
  <2>1. "gap_end" \in Event
    BY DEF Event
  <2> QED
    BY <1>1, <1>2, <2>1, EventSequences, MarkAppends
<1>4. TypeOK'
  BY <1>1, <1>2, <1>3 DEF TypeOK, Ahead, Before
<1>5. RecordsInStep' /\ ExitCodeInStep'
  BY <1>1, <1>2 DEF RecordsInStep, ExitCodeInStep, Ahead, Before, TypeOK
<1>6. ReportLast'
  BY <1>1, <1>2 DEF ReportLast, OutcomeIsTrue
<1> QED
  BY <1>2, <1>4, <1>5, <1>6, ChildlessKeeps DEF IInv

(* The report of the run. *)
LEMMA ReportKeeps == IInv /\ RunnerFinish => IInv'
<1> SUFFICES ASSUME IInv, RunnerFinish PROVE IInv'
  OBVIOUS
<1>1. TypeOK /\ RecordsInStep /\ ExitCodeInStep /\ ReportLast
  BY DEF IInv
<1>2. /\ runner = "finish" /\ runner' = "exited" /\ Mark(<<"research_run_end">>)
      /\ exitCode' = IF stop THEN 130 ELSE exitCode
      /\ summary' = [interrupted |-> stop, exitCode |-> exitCode', phases |-> Len(records)]
      /\ status' = FinalStatus(stop, exitCode)
      /\ UNCHANGED <<args, launcher, idx, stop, records, child, out>>
  BY DEF RunnerFinish, operator, childVars
<1>3. markers' \in Seq(Marker)
  <2>1. "research_run_end" \in Event
    BY DEF Event
  <2> QED
    BY <1>1, <1>2, <2>1, EventSequences, MarkAppends
<1>4. exitCode' \in Int /\ stop \in BOOLEAN
  BY <1>1, <1>2 DEF TypeOK
<1>5. TypeOK'
  BY <1>1, <1>2, <1>3, <1>4 DEF TypeOK
<1>6. RecordsInStep'
  BY <1>2 DEF RecordsInStep, Before
<1>7. ExitCodeInStep'
  BY <1>1, <1>2 DEF ExitCodeInStep, Ahead, Before
<1>8. OutcomeIsTrue'
  <2>1. /\ summary'.interrupted = stop /\ summary'.exitCode = exitCode'
        /\ summary'.phases = Len(records)
    BY <1>2
  <2>2. summary'.exitCode = 0 => ~stop /\ exitCode = 0
    BY <1>2, <2>1
  <2>3. summary'.exitCode = 0 =>
          /\ \A i \in DOMAIN records : records[i] = 0
          /\ Len(records) = Len(args.phases)
    BY <1>1, <1>2, <2>2 DEF ExitCodeInStep
  <2>4. \A i \in DOMAIN records : records[i] # 0 => i = Len(records)
    BY <1>1 DEF ExitCodeInStep
  <2>5. status' = FinalStatus(summary'.interrupted, summary'.exitCode)
    BY <1>2, <2>1 DEF FinalStatus
  <2> QED
    BY <1>2, <2>1, <2>3, <2>4, <2>5 DEF OutcomeIsTrue, FinalStatus
<1>9. ReportLast'
  BY <1>1, <1>2, <1>8 DEF ReportLast
<1> QED
  BY <1>2, <1>5, <1>6, <1>7, <1>9, ChildlessKeeps DEF IInv

-----------------------------------------------------------------------------
(* The whole.                                                              *)

LEMMA InitIInv == Init => IInv
<1> SUFFICES ASSUME Init PROVE IInv
  OBVIOUS
<1>1. /\ launcher = (IF args.detach THEN "popen" ELSE "done")
      /\ runner = (IF args.detach THEN "none" ELSE "start")
      /\ idx = 1 /\ stop = FALSE /\ exitCode = 0 /\ markers = <<>> /\ records = <<>>
      /\ summary = NoSummary /\ child = NoChild /\ out = {}
  BY DEF Init, Idle
<1>2. runner \in {"none", "start"}
  BY <1>1
<1>3. TypeOK
  <2>1. stop \in BOOLEAN
    BY <1>1
  <2>2. markers \in Seq(Marker) /\ records \in Seq(Int)
    BY <1>1
  <2> QED
    BY <1>1, <1>2, <2>1, <2>2 DEF TypeOK, Ahead, Before
<1>4. ChildTypeOK /\ child.pc = "none"
  <2>1. PICK id : child = [pc |-> "none", id |-> id, timed |-> FALSE, source |-> "named",
             stop |-> FALSE, items |-> {}, left |-> <<>>, cycle |-> 0, done |-> <<>>, rc |-> 0]
    BY <1>1 DEF NoChild
  <2>2. child.stop = FALSE /\ child.cycle = 0 /\ child.rc = 0 /\ child.pc = "none"
    BY <2>1
  <2>3. child.stop \in BOOLEAN
    BY <2>2
  <2> QED
    BY <2>1, <2>2, <2>3 DEF ChildTypeOK
<1>5. ChildInPhase /\ SweepInStep /\ ExitHasEvidence
  BY <1>4 DEF ChildInPhase, SweepInStep, ExitHasEvidence, Alive
<1>6. Len(records) = 0 /\ DOMAIN records = {}
  BY <1>1
<1>7. RecordsInStep /\ PassedPhaseCovered
  BY <1>1, <1>2, <1>6 DEF RecordsInStep, PassedPhaseCovered
<1>8. ExitCodeInStep
  BY <1>1, <1>2, <1>6 DEF ExitCodeInStep
<1>9. ReportLast
  BY <1>1 DEF ReportLast, OutcomeIsTrue
<1> QED
  BY <1>3, <1>4, <1>5, <1>7, <1>8, <1>9 DEF IInv

LEMMA NextIInv == IInv /\ [Next]_vars => IInv'
<1> SUFFICES ASSUME IInv, [Next]_vars PROVE IInv'
  OBVIOUS
<1>1. CASE LauncherPopen \/ LauncherRecord
  BY <1>1, LauncherKeeps
<1>2. CASE RunnerStep
  BY <1>2, StartKeeps, SpawnKeeps, ReapKeeps, GapEndKeeps, ReportKeeps DEF RunnerStep
<1>3. CASE ChildRuns
  BY <1>3, ChildKeeps
<1>4. CASE Expire \/ UNCHANGED vars
  <2>1. RunnerRests /\ UNCHANGED <<child, out>>
    BY <1>4 DEF Expire, vars, operator, files, childVars, RunnerRests
  <2>2. ChildTypeOK' /\ ChildInPhase' /\ SweepInStep' /\ ExitHasEvidence' /\ PassedPhaseCovered'
    BY <2>1, SignalledKeeps DEF RunnerRests
  <2> QED
    BY <2>1, <2>2, RunnerRestsKeeps DEF IInv
<1>5. CASE CtrlC \/ Terminate \/ TerminateChild
  BY <1>5, SignalKeeps
<1> QED
  BY <1>1, <1>2, <1>3, <1>4, <1>5 DEF Next

(* All traffic lies in the window of its own phase and none in a gap       *)
(* (main, phase_start and phase_end): for any plan, and whoever is sent a  *)
(* signal at whatever moment.                                              *)
THEOREM TrafficStaysInWindow == Spec => []TrafficInWindow
<1>1. IInv => TrafficInWindow
  BY DEF IInv, ChildInPhase, TrafficInWindow, Alive, PhaseRunId
<1> QED
  BY <1>1, InitIInv, NextIInv, PTL DEF Spec

(* A phase that passed left a summary of its own that no other phase has   *)
(* overwritten, and in which a sweep has tried every pair as often as      *)
(* asked for (port-sweep.py main): for any number of targets, ports and    *)
(* repetitions, whenever the deadline passes.                              *)
THEOREM PassedPhasesAreCovered == Spec => []PassedPhaseCovered
<1>1. IInv => PassedPhaseCovered
  BY DEF IInv
<1> QED
  BY <1>1, InitIInv, NextIInv, PTL DEF Spec

(* The report of a run is true (main, summary.json and status.json): exit  *)
(* code 0 only when every phase of the plan ran and passed, nothing after  *)
(* a failed phase, and the status of an attached run agrees.               *)
THEOREM OutcomesAreTrue == Spec => []OutcomeIsTrue
<1>1. IInv => OutcomeIsTrue
  BY DEF IInv, ReportLast
<1> QED
  BY <1>1, InitIInv, NextIInv, PTL DEF Spec

-----------------------------------------------------------------------------
(* Counting.                                                               *)

(* A set of numbers that has 0 and all successors has all numbers up to k. *)
LEMMA AllReached ==
  ASSUME NEW k \in Nat, NEW S, 0 \in S, \A n \in 0 .. k : n < k /\ n \in S => n + 1 \in S
  PROVE  \A n \in 0 .. k : n \in S
<1> DEFINE Bad == {n \in 0 .. k : n \notin S}
<1>1. SUFFICES ASSUME Bad # {} PROVE FALSE
  OBVIOUS
<1>2. Bad \in SUBSET Nat
  OBVIOUS
<1>3. PICK m \in Bad : \A y \in Bad : m <= y
  <2>1. PICK m \in Bad : \A y \in Bad : ~(<<y, m>> \in OpToRel(<, Nat))
    BY <1>1, <1>2, NatLessThanWellFounded, WFMin, Zenon
  <2>2. \A y \in Bad : ~(y < m)
    BY <1>2, <2>1, Zenon DEF OpToRel
  <2> QED
    BY <1>2, <2>2
<1>4. m \in 0 .. k /\ m \notin S /\ m # 0
  BY <1>3
<1>5. m - 1 \in 0 .. k /\ m - 1 < k /\ m - 1 + 1 = m
  BY <1>4
<1>6. m - 1 \in S
  <2>1. SUFFICES ASSUME m - 1 \notin S PROVE FALSE
    OBVIOUS
  <2>2. m - 1 \in Bad
    BY <1>5, <2>1
  <2>3. m <= m - 1
    BY <1>3, <2>2
  <2> QED
    BY <1>4, <2>3
<1> QED
  BY <1>4, <1>5, <1>6

(* One place more, counted or not. *)
LEMMA PlaceAdded ==
  ASSUME NEW n \in Nat, NEW S \in SUBSET (1 .. n)
  PROVE  /\ IsFiniteSet(S) /\ Cardinality(S) \in Nat
         /\ Cardinality(S \cup {n + 1}) = Cardinality(S) + 1
<1>1. IsFiniteSet(S)
  <2>1. IsFiniteSet(1 .. n)
    BY FS_Interval
  <2> QED
    BY <2>1, FS_Subset
<1>2. n + 1 \notin S
  BY SMT
<1> QED
  BY <1>1, <1>2, FS_AddElement, FS_CardinalityType

(* How often an element occurs, and how often an event is marked. *)
CountIn(s, p) == Cardinality({i \in DOMAIN s : s[i] = p})
Marked(s, e) == Cardinality({i \in DOMAIN s : s[i][1] = e})

LEMMA AppendPlaces ==
  ASSUME NEW X, NEW s \in Seq(X), NEW x \in X
  PROVE  /\ Append(s, x) \in Seq(X)
         /\ Len(s) \in Nat /\ DOMAIN s = 1 .. Len(s) /\ DOMAIN Append(s, x) = 1 .. Len(s) + 1
         /\ \A i \in DOMAIN s : Append(s, x)[i] = s[i]
         /\ Append(s, x)[Len(s) + 1] = x
<1>1. Len(s) \in Nat /\ DOMAIN s = 1 .. Len(s)
  BY LenProperties
<1>2. /\ Append(s, x) \in Seq(X) /\ Len(Append(s, x)) = Len(s) + 1
      /\ \A i \in 1 .. Len(s) : Append(s, x)[i] = s[i]
      /\ Append(s, x)[Len(s) + 1] = x
  BY AppendProperties
<1>3. DOMAIN Append(s, x) = 1 .. Len(s) + 1
  BY <1>2, LenProperties
<1> QED
  BY <1>1, <1>2, <1>3

LEMMA CountTyped ==
  ASSUME NEW X, NEW s \in Seq(X), NEW p
  PROVE  CountIn(s, p) \in Nat
<1>1. PICK n \in Nat : DOMAIN s = 1 .. n
  BY LenProperties
<1>2. {i \in DOMAIN s : s[i] = p} \in SUBSET (1 .. n)
  BY <1>1
<1> QED
  BY <1>2, PlaceAdded DEF CountIn

LEMMA CountAppended ==
  ASSUME NEW X, NEW s \in Seq(X), NEW x \in X, NEW p
  PROVE  /\ CountIn(s, p) \in Nat
         /\ CountIn(Append(s, x), p) = CountIn(s, p) + (IF x = p THEN 1 ELSE 0)
<1>1. PICK n \in Nat, u \in {Append(s, x)} :
        /\ n = Len(s) /\ u = Append(s, x) /\ DOMAIN s = 1 .. n /\ DOMAIN u = 1 .. n + 1
        /\ u[n + 1] = x /\ \A i \in 1 .. n : u[i] = s[i]
  <2>1. /\ Len(s) \in Nat /\ DOMAIN s = 1 .. Len(s) /\ DOMAIN Append(s, x) = 1 .. Len(s) + 1
        /\ \A i \in 1 .. Len(s) : Append(s, x)[i] = s[i]
        /\ Append(s, x)[Len(s) + 1] = x
    BY AppendPlaces
  <2> QED
    BY <2>1, Zenon
<1> DEFINE S == {i \in 1 .. n : s[i] = p}
           U == {i \in 1 .. n + 1 : u[i] = p}
<1>2. S \in SUBSET (1 .. n)
  OBVIOUS
<1>3. U = (IF x = p THEN S \cup {n + 1} ELSE S)
  <2>1. \A i \in 1 .. n + 1 : i \in 1 .. n \/ i = n + 1
    BY <1>1
  <2>2. n + 1 \in 1 .. n + 1 /\ \A i \in 1 .. n : i \in 1 .. n + 1
    BY <1>1
  <2> QED
    BY <1>1, <2>1, <2>2
<1>4. CountIn(s, p) = Cardinality(S) /\ CountIn(Append(s, x), p) = Cardinality(U)
  BY <1>1 DEF CountIn
<1> HIDE DEF S, U
<1>5. Cardinality(S) \in Nat /\ Cardinality(S \cup {n + 1}) = Cardinality(S) + 1
  BY <1>1, <1>2, PlaceAdded
<1> QED
  BY <1>3, <1>4, <1>5

LEMMA MarkedAppended ==
  ASSUME NEW s \in Seq(Marker), NEW x \in Marker, NEW e
  PROVE  /\ Marked(s, e) \in Nat
         /\ Marked(Append(s, x), e) = Marked(s, e) + (IF x[1] = e THEN 1 ELSE 0)
<1>1. PICK n \in Nat, u \in {Append(s, x)} :
        /\ n = Len(s) /\ u = Append(s, x) /\ DOMAIN s = 1 .. n /\ DOMAIN u = 1 .. n + 1
        /\ u[n + 1] = x /\ \A i \in 1 .. n : u[i] = s[i]
  <2>1. /\ Len(s) \in Nat /\ DOMAIN s = 1 .. Len(s) /\ DOMAIN Append(s, x) = 1 .. Len(s) + 1
        /\ \A i \in 1 .. Len(s) : Append(s, x)[i] = s[i]
        /\ Append(s, x)[Len(s) + 1] = x
    BY AppendPlaces
  <2> QED
    BY <2>1, Zenon
<1> DEFINE S == {i \in 1 .. n : s[i][1] = e}
           U == {i \in 1 .. n + 1 : u[i][1] = e}
<1>2. S \in SUBSET (1 .. n)
  OBVIOUS
<1>3. U = (IF x[1] = e THEN S \cup {n + 1} ELSE S)
  <2>1. \A i \in 1 .. n + 1 : i \in 1 .. n \/ i = n + 1
    BY <1>1
  <2>2. n + 1 \in 1 .. n + 1 /\ \A i \in 1 .. n : i \in 1 .. n + 1
    BY <1>1
  <2> QED
    BY <1>1, <2>1, <2>2
<1>4. Marked(s, e) = Cardinality(S) /\ Marked(Append(s, x), e) = Cardinality(U)
  BY <1>1 DEF Marked
<1> HIDE DEF S, U
<1>5. Cardinality(S) \in Nat /\ Cardinality(S \cup {n + 1}) = Cardinality(S) + 1
  BY <1>1, <1>2, PlaceAdded
<1> QED
  BY <1>3, <1>4, <1>5

-----------------------------------------------------------------------------
(* The plan of a preset.                                                   *)

(* What offering the phases of the order to a round does, one by one. *)
Offers(g, m, phases, k) ==
  g = [i \in 0 .. m |-> IF i = 0 THEN phases
                        ELSE IF PresetCount[PresetOrder[i]] >= k
                        THEN Append(g[i - 1], PresetOrder[i])
                        ELSE g[i - 1]]

LEMMA OffersExist ==
  ASSUME NEW n \in Nat, NEW phases, NEW k
  PROVE  \E g : Offers(g, n, phases, k)
<1> DEFINE S == {m \in 0 .. n : \E g : Offers(g, m, phases, k)}
<1>1. 0 \in S
  <2>1. Offers([i \in 0 .. 0 |-> phases], 0, phases, k)
    BY DEF Offers
  <2> QED
    BY <2>1
<1>2. ASSUME NEW m \in 0 .. n, m < n /\ m \in S PROVE m + 1 \in S
  <2>1. PICK g : Offers(g, m, phases, k)
    BY <1>2
  <2>2. PICK l \in Nat : l = m + 1 /\ l # 0 /\ l - 1 = m /\ m \in 0 .. m
    OBVIOUS
  <2>3. PICK v : v = IF PresetCount[PresetOrder[l]] >= k
                     THEN Append(g[l - 1], PresetOrder[l]) ELSE g[l - 1]
    OBVIOUS
  <2>4. PICK h : h = [i \in 0 .. l |-> IF i = l THEN v ELSE g[i]]
    OBVIOUS
  <2>5. ASSUME NEW i \in 0 .. l
        PROVE  h[i] = IF i = 0 THEN phases
                      ELSE IF PresetCount[PresetOrder[i]] >= k
                      THEN Append(h[i - 1], PresetOrder[i])
                      ELSE h[i - 1]
    <3>1. CASE i = l
      <4>1. h[l] = v /\ h[l - 1] = g[l - 1]
        BY <2>2, <2>4
      <4> QED
        BY <2>2, <2>3, <3>1, <4>1
    <3>2. CASE i # l
      <4>1. i \in 0 .. m /\ h[i] = g[i] /\ (i # 0 => h[i - 1] = g[i - 1])
        BY <2>2, <2>4, <3>2
      <4>2. g[i] = IF i = 0 THEN phases
                   ELSE IF PresetCount[PresetOrder[i]] >= k
                   THEN Append(g[i - 1], PresetOrder[i])
                   ELSE g[i - 1]
        BY <2>1, <4>1 DEF Offers
      <4> QED
        BY <4>1, <4>2
    <3> QED
      BY <3>1, <3>2
  <2>6. h = [i \in 0 .. l |-> h[i]]
    BY <2>4
  <2>7. Offers(h, l, phases, k)
    BY <2>5, <2>6 DEF Offers
  <2>8. l \in 0 .. n
    BY <1>2, <2>2
  <2> QED
    BY <2>2, <2>7, <2>8
<1> HIDE DEF S
<1>3. \A m \in 0 .. n : m \in S
  BY <1>1, <1>2, AllReached
<1> QED
  BY <1>3 DEF S

LEMMA OrderTypes ==
  /\ Len(PresetOrder) \in Nat /\ DOMAIN PresetOrder = 1 .. Len(PresetOrder)
  /\ \A i \in 1 .. Len(PresetOrder) :
       /\ PresetOrder[i] \in STRING /\ PresetOrder[i] \in Range(PresetOrder)
       /\ PresetCount[PresetOrder[i]] \in Nat
  /\ \A i, j \in 1 .. Len(PresetOrder) : PresetOrder[i] = PresetOrder[j] => i = j
  /\ \A p \in Range(PresetOrder) :
       PresetCount[p] \in Nat /\ \E i \in 1 .. Len(PresetOrder) : PresetOrder[i] = p
<1>1. PresetOrder \in Seq(STRING) /\ PresetCount \in [Range(PresetOrder) -> Nat]
  BY RunAssumption DEF RunAssumption
<1>2. Len(PresetOrder) \in Nat /\ DOMAIN PresetOrder = 1 .. Len(PresetOrder)
  BY <1>1, LenProperties
<1>3. \A i \in 1 .. Len(PresetOrder) : PresetOrder[i] \in STRING
  BY <1>1, ElementOfSeq
<1>4. \A i \in 1 .. Len(PresetOrder) : PresetOrder[i] \in Range(PresetOrder)
  BY <1>2 DEF Range
<1>5. \A i, j \in 1 .. Len(PresetOrder) : PresetOrder[i] = PresetOrder[j] => i = j
  BY <1>2, RunAssumption DEF RunAssumption, IsInjective
<1>6. \A p \in Range(PresetOrder) : \E i \in 1 .. Len(PresetOrder) : PresetOrder[i] = p
  BY <1>2 DEF Range
<1>7. \A p \in Range(PresetOrder) : PresetCount[p] \in Nat
  BY <1>1
<1> QED
  BY <1>2, <1>3, <1>4, <1>5, <1>6, <1>7

(* A round adds every phase that is left once. *)
LEMMA RoundAdds ==
  ASSUME NEW s \in Seq(STRING), NEW k \in Nat
  PROVE  /\ Round(s, k) \in Seq(STRING)
         /\ \A p \in Range(PresetOrder) :
              CountIn(Round(s, k), p) = CountIn(s, p) + (IF PresetCount[p] >= k THEN 1 ELSE 0)
<1>1. PICK n \in Nat : n = Len(PresetOrder)
  BY OrderTypes
<1> DEFINE g == CHOOSE f : Offers(f, n, s, k)
<1>2. Round(s, k) = g[n]
  BY <1>1 DEF Round, Offers
<1>3. Offers(g, n, s, k)
  BY OffersExist
<1> HIDE DEF g
<1>4. \A i \in 0 .. n : g[i] = IF i = 0 THEN s
                               ELSE IF PresetCount[PresetOrder[i]] >= k
                               THEN Append(g[i - 1], PresetOrder[i])
                               ELSE g[i - 1]
  BY <1>3, Zenon DEF Offers
<1> DEFINE Due(p, i) == PresetCount[p] >= k /\ \E j \in 1 .. i : PresetOrder[j] = p
           S == {i \in 0 .. n : /\ g[i] \in Seq(STRING)
                                /\ \A p \in Range(PresetOrder) :
                                     CountIn(g[i], p) = CountIn(s, p) + (IF Due(p, i) THEN 1 ELSE 0)}
<1>5. \A p : CountIn(s, p) \in Nat
  BY CountTyped
<1>6. 0 \in S
  <2>1. g[0] = s /\ 0 \in 0 .. n
    BY <1>4
  <2>2. \A p : ~Due(p, 0)
    OBVIOUS
  <2> QED
    BY <1>5, <2>1, <2>2
<1>7. ASSUME NEW i \in 0 .. n, i < n /\ i \in S PROVE i + 1 \in S
  <2>1. PICK l \in 1 .. n : l = i + 1 /\ l - 1 = i /\ l # 0 /\ l \in 0 .. n
    BY <1>7
  <2>2. PICK q : q = PresetOrder[l]
    OBVIOUS
  <2>3. q \in STRING /\ q \in Range(PresetOrder)
    BY <1>1, <2>1, <2>2, OrderTypes
  <2>4. g[l] = IF PresetCount[q] >= k THEN Append(g[i], q) ELSE g[i]
    BY <1>4, <2>1, <2>2
  <2>5. g[i] \in Seq(STRING)
    BY <1>7
  <2>6. g[l] \in Seq(STRING)
    BY <2>3, <2>4, <2>5, AppendProperties
  <2>7. ASSUME NEW p \in Range(PresetOrder)
        PROVE  CountIn(g[l], p) = CountIn(s, p) + (IF Due(p, l) THEN 1 ELSE 0)
    <3>1. CountIn(g[i], p) = CountIn(s, p) + (IF Due(p, i) THEN 1 ELSE 0)
      BY <1>7
    <3>2. CountIn(Append(g[i], q), p) = CountIn(g[i], p) + (IF q = p THEN 1 ELSE 0)
      <4>1. PICK x \in Seq(STRING) : x = g[i]
        BY <2>5
      <4>2. CountIn(Append(x, q), p) = CountIn(x, p) + (IF q = p THEN 1 ELSE 0)
        <5>1. PICK X : X = STRING
          OBVIOUS
        <5>2. x \in Seq(X) /\ q \in X
          BY <2>3, <5>1
        <5> QED
          BY <5>2, CountAppended
      <4> QED
        BY <4>1, <4>2
    <3>3. CASE p = q
      <4>1. ~Due(p, i)
        <5>1. \A j \in 1 .. i : PresetOrder[j] # q
          <6>1. \A j \in 1 .. i : j \in 1 .. n /\ j # l
            BY <1>7, <2>1
          <6> QED
            BY <1>1, <2>1, <2>2, <6>1, OrderTypes
        <5> QED
          BY <3>3, <5>1
      <4>2. Due(p, l) <=> PresetCount[q] >= k
        <5>1. l \in 1 .. l
          BY <2>1
        <5> QED
          BY <2>2, <3>3, <5>1
      <4> HIDE DEF Due
      <4> QED
        BY <1>5, <2>4, <3>1, <3>2, <3>3, <4>1, <4>2
    <3>4. CASE p # q
      <4>1. Due(p, l) <=> Due(p, i)
        <5>1. \A j \in 1 .. l : j \in 1 .. i \/ j = l
          BY <2>1
        <5>2. \A j \in 1 .. i : j \in 1 .. l
          BY <2>1
        <5> QED
          BY <2>2, <3>4, <5>1, <5>2
      <4> HIDE DEF Due
      <4> QED
        BY <1>5, <2>4, <3>1, <3>2, <3>4, <4>1
    <3> QED
      BY <3>3, <3>4
  <2> HIDE DEF Due
  <2> QED
    BY <2>1, <2>6, <2>7
<1>8. n \in S
  <2> HIDE DEF S
  <2>1. \A i \in 0 .. n : i \in S
    BY <1>6, <1>7, AllReached
  <2> QED
    BY <2>1
<1>9. \A p \in Range(PresetOrder) : Due(p, n) <=> PresetCount[p] >= k
  BY <1>1, OrderTypes
<1> HIDE DEF Due
<1> QED
  BY <1>2, <1>8, <1>9

(* Some phase of the preset occurs most often. *)
LEMMA MostExists ==
  ASSUME Range(PresetOrder) # {}
  PROVE  \E n \in Range(PresetCount) : \A m \in Range(PresetCount) : m <= n
<1>1. PICK n \in Nat : n = Len(PresetOrder)
  BY OrderTypes
<1>2. PICK c : c = [i \in 1 .. n |-> PresetCount[PresetOrder[i]]]
  OBVIOUS
<1>3. c \in [1 .. n -> Nat]
  BY <1>1, <1>2, OrderTypes
<1>4. \A m : m \in Range(PresetCount) <=> \E i \in 1 .. n : m = c[i]
  <2>1. \A m : m \in Range(PresetCount) <=> \E p \in Range(PresetOrder) : m = PresetCount[p]
    BY RunAssumption DEF Range, RunAssumption
  <2> QED
    BY <1>1, <1>2, <2>1, OrderTypes
<1>5. n # 0
  BY <1>1, OrderTypes
<1> DEFINE S == {m \in 0 .. n : m # 0 => \E i \in 1 .. m : \A j \in 1 .. m : c[j] <= c[i]}
<1>6. 0 \in S
  OBVIOUS
<1>7. ASSUME NEW m \in 0 .. n, m < n /\ m \in S PROVE m + 1 \in S
  <2>1. PICK l \in 1 .. n : l = m + 1
    BY <1>7
  <2>2. \A j \in 1 .. l : j \in 1 .. m \/ j = l
    BY <2>1
  <2>3. \E i \in 1 .. l : \A j \in 1 .. l : c[j] <= c[i]
    <3>1. CASE m = 0
      BY <1>3, <2>1, <3>1
    <3>2. CASE m # 0
      <4>1. PICK i \in 1 .. m : \A j \in 1 .. m : c[j] <= c[i]
        BY <1>7, <3>2
      <4>2. i \in 1 .. n /\ i \in 1 .. l /\ l \in 1 .. l
        BY <1>7, <2>1
      <4>3. \A j \in 1 .. l : j \in 1 .. n
        BY <2>1
      <4>4. c[i] \in Nat /\ c[l] \in Nat /\ \A j \in 1 .. m : c[j] \in Nat
        BY <1>3, <1>7, <4>2
      <4>5. CASE c[l] <= c[i]
        BY <2>2, <4>1, <4>2, <4>5
      <4>6. CASE ~(c[l] <= c[i])
        <5>1. \A j \in 1 .. m : c[j] <= c[l]
          BY <4>1, <4>4, <4>6
        <5> QED
          BY <2>2, <4>2, <4>4, <5>1
      <4> QED
        BY <4>5, <4>6
    <3> QED
      BY <3>1, <3>2
  <2>4. l \in S
    BY <2>3
  <2> QED
    BY <2>1, <2>4
<1>8. n \in S
  <2> HIDE DEF S
  <2>1. \A m \in 0 .. n : m \in S
    BY <1>6, <1>7, AllReached
  <2> QED
    BY <2>1
<1>9. PICK i \in 1 .. n : \A j \in 1 .. n : c[j] <= c[i]
  BY <1>5, <1>8
<1> QED
  BY <1>4, <1>9

(* The rounds of a preset, one after the other. *)
Rounds(g, m) == g = [k \in 0 .. m |-> IF k = 0 THEN <<>> ELSE Round(g[k - 1], k)]

LEMMA RoundsExist ==
  ASSUME NEW n \in Nat
  PROVE  \E g : Rounds(g, n)
<1> DEFINE S == {m \in 0 .. n : \E g : Rounds(g, m)}
<1>1. 0 \in S
  <2>1. Rounds([k \in 0 .. 0 |-> <<>>], 0)
    BY DEF Rounds
  <2> QED
    BY <2>1
<1>2. ASSUME NEW m \in 0 .. n, m < n /\ m \in S PROVE m + 1 \in S
  <2>1. PICK g : Rounds(g, m)
    BY <1>2
  <2>2. PICK l \in Nat : l = m + 1 /\ l # 0 /\ l - 1 = m /\ m \in 0 .. m
    OBVIOUS
  <2>3. PICK v : v = Round(g[l - 1], l)
    OBVIOUS
  <2>4. PICK h : h = [k \in 0 .. l |-> IF k = l THEN v ELSE g[k]]
    OBVIOUS
  <2>5. ASSUME NEW k \in 0 .. l
        PROVE  h[k] = IF k = 0 THEN <<>> ELSE Round(h[k - 1], k)
    <3>1. CASE k = l
      <4>1. h[l] = v /\ h[l - 1] = g[l - 1]
        BY <2>2, <2>4
      <4> QED
        BY <2>2, <2>3, <3>1, <4>1
    <3>2. CASE k # l
      <4>1. k \in 0 .. m /\ h[k] = g[k] /\ (k # 0 => h[k - 1] = g[k - 1])
        BY <2>2, <2>4, <3>2
      <4>2. g[k] = IF k = 0 THEN <<>> ELSE Round(g[k - 1], k)
        BY <2>1, <4>1 DEF Rounds
      <4> QED
        BY <4>1, <4>2
    <3> QED
      BY <3>1, <3>2
  <2>6. h = [k \in 0 .. l |-> h[k]]
    BY <2>4
  <2>7. Rounds(h, l)
    BY <2>5, <2>6 DEF Rounds
  <2>8. l \in 0 .. n
    BY <1>2, <2>2
  <2> QED
    BY <2>2, <2>7, <2>8
<1> HIDE DEF S
<1>3. \A m \in 0 .. n : m \in S
  BY <1>1, <1>2, AllReached
<1> QED
  BY <1>3 DEF S

(* The plan of a preset holds each phase as often as the preset says. *)
LEMMA PresetCounted ==
  ASSUME Range(PresetOrder) # {}
  PROVE  /\ preset_phases \in Seq(STRING)
         /\ \A p \in Range(PresetOrder) : CountIn(preset_phases, p) = PresetCount[p]
<1> DEFINE most == CHOOSE n \in Range(PresetCount) : \A m \in Range(PresetCount) : m <= n
<1>1. most \in Range(PresetCount) /\ \A m \in Range(PresetCount) : m <= most
  BY MostExists
<1>2. most \in Nat
  BY <1>1, RunAssumption DEF RunAssumption, Range
<1> DEFINE g == CHOOSE f : Rounds(f, most)
<1>3. preset_phases = g[most]
  BY DEF preset_phases, Rounds
<1> HIDE DEF most
<1>4. Rounds(g, most)
  BY <1>2, RoundsExist
<1> HIDE DEF g
<1>5. \A k \in 0 .. most : g[k] = IF k = 0 THEN <<>> ELSE Round(g[k - 1], k)
  BY <1>4, Zenon DEF Rounds
<1> DEFINE Least(k, p) == IF PresetCount[p] < k THEN PresetCount[p] ELSE k
           S == {k \in 0 .. most : /\ g[k] \in Seq(STRING)
                                   /\ \A p \in Range(PresetOrder) : CountIn(g[k], p) = Least(k, p)}
<1>6. 0 \in S
  <2>1. g[0] = <<>> /\ <<>> \in Seq(STRING) /\ 0 \in 0 .. most
    BY <1>2, <1>5
  <2>2. \A p : CountIn(<<>>, p) = 0
    BY FS_EmptySet DEF CountIn
  <2>3. \A p \in Range(PresetOrder) : Least(0, p) = 0
    BY OrderTypes
  <2> QED
    BY <2>1, <2>2, <2>3
<1>7. ASSUME NEW k \in 0 .. most, k < most /\ k \in S PROVE k + 1 \in S
  <2>1. PICK l \in Nat : l = k + 1 /\ l \in 0 .. most /\ l # 0 /\ l - 1 = k
    BY <1>2, <1>7
  <2>2. PICK s \in Seq(STRING) : s = g[k] /\ g[l] = Round(s, l)
    BY <1>5, <1>7, <2>1
  <2>3. g[l] \in Seq(STRING)
    BY <2>1, <2>2, RoundAdds
  <2>4. ASSUME NEW p \in Range(PresetOrder) PROVE CountIn(g[l], p) = Least(l, p)
    <3>1. CountIn(g[l], p) = CountIn(s, p) + (IF PresetCount[p] >= l THEN 1 ELSE 0)
      <4>1. CountIn(Round(s, l), p) = CountIn(s, p) + (IF PresetCount[p] >= l THEN 1 ELSE 0)
        BY <2>1, RoundAdds
      <4> QED
        BY <2>2, <4>1, Zenon
    <3>2. CountIn(s, p) = Least(k, p)
      BY <1>7, <2>2
    <3>3. PresetCount[p] \in Nat
      BY OrderTypes
    <3> QED
      BY <1>2, <2>1, <3>1, <3>2, <3>3
  <2> HIDE DEF Least
  <2> QED
    BY <2>1, <2>3, <2>4
<1>8. most \in S
  <2> HIDE DEF S
  <2>1. \A k \in 0 .. most : k \in S
    BY <1>2, <1>6, <1>7, AllReached
  <2> QED
    BY <1>2, <2>1
<1>9. ASSUME NEW p \in Range(PresetOrder) PROVE Least(most, p) = PresetCount[p]
  <2>1. PresetCount[p] \in Range(PresetCount) /\ PresetCount[p] \in Nat
    BY RunAssumption DEF RunAssumption, Range
  <2> QED
    BY <1>1, <1>2, <2>1
<1> HIDE DEF Least
<1> QED
  BY <1>3, <1>8, <1>9

(* A shuffled plan holds the same phases. *)
LEMMA ShuffleCounted ==
  ASSUME NEW s \in Seq(STRING), NEW t \in Shuffles(s), NEW p
  PROVE  /\ CountIn(t, p) = CountIn(s, p)
         /\ DOMAIN t = 1 .. Len(t) /\ Len(t) \in Nat
<1>1. PICK n \in Nat : n = Len(s) /\ DOMAIN s = 1 .. n
  BY LenProperties
<1>2. PICK f \in Bijection(1 .. n, 1 .. n) : t = [i \in 1 .. n |-> s[f[i]]]
  BY <1>1 DEF Shuffles
<1>3. /\ f \in [1 .. n -> 1 .. n]
      /\ \A i, j \in 1 .. n : f[i] = f[j] => i = j
      /\ \A j \in 1 .. n : \E i \in 1 .. n : f[i] = j
  BY DEF Bijection, Injection, Surjection, IsInjective
<1>4. DOMAIN t = 1 .. n /\ \A i \in 1 .. n : t[i] = s[f[i]]
  BY <1>2
<1>5. Len(t) = n
  <2>1. t \in Seq(STRING)
    <3>1. \A i \in 1 .. n : s[f[i]] \in STRING
      BY <1>1, <1>3, ElementOfSeq
    <3> QED
      BY <1>2, <3>1
  <2> QED
    BY <1>1, <1>4, <2>1, LenProperties
<1> DEFINE A == {i \in 1 .. n : t[i] = p}
           B == {j \in 1 .. n : s[j] = p}
           g == [i \in A |-> f[i]]
<1>6. CountIn(t, p) = Cardinality(A) /\ CountIn(s, p) = Cardinality(B)
  BY <1>1, <1>4 DEF CountIn
<1>7. g \in Bijection(A, B)
  <2>1. g \in [A -> B]
    BY <1>3, <1>4
  <2>2. \A i, j \in A : g[i] = g[j] => i = j
    BY <1>3
  <2>3. \A j \in B : \E i \in A : g[i] = j
    BY <1>3, <1>4
  <2> HIDE DEF A, B, g
  <2>4. DOMAIN g = A
    BY <2>1
  <2> QED
    BY <2>1, <2>2, <2>3, <2>4 DEF Bijection, Injection, Surjection, IsInjective
<1>8. IsFiniteSet(A)
  <2>1. A \in SUBSET (1 .. n)
    OBVIOUS
  <2> QED
    BY <2>1, PlaceAdded
<1> HIDE DEF A, B, g
<1>9. ExistsBijection(A, B)
  BY <1>7 DEF ExistsBijection
<1>10. Cardinality(A) = Cardinality(B)
  BY <1>8, <1>9, FS_Bijection
<1> QED
  BY <1>1, <1>4, <1>5, <1>6, <1>10

-----------------------------------------------------------------------------
(* The markers.                                                            *)

(* What Mark appends, one event or two. *)
LEMMA MarkOne ==
  ASSUME TypeOK, NEW a \in Event, Mark(<<a>>)
  PROVE  markers' = Append(markers, <<a, idx>>) /\ <<a, idx>> \in Marker
<1>1. markers \in Seq(Marker) /\ <<a, idx>> \in Marker
  BY DEF TypeOK, Marker
<1>2. [k \in DOMAIN <<a>> |-> <<<<a>>[k], idx>>] = << <<a, idx>> >>
  OBVIOUS
<1>3. markers' = markers \o << <<a, idx>> >>
  BY <1>2 DEF Mark
<1> QED
  BY <1>1, <1>3, AppendIsConcat

LEMMA MarkTwo ==
  ASSUME TypeOK, NEW a \in Event, NEW b \in Event, Mark(<<a, b>>)
  PROVE  /\ markers' = Append(Append(markers, <<a, idx>>), <<b, idx>>)
         /\ <<a, idx>> \in Marker /\ <<b, idx>> \in Marker
<1>1. markers \in Seq(Marker) /\ <<a, idx>> \in Marker /\ <<b, idx>> \in Marker
  BY DEF TypeOK, Marker
<1>2. PICK x \in Marker, y \in Marker : x = <<a, idx>> /\ y = <<b, idx>>
  BY <1>1
<1>3. [k \in DOMAIN <<a, b>> |-> <<<<a, b>>[k], idx>>] = <<x, y>>
  BY <1>2
<1>4. markers' = markers \o <<x, y>>
  BY <1>3 DEF Mark
<1>5. <<x, y>> = <<x>> \o <<y>>
  <2>1. <<x>> \in Seq(Marker) /\ <<x, y>> = Append(<<x>>, y)
    OBVIOUS
  <2> QED
    BY <2>1, AppendIsConcat
<1>6. markers \o (<<x>> \o <<y>>) = (markers \o <<x>>) \o <<y>>
  <2>1. <<x>> \in Seq(Marker) /\ <<y>> \in Seq(Marker)
    OBVIOUS
  <2> QED
    BY <1>1, <2>1, ConcatAssociative
<1>7. Append(markers, x) = markers \o <<x>> /\ Append(markers, x) \in Seq(Marker)
  BY <1>1, AppendIsConcat, AppendProperties
<1>8. Append(Append(markers, x), y) = Append(markers, x) \o <<y>>
  BY <1>7, AppendIsConcat
<1> QED
  BY <1>1, <1>2, <1>4, <1>5, <1>6, <1>7, <1>8

(* Every phase that is over has both markers, and only the current phase   *)
(* or gap is open.                                                         *)
MarksInStep ==
  /\ Marked(markers, "phase_start") = Len(records) + (IF runner = "wait" THEN 1 ELSE 0)
  /\ Marked(markers, "phase_end") = Len(records)
  /\ Marked(markers, "gap_start")
       = Marked(markers, "gap_end") + (IF runner = "gap" THEN 1 ELSE 0)

MInv == IInv /\ args \in Arguments /\ MarksInStep

LEMMA InitMInv == Init => MInv
<1> SUFFICES ASSUME Init PROVE MInv
  OBVIOUS
<1>1. markers = <<>> /\ records = <<>> /\ runner \in {"none", "start"} /\ args \in Arguments
  BY DEF Init
<1>2. \A e : Marked(<<>>, e) = 0
  <2>1. \A e : {i \in DOMAIN <<>> : <<>>[i][1] = e} = {}
    OBVIOUS
  <2> QED
    BY <2>1, FS_EmptySet DEF Marked
<1>3. MarksInStep
  BY <1>1, <1>2 DEF MarksInStep
<1> QED
  BY <1>1, <1>3, InitIInv DEF MInv

(* What one more marker does to the counts. *)
LEMMA MarkedOne ==
  ASSUME TypeOK, NEW a \in Event, Mark(<<a>>)
  PROVE  \A e : /\ Marked(markers, e) \in Nat
                /\ Marked(markers', e) = Marked(markers, e) + (IF a = e THEN 1 ELSE 0)
<1>1. PICK x \in Marker : markers' = Append(markers, x) /\ x[1] = a
  <2>1. markers' = Append(markers, <<a, idx>>) /\ <<a, idx>> \in Marker
    BY MarkOne
  <2> QED
    BY <2>1
<1>2. markers \in Seq(Marker)
  BY DEF TypeOK
<1> QED
  BY <1>1, <1>2, MarkedAppended

LEMMA MarkedTwo ==
  ASSUME TypeOK, NEW a \in Event, NEW b \in Event, Mark(<<a, b>>)
  PROVE  \A e : /\ Marked(markers, e) \in Nat
                /\ Marked(markers', e) = Marked(markers, e) + (IF a = e THEN 1 ELSE 0)
                                                            + (IF b = e THEN 1 ELSE 0)
<1>1. PICK x \in Marker, y \in Marker : markers' = Append(Append(markers, x), y) /\ x[1] = a /\ y[1] = b
  <2>1. /\ markers' = Append(Append(markers, <<a, idx>>), <<b, idx>>)
        /\ <<a, idx>> \in Marker /\ <<b, idx>> \in Marker
    BY MarkTwo
  <2> QED
    BY <2>1
<1>2. markers \in Seq(Marker)
  BY DEF TypeOK
<1>3. PICK s \in Seq(Marker) : s = Append(markers, x)
  BY <1>2, AppendProperties
<1> TAKE e
<1>4. /\ Marked(markers, e) \in Nat
      /\ Marked(s, e) = Marked(markers, e) + (IF a = e THEN 1 ELSE 0)
  BY <1>1, <1>2, <1>3, MarkedAppended
<1>5. Marked(markers', e) = Marked(s, e) + (IF b = e THEN 1 ELSE 0)
  BY <1>1, <1>3, MarkedAppended
<1> QED
  BY <1>4, <1>5

LEMMA RunnerMarks == MInv /\ RunnerStep => MarksInStep'
<1> SUFFICES ASSUME MInv, RunnerStep PROVE MarksInStep'
  OBVIOUS
<1>1. TypeOK /\ MarksInStep /\ Len(records) \in Nat
  BY LenProperties DEF MInv, IInv, TypeOK
<1>2. CASE RunnerStart \/ RunnerCheck
  <2>1. UNCHANGED <<markers, records>> /\ runner \notin {"wait", "gap"} /\ runner' \notin {"wait", "gap"}
    BY <1>2 DEF RunnerStart, RunnerCheck, files
  <2> QED
    BY <1>1, <2>1 DEF MarksInStep
<1>3. CASE RunnerOpen
  <2>1. /\ Mark(<<"research_run_start">>) /\ records' = records
        /\ runner = "open" /\ runner' = "check" /\ "research_run_start" \in Event
    BY <1>3 DEF RunnerOpen, Event
  <2>2. \A e : /\ Marked(markers, e) \in Nat
               /\ Marked(markers', e) = Marked(markers, e) + (IF "research_run_start" = e THEN 1 ELSE 0)
    BY <1>1, <2>1, MarkedOne
  <2> QED
    BY <1>1, <2>1, <2>2 DEF MarksInStep
<1>4. CASE RunnerSpawn
  <2>1. /\ Mark(<<"phase_start">>) /\ records' = records
        /\ runner = "spawn" /\ runner' = "wait" /\ "phase_start" \in Event
    BY <1>4 DEF RunnerSpawn, StartPhase, Event
  <2>2. \A e : /\ Marked(markers, e) \in Nat
               /\ Marked(markers', e) = Marked(markers, e) + (IF "phase_start" = e THEN 1 ELSE 0)
    BY <1>1, <2>1, MarkedOne
  <2> QED
    BY <1>1, <2>1, <2>2 DEF MarksInStep
<1>5. CASE RunnerReap
  <2>1. /\ records' = Append(records, child.rc) /\ runner = "wait"
        /\ "phase_end" \in Event /\ "gap_start" \in Event
    BY <1>5 DEF RunnerReap, Reap, Event
  <2>2. Len(records') = Len(records) + 1
    <3>1. records \in Seq(Int) /\ child.rc \in Int
      BY DEF MInv, IInv, TypeOK, ChildTypeOK
    <3> QED
      BY <2>1, <3>1, AppendProperties
  <2>3. \/ Mark(<<"phase_end", "gap_start">>) /\ runner' = "gap"
        \/ Mark(<<"phase_end">>) /\ runner' \in {"finish", "check"}
    BY <1>5 DEF RunnerReap, Reap
  <2>4. CASE Mark(<<"phase_end", "gap_start">>) /\ runner' = "gap"
    <3>1. \A e : /\ Marked(markers, e) \in Nat
                 /\ Marked(markers', e) = Marked(markers, e) + (IF "phase_end" = e THEN 1 ELSE 0)
                                                             + (IF "gap_start" = e THEN 1 ELSE 0)
      BY <1>1, <2>1, <2>4, MarkedTwo
    <3> QED
      BY <1>1, <2>1, <2>2, <2>4, <3>1 DEF MarksInStep
  <2>5. CASE Mark(<<"phase_end">>) /\ runner' \in {"finish", "check"}
    <3>1. \A e : /\ Marked(markers, e) \in Nat
                 /\ Marked(markers', e) = Marked(markers, e) + (IF "phase_end" = e THEN 1 ELSE 0)
      BY <1>1, <2>1, <2>5, MarkedOne
    <3> QED
      BY <1>1, <2>1, <2>2, <2>5, <3>1 DEF MarksInStep
  <2> QED
    BY <2>3, <2>4, <2>5
<1>6. CASE RunnerGapEnd
  <2>1. /\ Mark(<<"gap_end">>) /\ records' = records
        /\ runner = "gap" /\ runner' = "check" /\ "gap_end" \in Event
    BY <1>6 DEF RunnerGapEnd, EndGap, Event
  <2>2. \A e : /\ Marked(markers, e) \in Nat
               /\ Marked(markers', e) = Marked(markers, e) + (IF "gap_end" = e THEN 1 ELSE 0)
    BY <1>1, <2>1, MarkedOne
  <2> QED
    BY <1>1, <2>1, <2>2 DEF MarksInStep
<1>7. CASE RunnerFinish
  <2>1. /\ Mark(<<"research_run_end">>) /\ records' = records
        /\ runner = "finish" /\ runner' = "exited" /\ "research_run_end" \in Event
    BY <1>7 DEF RunnerFinish, Event
  <2>2. \A e : /\ Marked(markers, e) \in Nat
               /\ Marked(markers', e) = Marked(markers, e) + (IF "research_run_end" = e THEN 1 ELSE 0)
    BY <1>1, <2>1, MarkedOne
  <2> QED
    BY <1>1, <2>1, <2>2 DEF MarksInStep
<1> QED
  BY <1>2, <1>3, <1>4, <1>5, <1>6, <1>7 DEF RunnerStep

LEMMA NextMInv == MInv /\ [Next]_vars => MInv'
<1> SUFFICES ASSUME MInv, [Next]_vars PROVE MInv'
  OBVIOUS
<1>1. IInv'
  BY NextIInv DEF MInv
<1>2. args' = args
  BY DEF Next, LauncherPopen, LauncherRecord, RunnerStep, RunnerStart, RunnerOpen, RunnerCheck,
         RunnerSpawn, StartPhase, RunnerReap, Reap, RunnerGapEnd, EndGap, RunnerFinish, ChildRuns,
         Expire, CtrlC, Terminate, TerminateChild, Signal, vars
<1>3. CASE RunnerStep
  BY <1>1, <1>2, <1>3, RunnerMarks DEF MInv
<1>4. CASE ~RunnerStep
  <2>1. UNCHANGED <<markers, records>>
    BY <1>4 DEF Next, LauncherPopen, LauncherRecord, ChildRuns, Expire, CtrlC, Terminate,
                TerminateChild, Signal, files, vars
  <2>2. runner' = runner \/ (runner \in {"none", "start"} /\ runner' \in {"start", "exited"})
    <3>1. CASE LauncherPopen
      <4>1. runner = "none"
        BY <3>1 DEF LauncherPopen, MInv, IInv, ReportLast
      <4> QED
        BY <3>1, <4>1 DEF LauncherPopen
    <3>2. CASE CtrlC \/ Terminate \/ TerminateChild
      BY <3>2 DEF CtrlC, Terminate, TerminateChild, Interrupted
    <3>3. CASE LauncherRecord \/ ChildRuns \/ Expire \/ UNCHANGED vars
      BY <3>3 DEF LauncherRecord, ChildRuns, Expire, vars
    <3> QED
      BY <1>4, <3>1, <3>2, <3>3 DEF Next
  <2>3. MarksInStep'
    BY <2>1, <2>2 DEF MInv, MarksInStep
  <2> QED
    BY <1>1, <1>2, <2>3 DEF MInv
<1> QED
  BY <1>3, <1>4

(* The report accounts for every phase: each window and each gap is closed *)
(* however the run ended, and a preset that passed ran each of its phases  *)
(* as often as it says (main, markers.jsonl and summary.json; sleep_gap;   *)
(* preset_phases), for any preset, in any order it was shuffled to.        *)
THEOREM WindowsAlwaysAddUp == Spec => []WindowsAddUp
<1>1. MInv => WindowsAddUp
  <2> SUFFICES ASSUME MInv, summary # NoSummary PROVE WindowsAddUp
    BY DEF WindowsAddUp
  <2>1. OutcomeIsTrue /\ runner = "exited" /\ records \in Seq(Int) /\ MarksInStep
    BY DEF MInv, IInv, ReportLast, TypeOK
  <2>2. PICK n \in Nat : n = Len(records) /\ DOMAIN records = 1 .. n
    BY <2>1, LenProperties
  <2>3. summary.phases = n
    BY <2>1, <2>2 DEF OutcomeIsTrue
  <2>4. /\ Marked(markers, "phase_start") = n /\ Marked(markers, "phase_end") = n
        /\ Marked(markers, "gap_start") = Marked(markers, "gap_end")
    <3>1. Marked(markers, "gap_end") \in Nat
      <4>1. markers \in Seq(Marker)
        BY DEF MInv, IInv, TypeOK
      <4>2. <<"gap_end", 1>> \in Marker
        BY DEF Marker, Event
      <4> QED
        BY <4>1, <4>2, MarkedAppended
    <3> QED
      BY <2>1, <2>2, <3>1 DEF MarksInStep
  <2>5. ASSUME summary.exitCode = 0 /\ args.preset, NEW p \in Range(PresetOrder)
        PROVE  Cardinality({i \in DOMAIN records : args.phases[i] = p}) = PresetCount[p]
    <3>1. Len(args.phases) = n
      BY <2>1, <2>2, <2>5 DEF OutcomeIsTrue
    <3>2. PICK t : t = args.phases /\ t \in Shuffles(preset_phases)
      <4>1. PICK q \in Plans : args.preset = q[1] /\ args.phases = q[2]
        BY DEF MInv, Arguments
      <4>2. PICK P : P = Shuffles(preset_phases)
        OBVIOUS
      <4>3. q \in ({TRUE} \X P) \cup ({FALSE} \X Explicit)
        BY <4>2 DEF Plans
      <4>4. q[1] = TRUE
        BY <2>5, <4>1, <4>3
      <4>5. q[2] \in P
        BY <4>3, <4>4
      <4> QED
        BY <4>1, <4>2, <4>5
    <3>3. preset_phases \in Seq(STRING) /\ CountIn(preset_phases, p) = PresetCount[p]
      BY <2>5, PresetCounted
    <3>4. CountIn(t, p) = CountIn(preset_phases, p) /\ DOMAIN t = 1 .. n
      BY <3>1, <3>2, <3>3, ShuffleCounted
    <3>5. CountIn(t, p) = Cardinality({i \in 1 .. n : t[i] = p})
      BY <3>4 DEF CountIn
    <3> QED
      BY <2>2, <3>2, <3>3, <3>4, <3>5
  <2> QED
    BY <2>3, <2>4, <2>5 DEF WindowsAddUp, Marked
<1> QED
  BY <1>1, InitMInv, NextMInv, PTL DEF Spec

=============================================================================
