----------------------------- MODULE ResearchRun -----------------------------
(***************************************************************************)
(* One research run: scripts/research-traffic-runner.py and research.py,   *)
(* which plan the phases, run a traffic generator for each of them one     *)
(* after the other with a quiet gap between, and record the windows that   *)
(* detection results are later compared with.                              *)
(*                                                                         *)
(* Actors: the launcher of a detached run, the runner, its child (module   *)
(* TrafficChild) and the operator, who sends signals.                      *)
(*                                                                         *)
(* Abstractions.                                                           *)
(*  - A phase is its profile; timestamps are the order of the markers.     *)
(*  - The files written between two reads of STOP_REQUESTED are written in *)
(*    one step.  Writing never fails.                                      *)
(*  - The arguments passed the checks of main; --dry-run, which does       *)
(*    nothing, is left out.  The run has a directory of its own.           *)
(***************************************************************************)
EXTENDS TrafficChild, Functions

CONSTANTS
  PresetOrder,   \* the order of preset_phases, without repetition
  PresetCount,   \* how often a preset runs each of them
  Explicit,      \* plans of --phases
  MaxSignals     \* bound: signals the operator sends

ASSUME RunAssumption ==
  /\ PresetOrder \in Seq(STRING) /\ IsInjective(PresetOrder)
  /\ PresetCount \in [Range(PresetOrder) -> Nat]
  /\ Explicit \subseteq Seq(STRING) \ {<<>>}
  /\ MaxSignals \in Nat

VARIABLES
  args,      \* the parsed arguments
  launcher,  \* "popen", "record", "done"
  runner,    \* "none", "start", "open", "check", "spawn", "wait", "gap",
             \* "finish", "exited"
  idx,       \* the current phase
  stop,      \* STOP_REQUESTED of the runner
  exitCode,  \* exit_code of main, then the exit code of the process
  (* files of the run directory *)
  markers,   \* <<event, phase>>
  records,   \* return codes of phase_records
  status,    \* the status of status.json, or the phase it names
  summary,   \* [interrupted, exitCode, phases] or NoSummary
  (* the operator *)
  signals    \* how many signals were sent

operator == <<stop, signals>>
files == <<markers, records, status, summary>>
vars == <<args, launcher, runner, idx, exitCode, operator, files, childVars>>

NoSummary == [interrupted |-> FALSE, exitCode |-> 0, phases |-> -1]

-----------------------------------------------------------------------------
(* The plan.                                                               *)

(* One round over the preset: each phase that is left, which in round k is *)
(* one that occurs k times or more, is added once.                         *)
Round(phases, k) ==
  LET offered[i \in 0 .. Len(PresetOrder)] ==
        IF i = 0 THEN phases
        ELSE IF PresetCount[PresetOrder[i]] >= k
        THEN Append(offered[i - 1], PresetOrder[i])
        ELSE offered[i - 1]
  IN  offered[Len(PresetOrder)]

preset_phases ==
  LET most == CHOOSE n \in Range(PresetCount) : \A m \in Range(PresetCount) : m <= n
      rounds[k \in 0 .. most] == IF k = 0 THEN <<>> ELSE Round(rounds[k - 1], k)
  IN  rounds[most]

Shuffles(s) == {[i \in DOMAIN s |-> s[f[i]]] : f \in Bijection(DOMAIN s, DOMAIN s)}

(* What the command line chooses: phases, whether a sweep and the emulator *)
(* have a duration other than zero, the targets, whether --gap is not 0.   *)
Plans == ({TRUE} \X Shuffles(preset_phases)) \cup ({FALSE} \X Explicit)

Arguments ==
  {[preset |-> p[1], phases |-> p[2], sweepTimed |-> t, normalTimed |-> n,
    source |-> s, gap |-> g, detach |-> d] :
      p \in Plans, t, n, g, d \in BOOLEAN, s \in {"named", "lookup"}}

phase_duration(phase) == IF phase = Normal THEN args.normalTimed ELSE args.sweepTimed

(* run id of a child, the name of its output directory                     *)
PhaseRunId == <<idx, args.phases[idx]>>

Mark(events) == markers' = markers \o [k \in DOMAIN events |-> <<events[k], idx>>]

-----------------------------------------------------------------------------
Init ==
  /\ args \in Arguments
  /\ launcher = IF args.detach THEN "popen" ELSE "done"
  /\ runner = IF args.detach THEN "none" ELSE "start"
  /\ idx = 1
  /\ stop = FALSE
  /\ exitCode = 0
  /\ markers = <<>>
  /\ records = <<>>
  /\ status = "none"
  /\ summary = NoSummary
  /\ signals = 0
  /\ Idle

(* detach: the runner starts in a session of its own ...                   *)
LauncherPopen ==
  /\ launcher = "popen"
  /\ launcher' = "record"
  /\ runner' = "start"
  /\ UNCHANGED <<args, idx, exitCode, operator, files, childVars>>

(* ... and only then status.json is written.                               *)
LauncherRecord ==
  /\ launcher = "record"
  /\ launcher' = "done"
  /\ status' = "detached"
  /\ UNCHANGED <<args, runner, idx, exitCode, operator, markers, records, summary,
                 childVars>>

(* The handlers are installed: from now on a signal sets the flag.         *)
RunnerStart ==
  /\ runner = "start"
  /\ runner' = "open"
  /\ UNCHANGED <<args, launcher, idx, exitCode, operator, files, childVars>>

RunnerOpen ==
  /\ runner = "open"
  /\ runner' = "check"
  /\ status' = "running"
  /\ Mark(<<"research_run_start">>)
  /\ UNCHANGED <<args, launcher, idx, exitCode, operator, records, summary, childVars>>

(* The top of the loop over the commands.                                  *)
RunnerCheck ==
  /\ runner = "check"
  /\ runner' = IF stop THEN "finish" ELSE "spawn"
  /\ UNCHANGED <<args, launcher, idx, exitCode, operator, files, childVars>>

StartPhase(events) ==
  /\ runner = "spawn"
  /\ runner' = "wait"
  /\ status' = "running"
  /\ Mark(events)
  /\ Spawn(PhaseRunId, phase_duration(args.phases[idx]), args.source)
  /\ UNCHANGED <<args, launcher, idx, exitCode, operator, records, summary, out>>

\* Mutant: both markers are written when the phase is over.
SpawnUnmarked == StartPhase(<<>>)

RunnerSpawn == StartPhase(<<"phase_start">>)

(* The child is over.  A failure ends the run; a gap follows any phase but *)
(* the last.                                                               *)
Reap(failed) ==
  LET last == idx = Len(args.phases)
      gap == ~failed /\ ~last /\ args.gap
  IN /\ runner = "wait"
     /\ child.pc = "exit"
     /\ child' = NoChild
     /\ expired' = FALSE
     /\ records' = Append(records, child.rc)
     /\ status' = IF child.rc # 0 THEN "failed" ELSE "running"
     /\ exitCode' = child.rc
     /\ Mark(IF gap THEN <<"phase_end", "gap_start">> ELSE <<"phase_end">>)
     /\ runner' = IF failed \/ last THEN "finish" ELSE IF gap THEN "gap" ELSE "check"
     /\ idx' = IF failed \/ last \/ gap THEN idx ELSE idx + 1
     /\ UNCHANGED <<args, launcher, operator, summary, out>>

\* Mutant: a failed phase does not end the run.
ReapAndGoOn == Reap(FALSE)

RunnerReap == Reap(child.rc # 0)

(* sleep_gap returns at its deadline or soon after a stop request.         *)
EndGap(events) ==
  /\ runner = "gap"
  /\ stop \/ expired
  /\ runner' = "check"
  /\ idx' = idx + 1
  /\ Mark(events)
  /\ UNCHANGED <<args, launcher, exitCode, operator, records, status, summary,
                 childVars>>

\* Mutant: a stop request leaves the gap without its marker.
GapLeftOpen == EndGap(IF stop THEN <<>> ELSE <<"gap_end">>)

RunnerGapEnd == EndGap(<<"gap_end">>)

FinalStatus(interrupted, code) ==
  IF interrupted THEN "interrupted" ELSE IF code # 0 THEN "failed" ELSE "complete"

(* The last look at STOP_REQUESTED, then the report.                       *)
RunnerFinish ==
  /\ runner = "finish"
  /\ runner' = "exited"
  /\ exitCode' = IF stop THEN 130 ELSE exitCode
  /\ summary' = [interrupted |-> stop, exitCode |-> exitCode', phases |-> Len(records)]
  /\ status' = FinalStatus(stop, exitCode)
  /\ Mark(<<"research_run_end">>)
  /\ UNCHANGED <<args, launcher, idx, operator, records, childVars>>

RunnerStep == RunnerStart \/ RunnerOpen \/ RunnerCheck \/ RunnerSpawn \/ RunnerReap
                \/ RunnerGapEnd \/ RunnerFinish

-----------------------------------------------------------------------------
(* The environment.                                                        *)

(* The deadline of the child's loop or of the gap passes.                  *)
Expire ==
  /\ ~expired
  /\ runner = "gap" \/ (child.timed /\ child.pc \in {"loop", "cycle"})
  /\ expired' = TRUE
  /\ UNCHANGED <<args, launcher, runner, idx, exitCode, operator, files, child, out>>

(* A signal reaches the runner: without its handlers it dies.              *)
Interrupted ==
  IF runner = "start"
  THEN runner' = "exited" /\ exitCode' = Killed /\ UNCHANGED stop
  ELSE stop' = TRUE /\ UNCHANGED <<runner, exitCode>>

Signal ==
  /\ signals < MaxSignals
  /\ signals' = signals + 1
  /\ UNCHANGED <<args, launcher, idx, files, expired, out>>

Running == runner \notin {"none", "exited"}

(* Ctrl+C: the foreground process group, the runner and its child.         *)
CtrlC == Running /\ ~args.detach /\ Interrupted /\ Signalled /\ Signal

(* SIGTERM to one process.                                                 *)
Terminate == Running /\ Interrupted /\ UNCHANGED child /\ Signal
TerminateChild == Alive /\ Signalled /\ UNCHANGED <<runner, exitCode, stop>> /\ Signal

ChildRuns ==
  ChildStep /\ UNCHANGED <<args, launcher, runner, idx, exitCode, operator, files>>

Next ==
  \/ LauncherPopen \/ LauncherRecord
  \/ RunnerStep
  \/ ChildRuns
  \/ Expire
  \/ CtrlC \/ Terminate \/ TerminateChild

(* The processes run and time passes; nobody has to send a signal.         *)
Fairness ==
  /\ WF_vars(LauncherPopen) /\ WF_vars(LauncherRecord)
  /\ WF_vars(RunnerStep)
  /\ WF_vars(ChildRuns)
  /\ WF_vars(Expire)

Spec == Init /\ [][Next]_vars /\ Fairness

-----------------------------------------------------------------------------
(* Properties.                                                             *)

(* The markers are the ground truth for detection results: while a child   *)
(* discovers, probes or emulates, the newest marker is the start of the    *)
(* phase it was started for.  So all traffic lies in the window of its own *)
(* phase and none in a gap (main 404-443, docs/PORT_SWEEP_RESEARCH.md:141).*)
TrafficInWindow ==
  Alive => markers # <<>> /\ Last(markers) = <<"phase_start", child.id[1]>>

(* A passed phase left evidence of its own: a summary that no other phase  *)
(* of the same profile has overwritten, not interrupted, in which a sweep  *)
(* has tried every pair as often as asked for, deadline or not.            *)
PassedPhaseCovered ==
  \A i \in DOMAIN records :
    records[i] = 0 =>
      \E o \in out : /\ o.id[1] = i
                     /\ ~o.interrupted
                     /\ o.id[2] # Normal => o.covered

(* What the report says of the run.  Code 0 means that every phase of the  *)
(* plan passed.  A failed or interrupted phase is the last one, and        *)
(* status.json agrees unless a launcher wrote to it as well.               *)
OutcomeIsTrue ==
  summary # NoSummary =>
    /\ \A i \in DOMAIN records : records[i] # 0 => i = Len(records)
    /\ summary.exitCode = 0 =>
         /\ \A i \in DOMAIN records : records[i] = 0
         /\ Len(records) = Len(args.phases)
    /\ summary.phases = Len(records)
    /\ args.detach \/ status = FinalStatus(summary.interrupted, summary.exitCode)

(* The report accounts for every phase: each window and each gap is        *)
(* closed, whatever ended the run, and a preset that passed ran each of    *)
(* its phases as often as the preset says.                                 *)
WindowsAddUp ==
  LET count(p) == Cardinality({i \in DOMAIN records : args.phases[i] = p})
      marked(e) == Cardinality({i \in DOMAIN markers : markers[i][1] = e})
  IN summary # NoSummary =>
       /\ summary.phases = marked("phase_start") /\ summary.phases = marked("phase_end")
       /\ marked("gap_start") = marked("gap_end")
       /\ summary.exitCode = 0 /\ args.preset =>
            \A p \in Range(PresetOrder) : count(p) = PresetCount[p]

(* Once the runner has noted a stop request it ends and its report says so,*)
(* also when only the runner was told and its child goes on to the end of  *)
(* its phase.                                                              *)
StopIsObeyed ==
  (stop /\ Running) ~> (runner = "exited" /\ summary.interrupted)

=============================================================================
