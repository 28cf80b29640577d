---------------------------- MODULE TrafficChild ----------------------------
(***************************************************************************)
(* The traffic generator of one research phase: scripts/port-sweep.py, or  *)
(* scripts/iot-device-emulator.py for the phase "normal".                  *)
(*                                                                         *)
(* Abstractions.                                                           *)
(*  - An operation (a probe of a target and port, a DNS lookup, an HTTP    *)
(*    request, a UDP datagram) is counted; its outcome is only logged by   *)
(*    the code, so every outcome is the same step.                         *)
(*  - Time is one flag: the deadline of the phase has passed.  Delays and  *)
(*    rates are left out.  A phase without a duration has no deadline.     *)
(*  - A cycle of the emulator has one operation of each kind; the profile  *)
(*    "plug", which sends no datagrams, is left out.                       *)
(*  - Pairs are probed in any order: --randomize shuffles, without it one  *)
(*    of the orders is taken.                                              *)
(*  - Reading STOP_REQUESTED and the operation that follows are one step.  *)
(*  - The process is read by its parent only: its exit code and, in out,   *)
(*    the summary.json of its output directory.                            *)
(***************************************************************************)
EXTENDS Integers, Sequences, FiniteSets, SequencesExt

CONSTANTS
  Target,      \* hosts that may be named or discovered
  Port,        \* ports of a profile
  Repeat,      \* --repeat of port-sweep.py, 1 when the runner starts it
  MaxCycles    \* bound: cycles of one child

ASSUME ChildAssumption ==
  /\ Target # {} /\ IsFiniteSet(Target)
  /\ Port # {} /\ IsFiniteSet(Port)
  /\ Repeat \in Nat \ {0}
  /\ MaxCycles \in Nat /\ MaxCycles >= Repeat

VARIABLES
  child,       \* the process the runner waits for
  expired,     \* the deadline the program at work looks at has passed
  out          \* summary.json of every child that wrote one

childVars == <<child, expired, out>>

Normal == "normal"
Killed == -15

(* options: source "named" (--target) or "lookup" (file, API, subnet)      *)
NoChild == [pc |-> "none", id |-> <<0, Normal>>, timed |-> FALSE, source |-> "named",
            stop |-> FALSE, items |-> {}, left |-> <<>>, cycle |-> 0, done |-> <<>>,
            rc |-> 0]

IsSweep == child.id[2] # Normal
Alive == child.pc \in {"boot", "load", "loop", "cycle"}

(* What probes.jsonl shows: every pair was tried as often as asked for.    *)
Covered == \A x \in child.items : child.done[x] >= Repeat

Exit(code) == child' = [child EXCEPT !.pc = "exit", !.rc = code, !.items = {},
                                     !.done = <<>>, !.left = <<>>]

Report(interrupted) ==
  out' = {o \in out : o.id # child.id}
           \cup {[id |-> child.id, interrupted |-> interrupted, covered |-> Covered]}

Idle == child = NoChild /\ expired = FALSE /\ out = {}

(* Popen of the command: from here to its Boot a signal has its default    *)
(* effect.                                                                 *)
Spawn(id, timed, source) ==
  /\ child' = [NoChild EXCEPT !.pc = "boot", !.id = id, !.timed = timed, !.source = source]
  /\ expired' = FALSE

(* Ready for the first cycle.                                              *)
Opened(items) ==
  child' = [child EXCEPT !.pc = "loop", !.items = items, !.done = [x \in items |-> 0]]

Begin(sequence) ==
  /\ child.cycle < MaxCycles
  /\ child' = [child EXCEPT !.pc = "cycle", !.cycle = @ + 1, !.left = sequence]

(* The outcome of an operation is only logged.                             *)
Operate(x) == child' = [child EXCEPT !.done[x] = @ + 1, !.left = Tail(@)]

End == child' = [child EXCEPT !.pc = "loop", !.left = <<>>]

-----------------------------------------------------------------------------
(* port-sweep.py                                                           *)

SweepBoot ==
  /\ IsSweep /\ child.pc = "boot"
  /\ child' = [child EXCEPT !.pc = "load"]

(* A look-up may fail or find nobody: the sweep exits without a summary.   *)
LoadTargets ==
  /\ child.pc = "load"
  /\ \E found \in SUBSET Target :
       /\ child.source = "named" => Cardinality(found) = 1
       /\ IF found = {} THEN Exit(1) ELSE Opened(found \X Port)

\* Mutant: repeat-only mode waits for a deadline it does not have.
SweepDoneAtDeadline == child.stop \/ (child.cycle >= Repeat /\ expired)

SweepDone == child.stop \/ (child.cycle >= Repeat /\ (child.timed => expired))

SweepCycle ==
  /\ IsSweep /\ child.pc = "loop" /\ ~SweepDone
  /\ \E s \in SetToSeqs(child.items) : Begin(s)

\* Mutant: the deadline also cuts the cycles that --repeat asks for.
CutRepeats == child.stop \/ (child.cycle >= Repeat /\ child.timed /\ expired)

(* The sweep leaves a cycle before its last pair.                          *)
CutShort == child.stop \/ (child.cycle > Repeat /\ child.timed /\ expired)

Probe ==
  /\ IsSweep /\ child.pc = "cycle"
  /\ IF child.left = <<>> \/ CutShort THEN End ELSE Operate(Head(child.left))

SweepFinish ==
  /\ IsSweep /\ child.pc = "loop" /\ SweepDone
  /\ Report(child.stop)
  /\ Exit(IF child.stop THEN 130 ELSE 0)
  /\ UNCHANGED expired

-----------------------------------------------------------------------------
(* iot-device-emulator.py                                                  *)

(* The operations of a cycle, in their order.                              *)
Operation == <<"dns_lookup", "http_get", "udp_heartbeat">>

EmulatorBoot ==
  /\ ~IsSweep /\ child.pc = "boot"
  /\ Opened(Range(Operation))

EmulatorDone == IF child.timed THEN expired ELSE child.cycle > 0

EmulatorCycle ==
  /\ ~IsSweep /\ child.pc = "loop" /\ ~EmulatorDone
  /\ Begin(Operation)

Emulate ==
  /\ ~IsSweep /\ child.pc = "cycle"
  /\ IF child.left = <<>> THEN End ELSE Operate(Head(child.left))

EmulatorFinish ==
  /\ ~IsSweep /\ child.pc = "loop" /\ EmulatorDone
  /\ Report(FALSE)
  /\ Exit(0)
  /\ UNCHANGED expired

-----------------------------------------------------------------------------
ChildStep ==
  \/ /\ SweepBoot \/ LoadTargets \/ SweepCycle \/ Probe
        \/ EmulatorBoot \/ EmulatorCycle \/ Emulate
     /\ UNCHANGED <<expired, out>>
  \/ SweepFinish \/ EmulatorFinish

(* SIGINT or SIGTERM: port-sweep.py handles both once it has booted; the   *)
(* emulator has no handler and dies.                                       *)
Signalled ==
  IF child.pc = "boot" \/ (Alive /\ ~IsSweep) THEN Exit(Killed)
  ELSE child' = [child EXCEPT !.stop = Alive]

=============================================================================
