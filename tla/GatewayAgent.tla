---------------------------- MODULE GatewayAgent ----------------------------
(***************************************************************************)
(* The gateway agent (state.py, iptables.py, main.py): it applies a Wi-Fi  *)
(* configuration to the node, rolls it back, restores it at start, and     *)
(* blocks devices.                                                         *)
(*                                                                         *)
(* Abstractions.                                                           *)
(*  - A configuration is a model value that passed validation; its subnet, *)
(*    rendered files and rules go with it.  ENABLE_APPLY and AUTO_RESTORE  *)
(*    are true.                                                            *)
(*  - A handler runs alone from one await to the next, so one action is    *)
(*    the code between awaits that matter; the lock admits one apply,      *)
(*    rollback or restore at a time, block and unblock run at any await.   *)
(*  - A command that changes something may fail; one that only looks does  *)
(*    not.  Processes die with the agent (one container), firewall rules   *)
(*    only with the node.                                                  *)
(*  - The rule for replies stands and falls with the ACCEPT rule before    *)
(*    it; only that adding it may fail is kept.                            *)
(***************************************************************************)
EXTENDS Integers, Sequences, FiniteSets, SequencesExt

CONSTANTS
  Enabled,       \* configurations that run an access point
  Disabled,      \* configurations with enabled = false
  Device,        \* MAC addresses
  None,          \* no file, no process
  Broken,        \* a file cut off by a crash
  MaxFaults,     \* bound: failed commands, dying processes and crashes
  MaxRequests    \* bound: apply, rollback, block and unblock requests

ASSUME GatewayAssumption ==
  /\ Enabled \cap Disabled = {}
  /\ None \notin Enabled \cup Disabled
  /\ Broken \notin Enabled \cup Disabled \cup {None}
  /\ MaxFaults \in Nat
  /\ MaxRequests \in Nat

VARIABLES
  pc,         \* what the handler that holds the lock does next; "idle" when
              \* the lock is free, "down" when there is no agent
  cfg,        \* the configuration it applies, or None
  hostapd,    \* [cfg, running] of the managed process, or None
  dnsmasq,
  (* files of STATE_DIR *)
  config,     \* wifi_config.json
  lkg,        \* last_known_good/wifi_config.json
  lastApply,  \* ok of last_apply.json, or None
  (* the node *)
  firewall,
  (* history, read by properties only *)
  outcome,    \* how the last apply or rollback ended: as lastApply
  good,       \* configurations that were seen running
  switchedOff, \* the last request disabled the gateway
  wanted,     \* devices blocked and not unblocked by a request
  wiped,      \* those of them whose rules were torn down since
  faults,
  requests

processes == <<hostapd, dnsmasq>>
files == <<config, lkg, lastApply>>
blocks == <<wanted, wiped>>
history == <<outcome, good, switchedOff, blocks>>
vars == <<pc, cfg, processes, files, firewall, history, faults, requests>>

Config == Enabled \cup Disabled

(* The lock of GatewayRuntime is free.                                     *)
LockFree == pc = "idle"

Running(p) == p # None /\ p.running
Started == [cfg |-> cfg, running |-> TRUE]

Fault == faults < MaxFaults /\ faults' = faults + 1
Request == requests < MaxRequests /\ requests' = requests + 1

-----------------------------------------------------------------------------
(* iptables.py.  The FORWARD chain is the sequence of its jumps.           *)

(* The chains, in the order in which ensure_chains, ensure_jump_rules and  *)
(* teardown go through them.                                               *)
Chains == <<"NAT", "FWD", "BLOCK">>
Chain == Range(Chains)
NAT == 1
FWD == 2
BLOCK == 3

NoRules == [chains |-> {}, natJump |-> FALSE, forward |-> <<>>, masquerade |-> {},
            accept |-> {}, drop |-> {}]

InForward(fw, chain) == \E i \in DOMAIN fw.forward : fw.forward[i] = chain

\* Mutant: both jumps are appended.
BlockJumpLast(fw) ==
  IF InForward(fw, "BLOCK") THEN fw.forward ELSE Append(fw.forward, "BLOCK")

(* ensure_jump_rules, the jump to the block chain: inserted in front. *)
BlockJump(fw) == IF InForward(fw, "BLOCK") THEN fw.forward ELSE <<"BLOCK">> \o fw.forward

FwdJump(fw) == IF InForward(fw, "FWD") THEN fw.forward ELSE Append(fw.forward, "FWD")

(* The commands of ensure_jump_rules and ensure_nat_rules that may raise:  *)
(* the jumps to the three chains, MASQUERADE, ACCEPT, the rule for replies. *)
AllCommands == 6

\* Mutant: an existing chain is flushed and built again.
EnsuredAnew(fw, c, made, n) ==
  [chains |-> Chain, natJump |-> TRUE, forward |-> <<"BLOCK", "FWD">>,
   masquerade |-> {c}, accept |-> {c}, drop |-> {}]

(* The firewall when ensure_chains has made the chains `made` and the      *)
(* first n commands after it have succeeded.                               *)
Ensured(fw, c, made, n) ==
  LET jumped == IF n >= FWD THEN [fw EXCEPT !.forward = FwdJump(fw)] ELSE fw
  IN  [chains |-> fw.chains \cup made,
       natJump |-> fw.natJump \/ n >= NAT,
       forward |-> IF n >= BLOCK THEN BlockJump(jumped) ELSE jumped.forward,
       masquerade |-> fw.masquerade \cup (IF n >= 4 THEN {c} ELSE {}),
       accept |-> fw.accept \cup (IF n >= 5 THEN {c} ELSE {}),
       drop |-> fw.drop]

(* What it may be when a command fails or the agent is killed on the way.  *)
(* ensure_chains goes on when a chain could not be made; then the jump to  *)
(* that chain fails.                                                       *)
PartlyEnsured(fw, c) ==
  {Ensured(fw, c, p[1], p[2]) :
     p \in {r \in (SUBSET Chain) \X (0..(AllCommands - 1)) :
             \A i \in DOMAIN Chains : r[2] >= i => Chains[i] \in fw.chains \cup r[1]}}

(* teardown: the jumps to the chains are deleted, the chains flushed and   *)
(* then removed, by nine commands whose failures are ignored.              *)
Flushing == Len(Chains)
Removing == 2 * Len(Chains)
TeardownCommands == 3 * Len(Chains)

(* Only an empty chain to which nothing jumps can be removed. *)
Unused(fw) ==
  (IF fw.natJump \/ fw.masquerade # {} THEN {} ELSE {"NAT"})
    \cup (IF InForward(fw, "FWD") \/ fw.accept # {} THEN {} ELSE {"FWD"})
    \cup (IF InForward(fw, "BLOCK") \/ fw.drop # {} THEN {} ELSE {"BLOCK"})

(* The firewall when of these commands those in `done` had an effect. *)
TornDown(fw, done) ==
  LET unhooked == IF FWD \in done THEN RemoveFirst(fw.forward, "FWD") ELSE fw.forward
      left == [chains |-> fw.chains,
               natJump |-> fw.natJump /\ NAT \notin done,
               forward |-> IF BLOCK \in done THEN RemoveFirst(unhooked, "BLOCK") ELSE unhooked,
               masquerade |-> IF Flushing + NAT \in done THEN {} ELSE fw.masquerade,
               accept |-> IF Flushing + FWD \in done THEN {} ELSE fw.accept,
               drop |-> IF Flushing + BLOCK \in done THEN {} ELSE fw.drop]
      removed == {Chains[i] : i \in {j \in DOMAIN Chains : Removing + j \in done}}
  IN  [left EXCEPT !.chains = @ \ (removed \cap Unused(left))]

(* teardown up to its n-th command, some of which failed; `more` faults    *)
(* happen besides.                                                         *)
Teardown(n, more) ==
  \E failed \in SUBSET (1..n) :
    /\ faults + Cardinality(failed) + more <= MaxFaults
    /\ faults' = faults + Cardinality(failed) + more
    /\ firewall' = TornDown(firewall, (1..n) \ failed)
    /\ wiped' = IF Flushing + BLOCK \in (1..n) \ failed THEN wanted ELSE wiped
    /\ UNCHANGED wanted

(* POST /block; without the chain the command fails. *)
BlockDevice(d) ==
  /\ Request
  /\ pc # "down" /\ "BLOCK" \in firewall.chains
  /\ firewall' = [firewall EXCEPT !.drop = @ \cup {d}]
  /\ wanted' = wanted \cup {d}
  /\ wiped' = wiped \ {d}
  /\ UNCHANGED <<pc, cfg, processes, files, outcome, good, switchedOff, faults>>

(* DELETE /block *)
UnblockDevice(d) ==
  /\ Request
  /\ pc # "down" /\ d \in firewall.drop
  /\ firewall' = [firewall EXCEPT !.drop = @ \ {d}]
  /\ wanted' = wanted \ {d}
  /\ wiped' = wiped \ {d}
  /\ UNCHANGED <<pc, cfg, processes, files, outcome, good, switchedOff, faults>>

-----------------------------------------------------------------------------
(* state.py.                                                               *)

(* The handler ends and releases the lock; `ok` is what it tells. *)
Answer(ok) ==
  /\ pc' = "idle"
  /\ cfg' = None
  /\ outcome' = ok

(* A command fails: the exception leaves _apply_locked. *)
Raise ==
  /\ Fault
  /\ Answer(FALSE)
  /\ UNCHANGED <<files, good, switchedOff>>

(* POST /apply takes the lock. *)
ApplyRequest(c) ==
  /\ Request
  /\ LockFree
  /\ pc' = "write"
  /\ cfg' = c
  /\ switchedOff' = FALSE
  /\ UNCHANGED <<processes, files, firewall, outcome, good, blocks, faults>>

(* _rollback_locked *)
RollbackRequest ==
  /\ Request
  /\ LockFree
  /\ \/ /\ lkg \in Config
        /\ pc' = "write"
        /\ cfg' = lkg
     \/ /\ lkg \notin Config
        /\ pc' = "abandon"
        /\ UNCHANGED cfg
  /\ switchedOff' = FALSE
  /\ UNCHANGED <<processes, files, firewall, outcome, good, blocks, faults>>

(* _rollback_locked without a usable snapshot. *)
Abandon ==
  /\ pc = "abandon"
  /\ hostapd' = None /\ dnsmasq' = None
  /\ Teardown(TeardownCommands, 0)
  /\ lastApply' = FALSE
  /\ Answer(FALSE)
  /\ UNCHANGED <<config, lkg, good, switchedOff, requests>>

(* _apply_locked persists the configuration first. *)
WriteConfig ==
  /\ pc = "write"
  /\ config' = cfg
  /\ pc' = IF cfg \in Disabled THEN "stop" ELSE "interface"
  /\ UNCHANGED <<cfg, processes, lkg, lastApply, firewall, history, faults, requests>>

(* ip link, ip addr and sysctl *)
ConfigureInterface ==
  /\ pc = "interface"
  /\ \/ /\ pc' = "rules"
        /\ UNCHANGED <<cfg, files, outcome, good, switchedOff, faults>>
     \/ Raise
  /\ UNCHANGED <<processes, firewall, blocks, requests>>

ConfigureRules ==
  /\ pc = "rules"
  /\ \/ /\ firewall' = Ensured(firewall, cfg, Chain, AllCommands)
        /\ pc' = "stop"
        /\ UNCHANGED <<cfg, files, outcome, good, switchedOff, faults>>
     \/ /\ firewall' \in PartlyEnsured(firewall, cfg)
        /\ Raise
  /\ UNCHANGED <<processes, blocks, requests>>

\* Mutant: only the access point is stopped.
StoppedDnsmasqNot == <<None, dnsmasq>>

Stopped == <<None, None>>

(* _stop_processes *)
StopProcesses ==
  /\ pc = "stop"
  /\ hostapd' = Stopped[1] /\ dnsmasq' = Stopped[2]
  /\ pc' = IF cfg \in Disabled THEN "teardown" ELSE "dnsmasq"
  /\ UNCHANGED <<cfg, files, firewall, history, faults, requests>>

(* A disabled gateway: teardown. *)
Disable ==
  /\ pc = "teardown"
  /\ Teardown(TeardownCommands, 0)
  /\ pc' = "flush"
  /\ UNCHANGED <<cfg, processes, files, outcome, good, switchedOff, requests>>

(* ip addr flush and last_apply.json *)
FlushAddress ==
  /\ pc = "flush"
  /\ \/ /\ lastApply' = TRUE
        /\ Answer(TRUE)
        /\ switchedOff' = TRUE
        /\ UNCHANGED <<config, lkg, good, faults>>
     \/ Raise
  /\ UNCHANGED <<processes, firewall, blocks, requests>>

StartDnsmasq ==
  /\ pc = "dnsmasq"
  /\ \/ /\ dnsmasq' = Started
        /\ pc' = "hostapd"
        /\ UNCHANGED <<cfg, files, outcome, good, switchedOff, faults>>
     \/ Raise /\ UNCHANGED dnsmasq
  /\ UNCHANGED <<hostapd, firewall, blocks, requests>>

StartHostapd ==
  /\ pc = "hostapd"
  /\ \/ /\ hostapd' = Started
        /\ pc' = "check"
        /\ UNCHANGED <<cfg, files, outcome, good, switchedOff, faults>>
     \/ Raise /\ UNCHANGED hostapd
  /\ UNCHANGED <<dnsmasq, firewall, blocks, requests>>

\* Mutant: the snapshot is taken without a look at hostapd.
HealthyDnsmasq == Running(dnsmasq)

Healthy == Running(dnsmasq) /\ Running(hostapd)

(* The check one second later, the snapshot and last_apply.json. *)
CheckAndSnapshot ==
  /\ pc = "check"
  /\ \/ /\ Healthy
        /\ lkg' = config
        /\ lastApply' = TRUE
        /\ Answer(TRUE)
     \/ /\ ~Healthy
        /\ lastApply' = FALSE
        /\ Answer(FALSE)
        /\ UNCHANGED lkg
  /\ good' = good \cup (IF Running(dnsmasq) /\ Running(hostapd) THEN {cfg} ELSE {})
  /\ UNCHANGED <<processes, config, firewall, switchedOff, blocks, faults, requests>>

-----------------------------------------------------------------------------
(* Processes, restarts and crashes.                                        *)

(* A managed process exits; nobody starts it again. *)
ProcessExits ==
  /\ Fault
  /\ \/ /\ Running(hostapd)
        /\ hostapd' = [hostapd EXCEPT !.running = FALSE]
        /\ UNCHANGED dnsmasq
     \/ /\ Running(dnsmasq)
        /\ dnsmasq' = [dnsmasq EXCEPT !.running = FALSE]
        /\ UNCHANGED hostapd
  /\ UNCHANGED <<pc, cfg, files, firewall, history, requests>>

Ended ==
  /\ pc' = "down"
  /\ cfg' = None
  /\ hostapd' = None /\ dnsmasq' = None

(* lifespan, the end: runtime.stop waits for the lock. *)
Shutdown ==
  /\ LockFree /\ Fault
  /\ Ended
  /\ UNCHANGED <<files, firewall, history, requests>>

(* The agent is killed; the file it writes may be cut off. *)
Crash ==
  /\ pc # "down" /\ Fault
  /\ Ended
  /\ \/ UNCHANGED <<config, lkg>>
     \/ pc = "write" /\ config' = Broken /\ UNCHANGED lkg
     \/ pc = "check" /\ Healthy /\ lkg' = Broken /\ UNCHANGED config
  /\ UNCHANGED <<lastApply, firewall, history, requests>>

(* The agent is killed while it sets the rules up. *)
CrashInRules ==
  /\ pc = "rules" /\ Fault
  /\ Ended
  /\ firewall' \in PartlyEnsured(firewall, cfg)
  /\ UNCHANGED <<files, history, requests>>

(* The agent is killed while it tears them down. *)
CrashInTeardown ==
  /\ pc \in {"abandon", "teardown"}
  /\ \E n \in 0..(TeardownCommands - 1) : Teardown(n, 1)
  /\ Ended
  /\ UNCHANGED <<files, outcome, good, switchedOff, requests>>

(* The node restarts. *)
Reboot ==
  /\ Fault
  /\ Ended
  /\ firewall' = NoRules
  /\ wiped' = wanted
  /\ UNCHANGED wanted
  /\ UNCHANGED <<files, outcome, good, switchedOff, requests>>

(* restore_from_disk: the snapshot, else the configuration. *)
Restores == IF lkg # None THEN lkg ELSE config

(* lifespan, the start. *)
Start ==
  /\ pc = "down"
  /\ \/ /\ Restores \in Config
        /\ pc' = "write"
        /\ cfg' = Restores
     \/ /\ Restores \notin Config
        /\ pc' = "idle"
        /\ UNCHANGED cfg
  /\ UNCHANGED <<processes, files, firewall, history, faults, requests>>

Init ==
  /\ pc = "down"
  /\ cfg = None
  /\ hostapd = None /\ dnsmasq = None
  /\ config = None /\ lkg = None /\ lastApply = None
  /\ firewall = NoRules
  /\ outcome = None
  /\ good = {}
  /\ switchedOff = FALSE
  /\ wanted = {} /\ wiped = {}
  /\ faults = 0
  /\ requests = 0

Next ==
  \/ \E c \in Config : ApplyRequest(c)
  \/ RollbackRequest
  \/ Abandon
  \/ WriteConfig
  \/ ConfigureInterface
  \/ ConfigureRules
  \/ StopProcesses
  \/ Disable
  \/ FlushAddress
  \/ StartDnsmasq
  \/ StartHostapd
  \/ CheckAndSnapshot
  \/ \E d \in Device : BlockDevice(d) \/ UnblockDevice(d)
  \/ ProcessExits
  \/ Shutdown
  \/ Crash
  \/ CrashInRules
  \/ CrashInTeardown
  \/ Reboot
  \/ Start

Spec == Init /\ [][Next]_vars

-----------------------------------------------------------------------------
(* Properties.                                                             *)

(* The snapshot a rollback or a restart goes back to is a configuration    *)
(* with which both processes were seen running, whatever failed or died on *)
(* the way (_apply_locked).                                                *)
SnapshotWasGood == lkg \in Config => lkg \in good

(* An access point is being served, or was until its processes died.       *)
Served == hostapd # None \/ dnsmasq # None

(* The block chain is asked before everything else. *)
Guarded == firewall.forward # <<>> /\ firewall.forward[1] = "BLOCK"

(* As long as an access point is served, no traffic is accepted before the *)
(* block chain was asked, whatever rules a failed or interrupted teardown  *)
(* or setup left behind (ensure_jump_rules: "Block chain must be checked   *)
(* BEFORE", teardown, _apply_locked).                                      *)
AcceptIsGuarded == Served => Guarded

(* The two processes never serve different configurations, and what they   *)
(* serve is forwarded: old ones go before new ones come, and before the    *)
(* rules do (_apply_locked, _rollback_locked).                             *)
OneConfigServed ==
  \A p \in {hostapd, dnsmasq} \ {None} :
    /\ p.cfg \in firewall.accept
    /\ \A q \in {hostapd, dnsmasq} \ {None} : p.cfg = q.cfg

(* A block that was answered stays, and is in force as long as an access   *)
(* point is served: applying, rolling back, restoring, failed commands and *)
(* crashes keep it, also on the leftovers of a teardown and when it was    *)
(* asked for in the middle of them; only flushing the chain or a reboot    *)
(* loses it (block_device, ensure_chains, teardown).                       *)
BlockKept == \A d \in wanted \ wiped : d \in firewall.drop /\ (Served => Guarded)

-----------------------------------------------------------------------------
(* What the documentation says and the code does not do: each of them is   *)
(* refuted within the bounds of Gateway.cfg (README, section 5).           *)

Forwards == firewall.accept # {} /\ InForward(firewall, "FWD")

(* iptables.py:47: "Block chain must be checked BEFORE the forwarding      *)
(* accept rules", whether an access point is served or not                 *)
(* (ensure_jump_rules, teardown).                                          *)
BlockBeforeAccept == Forwards => Guarded

(* docs/GATEWAY_AGENT.md: at start the agent reads wifi_config.json and    *)
(* applies it.  A gateway disabled by the last request then stays disabled *)
(* (restore_from_disk).                                                    *)
StaysDisabled == pc = "idle" /\ switchedOff => ~Running(hostapd)

(* images/gateway-agent/README.md: rollback restores the last good         *)
(* configuration: once there was one, a rollback does not give up          *)
(* (_rollback_locked).                                                     *)
RollbackRestores == good # {} => pc # "abandon"

(* docs/GATEWAY_AGENT.md: a blocked device never reaches the ACCEPT rule   *)
(* (block_device, teardown).                                               *)
BlockHolds == Forwards => wanted \subseteq firewall.drop

(* docs/GATEWAY_AGENT.md: last_apply.json is the status of the last apply  *)
(* (_write_last_apply).                                                    *)
LastApplyIsLast == pc = "idle" => lastApply = outcome

=============================================================================
