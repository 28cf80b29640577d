------------------------ MODULE GatewayAgentProofs ------------------------
(***************************************************************************)
(* Proofs about the gateway agent, for any configurations and devices and  *)
(* any number of requests and faults.                                      *)
(***************************************************************************)
EXTENDS GatewayAgent, TLAPS

-----------------------------------------------------------------------------
(* The inductive invariant.                                                *)

Process == [cfg : Config, running : BOOLEAN]

(* The FORWARD chain, whatever setups and teardowns stopped half-way.      *)
Forward == {<<>>, <<"BLOCK">>, <<"FWD">>, <<"BLOCK", "FWD">>}
BlockFirst == {<<"BLOCK">>, <<"BLOCK", "FWD">>}

Firewall ==
  [chains : SUBSET Chain, natJump : BOOLEAN, forward : Forward,
   masquerade : SUBSET Config, accept : SUBSET Config, drop : SUBSET Device]

(* A handler between persisting the configuration and its end.             *)
Applying ==
  pc \in {"interface", "rules", "stop", "teardown", "flush", "dnsmasq", "hostapd", "check"}

(* Types, as far as the steps need them.                                   *)
TypeOK ==
  /\ hostapd \in Process \cup {None}
  /\ dnsmasq \in Process \cup {None}
  /\ firewall \in Firewall
  /\ pc = "write" \/ Applying => cfg \in Config

(* What an apply takes the snapshot of is the configuration it applies.    *)
AppliesSaved == Applying => config = cfg

(* Where an apply is decides which processes there may be: none once they  *)
(* were stopped, then dnsmasq of the new configuration, then both.         *)
ProcessesFollow ==
  /\ pc \in {"teardown", "flush", "dnsmasq", "hostapd"} => hostapd = None
  /\ pc \in {"teardown", "flush", "dnsmasq"} => dnsmasq = None
  /\ pc \in {"hostapd", "check"} => dnsmasq = None \/ dnsmasq.cfg = cfg

(* Once an apply has set the rules up, they stay until it ends: nothing    *)
(* else tears them down and leaves the agent running.                      *)
RulesFollow ==
  (pc = "stop" /\ cfg \notin Disabled) \/ pc \in {"dnsmasq", "hostapd", "check"} =>
    cfg \in firewall.accept /\ Guarded

(* A block that was not torn down since is in the chain.                   *)
BlocksInForce == (wanted \ wiped) \subseteq firewall.drop

IInv ==
  /\ TypeOK
  /\ AppliesSaved
  /\ ProcessesFollow
  /\ RulesFollow
  /\ AcceptIsGuarded
  /\ OneConfigServed
  /\ BlocksInForce
  /\ SnapshotWasGood

-----------------------------------------------------------------------------
(* The firewall.                                                           *)

(* The block chain is in front when one of two sequences is there.         *)
LEMMA GuardedIs == firewall \in Firewall => (Guarded <=> firewall.forward \in BlockFirst)
BY DEF Guarded, Firewall, Forward, BlockFirst

(* A sequence of one element. *)
LEMMA OnlyElement ==
  ASSUME NEW q \in Seq({"BLOCK", "FWD"}), Len(q) = 1
  PROVE  q = <<q[1]>>
OBVIOUS

(* One of two. *)
LEMMA TwoElements ==
  ASSUME NEW q \in Seq({"BLOCK", "FWD"}), Len(q) = 2
  PROVE  q = <<q[1], q[2]>>
OBVIOUS

(* Whichever of its commands succeed, setting the rules up keeps what was  *)
(* accepted and dropped, and keeps the block chain in front.               *)
LEMMA EnsuredKeeps ==
  ASSUME firewall \in Firewall, NEW c \in Config, NEW made \in SUBSET Chain, NEW n \in Nat
  PROVE  LET fw == Ensured(firewall, c, made, n)
         IN  /\ fw \in Firewall
             /\ firewall.accept \subseteq fw.accept
             /\ fw.drop = firewall.drop
             /\ firewall.forward \in BlockFirst => fw.forward \in BlockFirst
             /\ n >= AllCommands => c \in fw.accept /\ fw.forward \in BlockFirst
<1> DEFINE fw == Ensured(firewall, c, made, n)
           jumped == IF n >= FWD THEN [firewall EXCEPT !.forward = FwdJump(firewall)] ELSE firewall
<1>1. firewall.forward \in Forward /\ firewall.accept \subseteq Config
  BY DEF Firewall
<1>2. /\ FwdJump(firewall) \in Forward
      /\ firewall.forward \in BlockFirst => FwdJump(firewall) \in BlockFirst
  <2>1. CASE firewall.forward = <<>>
    <3>1. ~InForward(firewall, "FWD")
      BY <2>1 DEF InForward
    <3>2. FwdJump(firewall) = Append(<<>>, "FWD")
      BY <2>1, <3>1 DEF FwdJump
    <3>3. Append(<<>>, "FWD") = <<"FWD">>
      OBVIOUS
    <3> QED
      BY <2>1, <3>2, <3>3 DEF Forward, BlockFirst
  <2>2. CASE firewall.forward = <<"BLOCK">>
    <3>1. ~InForward(firewall, "FWD")
      BY <2>2 DEF InForward
    <3>2. FwdJump(firewall) = Append(<<"BLOCK">>, "FWD")
      BY <2>2, <3>1 DEF FwdJump
    <3>3. PICK q : q = Append(<<"BLOCK">>, "FWD")
      OBVIOUS
    <3>4. q \in Seq({"BLOCK", "FWD"}) /\ Len(q) = 2 /\ q[1] = "BLOCK" /\ q[2] = "FWD"
      BY <3>3
    <3>5. q = <<"BLOCK", "FWD">>
      BY <3>4, TwoElements
    <3> QED
      BY <3>2, <3>3, <3>5 DEF Forward, BlockFirst
  <2>3. CASE firewall.forward \in {<<"FWD">>, <<"BLOCK", "FWD">>}
    <3>1. InForward(firewall, "FWD")
      BY <2>3 DEF InForward
    <3> QED
      BY <1>1, <3>1 DEF FwdJump
  <2> QED
    BY <1>1, <2>1, <2>2, <2>3 DEF Forward
<1>3. /\ jumped.forward \in Forward
      /\ firewall.forward \in BlockFirst => jumped.forward \in BlockFirst
  BY <1>1, <1>2 DEF Firewall
<1>4. BlockJump(jumped) \in BlockFirst
  <2> HIDE DEF jumped
  <2>1. CASE jumped.forward \in {<<>>, <<"FWD">>}
    <3>1. ~InForward(jumped, "BLOCK")
      BY <2>1 DEF InForward
    <3>2. BlockJump(jumped) = <<"BLOCK">> \o jumped.forward
      BY <3>1 DEF BlockJump
    <3>3. <<"BLOCK">> \o <<>> = <<"BLOCK">>
      <4>1. <<>> \in Seq({"BLOCK", "FWD"}) /\ Len(<<>>) = 0
        OBVIOUS
      <4>2. PICK e \in Seq({"BLOCK", "FWD"}) : e = <<>>
        BY <4>1
      <4>3. PICK q : q = <<"BLOCK">> \o e
        OBVIOUS
      <4>4. q \in Seq({"BLOCK", "FWD"}) /\ Len(q) = 1 /\ q[1] = "BLOCK"
        BY <4>1, <4>2, <4>3
      <4> QED
        BY <4>2, <4>3, <4>4, OnlyElement
    <3>4. <<"BLOCK">> \o <<"FWD">> = <<"BLOCK", "FWD">>
      <4>1. PICK q : q = <<"BLOCK">> \o <<"FWD">>
        OBVIOUS
      <4>2. q \in Seq({"BLOCK", "FWD"}) /\ Len(q) = 2 /\ q[1] = "BLOCK" /\ q[2] = "FWD"
        BY <4>1
      <4> QED
        BY <4>1, <4>2, TwoElements
    <3> QED
      BY <2>1, <3>2, <3>3, <3>4 DEF BlockFirst
  <2>2. CASE jumped.forward \in BlockFirst
    <3>1. InForward(jumped, "BLOCK")
      BY <2>2 DEF InForward, BlockFirst
    <3> QED
      BY <2>2, <3>1 DEF BlockJump
  <2> QED
    BY <1>3, <2>1, <2>2 DEF Forward, BlockFirst
<1>5. /\ fw.forward = IF n >= BLOCK THEN BlockJump(jumped) ELSE jumped.forward
      /\ fw.accept = firewall.accept \cup (IF n >= 5 THEN {c} ELSE {})
      /\ fw.drop = firewall.drop
  BY DEF Ensured
<1>6. fw.forward \in Forward
  BY <1>3, <1>4, <1>5 DEF Forward, BlockFirst
<1>7. fw \in Firewall
  BY <1>6 DEF Ensured, Firewall
<1>8. n >= AllCommands => n >= BLOCK /\ n >= 5
  BY DEF AllCommands, BLOCK
<1> HIDE DEF fw, jumped
<1>9. /\ firewall.accept \subseteq fw.accept
      /\ firewall.forward \in BlockFirst => fw.forward \in BlockFirst
      /\ n >= AllCommands => c \in fw.accept /\ fw.forward \in BlockFirst
  BY <1>3, <1>4, <1>5, <1>8
<1> QED
  BY <1>5, <1>7, <1>9 DEF fw

(* A setup that fails or is interrupted is the start of one.               *)
LEMMA PartlyEnsuredIs ==
  ASSUME NEW c, NEW fw \in PartlyEnsured(firewall, c)
  PROVE  \E made \in SUBSET Chain : \E n \in Nat : fw = Ensured(firewall, c, made, n)
BY DEF PartlyEnsured, AllCommands

(* The least of one number. *)
LEMMA MinOfOne ==
  ASSUME NEW k \in Int
  PROVE  Min({k}) = k
<1>1. \E x \in {k} : \A y \in {k} : x <= y
  OBVIOUS
<1> QED
  BY <1>1, Zenon DEF Min

(* Deleting a jump leaves one of the four sequences.                       *)
LEMMA RemovedIs ==
  ASSUME NEW s \in Forward, NEW k \in 1..Len(s)
  PROVE  RemoveAt(s, k) \in Forward
<1>1. CASE s \in {<<"BLOCK">>, <<"FWD">>}
  <2>1. Len(s) = 1
    BY <1>1
  <2>2. k = 1
    BY <2>1
  <2>3. SubSeq(s, 1, 0) = <<>> /\ SubSeq(s, 2, 1) = <<>>
    BY <1>1
  <2> QED
    BY <2>1, <2>2, <2>3 DEF RemoveAt, Forward
<1>2. CASE s = <<"BLOCK", "FWD">>
  <2>1. k \in {1, 2} /\ Len(s) = 2
    BY <1>2
  <2>2. s \in Seq({"BLOCK", "FWD"}) /\ s[1] = "BLOCK" /\ s[2] = "FWD"
    BY <1>2
  <2>3. ASSUME NEW i \in 1..2
        PROVE  SubSeq(s, i, i) = <<s[i]>>
    <3> DEFINE q == SubSeq(s, i, i)
    <3>1. q \in Seq({"BLOCK", "FWD"}) /\ Len(q) = 1 /\ q[1] = s[i]
      BY <2>1, <2>2
    <3>2. q = <<s[i]>>
      <4> HIDE DEF q
      <4> QED
        BY <3>1, OnlyElement
    <3> QED
      BY <3>2
  <2>4. SubSeq(s, 1, 0) = <<>> /\ SubSeq(s, 3, 2) = <<>>
    BY <1>2
  <2>5. SubSeq(s, 1, 1) = <<"BLOCK">> /\ SubSeq(s, 2, 2) = <<"FWD">>
    BY <2>2, <2>3
  <2>6. CASE k = 1
    <3>1. k - 1 = 0 /\ k + 1 = 2
      BY <2>6
    <3>2. RemoveAt(s, k) = <<>> \o <<"FWD">>
      BY <2>1, <2>4, <2>5, <3>1 DEF RemoveAt
    <3> QED
      BY <3>2 DEF Forward
  <2>7. CASE k = 2
    <3>1. k - 1 = 1 /\ k + 1 = 3
      BY <2>7
    <3>2. RemoveAt(s, k) = <<"BLOCK">> \o <<>>
      BY <2>1, <2>4, <2>5, <3>1 DEF RemoveAt
    <3> QED
      BY <3>2 DEF Forward
  <2> QED
    BY <2>1, <2>6, <2>7
<1>3. s # <<>>
  OBVIOUS
<1> QED
  BY <1>1, <1>2, <1>3 DEF Forward

(* So does deleting the first jump to a chain, if there is one.            *)
LEMMA RemoveFirstIs ==
  ASSUME NEW s \in Forward, NEW chain \in {"BLOCK", "FWD"}
  PROVE  RemoveFirst(s, chain) \in Forward
<1>1. CASE ~\E i \in 1..Len(s) : s[i] = chain
  BY <1>1 DEF RemoveFirst
<1>2. ASSUME NEW k \in 1..Len(s), s[k] = chain
      PROVE  RemoveFirst(s, chain) = RemoveAt(s, k)
  <2>1. {i \in 1..Len(s) : s[i] = chain} = {k}
    <3>1. s \in {<<"BLOCK">>, <<"FWD">>} => Len(s) = 1
      OBVIOUS
    <3>2. s = <<"BLOCK", "FWD">> => Len(s) = 2 /\ s[1] # s[2]
      OBVIOUS
    <3>3. s # <<>>
      BY <1>2
    <3> QED
      BY <1>2, <3>1, <3>2, <3>3 DEF Forward
  <2>2. SelectInSeq(s, LAMBDA v : v = chain) = k
    <3>1. Min({k}) = k
      BY MinOfOne
    <3> QED
      BY <2>1, <3>1 DEF SelectInSeq
  <2> QED
    BY <1>2, <2>2 DEF RemoveFirst
<1> QED
  BY <1>1, <1>2, RemovedIs

(* Whichever of its commands have an effect, a teardown keeps the blocks   *)
(* unless it flushed their chain.                                          *)
LEMMA TornDownKeeps ==
  ASSUME firewall \in Firewall, NEW done
  PROVE  LET fw == TornDown(firewall, done)
         IN  /\ fw \in Firewall
             /\ Flushing + BLOCK \notin done => fw.drop = firewall.drop
<1> DEFINE unhooked == IF FWD \in done THEN RemoveFirst(firewall.forward, "FWD")
                                      ELSE firewall.forward
           forward == IF BLOCK \in done THEN RemoveFirst(unhooked, "BLOCK") ELSE unhooked
<1>1. unhooked \in Forward
  BY RemoveFirstIs DEF Firewall
<1>2. forward \in Forward
  <2> HIDE DEF unhooked
  <2> QED
    BY <1>1, RemoveFirstIs
<1> DEFINE left == [chains |-> firewall.chains,
                    natJump |-> firewall.natJump /\ NAT \notin done,
                    forward |-> forward,
                    masquerade |-> IF Flushing + NAT \in done THEN {} ELSE firewall.masquerade,
                    accept |-> IF Flushing + FWD \in done THEN {} ELSE firewall.accept,
                    drop |-> IF Flushing + BLOCK \in done THEN {} ELSE firewall.drop]
           removed == {Chains[i] : i \in {j \in DOMAIN Chains : Removing + j \in done}}
<1>3. left \in Firewall
  <2> HIDE DEF forward
  <2> QED
    BY <1>2 DEF Firewall
<1>4. Flushing + BLOCK \notin done => left.drop = firewall.drop
  OBVIOUS
<1>5. TornDown(firewall, done) = [left EXCEPT !.chains = left.chains \ (removed \cap Unused(left))]
  BY DEF TornDown
<1> HIDE DEF left, removed
<1> QED
  BY <1>3, <1>4, <1>5 DEF Firewall

(* Nothing is accepted and nothing is blocked once the rules are gone.     *)
LEMMA NoRulesOK == NoRules \in Firewall
BY DEF NoRules, Firewall, Forward

-----------------------------------------------------------------------------
(* Each action keeps the invariant.                                        *)

(* The initial state. *)
LEMMA InitHolds == Init => IInv
<1> SUFFICES ASSUME Init PROVE IInv
  OBVIOUS
<1>1. TypeOK /\ AppliesSaved /\ ProcessesFollow /\ RulesFollow
  BY NoRulesOK DEF Init, TypeOK, Applying, AppliesSaved, ProcessesFollow, RulesFollow
<1>2. AcceptIsGuarded /\ OneConfigServed /\ BlocksInForce
  BY DEF Init, AcceptIsGuarded, Served, OneConfigServed, BlocksInForce
<1>3. SnapshotWasGood
  BY GatewayAssumption DEF Init, SnapshotWasGood, Config
<1> QED
  BY <1>1, <1>2, <1>3 DEF IInv

(* Requests, the first writes, and steps that only move on.                *)
LEMMA RequestKeeps ==
  ASSUME IInv, (\E c \in Config : ApplyRequest(c)) \/ RollbackRequest \/ WriteConfig
               \/ ConfigureInterface \/ Start
  PROVE  IInv'
<1>1. /\ UNCHANGED <<processes, firewall, blocks, good>>
      /\ lkg' = lkg
      /\ pc' \in {"write", "abandon", "interface", "stop", "rules", "idle"}
      /\ pc' = "write" => cfg' \in Config
      /\ pc' \in {"interface", "stop", "rules"} => cfg' = cfg /\ cfg \in Config /\ config' = cfg'
      /\ pc' = "stop" => cfg' \in Disabled
  BY DEF IInv, TypeOK, AppliesSaved, Applying, ApplyRequest, RollbackRequest, WriteConfig,
         ConfigureInterface, Start, Raise, Answer, LockFree, files, history, processes, blocks
<1>2. TypeOK'
  BY <1>1 DEF IInv, TypeOK, Applying, processes
<1>3. AppliesSaved' /\ ProcessesFollow' /\ RulesFollow'
  BY <1>1 DEF AppliesSaved, ProcessesFollow, RulesFollow, Applying
<1>4. AcceptIsGuarded' /\ OneConfigServed' /\ BlocksInForce' /\ SnapshotWasGood'
  BY <1>1 DEF IInv, AcceptIsGuarded, Served, Guarded, OneConfigServed, BlocksInForce,
              SnapshotWasGood, processes, blocks
<1> QED
  BY <1>2, <1>3, <1>4 DEF IInv

(* A setup that ends or is left before its end keeps what holds of the     *)
(* firewall while nobody applies.                                          *)
LEMMA SetupKeeps ==
  ASSUME IInv, pc = "rules", NEW made \in SUBSET Chain, NEW n \in Nat,
         firewall' = Ensured(firewall, cfg, made, n), UNCHANGED blocks
  PROVE  /\ firewall' \in Firewall
         /\ firewall.accept \subseteq firewall'.accept
         /\ Guarded => Guarded'
         /\ n >= AllCommands => cfg \in firewall'.accept /\ Guarded'
         /\ BlocksInForce'
<1>1. cfg \in Config /\ firewall \in Firewall
  BY DEF IInv, TypeOK, Applying
<1>2. /\ firewall' \in Firewall
      /\ firewall.accept \subseteq firewall'.accept
      /\ firewall'.drop = firewall.drop
      /\ firewall.forward \in BlockFirst => firewall'.forward \in BlockFirst
      /\ n >= AllCommands => cfg \in firewall'.accept /\ firewall'.forward \in BlockFirst
  BY <1>1, EnsuredKeeps
<1>3. Guarded' <=> firewall'.forward \in BlockFirst
  BY <1>2 DEF Guarded, Firewall, Forward, BlockFirst
<1>4. BlocksInForce'
  BY <1>2 DEF IInv, BlocksInForce, blocks
<1> QED
  BY <1>1, <1>2, <1>3, <1>4, GuardedIs

(* The rules, wherever setting them up fails.                              *)
LEMMA ConfigureRulesKeeps ==
  ASSUME IInv, ConfigureRules
  PROVE  IInv'
<1>1. pc = "rules" /\ cfg \in Config /\ config = cfg
  BY DEF ConfigureRules, IInv, TypeOK, AppliesSaved, Applying
<1>2. UNCHANGED <<processes, blocks, config, lkg, good>>
  BY DEF ConfigureRules, Raise, files
<1>3. PICK made \in SUBSET Chain, n \in Nat :
        /\ firewall' = Ensured(firewall, cfg, made, n)
        /\ \/ n >= AllCommands /\ pc' = "stop" /\ cfg' = cfg
           \/ pc' = "idle"
  <2>1. CASE firewall' = Ensured(firewall, cfg, Chain, AllCommands) /\ pc' = "stop" /\ cfg' = cfg
    BY <2>1 DEF AllCommands
  <2>2. CASE firewall' \in PartlyEnsured(firewall, cfg) /\ pc' = "idle"
    BY <2>2, PartlyEnsuredIs
  <2> QED
    BY <2>1, <2>2 DEF ConfigureRules, Raise, Answer
<1>4. /\ firewall' \in Firewall
      /\ firewall.accept \subseteq firewall'.accept
      /\ Guarded => Guarded'
      /\ n >= AllCommands => cfg \in firewall'.accept /\ Guarded'
      /\ BlocksInForce'
  BY <1>1, <1>2, <1>3, SetupKeeps
<1>5. TypeOK' /\ AppliesSaved' /\ ProcessesFollow'
  BY <1>1, <1>2, <1>3, <1>4
     DEF IInv, TypeOK, AppliesSaved, ProcessesFollow, Applying, processes
<1>6. RulesFollow'
  BY <1>3, <1>4 DEF RulesFollow
<1>7. AcceptIsGuarded' /\ OneConfigServed' /\ SnapshotWasGood'
  BY <1>2, <1>4 DEF IInv, AcceptIsGuarded, Served, OneConfigServed, SnapshotWasGood, processes
<1> QED
  BY <1>4, <1>5, <1>6, <1>7 DEF IInv

(* Stopping and starting the two processes.                                *)
LEMMA ProcessStepKeeps ==
  ASSUME IInv, StopProcesses \/ StartDnsmasq \/ StartHostapd
  PROVE  IInv'
<1>1. /\ UNCHANGED <<firewall, blocks, config, lkg, good>>
      /\ cfg \in Config /\ config = cfg
      /\ pc' # "idle" => cfg' = cfg
  BY DEF IInv, TypeOK, AppliesSaved, Applying, StopProcesses, StartDnsmasq, StartHostapd,
         Raise, Answer, files, history
<1>2. BlocksInForce' /\ SnapshotWasGood' /\ (Guarded' <=> Guarded)
  BY <1>1 DEF IInv, Guarded, BlocksInForce, SnapshotWasGood, blocks
<1>3. /\ Started \in Process /\ Started.cfg = cfg
  BY <1>1 DEF Started, Process
<1>4. TypeOK' /\ AppliesSaved' /\ ProcessesFollow' /\ RulesFollow' /\ AcceptIsGuarded' /\ OneConfigServed'
  <2>1. CASE StopProcesses
    BY <2>1, <1>1, <1>2 DEF IInv, TypeOK, AppliesSaved, ProcessesFollow, RulesFollow,
                      AcceptIsGuarded, Served, OneConfigServed, Applying, StopProcesses, Stopped
  <2>2. CASE StartDnsmasq
    BY <2>2, <1>1, <1>2, <1>3 DEF IInv, TypeOK, AppliesSaved, ProcessesFollow, RulesFollow,
                      AcceptIsGuarded, Served, OneConfigServed, Applying, StartDnsmasq, Raise, Answer, files
  <2>3. CASE StartHostapd
    BY <2>3, <1>1, <1>2, <1>3 DEF IInv, TypeOK, AppliesSaved, ProcessesFollow, RulesFollow,
                      AcceptIsGuarded, Served, OneConfigServed, Applying, StartHostapd, Raise, Answer, files
  <2> QED
    BY <2>1, <2>2, <2>3
<1> QED
  BY <1>2, <1>4 DEF IInv

(* The end of an apply: the snapshot is the configuration just seen to run. *)
LEMMA CheckKeeps ==
  ASSUME IInv, CheckAndSnapshot
  PROVE  IInv'
<1>1. /\ UNCHANGED <<processes, firewall, blocks>>
      /\ pc' = "idle"
  BY DEF CheckAndSnapshot, Answer
<1>2. TypeOK' /\ AppliesSaved' /\ ProcessesFollow' /\ RulesFollow'
  BY <1>1 DEF IInv, TypeOK, AppliesSaved, ProcessesFollow, RulesFollow, Applying, processes
<1>3. AcceptIsGuarded' /\ OneConfigServed' /\ BlocksInForce'
  BY <1>1 DEF IInv, AcceptIsGuarded, Served, Guarded, OneConfigServed, BlocksInForce, processes, blocks
<1>4. SnapshotWasGood'
  BY DEF IInv, AppliesSaved, Applying, SnapshotWasGood, CheckAndSnapshot, Healthy, Answer
<1> QED
  BY <1>2, <1>3, <1>4 DEF IInv

(* Every teardown comes when nothing is served any more, so it does not    *)
(* matter which of its commands failed or whether it was interrupted.      *)
LEMMA TeardownKeeps ==
  ASSUME IInv, Abandon \/ Disable \/ CrashInTeardown \/ Reboot
  PROVE  IInv'
<1>1. /\ UNCHANGED <<config, lkg, good>>
      /\ \/ pc' \in {"idle", "down"}
         \/ pc' = "flush" /\ cfg' = cfg /\ cfg \in Config /\ config = cfg
      /\ hostapd' = None /\ dnsmasq' = None
  BY DEF IInv, TypeOK, AppliesSaved, Applying, ProcessesFollow, Abandon, Disable,
         CrashInTeardown, Reboot, Ended, Answer, files, processes
<1>2. firewall' \in Firewall /\ BlocksInForce'
  <2>1. CASE Reboot
    BY <2>1, NoRulesOK DEF Reboot, BlocksInForce
  <2>2. CASE Abandon \/ Disable \/ CrashInTeardown
    <3>1. PICK done :
            /\ firewall' = TornDown(firewall, done)
            /\ wiped' = IF Flushing + BLOCK \in done THEN wanted ELSE wiped
            /\ wanted' = wanted
      BY <2>2 DEF Abandon, Disable, CrashInTeardown, Teardown
    <3>2. firewall \in Firewall
      BY DEF IInv, TypeOK
    <3>3. /\ firewall' \in Firewall
          /\ Flushing + BLOCK \notin done => firewall'.drop = firewall.drop
      BY <3>1, <3>2, TornDownKeeps
    <3> QED
      BY <3>1, <3>3 DEF IInv, BlocksInForce
  <2> QED
    BY <2>1, <2>2
<1>3. TypeOK' /\ AppliesSaved' /\ ProcessesFollow' /\ RulesFollow'
  BY <1>1, <1>2 DEF TypeOK, AppliesSaved, ProcessesFollow, RulesFollow, Applying
<1>4. AcceptIsGuarded' /\ OneConfigServed' /\ SnapshotWasGood'
  BY <1>1 DEF IInv, AcceptIsGuarded, Served, OneConfigServed, SnapshotWasGood
<1> QED
  BY <1>2, <1>3, <1>4 DEF IInv

(* The end of disabling.                                                   *)
LEMMA FlushKeeps ==
  ASSUME IInv, FlushAddress
  PROVE  IInv'
<1>1. UNCHANGED <<processes, firewall, blocks, config, lkg, good>> /\ pc' = "idle"
  BY DEF FlushAddress, Raise, Answer, files
<1>2. TypeOK' /\ AppliesSaved' /\ ProcessesFollow' /\ RulesFollow'
  BY <1>1 DEF IInv, TypeOK, AppliesSaved, ProcessesFollow, RulesFollow, Applying, processes
<1>3. AcceptIsGuarded' /\ OneConfigServed' /\ BlocksInForce' /\ SnapshotWasGood'
  BY <1>1 DEF IInv, AcceptIsGuarded, Served, Guarded, OneConfigServed, BlocksInForce,
              SnapshotWasGood, processes, blocks
<1> QED
  BY <1>2, <1>3 DEF IInv

(* Blocks, which take no lock.                                             *)
LEMMA BlockKeeps ==
  ASSUME IInv, NEW d \in Device, BlockDevice(d) \/ UnblockDevice(d)
  PROVE  IInv'
<1>1. UNCHANGED <<pc, cfg, processes, files, good>>
  BY DEF BlockDevice, UnblockDevice
<1>2. /\ firewall' \in Firewall
      /\ firewall'.accept = firewall.accept /\ firewall'.forward = firewall.forward
  BY DEF IInv, TypeOK, Firewall, BlockDevice, UnblockDevice
<1>3. BlocksInForce'
  BY DEF IInv, TypeOK, Firewall, BlocksInForce, BlockDevice, UnblockDevice
<1>4. TypeOK' /\ AppliesSaved' /\ ProcessesFollow' /\ SnapshotWasGood'
  BY <1>1, <1>2 DEF IInv, TypeOK, AppliesSaved, ProcessesFollow, SnapshotWasGood, Applying,
                    processes, files
<1>5. RulesFollow' /\ AcceptIsGuarded' /\ OneConfigServed'
  BY <1>1, <1>2 DEF IInv, RulesFollow, AcceptIsGuarded, Served, Guarded, OneConfigServed, processes
<1> QED
  BY <1>3, <1>4, <1>5 DEF IInv

(* A process exits, the agent ends or is killed.                           *)
LEMMA FaultKeeps ==
  ASSUME IInv, ProcessExits \/ Shutdown \/ Crash \/ CrashInRules
  PROVE  IInv'
<1>1. CASE ProcessExits
  <2>1. /\ UNCHANGED <<pc, cfg, files, firewall, blocks, good>>
        /\ hostapd' \in Process \cup {None} /\ dnsmasq' \in Process \cup {None}
        /\ hostapd' = hostapd \/ (hostapd # None /\ hostapd'.cfg = hostapd.cfg)
        /\ dnsmasq' = dnsmasq \/ (dnsmasq # None /\ dnsmasq'.cfg = dnsmasq.cfg)
    BY <1>1 DEF ProcessExits, Running, IInv, TypeOK, Process, history
  <2>2. TypeOK' /\ AppliesSaved' /\ ProcessesFollow' /\ SnapshotWasGood' /\ BlocksInForce'
    BY <2>1 DEF IInv, TypeOK, AppliesSaved, ProcessesFollow, SnapshotWasGood, BlocksInForce,
                Applying, files, blocks
  <2>3. OneConfigServed'
    BY <2>1 DEF IInv, OneConfigServed
  <2>4. RulesFollow' /\ AcceptIsGuarded'
    BY <2>1 DEF IInv, RulesFollow, AcceptIsGuarded, Served, Guarded
  <2> QED
    BY <2>2, <2>3, <2>4 DEF IInv
<1>2. CASE Shutdown \/ Crash \/ CrashInRules
  <2>1. pc' = "down" /\ hostapd' = None /\ dnsmasq' = None
    BY <1>2 DEF Shutdown, Crash, CrashInRules, Ended
  <2>2. lkg' \in {lkg, Broken} /\ UNCHANGED <<blocks, good>>
    BY <1>2 DEF Shutdown, Crash, CrashInRules, files, history
  <2>3. firewall' \in Firewall /\ BlocksInForce'
    <3>1. CASE UNCHANGED firewall
      BY <3>1, <2>2 DEF IInv, TypeOK, BlocksInForce, blocks
    <3>2. CASE CrashInRules
      <4>1. PICK made \in SUBSET Chain, n \in Nat : firewall' = Ensured(firewall, cfg, made, n)
        BY <3>2, PartlyEnsuredIs DEF CrashInRules
      <4> QED
        BY <3>2, <4>1, <2>2, SetupKeeps DEF CrashInRules
    <3> QED
      BY <1>2, <3>1, <3>2 DEF Shutdown, Crash
  <2>4. TypeOK' /\ AppliesSaved' /\ ProcessesFollow' /\ RulesFollow' /\ AcceptIsGuarded' /\ OneConfigServed'
    BY <2>1, <2>3 DEF TypeOK, AppliesSaved, ProcessesFollow, RulesFollow, AcceptIsGuarded,
                      Served, OneConfigServed, Applying
  <2>5. SnapshotWasGood'
    BY <2>2, GatewayAssumption DEF IInv, SnapshotWasGood, Config
  <2> QED
    BY <2>3, <2>4, <2>5 DEF IInv
<1> QED
  BY <1>1, <1>2

(* Every step. *)
LEMMA NextKeeps == IInv /\ [Next]_vars => IInv'
<1> SUFFICES ASSUME IInv, [Next]_vars PROVE IInv'
  OBVIOUS
<1>1. CASE UNCHANGED vars
  BY <1>1 DEF IInv, TypeOK, AppliesSaved, ProcessesFollow, RulesFollow, AcceptIsGuarded,
              Served, Guarded, OneConfigServed, BlocksInForce, SnapshotWasGood, Applying,
              vars, processes, files, history, blocks
<1>2. CASE Next
  BY <1>2, RequestKeeps, ConfigureRulesKeeps, ProcessStepKeeps, CheckKeeps, TeardownKeeps,
     FlushKeeps, BlockKeeps, FaultKeeps DEF Next
<1> QED
  BY <1>1, <1>2

(* The invariant holds throughout. *)
LEMMA InvariantHolds == Spec => []IInv
BY InitHolds, NextKeeps, PTL DEF Spec

-----------------------------------------------------------------------------
(* The results.                                                            *)

(* A rollback or restart goes back to a configuration that was seen        *)
(* running, however applies failed and whenever the agent was killed       *)
(* (_apply_locked, _rollback_locked, restore_from_disk).                   *)
THEOREM SnapshotsAreGood == Spec => []SnapshotWasGood
<1>1. IInv => SnapshotWasGood
  BY DEF IInv
<1> QED
  BY <1>1, InvariantHolds, PTL

(* As long as an access point is served its traffic meets the block chain  *)
(* first, whichever commands of earlier setups and teardowns failed and    *)
(* wherever the agent was killed in them (ensure_jump_rules, teardown,     *)
(* _apply_locked).                                                         *)
THEOREM AcceptStaysGuarded == Spec => []AcceptIsGuarded
<1>1. IInv => AcceptIsGuarded
  BY DEF IInv
<1> QED
  BY <1>1, InvariantHolds, PTL

(* hostapd and dnsmasq never serve different configurations, nor one whose *)
(* rules are missing (_apply_locked, _rollback_locked).                    *)
THEOREM OneConfigIsServed == Spec => []OneConfigServed
<1>1. IInv => OneConfigServed
  BY DEF IInv
<1> QED
  BY <1>1, InvariantHolds, PTL

(* Applies, rollbacks, restores, failures and crashes keep every block,    *)
(* and an access point is served only when it is in force; only flushing   *)
(* the block chain or a reboot loses it (block_device, ensure_chains,      *)
(* teardown).                                                              *)
THEOREM BlocksAreKept == Spec => []BlockKept
<1>1. IInv => BlockKept
  BY DEF IInv, BlocksInForce, AcceptIsGuarded, BlockKept
<1> QED
  BY <1>1, InvariantHolds, PTL

=============================================================================
