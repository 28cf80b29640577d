---------------------------- MODULE EventOutbox ----------------------------
(***************************************************************************)
(* What the sensor's delivery path promises, with nothing said of files,   *)
(* segments, cursors or the Kafka client: events get fresh sequence        *)
(* numbers, each stays pending until the broker has it or it is dropped,   *)
(* and a restart may make delivered events pending again (at-least-once).  *)
(***************************************************************************)
CONSTANT Event        \* sequence numbers (the unique part of an event ID)

VARIABLES
  issued,             \* events that were given a number and stored
  pending,            \* events the sensor still has to hand to the broker
  delivered,          \* events in the topic
  dropped             \* events given up because the store was full

outboxVars == <<issued, pending, delivered, dropped>>

Init ==
  /\ issued = {}
  /\ pending = {}
  /\ delivered = {}
  /\ dropped = {}

(* An event is stored under a number no event ever had; making room for it *)
(* may give up pending ones.                                               *)
Accept(e, over) ==
  /\ e \notin issued
  /\ issued' = issued \cup {e}
  /\ over \subseteq pending
  /\ pending' = (pending \ over) \cup {e}
  /\ dropped' = dropped \cup over
  /\ UNCHANGED delivered

(* The broker appends an event that was stored.                            *)
Deliver(got) ==
  /\ got \subseteq issued
  /\ delivered' = delivered \cup got
  /\ UNCHANGED <<issued, pending, dropped>>

(* Only a delivered event may be forgotten.                                *)
Retire(done) ==
  /\ done \subseteq delivered
  /\ pending' = pending \ done
  /\ UNCHANGED <<issued, delivered, dropped>>

(* The process dies: what it had sent may reach the broker, what it had    *)
(* forgotten only in memory is pending again, and a cut it was making may  *)
(* already have hit the store.                                             *)
Interrupt(got, again, over) ==
  /\ got \subseteq issued
  /\ again \subseteq delivered
  /\ over \subseteq pending
  /\ delivered' = delivered \cup got
  /\ pending' = (pending \ over) \cup again
  /\ dropped' = dropped \cup over
  /\ UNCHANGED issued

Next ==
  \/ \E e \in Event, over \in SUBSET Event : Accept(e, over)
  \/ \E got \in SUBSET Event : Deliver(got)
  \/ \E done \in SUBSET Event : Retire(done)
  \/ \E got, again, over \in SUBSET Event : Interrupt(got, again, over)

Spec == Init /\ [][Next]_outboxVars
=============================================================================
