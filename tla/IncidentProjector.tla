------------------------- MODULE IncidentProjector -------------------------
(***************************************************************************)
(* The incident projector (projector.py, db.py): it reads transitions from *)
(* traffic.detections.v2 and applies each in one PostgreSQL transaction,   *)
(* then commits the Kafka offset.                                          *)
(*                                                                         *)
(* Abstractions.                                                           *)
(*  - A transition is its incident and revision; its payload goes with it. *)
(*    Health events are left out: they touch no table of this module.      *)
(*  - The topic holds any transitions in any order, as often as a job that *)
(*    restarts writes them again: the reader is read_uncommitted.          *)
(*  - One partition and one projector (replicas: 1, Recreate).             *)
(*  - PostgreSQL and Kafka are external.  A transaction that fails leaves  *)
(*    nothing but a gap in the BIGSERIAL cursor.                           *)
(***************************************************************************)
EXTENDS Integers, Sequences, FiniteSets, FiniteSetsExt

CONSTANTS
  Incident,      \* incident IDs
  MaxRevision,   \* bound: revisions of an incident
  MaxLog,        \* bound: messages in the topic
  MaxFaults      \* bound: crashes and lost connections in a behaviour

ASSUME ProjectorAssumption ==
  /\ IsFiniteSet(Incident)
  /\ MaxRevision \in Nat
  /\ MaxLog \in Nat
  /\ MaxFaults \in Nat

VARIABLES
  log,          \* traffic.detections.v2
  committed,    \* the consumer group's offset in it
  position,     \* the message the projector handles next
  applied,      \* its transaction is committed, the offset not yet
  (* PostgreSQL *)
  transitions,  \* incident_transitions
  incidents,    \* incidents: incident -> revision, 0 if there is none
  feed,         \* incident_feed: rows [cursor, incident, revision]
  nextCursor,   \* the sequence of incident_feed.cursor
  (* history, read by properties only *)
  fed,          \* every row ever written to the feed
  faults

kafka == <<log, committed>>
database == <<transitions, incidents, feed, nextCursor, fed>>
projectorVars == <<kafka, position, applied, database, faults>>

Revision == 1..MaxRevision
Transition == [incident : Incident, revision : Revision]
Malformed == [incident |-> "", revision |-> 0]
Row(c, t) == [cursor |-> c, incident |-> t.incident, revision |-> t.revision]

(* A message is written to the topic (external). *)
Produce(t) ==
  /\ Len(log) < MaxLog
  /\ log' = Append(log, t)
  /\ UNCHANGED <<committed, position, applied, database, faults>>

-----------------------------------------------------------------------------
(* db.apply_transition.                                                    *)

\* Mutant: a redelivered transition is not recognised.
NeverKnown(t) == FALSE

(* INSERT ... ON CONFLICT (transition_id) DO NOTHING finds a row. *)
Known(t) == t \in transitions

\* Mutant: whatever comes last is the incident's state.
UpsertAlways(t) == [incidents EXCEPT ![t.incident] = t.revision]

(* The upsert of incidents, guarded by the revision. *)
Upsert(t) ==
  [incidents EXCEPT ![t.incident] = IF @ < t.revision THEN t.revision ELSE @]

(* The default of incident_feed.cursor. *)
FeedCursor == nextCursor

(* The transaction.  Known transitions change nothing, and malformed ones  *)
(* are skipped before it.                                                  *)
ApplyTransition(t) ==
  \/ /\ t = Malformed \/ Known(t)
     /\ UNCHANGED database
  \/ /\ t # Malformed /\ ~Known(t)
     /\ transitions' = transitions \cup {t}
     /\ incidents' = Upsert(t)
     /\ feed' = feed \cup {Row(FeedCursor, t)}
     /\ fed' = fed \cup {Row(FeedCursor, t)}
     /\ nextCursor' = nextCursor + 1

-----------------------------------------------------------------------------
(* Projector.                                                              *)

Waiting == ~applied /\ position < Len(log)

(* Projector.apply, the transaction succeeds. *)
Apply ==
  /\ Waiting
  /\ ApplyTransition(log[position + 1])
  /\ applied' = TRUE
  /\ UNCHANGED <<kafka, position, faults>>

(* _with_retry: the connection is lost after the commit; the same message  *)
(* is tried again.                                                         *)
ApplyUnheard ==
  /\ Waiting /\ log[position + 1] # Malformed
  /\ faults < MaxFaults /\ faults' = faults + 1
  /\ ApplyTransition(log[position + 1])
  /\ UNCHANGED <<kafka, position, applied>>

(* _with_retry: the transaction fails after it took a cursor. *)
ApplyRolledBack ==
  /\ Waiting /\ log[position + 1] # Malformed /\ ~Known(log[position + 1])
  /\ faults < MaxFaults /\ faults' = faults + 1
  /\ nextCursor' = nextCursor + 1
  /\ UNCHANGED <<kafka, position, applied, transitions, incidents, feed, fed>>

\* Mutant: the offset is committed before the database.
MayCommitEarly == position < Len(log)

MayCommit == applied

(* Projector.handle, the offset commit. *)
CommitOffset ==
  /\ MayCommit
  /\ committed' = position + 1
  /\ position' = position + 1
  /\ applied' = FALSE
  /\ UNCHANGED <<log, database, faults>>

(* Where the consumer group goes on. *)
ResumeAt == committed

(* The projector dies, or an error ends it, and it is started again. *)
Restart ==
  /\ faults < MaxFaults /\ faults' = faults + 1
  /\ position' = ResumeAt
  /\ applied' = FALSE
  /\ UNCHANGED <<kafka, database>>

(* db.prune_feed, between two messages: rows up to cursor k are too old.   *)
(* One writer: committed_at grows with the cursor.                         *)
PruneFeed(k) ==
  /\ ~applied
  /\ k \in {r.cursor : r \in feed}
  /\ feed' = {r \in feed : r.cursor > k}
  /\ UNCHANGED <<kafka, position, applied, transitions, incidents, nextCursor, fed, faults>>

ProjectorInit ==
  /\ log = <<>>
  /\ committed = 0
  /\ position = 0
  /\ applied = FALSE
  /\ transitions = {}
  /\ incidents = [i \in Incident |-> 0]
  /\ feed = {}
  /\ nextCursor = 1
  /\ fed = {}
  /\ faults = 0

ProjectorNext ==
  \/ \E t \in Transition \cup {Malformed} : Produce(t)
  \/ Apply
  \/ ApplyUnheard
  \/ ApplyRolledBack
  \/ CommitOffset
  \/ Restart
  \/ \E k \in 1..(MaxLog + MaxFaults) : PruneFeed(k)

ProjectorSpec == ProjectorInit /\ [][ProjectorNext]_projectorVars

-----------------------------------------------------------------------------
(* Properties.                                                             *)

(* Types; the consumer is never behind its committed offset, and feed rows *)
(* are rows that were once fed (Projector.handle, prune_feed).             *)
ProjectorTypeOK ==
  /\ log \in Seq(Transition \cup {Malformed})
  /\ committed \in 0..Len(log) /\ position \in committed..Len(log)
  /\ applied \in BOOLEAN
  /\ transitions \subseteq Transition
  /\ incidents \in [Incident -> 0..MaxRevision]
  /\ nextCursor \in Nat \ {0}
  /\ feed \subseteq fed
  /\ fed \subseteq [cursor : Nat \ {0}, incident : Incident, revision : Revision]
  /\ faults \in Nat

(* No message is lost: every transition the group has committed past is in *)
(* the database, whatever died between the two commits (handle).           *)
NothingSkipped ==
  \A n \in 1..committed : log[n] # Malformed => log[n] \in transitions

(* A transition reaches the feed once, under one cursor, however often it  *)
(* was written, redelivered or retried (apply_transition).                 *)
FedOnce ==
  \A r, s \in fed :
    \/ r = s
    \/ r.cursor # s.cursor /\ (r.incident # s.incident \/ r.revision # s.revision)

(* An incident shows its newest revision, whatever order they came in, and *)
(* the feed misses none of those applied (apply_transition).               *)
NewestShown ==
  /\ \A i \in Incident :
       incidents[i] = Max({0} \cup {t.revision : t \in {u \in transitions : u.incident = i}})
  /\ transitions = {[incident |-> r.incident, revision |-> r.revision] : r \in fed}

=============================================================================
