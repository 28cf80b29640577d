------------------------- MODULE IncidentFeedProofs -------------------------
(***************************************************************************)
(* Proofs about the incident projector and the live feed: for every set of *)
(* incidents, every batch size and every number of messages, faults and    *)
(* disconnects.                                                            *)
(***************************************************************************)
EXTENDS IncidentFeed, TLAPS, FiniteSetTheorems, WellFoundedInduction

-----------------------------------------------------------------------------
(* The projector's inductive invariant.                                    *)

(* What the projector has applied is stored: the messages before its       *)
(* position, and the one at it while the offset is not committed.          *)
HandledIsStored ==
  /\ \A n \in 1..position : log[n] # Malformed => log[n] \in transitions
  /\ applied => /\ position < Len(log)
                /\ log[position + 1] # Malformed => log[position + 1] \in transitions

(* The sequence is ahead of every row, and there are finitely many. *)
CursorsAhead == IsFiniteSet(fed) /\ \A r \in fed : r.cursor < nextCursor

ProjectorIInv ==
  /\ ProjectorTypeOK
  /\ HandledIsStored
  /\ CursorsAhead
  /\ FedOnce
  /\ NewestShown

-----------------------------------------------------------------------------
(* The feed's inductive invariant, when some row always stays and no       *)
(* pruning falls between the two reads of Store.changes.                   *)

(* A view shows every change up to a cursor; a cursor is too old. *)
Covers(view, c) == \A r \in fed : r.cursor <= c => view[r.incident] >= r.revision
Stale(c) == feed # {} /\ \A r \in feed : c + 1 < r.cursor

(* Pruning takes rows from the lower end, and never the last one. *)
PrunedBelow ==
  /\ \A r \in fed \ feed, s \in feed : r.cursor < s.cursor
  /\ fed # {} => feed # {}

MessageType == {"snapshot", "reset", "change", "live", "ping"}
Messages == [type : MessageType, cursor : Nat, content : [Incident -> 0..MaxRevision]]

(* The page's cursor when it gets to message k of a channel, and whether it *)
(* covers that cursor then: not behind a reset.                            *)
CursorAt(q, k) == IF k = 1 THEN cursor ELSE q[k - 1].cursor
LiveAt(q, k) == IF k = 1 THEN Covers(shown, cursor) ELSE q[k - 1].type # "reset"

(* m may follow for a page at cursor c: a snapshot covers its own cursor,  *)
(* a reset finds a cursor that is too old, a change is the only one        *)
(* between the cursor before it and its own.                               *)
Follows(m, c, live) ==
  /\ m.cursor < nextCursor
  /\ \A i \in Incident : m.content[i] <= incidents[i]
  /\ m.type = "snapshot" => Covers(m.content, m.cursor)
  /\ m.type = "reset" => m.cursor = c /\ Stale(c)
  /\ m.type = "change" =>
       /\ live
       /\ \E r \in fed :
            /\ r.cursor = m.cursor
            /\ m.content[r.incident] >= r.revision
            /\ \A s \in fed : c < s.cursor /\ s.cursor <= m.cursor => s = r
  /\ m.type \in {"live", "ping"} => m.cursor = c /\ live

Chain(q) == \A k \in 1..Len(q) : Follows(q[k], CursorAt(q, k), LiveAt(q, k))

(* The messages on the way follow one another. *)
ChannelInOrder == channel \in Seq(Messages) /\ Chain(channel)

(* What the handler sent last is what the page will have seen. *)
HandlerInStep ==
  /\ stage = "closed" => channel = <<>>
  /\ last < nextCursor
  /\ stage \in {"oldest", "rows", "idle"} => CursorAt(channel, Len(channel) + 1) = last
  /\ stage \in {"rows", "idle"} => LiveAt(channel, Len(channel) + 1)
  /\ stage = "oldest" => LiveAt(channel, Len(channel) + 1) \/ Stale(last)
  /\ stage = "rows" => \A r \in fed : r.cursor > last => r \in feed
  /\ stage = "idle" /\ ~notified => \A r \in fed : r.cursor <= last

(* The page shows nothing that is not so, and covers its cursor unless it  *)
(* is too old.                                                             *)
PageInStep ==
  /\ cursor < nextCursor
  /\ \A i \in Incident : shown[i] <= incidents[i]
  /\ Covers(shown, cursor) \/ Stale(cursor)

FeedIInv ==
  /\ TypeOK
  /\ ProjectorIInv
  /\ PrunedBelow
  /\ ChannelInOrder
  /\ HandlerInStep
  /\ PageInStep

-----------------------------------------------------------------------------
(* Extrema.                                                                *)

(* The greatest element of a set is what Max picks. *)
LEMMA MaxIs ==
  ASSUME NEW S \in SUBSET Int, NEW m \in S, \A y \in S : y <= m
  PROVE  Max(S) = m
<1>1. Max(S) \in S /\ \A y \in S : Max(S) >= y
  BY DEF Max
<1>2. Max(S) >= m /\ Max(S) <= m /\ Max(S) \in Int
  BY <1>1
<1> QED
  BY <1>2

(* A nonempty set of naturals has a least element, which Min picks. *)
LEMMA MinOfNat ==
  ASSUME NEW S \in SUBSET Nat, S # {}
  PROVE  Min(S) \in S /\ \A y \in S : Min(S) <= y
<1>1. PICK x \in S : \A y \in S : ~(<<y, x>> \in OpToRel(<, Nat))
  BY NatLessThanWellFounded, WFMin, Zenon
<1>2. \A y \in S : ~(y < x)
  BY <1>1, Zenon DEF OpToRel
<1>3. \A y \in S : x <= y
  BY <1>2
<1> QED
  BY <1>3 DEF Min

(* A nonempty finite set of integers has a greatest element, which Max     *)
(* picks, when a bound of it is known.                                     *)
LEMMA MaxOfBounded ==
  ASSUME NEW n \in Int, NEW S \in SUBSET Int, S # {}, \A y \in S : y <= n
  PROVE  Max(S) \in S /\ \A y \in S : y <= Max(S)
<1> DEFINE T == {n - y : y \in S}
<1>1. T \in SUBSET Nat /\ T # {}
  <2>1. \A y \in S : n - y \in Nat
    OBVIOUS
  <2>2. PICK y \in S : TRUE
    OBVIOUS
  <2>3. n - y \in T
    OBVIOUS
  <2> QED
    BY <2>1, <2>3
<1>2. Min(T) \in T /\ \A t \in T : Min(T) <= t
  BY <1>1, MinOfNat
<1>3. PICK x \in S : Min(T) = n - x
  BY <1>2
<1>4. \A y \in S : y <= x
  BY <1>2, <1>3
<1> QED
  BY <1>4, MaxIs

-----------------------------------------------------------------------------
(* The projector.                                                          *)

(* A malformed message is no transition. *)
LEMMA MalformedIsNone == Malformed \notin Transition
BY DEF Malformed, Transition, Revision

LEMMA ProjectorStarts == ProjectorInit => ProjectorIInv
<1> SUFFICES ASSUME ProjectorInit PROVE ProjectorIInv
  OBVIOUS
<1> USE DEF ProjectorInit
<1>1. ProjectorTypeOK
  <2>1. log \in Seq(Transition \cup {Malformed}) /\ Len(log) = 0
    OBVIOUS
  <2>2. incidents \in [Incident -> 0..MaxRevision]
    BY ProjectorAssumption
  <2>3. applied \in BOOLEAN
    OBVIOUS
  <2>4. committed \in 0..Len(log) /\ position \in committed..Len(log)
    BY <2>1
  <2> QED
    BY <2>1, <2>2, <2>3, <2>4 DEF ProjectorTypeOK
<1>2. HandledIsStored
  BY DEF HandledIsStored
<1>3. CursorsAhead
  BY FS_EmptySet DEF CursorsAhead
<1>4. FedOnce
  BY DEF FedOnce
<1>5. NewestShown
  <2>1. Max({0}) = 0
    BY MaxIs
  <2>2. \A i \in Incident : {t.revision : t \in {u \in transitions : u.incident = i}} = {}
    OBVIOUS
  <2> QED
    BY <2>1, <2>2 DEF NewestShown
<1> QED
  BY <1>1, <1>2, <1>3, <1>4, <1>5 DEF ProjectorIInv

(* The revision an upsert leaves is the greatest of those stored. *)
LEMMA UpsertIsNewest ==
  ASSUME ProjectorIInv, NEW t \in Transition
  PROVE  \A i \in Incident :
           Upsert(t)[i] = Max({0} \cup {u.revision : u \in {v \in transitions \cup {t} : v.incident = i}})
<1> SUFFICES ASSUME NEW i \in Incident
             PROVE  Upsert(t)[i] = Max({0} \cup {u.revision : u \in {v \in transitions \cup {t} : v.incident = i}})
  OBVIOUS
<1> DEFINE Old == {0} \cup {u.revision : u \in {v \in transitions : v.incident = i}}
           New == {0} \cup {u.revision : u \in {v \in transitions \cup {t} : v.incident = i}}
<1>1. transitions \subseteq Transition /\ incidents \in [Incident -> 0..MaxRevision]
  BY DEF ProjectorIInv, ProjectorTypeOK
<1>2. \A u \in Transition : u.revision \in 1..MaxRevision /\ u.incident \in Incident
  BY DEF Transition, Revision
<1>3. Old \subseteq 0..MaxRevision /\ New \subseteq 0..MaxRevision
  BY <1>1, <1>2, ProjectorAssumption
<1>4. incidents[i] = Max(Old)
  BY DEF ProjectorIInv, NewestShown
<1>5. Max(Old) \in Old /\ \A y \in Old : y <= Max(Old)
  <2>1. 0 \in Old /\ Old \in SUBSET Int /\ MaxRevision \in Int /\ \A y \in Old : y <= MaxRevision
    BY <1>3, ProjectorAssumption
  <2> QED
    BY <2>1, MaxOfBounded
<1>6. CASE t.incident = i
  <2>1. New = Old \cup {t.revision}
    BY <1>6
  <2>2. Upsert(t)[i] = IF incidents[i] < t.revision THEN t.revision ELSE incidents[i]
    BY <1>1, <1>6 DEF Upsert
  <2>3. t.revision \in Nat /\ incidents[i] \in Nat /\ Old \subseteq Int /\ New \in SUBSET Int
    BY <1>1, <1>2, <1>3
  <2> HIDE DEF Old, New
  <2>4. Upsert(t)[i] \in New /\ \A y \in New : y <= Upsert(t)[i]
    BY <2>1, <2>2, <2>3, <1>4, <1>5
  <2>5. Upsert(t)[i] = Max(New)
    BY <2>3, <2>4, MaxIs
  <2> QED
    BY <2>5 DEF New
<1>7. CASE t.incident # i
  <2>1. New = Old
    BY <1>7
  <2>2. Upsert(t)[i] = incidents[i]
    BY <1>1, <1>2, <1>7 DEF Upsert
  <2> QED
    BY <2>1, <2>2, <1>4
<1> QED
  BY <1>6, <1>7

(* What a transaction leaves: the invariants of the tables, and the        *)
(* transition it was about.                                                *)
LEMMA ApplyKeepsTables ==
  ASSUME ProjectorIInv, NEW t \in Transition \cup {Malformed}, ApplyTransition(t)
  PROVE  /\ transitions' \subseteq Transition
         /\ incidents' \in [Incident -> 0..MaxRevision]
         /\ nextCursor' \in Nat \ {0}
         /\ feed' \subseteq fed'
         /\ fed' \subseteq [cursor : Nat \ {0}, incident : Incident, revision : Revision]
         /\ transitions \subseteq transitions'
         /\ t # Malformed => t \in transitions'
         /\ CursorsAhead'
         /\ FedOnce'
         /\ NewestShown'
<1>1. CASE (t = Malformed \/ Known(t)) /\ UNCHANGED database
  BY <1>1 DEF ProjectorIInv, ProjectorTypeOK, database, CursorsAhead, FedOnce, NewestShown, Known
<1>2. CASE /\ t # Malformed /\ ~Known(t)
           /\ transitions' = transitions \cup {t}
           /\ incidents' = Upsert(t)
           /\ feed' = feed \cup {Row(FeedCursor, t)}
           /\ fed' = fed \cup {Row(FeedCursor, t)}
           /\ nextCursor' = nextCursor + 1
  <2> DEFINE new == Row(FeedCursor, t)
  <2>1. t \in Transition
    BY <1>2
  <2>2. /\ transitions \subseteq Transition
        /\ incidents \in [Incident -> 0..MaxRevision]
        /\ nextCursor \in Nat \ {0}
        /\ feed \subseteq fed
        /\ fed \subseteq [cursor : Nat \ {0}, incident : Incident, revision : Revision]
    BY DEF ProjectorIInv, ProjectorTypeOK
  <2>3. new \in [cursor : Nat \ {0}, incident : Incident, revision : Revision]
    BY <2>1, <2>2 DEF Row, FeedCursor, Transition
  <2>4. new.cursor = nextCursor /\ new.incident = t.incident /\ new.revision = t.revision
    BY DEF Row, FeedCursor
  <2>5. t = [incident |-> t.incident, revision |-> t.revision]
    BY <2>1 DEF Transition
  <2>6. incidents' \in [Incident -> 0..MaxRevision]
    BY <1>2, <2>1, <2>2 DEF Upsert, Transition, Revision
  <2>7. CursorsAhead'
    <3>1. IsFiniteSet(fed')
      BY <1>2, FS_AddElement DEF ProjectorIInv, CursorsAhead
    <3> HIDE DEF new
    <3>2. \A r \in fed' : r.cursor < nextCursor'
      BY <1>2, <2>2, <2>4 DEF ProjectorIInv, CursorsAhead, new
    <3> QED
      BY <3>1, <3>2 DEF CursorsAhead
  <2>8. transitions = {[incident |-> r.incident, revision |-> r.revision] : r \in fed}
    BY DEF ProjectorIInv, NewestShown
  <2>9. FedOnce'
    <3>1. \A r \in fed : r.cursor # new.cursor
      BY <2>2, <2>4 DEF ProjectorIInv, CursorsAhead
    <3>2. \A r \in fed : r.incident # new.incident \/ r.revision # new.revision
      BY <1>2, <2>4, <2>5, <2>8 DEF Known
    <3> HIDE DEF new
    <3> QED
      BY <1>2, <3>1, <3>2 DEF ProjectorIInv, FedOnce, new
  <2>10. NewestShown'
    <3>1. \A i \in Incident :
            incidents'[i] = Max({0} \cup {u.revision : u \in {v \in transitions' : v.incident = i}})
      BY <1>2, <2>1, UpsertIsNewest
    <3>2. transitions' = {[incident |-> r.incident, revision |-> r.revision] : r \in fed'}
      BY <1>2, <2>4, <2>5, <2>8
    <3> QED
      BY <3>1, <3>2 DEF NewestShown
  <2> QED
    BY <1>2, <2>1, <2>2, <2>3, <2>6, <2>7, <2>9, <2>10
<1> QED
  BY <1>1, <1>2 DEF ApplyTransition

(* A transaction and the bookkeeping around it: the log and the offset     *)
(* stay, and applied says no more than that the message is stored.         *)
LEMMA ApplyKeeps ==
  ASSUME ProjectorIInv, Waiting, ApplyTransition(log[position + 1]),
         UNCHANGED <<kafka, position>>, applied' \in BOOLEAN, faults' \in Nat
  PROVE  ProjectorIInv'
<1> DEFINE t == log[position + 1]
<1>1. ProjectorTypeOK /\ HandledIsStored
  BY DEF ProjectorIInv
<1>2. /\ log \in Seq(Transition \cup {Malformed}) /\ log' = log
      /\ committed \in 0..Len(log) /\ committed' = committed
      /\ position \in committed..Len(log) /\ position' = position
      /\ position < Len(log) /\ position \in Nat
  BY <1>1 DEF ProjectorTypeOK, Waiting, kafka
<1>3. t \in Transition \cup {Malformed}
  BY <1>2
<1> HIDE DEF t
<1>4. ApplyTransition(t)
  BY DEF t
<1>5. /\ transitions' \subseteq Transition
      /\ incidents' \in [Incident -> 0..MaxRevision]
      /\ nextCursor' \in Nat \ {0}
      /\ feed' \subseteq fed'
      /\ fed' \subseteq [cursor : Nat \ {0}, incident : Incident, revision : Revision]
      /\ transitions \subseteq transitions'
      /\ t # Malformed => t \in transitions'
      /\ CursorsAhead'
      /\ FedOnce'
      /\ NewestShown'
  BY <1>3, <1>4, ApplyKeepsTables
<1>6. ProjectorTypeOK'
  BY <1>2, <1>5 DEF ProjectorTypeOK
<1>7. HandledIsStored'
  BY <1>1, <1>2, <1>5 DEF HandledIsStored, t
<1> QED
  BY <1>5, <1>6, <1>7 DEF ProjectorIInv

(* Every step of the projector keeps its invariant. *)
LEMMA ProjectorStep ==
  ASSUME ProjectorIInv, [ProjectorNext]_projectorVars
  PROVE  ProjectorIInv'
<1>1. /\ log \in Seq(Transition \cup {Malformed})
      /\ committed \in 0..Len(log) /\ position \in committed..Len(log)
      /\ committed \in Nat /\ position \in Nat /\ Len(log) \in Nat
      /\ applied \in BOOLEAN
      /\ transitions \subseteq Transition
      /\ incidents \in [Incident -> 0..MaxRevision]
      /\ nextCursor \in Nat \ {0}
      /\ feed \subseteq fed
      /\ fed \subseteq [cursor : Nat \ {0}, incident : Incident, revision : Revision]
      /\ faults \in Nat
  BY DEF ProjectorIInv, ProjectorTypeOK
<1>2. HandledIsStored /\ CursorsAhead /\ FedOnce /\ NewestShown
  BY DEF ProjectorIInv
<1>3. ASSUME NEW t \in Transition \cup {Malformed}, Produce(t)
      PROVE  ProjectorIInv'
  <2>1. /\ log' = Append(log, t)
        /\ log' \in Seq(Transition \cup {Malformed})
        /\ Len(log') = Len(log) + 1
        /\ \A n \in 1..Len(log) : log'[n] = log[n]
    BY <1>1, <1>3 DEF Produce
  <2>2. UNCHANGED <<committed, position, applied, transitions, incidents, feed, nextCursor, fed, faults>>
    BY <1>3 DEF Produce, database
  <2>3. ProjectorTypeOK'
    BY <1>1, <2>1, <2>2 DEF ProjectorTypeOK
  <2>4. HandledIsStored'
    BY <1>1, <1>2, <2>1, <2>2 DEF HandledIsStored
  <2>5. CursorsAhead' /\ FedOnce' /\ NewestShown'
    BY <1>2, <2>2 DEF CursorsAhead, FedOnce, NewestShown
  <2> QED
    BY <2>3, <2>4, <2>5 DEF ProjectorIInv
<1>4. CASE Apply
  BY <1>1, <1>4, ApplyKeeps DEF Apply
<1>5. CASE ApplyUnheard
  BY <1>1, <1>5, ApplyKeeps DEF ApplyUnheard
<1>6. CASE ApplyRolledBack
  <2>1. /\ UNCHANGED <<log, committed, position, applied, transitions, incidents, feed, fed>>
        /\ nextCursor' = nextCursor + 1 /\ faults' = faults + 1
    BY <1>6 DEF ApplyRolledBack, kafka
  <2>2. ProjectorTypeOK'
    BY <1>1, <2>1 DEF ProjectorTypeOK
  <2>3. CursorsAhead'
    BY <1>1, <1>2, <2>1 DEF CursorsAhead
  <2>4. HandledIsStored' /\ FedOnce' /\ NewestShown'
    BY <1>2, <2>1 DEF HandledIsStored, FedOnce, NewestShown
  <2> QED
    BY <2>2, <2>3, <2>4 DEF ProjectorIInv
<1>7. CASE CommitOffset
  <2>1. /\ UNCHANGED <<log, transitions, incidents, feed, nextCursor, fed, faults>>
        /\ applied /\ committed' = position + 1 /\ position' = position + 1 /\ applied' = FALSE
    BY <1>7 DEF CommitOffset, MayCommit, database
  <2>2. position < Len(log)
    BY <1>2, <2>1 DEF HandledIsStored
  <2>3. ProjectorTypeOK'
    <3>1. applied' \in BOOLEAN
      BY <2>1
    <3>2. committed' \in 0..Len(log) /\ position' \in committed'..Len(log)
      BY <1>1, <2>1, <2>2
    <3> QED
      BY <1>1, <2>1, <3>1, <3>2 DEF ProjectorTypeOK
  <2>4. HandledIsStored'
    BY <1>1, <1>2, <2>1, <2>2 DEF HandledIsStored
  <2>5. CursorsAhead' /\ FedOnce' /\ NewestShown'
    BY <1>2, <2>1 DEF CursorsAhead, FedOnce, NewestShown
  <2> QED
    BY <2>3, <2>4, <2>5 DEF ProjectorIInv
<1>8. CASE Restart
  <2>1. /\ UNCHANGED <<log, committed, transitions, incidents, feed, nextCursor, fed>>
        /\ position' = committed /\ applied' = FALSE /\ faults' = faults + 1
    BY <1>8 DEF Restart, ResumeAt, kafka, database
  <2>2. ProjectorTypeOK'
    <3>1. applied' \in BOOLEAN
      BY <2>1
    <3>2. position' \in committed..Len(log)
      BY <1>1, <2>1
    <3> QED
      BY <1>1, <2>1, <3>1, <3>2 DEF ProjectorTypeOK
  <2>3. HandledIsStored'
    BY <1>1, <1>2, <2>1 DEF HandledIsStored
  <2>4. CursorsAhead' /\ FedOnce' /\ NewestShown'
    BY <1>2, <2>1 DEF CursorsAhead, FedOnce, NewestShown
  <2> QED
    BY <2>2, <2>3, <2>4 DEF ProjectorIInv
<1>9. ASSUME NEW k \in 1..(MaxLog + MaxFaults), PruneFeed(k)
      PROVE  ProjectorIInv'
  <2>1. /\ UNCHANGED <<log, committed, position, applied, transitions, incidents, nextCursor, fed, faults>>
        /\ feed' \subseteq feed
    BY <1>9 DEF PruneFeed, kafka
  <2>2. ProjectorTypeOK'
    BY <1>1, <2>1 DEF ProjectorTypeOK
  <2>3. HandledIsStored' /\ CursorsAhead' /\ FedOnce' /\ NewestShown'
    BY <1>2, <2>1 DEF HandledIsStored, CursorsAhead, FedOnce, NewestShown
  <2> QED
    BY <2>2, <2>3 DEF ProjectorIInv
<1>10. CASE UNCHANGED projectorVars
  BY <1>1, <1>2, <1>10 DEF projectorVars, kafka, database, ProjectorIInv, ProjectorTypeOK,
       HandledIsStored, CursorsAhead, FedOnce, NewestShown
<1> QED
  BY <1>3, <1>4, <1>5, <1>6, <1>7, <1>8, <1>9, <1>10 DEF ProjectorNext

(* The three properties follow from the invariant. *)
LEMMA ProjectorIInvSuffices == ProjectorIInv => NothingSkipped /\ FedOnce /\ NewestShown
BY DEF ProjectorIInv, ProjectorTypeOK, HandledIsStored, NothingSkipped

(* Every step of the composed system is one of the projector's or leaves   *)
(* it alone.                                                               *)
LEMMA FeedStepsProject == [Next]_vars => [ProjectorNext]_projectorVars
BY DEF Next, vars, Project, ProjectorNext, Connect, SendSnapshot, ReadOldest, ReadRows, Wake,
       Ping, OnMessage, Disconnect

LEMMA ProjectorInvariance ==
  /\ ProjectorSpec => []ProjectorIInv
  /\ Spec => []ProjectorIInv
<1>1. ProjectorInit => ProjectorIInv
  BY ProjectorStarts
<1>2. ProjectorIInv /\ [ProjectorNext]_projectorVars => ProjectorIInv'
  BY ProjectorStep
<1>3. [Next]_vars => [ProjectorNext]_projectorVars
  BY FeedStepsProject
<1>4. Init => ProjectorInit
  BY DEF Init
<1> QED
  BY <1>1, <1>2, <1>3, <1>4, PTL DEF Spec, ProjectorSpec

(* Whatever dies or is retried between the database's commit and Kafka's,  *)
(* no transition the group has committed past is missing from the database *)
(* (Projector.handle).                                                     *)
THEOREM NothingIsSkipped ==
  (ProjectorSpec => []NothingSkipped) /\ (Spec => []NothingSkipped)
<1>1. ProjectorIInv => NothingSkipped
  BY ProjectorIInvSuffices
<1> QED
  BY <1>1, ProjectorInvariance, PTL

(* However often a transition is written, redelivered or retried, it has   *)
(* one row in the feed, and no two rows share a cursor (apply_transition). *)
THEOREM EachIsFedOnce ==
  (ProjectorSpec => []FedOnce) /\ (Spec => []FedOnce)
<1>1. ProjectorIInv => FedOnce
  BY ProjectorIInvSuffices
<1> QED
  BY <1>1, ProjectorInvariance, PTL

(* In whatever order revisions come, the incident's row is the greatest of *)
(* those stored, and the feed has them all (apply_transition).             *)
THEOREM NewestIsShown ==
  (ProjectorSpec => []NewestShown) /\ (Spec => []NewestShown)
<1>1. ProjectorIInv => NewestShown
  BY ProjectorIInvSuffices
<1> QED
  BY <1>1, ProjectorInvariance, PTL

-----------------------------------------------------------------------------
(* The read of the rows behind a cursor.                                   *)

RowsBehind == {r \in feed : r.cursor > last}
RankOf(r) == Cardinality({s \in RowsBehind : s.cursor <= r.cursor})

(* The rank of a row orders the rows as their cursors do, and every rank   *)
(* up to the number of rows is some row's.                                 *)
LEMMA RanksAreCursors ==
  ASSUME ProjectorIInv
  PROVE  /\ IsFiniteSet(RowsBehind) /\ Cardinality(RowsBehind) \in Nat
         /\ \A r \in RowsBehind : RankOf(r) \in 1..Cardinality(RowsBehind)
         /\ \A r, s \in RowsBehind : r.cursor < s.cursor => RankOf(r) < RankOf(s)
         /\ \A r, s \in RowsBehind : r = s \/ r.cursor # s.cursor
         /\ \A n \in 1..Cardinality(RowsBehind) : \E r \in RowsBehind : RankOf(r) = n
<1> DEFINE R == RowsBehind
           Upto(r) == {s \in RowsBehind : s.cursor <= r.cursor}
<1>1. /\ feed \subseteq fed
      /\ fed \subseteq [cursor : Nat \ {0}, incident : Incident, revision : Revision]
      /\ IsFiniteSet(fed) /\ FedOnce
  BY DEF ProjectorIInv, ProjectorTypeOK, CursorsAhead
<1>2. R \subseteq fed /\ \A r \in R : r.cursor \in Nat
  BY <1>1 DEF RowsBehind
<1>3. IsFiniteSet(R) /\ Cardinality(R) \in Nat
  BY <1>1, <1>2, FS_Subset, FS_CardinalityType
<1>4. \A r, s \in R : r = s \/ r.cursor # s.cursor
  BY <1>1, <1>2 DEF FedOnce
<1>5. \A r \in R : Upto(r) \in SUBSET R /\ IsFiniteSet(Upto(r)) /\ r \in Upto(r)
  <2> TAKE r \in R
  <2>1. Upto(r) \in SUBSET R
    OBVIOUS
  <2>2. r \in Upto(r)
    BY <1>2
  <2> HIDE DEF Upto
  <2> QED
    BY <2>1, <2>2, <1>3, FS_Subset
<1>6. \A r \in R : RankOf(r) \in 1..Cardinality(R)
  <2> TAKE r \in R
  <2> HIDE DEF Upto, R
  <2>1. Cardinality(Upto(r)) \in Nat /\ Cardinality(Upto(r)) <= Cardinality(R)
    BY <1>3, <1>5, FS_Subset, FS_CardinalityType
  <2>2. Cardinality(Upto(r)) # 0
    BY <1>5, FS_EmptySet
  <2> QED
    BY <2>1, <2>2, <1>3 DEF RankOf, Upto
<1>7. \A r, s \in R : r.cursor < s.cursor => RankOf(r) < RankOf(s)
  <2> SUFFICES ASSUME NEW r \in R, NEW s \in R, r.cursor < s.cursor
               PROVE  RankOf(r) < RankOf(s)
    OBVIOUS
  <2>1. Upto(r) \in SUBSET Upto(s)
    BY <1>2
  <2>2. s \in Upto(s) /\ s \notin Upto(r)
    BY <1>2
  <2> HIDE DEF Upto, R
  <2>3. Cardinality(Upto(r)) <= Cardinality(Upto(s)) /\ Cardinality(Upto(r)) # Cardinality(Upto(s))
    BY <2>1, <2>2, <1>5, FS_Subset
  <2>4. Cardinality(Upto(r)) \in Nat /\ Cardinality(Upto(s)) \in Nat
    BY <1>5, FS_CardinalityType
  <2> QED
    BY <2>3, <2>4 DEF RankOf, Upto
<1>8. \A n \in 1..Cardinality(R) : \E r \in R : RankOf(r) = n
  <2> DEFINE f == [r \in R |-> RankOf(r)]
             T == 1..Cardinality(R)
  <2> HIDE DEF R
  <2>1. \A r, s \in R : f[r] = f[s] => r = s
    <3> SUFFICES ASSUME NEW r \in R, NEW s \in R, r # s
                 PROVE  RankOf(r) # RankOf(s)
      OBVIOUS
    <3>1. r.cursor < s.cursor \/ s.cursor < r.cursor
      BY <1>2, <1>4
    <3> QED
      BY <3>1, <1>3, <1>6, <1>7
  <2>2. f \in Injection(R, T)
    BY <2>1, <1>6 DEF Injection, IsInjective
  <2>3. IsFiniteSet(T) /\ Cardinality(T) = Cardinality(R)
    BY <1>3, FS_Interval
  <2>4. f \in Surjection(R, T)
    <3> HIDE DEF f, T
    <3> QED BY <2>2, <2>3, FS_Injection
  <2> QED
    BY <2>4 DEF Surjection
<1> QED
  BY <1>3, <1>4, <1>6, <1>7, <1>8

(* NextRows is the rows behind the last cursor in order, from the first:   *)
(* no row lies between two of them, and none is left if there were fewer   *)
(* than asked for.                                                         *)
LEMMA NextRowsInOrder ==
  ASSUME ProjectorIInv, last \in Nat
  PROVE  /\ NextRows \in Seq(RowsBehind)
         /\ \A n \in 1..Len(NextRows) : \A s \in RowsBehind :
              s.cursor <= NextRows[n].cursor /\ (n > 1 => NextRows[n - 1].cursor < s.cursor)
                => s = NextRows[n]
         /\ \A n \in 1..Len(NextRows) : n > 1 => NextRows[n - 1].cursor < NextRows[n].cursor
         /\ Done(NextRows) => \A s \in RowsBehind :
              Len(NextRows) > 0 /\ s.cursor <= NextRows[Len(NextRows)].cursor
<1> DEFINE R == RowsBehind
           c == Cardinality(RowsBehind)
           L == Min({BATCH, c})
<1>1. /\ IsFiniteSet(R) /\ c \in Nat
      /\ \A r \in R : RankOf(r) \in 1..c
      /\ \A r, s \in R : r.cursor < s.cursor => RankOf(r) < RankOf(s)
      /\ \A r, s \in R : r = s \/ r.cursor # s.cursor
      /\ \A n \in 1..c : \E r \in R : RankOf(r) = n
  BY RanksAreCursors
<1>2. L \in Nat /\ L <= BATCH /\ L <= c /\ (L = BATCH \/ L = c)
  <2>1. {BATCH, c} \in SUBSET Nat /\ {BATCH, c} # {}
    BY <1>1, FeedAssumption
  <2> QED
    BY <2>1, MinOfNat
<1>3. NextRows = [n \in 1..L |-> CHOOSE r \in R : RankOf(r) = n]
  BY DEF NextRows, RankOf, RowsBehind
<1>4. \A r \in R : r.cursor \in Nat
  BY DEF ProjectorIInv, ProjectorTypeOK, RowsBehind
<1> HIDE DEF R, c, L
<1>5. \A n \in 1..L : NextRows[n] \in R /\ RankOf(NextRows[n]) = n
  <2> TAKE n \in 1..L
  <2>1. n \in 1..c
    BY <1>1, <1>2
  <2>2. \E r \in R : RankOf(r) = n
    BY <2>1, <1>1
  <2>3. NextRows[n] = CHOOSE r \in R : RankOf(r) = n
    BY <1>3
  <2> QED
    BY <2>2, <2>3
<1>6. NextRows \in Seq(R) /\ Len(NextRows) = L
  <2>1. NextRows = [n \in 1..L |-> NextRows[n]]
    BY <1>3
  <2> QED
    BY <2>1, <1>2, <1>5
<1>7. \A n \in 1..L : n > 1 => n - 1 \in 1..L
  BY <1>2
<1>8. \A r, s \in R : RankOf(r) <= RankOf(s) => r.cursor <= s.cursor
  <2> SUFFICES ASSUME NEW r \in R, NEW s \in R, RankOf(r) <= RankOf(s), ~(r.cursor <= s.cursor)
               PROVE  FALSE
    OBVIOUS
  <2>1. s.cursor < r.cursor
    BY <1>4
  <2> QED
    BY <2>1, <1>1
<1>9. \A r, s \in R : r.cursor <= s.cursor => RankOf(r) <= RankOf(s)
  <2> SUFFICES ASSUME NEW r \in R, NEW s \in R, r.cursor <= s.cursor
               PROVE  RankOf(r) <= RankOf(s)
    OBVIOUS
  <2>1. r = s \/ r.cursor < s.cursor
    BY <1>1, <1>4
  <2> QED
    BY <2>1, <1>1
<1>10. \A r, s \in R : RankOf(r) = RankOf(s) => r = s
  <2> SUFFICES ASSUME NEW r \in R, NEW s \in R, RankOf(r) = RankOf(s)
               PROVE  r = s
    OBVIOUS
  <2>1. RankOf(r) <= RankOf(s) /\ RankOf(s) <= RankOf(r)
    BY <1>1
  <2>2. r.cursor = s.cursor
    BY <2>1, <1>4, <1>8
  <2> QED
    BY <2>2, <1>1
<1>11. ASSUME NEW n \in 1..L, n > 1
       PROVE  NextRows[n - 1].cursor < NextRows[n].cursor
  <2>1. /\ NextRows[n - 1] \in R /\ RankOf(NextRows[n - 1]) = n - 1
        /\ NextRows[n] \in R /\ RankOf(NextRows[n]) = n
    BY <1>5, <1>7, <1>11
  <2>2. ~(NextRows[n].cursor <= NextRows[n - 1].cursor)
    BY <2>1, <1>9, <1>2
  <2> QED
    BY <2>1, <2>2, <1>4
<1>12. ASSUME NEW n \in 1..L, NEW s \in R, s.cursor <= NextRows[n].cursor,
              n > 1 => NextRows[n - 1].cursor < s.cursor
       PROVE  s = NextRows[n]
  <2>1. NextRows[n] \in R /\ RankOf(NextRows[n]) = n
    BY <1>5
  <2>2. RankOf(s) <= n /\ RankOf(s) >= 1 /\ RankOf(s) \in Nat
    BY <2>1, <1>1, <1>9, <1>12
  <2>3. CASE n > 1
    <3>1. NextRows[n - 1] \in R /\ RankOf(NextRows[n - 1]) = n - 1
      BY <1>5, <1>7, <2>3
    <3>2. n - 1 < RankOf(s)
      BY <3>1, <1>1, <1>12, <2>3
    <3> QED
      BY <2>1, <2>2, <3>2, <1>10, <1>2
  <2>4. CASE n = 1
    BY <2>1, <2>2, <2>4, <1>10
  <2> QED
    BY <2>3, <2>4, <1>2
<1>13. ASSUME L < BATCH, NEW s \in R
       PROVE  L > 0 /\ s.cursor <= NextRows[L].cursor
  <2>1. L = c /\ RankOf(s) \in 1..L
    BY <1>1, <1>2, <1>13, FeedAssumption
  <2>2. L > 0 /\ L \in 1..L
    BY <2>1, <1>2
  <2>3. NextRows[L] \in R /\ RankOf(NextRows[L]) = L
    BY <2>2, <1>5
  <2> QED
    BY <2>1, <2>2, <2>3, <1>8
<1> QED
  BY <1>6, <1>11, <1>12, <1>13 DEF Done, R

-----------------------------------------------------------------------------
(* Types of the handler, the channel and the page.                         *)

FeedTypes == TypeOK /\ channel \in Seq(Messages)

LEMMA NothingType == Nothing \in [Incident -> 0..MaxRevision]
BY ProjectorAssumption DEF Nothing

LEMMA MessageIs ==
  ASSUME NEW t \in MessageType, NEW c \in Nat, NEW v \in [Incident -> 0..MaxRevision]
  PROVE  /\ Message(t, c, v) \in Messages
         /\ Message(t, c, v).type = t
         /\ Message(t, c, v).cursor = c
         /\ Message(t, c, v).content = v
BY DEF Message, Messages

(* The snapshot's cursor is the greatest of the feed, 0 without one. *)
LEMMA SnapshotCursorIs ==
  ASSUME ProjectorIInv
  PROVE  /\ SnapshotCursor \in Nat /\ SnapshotCursor < nextCursor
         /\ \A r \in feed : r.cursor <= SnapshotCursor
<1> DEFINE S == {0} \cup {r.cursor : r \in feed}
<1>1. \A r \in feed : r.cursor \in Nat /\ r.cursor < nextCursor /\ nextCursor \in Nat
  BY DEF ProjectorIInv, ProjectorTypeOK, CursorsAhead
<1>2. nextCursor \in Nat /\ 0 < nextCursor
  BY DEF ProjectorIInv, ProjectorTypeOK
<1>3. S \in SUBSET Nat /\ \A y \in S : y < nextCursor
  BY <1>1, <1>2
<1>4. S \in SUBSET Int /\ S # {} /\ \A y \in S : y <= nextCursor
  BY <1>2, <1>3
<1> HIDE DEF S
<1>5. Max(S) \in S /\ \A y \in S : y <= Max(S)
  <2>1. nextCursor \in Int
    BY <1>2
  <2> QED
    BY <2>1, <1>4, MaxOfBounded
<1> QED
  BY <1>3, <1>5 DEF SnapshotCursor, NewestCursor, S

Changes(rows) ==
  [n \in DOMAIN rows |->
     Message("change", rows[n].cursor, [Nothing EXCEPT ![rows[n].incident] = rows[n].revision])]

(* A batch of rows as messages. *)
LEMMA ChangesAre ==
  ASSUME ProjectorIInv, NEW rows \in Seq(RowsBehind)
  PROVE  /\ Changes(rows) \in Seq(Messages)
         /\ Len(Changes(rows)) = Len(rows)
         /\ \A n \in 1..Len(rows) :
              /\ rows[n] \in feed
              /\ rows[n].cursor \in Nat
              /\ Changes(rows)[n].type = "change"
              /\ Changes(rows)[n].cursor = rows[n].cursor
              /\ Changes(rows)[n].content = [Nothing EXCEPT ![rows[n].incident] = rows[n].revision]
<1>1. \A r \in RowsBehind :
        /\ r \in feed /\ r.cursor \in Nat
        /\ [Nothing EXCEPT ![r.incident] = r.revision] \in [Incident -> 0..MaxRevision]
  <2> TAKE r \in RowsBehind
  <2>1. r \in feed /\ r \in [cursor : Nat \ {0}, incident : Incident, revision : Revision]
    BY DEF ProjectorIInv, ProjectorTypeOK, RowsBehind
  <2>2. r.cursor \in Nat /\ r.incident \in Incident /\ r.revision \in 0..MaxRevision
    BY <2>1 DEF Revision
  <2> QED
    BY <2>1, <2>2, NothingType
<1>2. DOMAIN rows = 1..Len(rows) /\ Len(rows) \in Nat /\ \A n \in 1..Len(rows) : rows[n] \in RowsBehind
  OBVIOUS
<1>3. "change" \in MessageType
  BY DEF MessageType
<1>4. \A n \in 1..Len(rows) :
        /\ Changes(rows)[n] = Message("change", rows[n].cursor,
                                      [Nothing EXCEPT ![rows[n].incident] = rows[n].revision])
        /\ Changes(rows)[n] \in Messages
  BY <1>1, <1>2, <1>3, MessageIs DEF Changes
<1>5. Changes(rows) = [n \in 1..Len(rows) |-> Changes(rows)[n]]
  BY <1>2 DEF Changes
<1>6. Changes(rows) \in Seq(Messages) /\ Len(Changes(rows)) = Len(rows)
  <2> DEFINE q == Changes(rows)
             k == Len(rows)
  <2>1. k \in Nat /\ q = [n \in 1..k |-> q[n]] /\ \A n \in 1..k : q[n] \in Messages
    BY <1>2, <1>4, <1>5
  <2> HIDE DEF q, k
  <2>2. q \in Seq(Messages) /\ Len(q) = k
    BY <2>1
  <2> QED
    BY <2>2 DEF q, k
<1>7. \A n \in 1..Len(rows) :
        /\ Changes(rows)[n].type = "change"
        /\ Changes(rows)[n].cursor = rows[n].cursor
        /\ Changes(rows)[n].content = [Nothing EXCEPT ![rows[n].incident] = rows[n].revision]
  <2> TAKE n \in 1..Len(rows)
  <2> DEFINE v == [Nothing EXCEPT ![rows[n].incident] = rows[n].revision]
  <2>1. Changes(rows)[n] = Message("change", rows[n].cursor, v)
    BY <1>4
  <2> HIDE DEF v
  <2>2. /\ Changes(rows)[n].type = "change" /\ Changes(rows)[n].cursor = rows[n].cursor
        /\ Changes(rows)[n].content = v
    BY <2>1 DEF Message
  <2> QED
    BY <2>2 DEF v
<1>8. \A n \in 1..Len(rows) : rows[n] \in feed /\ rows[n].cursor \in Nat
  BY <1>1, <1>2
<1> QED
  BY <1>6, <1>7, <1>8, Zenon

(* Greeting appends one "live" message or none. *)
LEMMA GreetingIs ==
  ASSUME NEW c \in Nat
  PROVE  /\ Greeting(c) \in Seq(Messages)
         /\ \/ Greeting(c) = <<>>
            \/ /\ Len(Greeting(c)) = 1
               /\ Greeting(c)[1].type = "live" /\ Greeting(c)[1].cursor = c
               /\ Greeting(c)[1].content = Nothing
<1>1. "live" \in MessageType
  BY DEF MessageType
<1> QED
  BY <1>1, MessageIs, NothingType DEF Greeting

(* The larger of two revisions, incident by incident. *)
LEMMA NewerIs ==
  ASSUME shown \in [Incident -> 0..MaxRevision], NEW m \in Messages
  PROVE  /\ Newer(m) \in [Incident -> 0..MaxRevision]
         /\ \A i \in Incident : /\ Newer(m)[i] >= shown[i] /\ Newer(m)[i] >= m.content[i]
                                /\ Newer(m)[i] \in {shown[i], m.content[i]}
<1>1. m.content \in [Incident -> 0..MaxRevision]
  BY DEF Messages
<1>2. \A i \in Incident :
        /\ shown[i] \in 0..MaxRevision /\ m.content[i] \in 0..MaxRevision
        /\ Max({shown[i], m.content[i]}) \in {shown[i], m.content[i]}
        /\ Max({shown[i], m.content[i]}) >= shown[i]
        /\ Max({shown[i], m.content[i]}) >= m.content[i]
  <2> TAKE i \in Incident
  <2> DEFINE S == {shown[i], m.content[i]}
  <2>1. shown[i] \in 0..MaxRevision /\ m.content[i] \in 0..MaxRevision
    BY <1>1
  <2>2. S \in SUBSET Int /\ S # {} /\ MaxRevision \in Int /\ \A y \in S : y <= MaxRevision
    BY <2>1, ProjectorAssumption
  <2>3. Max(S) \in S /\ \A y \in S : y <= Max(S)
    BY <2>2, MaxOfBounded
  <2> QED
    BY <2>1, <2>3
<1> QED
  BY <1>2 DEF Newer

(* The cursor the handler is at when a batch has been sent. *)
EndCursor == IF NextRows = <<>> THEN last ELSE NextRows[Len(NextRows)].cursor

LEMMA ReadRowsIs ==
  ASSUME ReadRows
  PROVE  /\ stage = "rows"
         /\ last' = EndCursor
         /\ channel' = channel \o Changes(NextRows)
                               \o (IF Done(NextRows) THEN Greeting(EndCursor) ELSE <<>>)
         /\ greeted' = (greeted \/ Done(NextRows))
         /\ stage' = IF Done(NextRows) THEN "idle" ELSE "oldest"
         /\ UNCHANGED <<projectorVars, notified, page, disconnects>>
BY DEF ReadRows, EndCursor, Changes

LEMMA EndCursorType ==
  ASSUME ProjectorIInv, last \in Nat
  PROVE  EndCursor \in Nat
<1>1. NextRows \in Seq(RowsBehind)
  BY NextRowsInOrder
<1>2. \A r \in RowsBehind : r.cursor \in Nat
  BY DEF ProjectorIInv, ProjectorTypeOK, RowsBehind
<1> QED
  BY <1>1, <1>2 DEF EndCursor

LEMMA FeedTypesStart == Init => FeedTypes
<1> SUFFICES ASSUME Init PROVE FeedTypes
  OBVIOUS
<1>1. ProjectorTypeOK
  BY ProjectorStarts DEF Init, ProjectorIInv
<1>2. shown \in [Incident -> 0..MaxRevision]
  BY NothingType DEF Init
<1>3. greeted \in BOOLEAN /\ notified \in BOOLEAN /\ connected \in BOOLEAN
  BY DEF Init
<1>4. stage \in Stage /\ last \in Nat /\ cursor \in Nat \cup {None}
  BY DEF Init, Stage
<1>5. channel \in Seq(Messages)
  BY DEF Init
<1> QED
  BY <1>1, <1>2, <1>3, <1>4, <1>5 DEF FeedTypes, TypeOK

(* Every step keeps the types. *)
LEMMA FeedTypesStep ==
  ASSUME ProjectorIInv, ProjectorIInv', FeedTypes, [Next]_vars
  PROVE  FeedTypes'
<1> DEFINE Types == /\ stage \in Stage
                    /\ last \in Nat
                    /\ greeted \in BOOLEAN /\ notified \in BOOLEAN /\ connected \in BOOLEAN
                    /\ shown \in [Incident -> 0..MaxRevision]
                    /\ cursor \in Nat \cup {None}
                    /\ channel \in Seq(Messages)
<1>1. Types
  BY DEF FeedTypes, TypeOK
<1>2. Stage = {"closed", "snapshot", "oldest", "rows", "idle"}
  BY DEF Stage
<1>3. MessageType = {"snapshot", "reset", "change", "live", "ping"}
  BY DEF MessageType
<1> SUFFICES Types'
  BY DEF FeedTypes, TypeOK, ProjectorIInv
<1>4. CASE Project
  BY <1>1, <1>4 DEF Project, page
<1>5. CASE Connect
  BY <1>1, <1>2, <1>5 DEF Connect, page, None
<1>6. CASE SendSnapshot
  <2>1. SnapshotCursor \in Nat
    BY SnapshotCursorIs
  <2>2. Message("snapshot", SnapshotCursor, incidents) \in Messages
    BY <2>1, <1>3, MessageIs DEF ProjectorIInv, ProjectorTypeOK
  <2>3. Greeting(SnapshotCursor) \in Seq(Messages)
    BY <2>1, GreetingIs
  <2>4. channel' \in Seq(Messages)
    <3>1. channel' = channel \o <<Message("snapshot", SnapshotCursor, incidents)>>
                             \o Greeting(SnapshotCursor)
      BY <1>6 DEF SendSnapshot
    <3>2. <<Message("snapshot", SnapshotCursor, incidents)>> \in Seq(Messages)
      BY <2>2
    <3> QED
      BY <1>1, <2>3, <3>1, <3>2
  <2> QED
    BY <1>1, <1>2, <1>6, <2>1, <2>4 DEF SendSnapshot, page
<1>7. CASE ReadOldest
  <2>1. Message("reset", last, Nothing) \in Messages
    BY <1>1, <1>3, MessageIs, NothingType
  <2>2. channel' \in Seq(Messages)
    BY <1>1, <1>7, <2>1 DEF ReadOldest
  <2> QED
    BY <1>1, <1>2, <1>7, <2>2 DEF ReadOldest, page
<1>8. CASE ReadRows
  <2>1. EndCursor \in Nat
    BY <1>1, EndCursorType
  <2>2. Changes(NextRows) \in Seq(Messages) /\ Greeting(EndCursor) \in Seq(Messages)
    BY <1>1, <2>1, NextRowsInOrder, ChangesAre, GreetingIs
  <2>3. channel' \in Seq(Messages)
    <3> DEFINE G == IF Done(NextRows) THEN Greeting(EndCursor) ELSE <<>>
    <3>1. channel' = channel \o Changes(NextRows) \o G
      BY <1>8, ReadRowsIs
    <3>2. G \in Seq(Messages)
      BY <2>2
    <3> HIDE DEF G
    <3> QED
      BY <1>1, <2>2, <3>1, <3>2
  <2>4. greeted' \in BOOLEAN
    BY <1>8, ReadRowsIs
  <2> QED
    BY <1>1, <1>2, <1>8, <2>1, <2>3, <2>4, ReadRowsIs DEF page
<1>9. CASE Wake
  BY <1>1, <1>2, <1>9 DEF Wake, page
<1>10. CASE Ping
  <2>1. Message("ping", last, Nothing) \in Messages
    BY <1>1, <1>3, MessageIs, NothingType
  <2> QED
    BY <1>1, <1>10, <2>1 DEF Ping, handler, page
<1>11. CASE OnMessage
  <2>1. channel # <<>> /\ Head(channel) \in Messages /\ Tail(channel) \in Seq(Messages)
    BY <1>1, <1>11 DEF OnMessage
  <2>2. Head(channel).cursor \in Nat /\ Head(channel).content \in [Incident -> 0..MaxRevision]
    BY <2>1 DEF Messages
  <2>3. Newer(Head(channel)) \in [Incident -> 0..MaxRevision]
    BY <1>1, <2>1, NewerIs
  <2>4. shown' \in {Head(channel).content, Nothing, Newer(Head(channel)), shown}
    BY <1>11 DEF OnMessage
  <2>5. shown' \in [Incident -> 0..MaxRevision]
    BY <1>1, <2>2, <2>3, <2>4, NothingType
  <2>6. connected' \in BOOLEAN
    BY <1>11 DEF OnMessage
  <2> QED
    BY <1>1, <1>11, <2>1, <2>2, <2>5, <2>6 DEF OnMessage, handler
<1>12. CASE Disconnect
  <2>1. notified' \in BOOLEAN /\ connected' \in BOOLEAN
    BY <1>12 DEF Disconnect
  <2> QED
    BY <1>1, <1>2, <1>12, <2>1 DEF Disconnect
<1>13. CASE UNCHANGED vars
  BY <1>1, <1>13 DEF vars, feedVars, handler, page
<1> QED
  BY <1>4, <1>5, <1>6, <1>7, <1>8, <1>9, <1>10, <1>11, <1>12, <1>13 DEF Next

-----------------------------------------------------------------------------
(* What the projector does to the feed while a page reads it.              *)

(* The tables only grow, new rows above every cursor there was; what may   *)
(* go of the feed is never all of it.                                      *)
FeedGrows ==
  /\ nextCursor' >= nextCursor
  /\ fed \subseteq fed'
  /\ \A r \in fed' \ fed : r.cursor >= nextCursor /\ r \in feed'
  /\ \A r \in feed' \ feed : r.cursor >= nextCursor
  /\ feed # {} => feed' # {}
  /\ \A i \in Incident : incidents'[i] >= incidents[i]

LEMMA TransactionGrows ==
  ASSUME ProjectorIInv, PrunedBelow, NEW t \in Transition \cup {Malformed}, ApplyTransition(t)
  PROVE  FeedGrows /\ PrunedBelow' /\ feed \subseteq feed'
<1>1. /\ nextCursor \in Nat /\ feed \subseteq fed
      /\ incidents \in [Incident -> 0..MaxRevision]
      /\ \A r \in fed : r.cursor \in Nat /\ r.cursor < nextCursor
      /\ \A i \in Incident : incidents[i] \in Nat
  BY DEF ProjectorIInv, ProjectorTypeOK, CursorsAhead
<1>2. CASE UNCHANGED database
  BY <1>1, <1>2 DEF database, FeedGrows, PrunedBelow
<1>3. CASE /\ t # Malformed
           /\ incidents' = Upsert(t)
           /\ feed' = feed \cup {Row(FeedCursor, t)}
           /\ fed' = fed \cup {Row(FeedCursor, t)}
           /\ nextCursor' = nextCursor + 1
  <2> DEFINE new == Row(FeedCursor, t)
  <2>1. new.cursor = nextCursor
    BY DEF Row, FeedCursor
  <2>2. t.incident \in Incident /\ t.revision \in Nat
    BY <1>3 DEF Transition, Revision
  <2>3. \A i \in Incident : incidents'[i] >= incidents[i]
    BY <1>1, <1>3, <2>2 DEF Upsert
  <2> HIDE DEF new
  <2>4. feed' = feed \cup {new} /\ fed' = fed \cup {new} /\ nextCursor' = nextCursor + 1
    BY <1>3 DEF new
  <2>5. FeedGrows
    BY <1>1, <2>1, <2>3, <2>4 DEF FeedGrows
  <2>6. PrunedBelow'
    BY <1>1, <2>1, <2>4 DEF PrunedBelow
  <2> QED
    BY <2>4, <2>5, <2>6
<1> QED
  BY <1>2, <1>3 DEF ApplyTransition

LEMMA ProjectGrows ==
  ASSUME ~PruneAll, ~PruneInRead, ProjectorIInv, PrunedBelow, Project
  PROVE  /\ FeedGrows /\ PrunedBelow'
         /\ stage = "rows" => feed \subseteq feed'
<1>1. /\ nextCursor \in Nat /\ feed \subseteq fed
      /\ incidents \in [Incident -> 0..MaxRevision]
      /\ \A r \in fed : r.cursor \in Nat /\ r.cursor < nextCursor
      /\ \A i \in Incident : incidents[i] \in Nat
      /\ log \in Seq(Transition \cup {Malformed}) /\ position \in Nat
  BY DEF ProjectorIInv, ProjectorTypeOK, CursorsAhead
<1>2. Waiting => log[position + 1] \in Transition \cup {Malformed}
  BY <1>1 DEF Waiting
<1>3. CASE UNCHANGED database
  BY <1>1, <1>3 DEF database, FeedGrows, PrunedBelow
<1>4. CASE Apply \/ ApplyUnheard
  BY <1>2, <1>4, TransactionGrows DEF Apply, ApplyUnheard
<1>5. CASE ApplyRolledBack
  BY <1>1, <1>5 DEF ApplyRolledBack, FeedGrows, PrunedBelow
<1>6. ASSUME NEW k \in 1..(MaxLog + MaxFaults), PruneAllowed(k), PruneFeed(k)
      PROVE  FeedGrows /\ PrunedBelow' /\ stage # "rows"
  <2>1. /\ feed' = {r \in feed : r.cursor > k} /\ stage # "rows"
        /\ UNCHANGED <<incidents, nextCursor, fed>>
        /\ \E r \in feed : r.cursor > k
        /\ k \in Nat
    BY <1>6, ProjectorAssumption DEF PruneFeed, PruneAllowed
  <2> QED
    BY <1>1, <2>1 DEF FeedGrows, PrunedBelow
<1> QED
  BY <1>3, <1>4, <1>5, <1>6 DEF Project, Produce, CommitOffset, Restart

(* What follows a cursor still follows it when the tables have grown. *)
LEMMA FollowsKept ==
  ASSUME ProjectorIInv, ProjectorIInv', FeedGrows,
         NEW m \in Messages, NEW c \in Int, NEW live \in BOOLEAN, NEW live2 \in BOOLEAN, live => live2,
         Follows(m, c, live)
  PROVE  Follows(m, c, live2)'
<1>1. /\ nextCursor \in Nat /\ nextCursor' \in Nat
      /\ \A r \in fed : r.cursor \in Nat /\ r.cursor < nextCursor
      /\ \A r \in fed' : r.cursor \in Nat
      /\ feed \subseteq fed /\ feed' \subseteq fed'
      /\ \A i \in Incident : incidents[i] \in Nat /\ incidents'[i] \in Nat
  BY DEF ProjectorIInv, ProjectorTypeOK, CursorsAhead
<1>2. m.cursor \in Nat /\ \A i \in Incident : m.content[i] \in Nat
  BY DEF Messages
<1>3. m.cursor < nextCursor /\ m.cursor < nextCursor'
  BY <1>1, <1>2 DEF Follows, FeedGrows
<1>4. \A i \in Incident : m.content[i] <= incidents'[i]
  BY <1>1, <1>2 DEF Follows, FeedGrows
<1>5. ASSUME m.type = "snapshot" PROVE Covers(m.content, m.cursor)'
  BY <1>1, <1>2, <1>3, <1>5 DEF Follows, FeedGrows, Covers
<1>6. ASSUME m.type = "reset" PROVE m.cursor = c /\ Stale(c)'
  BY <1>1, <1>2, <1>3, <1>6 DEF Follows, FeedGrows, Stale
<1>7. ASSUME m.type = "change"
      PROVE  /\ live2
             /\ \E r \in fed' : /\ r.cursor = m.cursor
                                /\ m.content[r.incident] >= r.revision
                                /\ \A s \in fed' : c < s.cursor /\ s.cursor <= m.cursor => s = r
  BY <1>1, <1>2, <1>3, <1>7 DEF Follows, FeedGrows
<1>8. m.type \in {"live", "ping"} => m.cursor = c /\ live2
  BY DEF Follows
<1> QED
  BY <1>3, <1>4, <1>5, <1>6, <1>7, <1>8 DEF Follows

(* Messages that follow a chain make it longer. *)
LEMMA Extended ==
  ASSUME NEW q \in Seq(Messages), NEW ms \in Seq(Messages), Chain(q),
         \A n \in 1..Len(ms) :
           Follows(ms[n], IF n = 1 THEN CursorAt(q, Len(q) + 1) ELSE ms[n - 1].cursor,
                          IF n = 1 THEN LiveAt(q, Len(q) + 1) ELSE ms[n - 1].type # "reset")
  PROVE  /\ q \o ms \in Seq(Messages) /\ Chain(q \o ms)
         /\ Len(ms) = 0 =>
              /\ CursorAt(q \o ms, Len(q \o ms) + 1) = CursorAt(q, Len(q) + 1)
              /\ LiveAt(q \o ms, Len(q \o ms) + 1) = LiveAt(q, Len(q) + 1)
         /\ Len(ms) > 0 =>
              /\ CursorAt(q \o ms, Len(q \o ms) + 1) = ms[Len(ms)].cursor
              /\ LiveAt(q \o ms, Len(q \o ms) + 1) <=> ms[Len(ms)].type # "reset"
<1> DEFINE p == q \o ms
<1>1. /\ p \in Seq(Messages) /\ Len(p) = Len(q) + Len(ms)
      /\ Len(q) \in Nat /\ Len(ms) \in Nat
      /\ \A k \in 1..Len(q) : p[k] = q[k]
      /\ \A n \in 1..Len(ms) : p[Len(q) + n] = ms[n]
  OBVIOUS
<1> HIDE DEF p
<1>2. ASSUME NEW k \in 1..Len(q)
      PROVE  Follows(p[k], CursorAt(p, k), LiveAt(p, k))
  <2>1. p[k] = q[k] /\ (k # 1 => p[k - 1] = q[k - 1])
    BY <1>1
  <2>2. CursorAt(p, k) = CursorAt(q, k)
    BY <2>1 DEF CursorAt
  <2>3. LiveAt(p, k) = LiveAt(q, k)
    BY <2>1 DEF LiveAt
  <2> QED
    BY <2>1, <2>2, <2>3 DEF Chain
<1>3. ASSUME NEW n \in 1..Len(ms)
      PROVE  Follows(p[Len(q) + n], CursorAt(p, Len(q) + n), LiveAt(p, Len(q) + n))
  <2>1. p[Len(q) + n] = ms[n]
    BY <1>1
  <2>2. CASE n = 1
    <3>1. CursorAt(p, Len(q) + 1) = CursorAt(q, Len(q) + 1) /\ LiveAt(p, Len(q) + 1) = LiveAt(q, Len(q) + 1)
      <4>1. Len(q) + 1 # 1 => p[(Len(q) + 1) - 1] = q[(Len(q) + 1) - 1]
        BY <1>1
      <4>2. CursorAt(p, Len(q) + 1) = CursorAt(q, Len(q) + 1)
        BY <4>1 DEF CursorAt
      <4>3. LiveAt(p, Len(q) + 1) = LiveAt(q, Len(q) + 1)
        BY <4>1 DEF LiveAt
      <4> QED
        BY <4>2, <4>3
    <3>2. Follows(ms[1], CursorAt(q, Len(q) + 1), LiveAt(q, Len(q) + 1))
      BY <2>2
    <3> QED
      BY <2>1, <2>2, <3>1, <3>2
  <2>3. CASE n # 1
    <3>1. n - 1 \in 1..Len(ms) /\ Len(q) + n # 1 /\ Len(q) + n - 1 = Len(q) + (n - 1)
      BY <1>1, <2>3
    <3>2. CursorAt(p, Len(q) + n) = ms[n - 1].cursor /\ LiveAt(p, Len(q) + n) = (ms[n - 1].type # "reset")
      <4>1. Len(q) + n # 1 /\ p[(Len(q) + n) - 1] = ms[n - 1]
        BY <1>1, <3>1
      <4>2. CursorAt(p, Len(q) + n) = ms[n - 1].cursor
        BY <4>1 DEF CursorAt
      <4>3. LiveAt(p, Len(q) + n) = (ms[n - 1].type # "reset")
        BY <4>1 DEF LiveAt
      <4> QED
        BY <4>2, <4>3
    <3>3. Follows(ms[n], ms[n - 1].cursor, ms[n - 1].type # "reset")
      BY <2>3
    <3> QED
      BY <2>1, <3>2, <3>3
  <2> QED
    BY <2>2, <2>3
<1>4. Chain(p)
  <2> SUFFICES ASSUME NEW k \in 1..Len(p)
               PROVE  Follows(p[k], CursorAt(p, k), LiveAt(p, k))
    BY DEF Chain
  <2>1. CASE k <= Len(q)
    BY <1>1, <1>2, <2>1
  <2>2. CASE k > Len(q)
    <3>1. k - Len(q) \in 1..Len(ms) /\ Len(q) + (k - Len(q)) = k
      BY <1>1, <2>2
    <3> QED
      BY <3>1, <1>3
  <2> QED
    BY <1>1, <2>1, <2>2
<1>5. ASSUME Len(ms) = 0
      PROVE  CursorAt(p, Len(p) + 1) = CursorAt(q, Len(q) + 1) /\ LiveAt(p, Len(p) + 1) = LiveAt(q, Len(q) + 1)
  BY <1>1, <1>5 DEF CursorAt, LiveAt
<1>6. ASSUME Len(ms) > 0
      PROVE  CursorAt(p, Len(p) + 1) = ms[Len(ms)].cursor /\ (LiveAt(p, Len(p) + 1) <=> ms[Len(ms)].type # "reset")
  <2>1. p[Len(p)] = ms[Len(ms)] /\ Len(p) + 1 # 1 /\ (Len(p) + 1) - 1 = Len(p)
    BY <1>1, <1>6
  <2> QED
    BY <2>1 DEF CursorAt, LiveAt
<1> QED
  BY <1>1, <1>4, <1>5, <1>6 DEF p

-----------------------------------------------------------------------------
(* The steps of the feed, for a feed that is never pruned to nothing nor   *)
(* between the two reads of Store.changes.                                 *)

tables == <<fed, feed, incidents, nextCursor>>

(* A chain stays one while the tables and the page do. *)
LEMMA ChainCarried ==
  ASSUME UNCHANGED <<tables, shown, cursor>>, NEW q, channel' = q
  PROVE  /\ Chain(q) => Chain(channel)'
         /\ CursorAt(channel, Len(channel) + 1)' = CursorAt(q, Len(q) + 1)
         /\ LiveAt(channel, Len(channel) + 1)' = LiveAt(q, Len(q) + 1)
<1> USE DEF tables
<1>1. ASSUME Chain(q) PROVE Chain(channel)'
  BY <1>1 DEF Chain, Follows, CursorAt, LiveAt, Covers, Stale
<1>2. CursorAt(channel, Len(channel) + 1)' = CursorAt(q, Len(q) + 1)
  BY DEF CursorAt
<1>3. LiveAt(channel, Len(channel) + 1)' = LiveAt(q, Len(q) + 1)
  BY DEF LiveAt, Covers
<1> QED
  BY <1>1, <1>2, <1>3

(* The page's part stays as it is with the tables and the page. *)
LEMMA PageCarried ==
  ASSUME UNCHANGED <<tables, shown, cursor>>, PageInStep
  PROVE  PageInStep'
BY DEF tables, PageInStep, Covers, Stale

LEMMA FeedStarts == Init => FeedIInv
<1> SUFFICES ASSUME Init PROVE FeedIInv
  OBVIOUS
<1>1. FeedTypes /\ ProjectorIInv
  BY FeedTypesStart, ProjectorStarts DEF Init
<1>2. PrunedBelow
  BY DEF Init, ProjectorInit, PrunedBelow
<1>3. channel = <<>> /\ Len(channel) = 0 /\ stage = "closed" /\ last = 0 /\ cursor = -1 /\ fed = {}
      /\ nextCursor = 1
  BY DEF Init, ProjectorInit, None
<1>4. ChannelInOrder
  BY <1>1, <1>3 DEF FeedTypes, ChannelInOrder, Chain
<1>5. HandlerInStep
  BY <1>3 DEF HandlerInStep
<1>6. PageInStep
  <2>1. \A i \in Incident : shown[i] = 0 /\ incidents[i] = 0
    BY DEF Init, ProjectorInit, Nothing
  <2> QED
    BY <1>3, <2>1 DEF PageInStep, Covers
<1> QED
  BY <1>1, <1>2, <1>4, <1>5, <1>6 DEF FeedIInv, FeedTypes

(* A step of the projector. *)
LEMMA ProjectKeeps ==
  ASSUME ~PruneAll, ~PruneInRead, FeedIInv, ProjectorIInv', FeedTypes', Project
  PROVE  FeedIInv'
<1>1. ProjectorIInv /\ PrunedBelow /\ TypeOK /\ ChannelInOrder /\ HandlerInStep /\ PageInStep
  BY DEF FeedIInv
<1>2. /\ FeedGrows /\ PrunedBelow'
      /\ stage = "rows" => feed \subseteq feed'
  BY <1>1, ProjectGrows
<1>3. /\ UNCHANGED <<stage, last, greeted, channel, shown, cursor>>
      /\ notified' = (notified \/ (stage # "closed" /\ fed' # fed))
  BY DEF Project, page
<1>4. /\ nextCursor \in Nat /\ nextCursor' \in Nat
      /\ \A r \in fed : r.cursor \in Nat /\ r.cursor < nextCursor
      /\ \A r \in fed' : r.cursor \in Nat
      /\ feed \subseteq fed /\ feed' \subseteq fed'
      /\ \A i \in Incident : incidents[i] \in Nat /\ incidents'[i] \in Nat /\ shown[i] \in Nat
      /\ last \in Nat /\ cursor \in Int /\ cursor < nextCursor /\ last < nextCursor
      /\ channel \in Seq(Messages)
  BY <1>1 DEF ProjectorIInv, ProjectorTypeOK, CursorsAhead, TypeOK, None, PageInStep, HandlerInStep,
       ChannelInOrder
<1>5. Covers(shown, cursor) => Covers(shown, cursor)'
  BY <1>2, <1>3, <1>4 DEF Covers, FeedGrows
<1>6. \A c \in Int : Stale(c) => Stale(c)'
  BY <1>2, <1>4 DEF Stale, FeedGrows
<1>7. PageInStep'
  <2>1. cursor' < nextCursor' /\ \A i \in Incident : shown'[i] <= incidents'[i]
    BY <1>1, <1>2, <1>3, <1>4 DEF PageInStep, FeedGrows
  <2>2. Stale(cursor) => Stale(cursor)'
    BY <1>3, <1>4, <1>6 DEF Stale
  <2> QED
    BY <1>1, <1>5, <2>1, <2>2 DEF PageInStep
<1>8. \A k \in 1..(Len(channel) + 1) :
        /\ CursorAt(channel, k)' = CursorAt(channel, k)
        /\ LiveAt(channel, k) => LiveAt(channel, k)'
        /\ LiveAt(channel, k) \in BOOLEAN /\ LiveAt(channel, k)' \in BOOLEAN
  <2> TAKE k \in 1..(Len(channel) + 1)
  <2>1. CursorAt(channel, k)' = CursorAt(channel, k)
    BY <1>3 DEF CursorAt
  <2>2. LiveAt(channel, k) => LiveAt(channel, k)'
    BY <1>3, <1>5 DEF LiveAt
  <2>3. LiveAt(channel, k) \in BOOLEAN /\ LiveAt(channel, k)' \in BOOLEAN
    BY DEF LiveAt, Covers
  <2> QED
    BY <2>1, <2>2, <2>3
<1>9. Chain(channel)'
  <2> SUFFICES ASSUME NEW k \in 1..Len(channel)
               PROVE  Follows(channel[k], CursorAt(channel, k), LiveAt(channel, k))'
    BY <1>3 DEF Chain
  <2>1. k \in 1..(Len(channel) + 1)
    BY <1>4
  <2>2. CursorAt(channel, k) \in Int /\ channel[k] \in Messages
    <3>1. k # 1 => channel[k - 1] \in Messages
      BY <1>4
    <3>2. \A m \in Messages : m.cursor \in Int
      BY DEF Messages
    <3> QED
      BY <1>4, <3>1, <3>2 DEF CursorAt
  <2>3. PICK m \in Messages : m = channel[k]
    BY <2>2
  <2>4. PICK c \in Int : c = CursorAt(channel, k)
    BY <2>2
  <2>5. PICK live \in BOOLEAN : live = LiveAt(channel, k)
    BY <1>8, <2>1
  <2>6. PICK live2 \in BOOLEAN : live2 = LiveAt(channel, k)'
    BY <1>8, <2>1
  <2>7. Follows(m, c, live) /\ (live => live2)
    BY <1>1, <1>8, <2>1, <2>3, <2>4, <2>5, <2>6 DEF ChannelInOrder, Chain
  <2>8. Follows(m, c, live2)'
    BY <1>1, <1>2, <2>7, FollowsKept
  <2>9. channel'[k] = m /\ CursorAt(channel, k)' = c /\ LiveAt(channel, k)' = live2
    BY <1>3, <1>8, <2>1, <2>3, <2>4, <2>6
  <2> QED
    BY <2>8, <2>9 DEF Follows, Covers, Stale
<1>10. ChannelInOrder'
  BY <1>3, <1>4, <1>9 DEF ChannelInOrder
<1>11. HandlerInStep'
  <2>1. Len(channel) + 1 \in 1..(Len(channel) + 1) /\ Len(channel') = Len(channel)
    BY <1>3, <1>4
  <2>2. last' < nextCursor'
    BY <1>2, <1>3, <1>4 DEF FeedGrows
  <2>3. /\ CursorAt(channel, Len(channel) + 1)' = CursorAt(channel, Len(channel) + 1)
        /\ LiveAt(channel, Len(channel) + 1) => LiveAt(channel, Len(channel) + 1)'
    BY <1>3, <1>5 DEF CursorAt, LiveAt
  <2>4. Stale(last) => Stale(last)'
    BY <1>3, <1>4, <1>6 DEF Stale
  <2>5. ASSUME stage = "rows" PROVE \A r \in fed' : r.cursor > last => r \in feed'
    BY <1>1, <1>2, <1>4, <2>5 DEF HandlerInStep, FeedGrows
  <2>6. ASSUME stage = "idle", ~notified' PROVE \A r \in fed' : r.cursor <= last
    <3>1. ~notified /\ fed' = fed
      BY <1>3, <2>6
    <3> QED
      BY <1>1, <2>6, <3>1 DEF HandlerInStep
  <2> QED
    BY <1>1, <1>3, <2>2, <2>3, <2>4, <2>5, <2>6 DEF HandlerInStep
<1> QED
  BY <1>2, <1>7, <1>10, <1>11 DEF FeedIInv, FeedTypes

(* An incident's row is as new as every row of the feed. *)
LEMMA IncidentsCover ==
  ASSUME ProjectorIInv
  PROVE  /\ \A r \in fed : r.incident \in Incident /\ r.revision \in Nat
                           /\ incidents[r.incident] >= r.revision
         /\ \A i \in Incident : incidents[i] = 0 \/ \E r \in fed : r.incident = i /\ r.revision = incidents[i]
<1> DEFINE S(i) == {0} \cup {t.revision : t \in {u \in transitions : u.incident = i}}
<1>1. /\ fed \subseteq [cursor : Nat \ {0}, incident : Incident, revision : Revision]
      /\ transitions \subseteq Transition
      /\ transitions = {[incident |-> r.incident, revision |-> r.revision] : r \in fed}
      /\ \A i \in Incident : incidents[i] = Max(S(i))
  BY DEF ProjectorIInv, ProjectorTypeOK, NewestShown
<1>2. \A i \in Incident : Max(S(i)) \in S(i) /\ \A y \in S(i) : y <= Max(S(i))
  <2> TAKE i \in Incident
  <2>1. S(i) \in SUBSET Int /\ S(i) # {} /\ MaxRevision \in Int /\ \A y \in S(i) : y <= MaxRevision
    BY <1>1, ProjectorAssumption DEF Transition, Revision
  <2> HIDE DEF S
  <2> QED
    BY <2>1, MaxOfBounded
<1>3. ASSUME NEW r \in fed
      PROVE  r.incident \in Incident /\ r.revision \in Nat /\ incidents[r.incident] >= r.revision
  <2>1. r.incident \in Incident /\ r.revision \in Nat
    BY <1>1 DEF Revision
  <2>2. [incident |-> r.incident, revision |-> r.revision] \in transitions
    BY <1>1
  <2>3. r.revision \in S(r.incident)
    BY <2>2
  <2>4. S(r.incident) \subseteq Int
    BY <1>1 DEF Transition, Revision
  <2> HIDE DEF S
  <2> QED
    BY <1>1, <1>2, <2>1, <2>3, <2>4
<1>4. ASSUME NEW i \in Incident
      PROVE  incidents[i] = 0 \/ \E r \in fed : r.incident = i /\ r.revision = incidents[i]
  <2>1. incidents[i] \in S(i)
    BY <1>1, <1>2
  <2> QED
    BY <1>1, <2>1
<1> QED
  BY <1>3, <1>4

(* "live" or "ping" at cursor c, or nothing. *)
Greets(ms, c) ==
  \/ ms = <<>>
  \/ Len(ms) = 1 /\ ms[1].type \in {"live", "ping"} /\ ms[1].cursor = c /\ ms[1].content = Nothing

(* They follow a page that covers its cursor, and leave it so. *)
LEMMA Greeted ==
  ASSUME NEW q \in Seq(Messages), NEW ms \in Seq(Messages), NEW c \in Nat,
         Chain(q), CursorAt(q, Len(q) + 1) = c, LiveAt(q, Len(q) + 1), c < nextCursor,
         ProjectorIInv, Greets(ms, c)
  PROVE  /\ q \o ms \in Seq(Messages) /\ Chain(q \o ms)
         /\ CursorAt(q \o ms, Len(q \o ms) + 1) = c
         /\ LiveAt(q \o ms, Len(q \o ms) + 1)
<1>1. CASE ms = <<>>
  BY <1>1
<1>2. CASE Len(ms) = 1 /\ ms[1].type \in {"live", "ping"} /\ ms[1].cursor = c /\ ms[1].content = Nothing
  <2>1. \A i \in Incident : Nothing[i] = 0
    BY DEF Nothing
  <2>2. Follows(ms[1], c, TRUE)
    BY <1>2, <2>1 DEF Follows, ProjectorIInv, ProjectorTypeOK
  <2>3. \A n \in 1..Len(ms) :
           Follows(ms[n], IF n = 1 THEN CursorAt(q, Len(q) + 1) ELSE ms[n - 1].cursor,
                          IF n = 1 THEN LiveAt(q, Len(q) + 1) ELSE ms[n - 1].type # "reset")
    <3>1. \A n \in 1..Len(ms) : n = 1
      BY <1>2
    <3>2. Follows(ms[1], CursorAt(q, Len(q) + 1), LiveAt(q, Len(q) + 1))
      BY <2>2 DEF Follows
    <3> QED
      BY <3>1, <3>2
  <2> QED
    BY <1>2, <2>3, Extended
<1> QED
  BY <1>1, <1>2 DEF Greets

(* A snapshot and its greeting. *)
LEMMA SendSnapshotKeeps ==
  ASSUME FeedIInv, ProjectorIInv', FeedTypes', SendSnapshot
  PROVE  FeedIInv'
<1> DEFINE c == SnapshotCursor
           s == Message("snapshot", c, incidents)
           q == channel \o <<s>>
<1>1. ProjectorIInv /\ PrunedBelow /\ TypeOK /\ ChannelInOrder /\ HandlerInStep /\ PageInStep
  BY DEF FeedIInv
<1>2. /\ UNCHANGED <<tables, shown, cursor, notified>>
      /\ channel' = q \o Greeting(c) /\ last' = c /\ stage' = "idle"
  BY DEF SendSnapshot, page, projectorVars, database, tables
<1>3. c \in Nat /\ c < nextCursor /\ \A r \in feed : r.cursor <= c
  BY <1>1, SnapshotCursorIs
<1>4. \A r \in fed : r.cursor <= c
  BY <1>1, <1>3 DEF PrunedBelow, ProjectorIInv, ProjectorTypeOK
<1>5. /\ incidents \in [Incident -> 0..MaxRevision] /\ \A i \in Incident : incidents[i] \in Nat
      /\ channel \in Seq(Messages) /\ Chain(channel)
  BY <1>1 DEF ProjectorIInv, ProjectorTypeOK, ChannelInOrder
<1> HIDE DEF c
<1>6. s \in Messages /\ s.type = "snapshot" /\ s.cursor = c /\ s.content = incidents
  BY <1>3, <1>5, MessageIs DEF MessageType
<1>7. Covers(incidents, c)
  BY <1>1, IncidentsCover DEF Covers
<1> HIDE DEF s
<1>8. Follows(s, CursorAt(channel, Len(channel) + 1), LiveAt(channel, Len(channel) + 1))
  BY <1>3, <1>5, <1>6, <1>7 DEF Follows
<1>9. q \in Seq(Messages) /\ Chain(q) /\ CursorAt(q, Len(q) + 1) = c /\ LiveAt(q, Len(q) + 1)
  <2> DEFINE ms == <<s>>
  <2>1. ms \in Seq(Messages) /\ Len(ms) = 1 /\ ms[1] = s /\ \A n \in 1..Len(ms) : n = 1
    BY <1>6
  <2> HIDE DEF ms
  <2>2. \A n \in 1..Len(ms) :
           Follows(ms[n], IF n = 1 THEN CursorAt(channel, Len(channel) + 1) ELSE ms[n - 1].cursor,
                          IF n = 1 THEN LiveAt(channel, Len(channel) + 1) ELSE ms[n - 1].type # "reset")
    BY <1>8, <2>1
  <2>3. /\ channel \o ms \in Seq(Messages) /\ Chain(channel \o ms)
        /\ CursorAt(channel \o ms, Len(channel \o ms) + 1) = ms[Len(ms)].cursor
        /\ LiveAt(channel \o ms, Len(channel \o ms) + 1) <=> ms[Len(ms)].type # "reset"
    <3>1. Len(ms) > 0
      BY <2>1
    <3> QED
      BY <1>5, <2>1, <2>2, <3>1, Extended, Zenon
  <2> QED
    BY <1>6, <2>1, <2>3 DEF ms
<1> HIDE DEF q
<1>10. /\ Chain(q \o Greeting(c))
       /\ CursorAt(q \o Greeting(c), Len(q \o Greeting(c)) + 1) = c
       /\ LiveAt(q \o Greeting(c), Len(q \o Greeting(c)) + 1)
  <2> DEFINE ms == Greeting(c)
  <2>1. ms \in Seq(Messages) /\ Greets(ms, c)
    BY <1>3, GreetingIs DEF Greets
  <2> HIDE DEF ms
  <2>2. /\ Chain(q \o ms)
        /\ CursorAt(q \o ms, Len(q \o ms) + 1) = c
        /\ LiveAt(q \o ms, Len(q \o ms) + 1)
    BY <1>1, <1>3, <1>9, <2>1, Greeted, Zenon
  <2> QED
    BY <2>2 DEF ms
<1>11. ChannelInOrder' /\ CursorAt(channel, Len(channel) + 1)' = c /\ LiveAt(channel, Len(channel) + 1)'
  BY <1>2, <1>10, ChainCarried DEF ChannelInOrder, FeedTypes
<1>12. HandlerInStep'
  BY <1>2, <1>3, <1>4, <1>11 DEF HandlerInStep, tables
<1>13. PageInStep' /\ PrunedBelow'
  BY <1>1, <1>2, PageCarried DEF PrunedBelow, tables
<1> QED
  BY <1>11, <1>12, <1>13 DEF FeedIInv, FeedTypes

(* The oldest cursor: a reset, or the rows are there. *)
LEMMA ReadOldestKeeps ==
  ASSUME FeedIInv, ProjectorIInv', FeedTypes', ReadOldest
  PROVE  FeedIInv'
<1>1. ProjectorIInv /\ PrunedBelow /\ TypeOK /\ ChannelInOrder /\ HandlerInStep /\ PageInStep
  BY DEF FeedIInv
<1>2. UNCHANGED <<tables, shown, cursor, notified, last>> /\ stage = "oldest"
  BY DEF ReadOldest, page, projectorVars, database, tables
<1>3. PageInStep' /\ PrunedBelow'
  BY <1>1, <1>2, PageCarried DEF PrunedBelow, tables
<1>4. /\ channel \in Seq(Messages) /\ Chain(channel) /\ last \in Nat /\ last < nextCursor
      /\ CursorAt(channel, Len(channel) + 1) = last
      /\ LiveAt(channel, Len(channel) + 1) \/ Stale(last)
      /\ \A i \in Incident : incidents[i] \in Nat
      /\ \A r \in fed : r.cursor \in Nat
      /\ feed \subseteq fed
  BY <1>1, <1>2 DEF ChannelInOrder, HandlerInStep, TypeOK, ProjectorIInv, ProjectorTypeOK
<1>5. Expired <=> Stale(last)
  <2> DEFINE S == {r.cursor : r \in feed}
  <2>1. CASE feed = {}
    BY <2>1 DEF Expired, Stale
  <2>2. CASE feed # {}
    <3>1. S \in SUBSET Nat /\ S # {}
      BY <1>4, <2>2
    <3> HIDE DEF S
    <3>2. Min(S) \in S /\ \A y \in S : Min(S) <= y
      BY <3>1, MinOfNat
    <3>3. Min(S) \in Nat
      BY <3>1, <3>2
    <3>4. \A r \in feed : Min(S) <= r.cursor
      BY <3>2 DEF S
    <3>5. \E r \in feed : r.cursor = Min(S)
      BY <3>2 DEF S
    <3>6. Expired <=> last < Min(S) - 1
      BY <2>2 DEF Expired, S
    <3>7. Stale(last) <=> \A r \in feed : last + 1 < r.cursor
      BY <2>2 DEF Stale
    <3>8. last < Min(S) - 1 => \A r \in feed : last + 1 < r.cursor
      BY <1>4, <3>3, <3>4
    <3>9. (\A r \in feed : last + 1 < r.cursor) => last < Min(S) - 1
      BY <1>4, <3>3, <3>5
    <3> QED
      BY <3>6, <3>7, <3>8, <3>9
  <2> QED
    BY <2>1, <2>2
<1>6. CASE /\ Expired
           /\ channel' = Append(channel, Message("reset", last, Nothing))
           /\ stage' = "snapshot"
  <2> DEFINE m == Message("reset", last, Nothing)
             ms == <<m>>
  <2>1. m \in Messages /\ m.type = "reset" /\ m.cursor = last /\ m.content = Nothing
    BY <1>4, NothingType, MessageIs DEF MessageType
  <2>2. \A i \in Incident : Nothing[i] = 0
    BY DEF Nothing
  <2> HIDE DEF m
  <2>3. Follows(m, CursorAt(channel, Len(channel) + 1), LiveAt(channel, Len(channel) + 1))
    BY <1>4, <1>5, <1>6, <2>1, <2>2 DEF Follows
  <2>4. ms \in Seq(Messages) /\ Len(ms) = 1 /\ ms[1] = m /\ \A n \in 1..Len(ms) : n = 1
    BY <2>1
  <2>5. channel' = channel \o ms
    BY <1>4, <1>6, <2>1 DEF m
  <2> HIDE DEF ms
  <2>6. \A n \in 1..Len(ms) :
           Follows(ms[n], IF n = 1 THEN CursorAt(channel, Len(channel) + 1) ELSE ms[n - 1].cursor,
                          IF n = 1 THEN LiveAt(channel, Len(channel) + 1) ELSE ms[n - 1].type # "reset")
    BY <2>3, <2>4
  <2>7. Chain(channel \o ms)
    BY <1>4, <2>4, <2>6, Extended, Zenon
  <2>8. ChannelInOrder'
    BY <1>2, <2>5, <2>7, ChainCarried DEF ChannelInOrder, FeedTypes
  <2>9. HandlerInStep'
    BY <1>2, <1>4, <1>6 DEF HandlerInStep, tables
  <2> QED
    BY <1>3, <2>8, <2>9 DEF FeedIInv, FeedTypes
<1>7. CASE ~Expired /\ stage' = "rows" /\ channel' = channel
  <2>1. ChannelInOrder' /\ CursorAt(channel, Len(channel) + 1)' = last
                        /\ LiveAt(channel, Len(channel) + 1)'
    BY <1>2, <1>4, <1>5, <1>7, ChainCarried DEF ChannelInOrder, FeedTypes
  <2>2. \A r \in fed : r.cursor > last => r \in feed
    BY <1>1, <1>4, <1>5, <1>7 DEF Stale, PrunedBelow
  <2>3. HandlerInStep'
    BY <1>2, <1>4, <1>7, <2>1, <2>2 DEF HandlerInStep, tables
  <2> QED
    BY <1>3, <2>1, <2>3 DEF FeedIInv, FeedTypes
<1> QED
  BY <1>6, <1>7 DEF ReadOldest

(* A batch: each change is the next one, and nothing is left when done. *)
LEMMA ReadRowsKeeps ==
  ASSUME FeedIInv, ProjectorIInv', FeedTypes', ReadRows
  PROVE  FeedIInv'
<1> DEFINE rows == NextRows
           ms == Changes(NextRows)
           q == channel \o ms
           g == IF Done(NextRows) THEN Greeting(EndCursor) ELSE <<>>
<1>1. ProjectorIInv /\ PrunedBelow /\ TypeOK /\ ChannelInOrder /\ HandlerInStep /\ PageInStep
  BY DEF FeedIInv
<1>2. /\ UNCHANGED <<tables, shown, cursor, notified>> /\ stage = "rows"
      /\ channel' = q \o g /\ last' = EndCursor
      /\ stage' = IF Done(NextRows) THEN "idle" ELSE "oldest"
  BY ReadRowsIs DEF page, projectorVars, database, tables
<1>3. PageInStep' /\ PrunedBelow'
  BY <1>1, <1>2, PageCarried DEF PrunedBelow, tables
<1>4. /\ channel \in Seq(Messages) /\ Chain(channel) /\ last \in Nat /\ last < nextCursor
      /\ nextCursor \in Nat
      /\ CursorAt(channel, Len(channel) + 1) = last
      /\ LiveAt(channel, Len(channel) + 1)
      /\ \A i \in Incident : incidents[i] \in Nat
      /\ \A r \in fed : r.cursor \in Nat /\ r.cursor < nextCursor
      /\ feed \subseteq fed
      /\ \A r \in fed : r.cursor > last => r \in RowsBehind
  BY <1>1, <1>2 DEF ChannelInOrder, HandlerInStep, TypeOK, ProjectorIInv, ProjectorTypeOK,
       CursorsAhead, RowsBehind
<1>5. /\ rows \in Seq(RowsBehind)
      /\ \A n \in 1..Len(rows) : \A s \in RowsBehind :
           s.cursor <= rows[n].cursor /\ (n > 1 => rows[n - 1].cursor < s.cursor) => s = rows[n]
      /\ Done(NextRows) => \A s \in RowsBehind : Len(rows) > 0 /\ s.cursor <= rows[Len(rows)].cursor
  BY <1>1, <1>4, NextRowsInOrder
<1>6. /\ ms \in Seq(Messages) /\ Len(ms) = Len(rows) /\ Len(rows) \in Nat
      /\ \A n \in 1..Len(rows) :
           /\ rows[n] \in feed /\ rows[n].cursor > last
           /\ ms[n].type = "change" /\ ms[n].cursor = rows[n].cursor
           /\ ms[n].content = [Nothing EXCEPT ![rows[n].incident] = rows[n].revision]
  <2>1. \A n \in 1..Len(rows) : rows[n].cursor > last
    BY <1>5 DEF RowsBehind
  <2>2. /\ ms \in Seq(Messages) /\ Len(ms) = Len(rows)
        /\ \A n \in 1..Len(rows) :
             /\ rows[n] \in feed
             /\ ms[n].type = "change" /\ ms[n].cursor = rows[n].cursor
             /\ ms[n].content = [Nothing EXCEPT ![rows[n].incident] = rows[n].revision]
    BY <1>1, <1>5, ChangesAre, Zenon
  <2>3. Len(rows) \in Nat
    BY <1>5
  <2> QED
    BY <2>1, <2>2, <2>3, Zenon
<1>7. /\ EndCursor = IF rows = <<>> THEN last ELSE rows[Len(rows)].cursor
      /\ EndCursor \in Nat
  BY <1>1, <1>4, EndCursorType DEF EndCursor
<1> HIDE DEF rows, ms
<1>8. ASSUME NEW n \in 1..Len(ms)
      PROVE  Follows(ms[n], IF n = 1 THEN CursorAt(channel, Len(channel) + 1) ELSE ms[n - 1].cursor,
                            IF n = 1 THEN LiveAt(channel, Len(channel) + 1) ELSE ms[n - 1].type # "reset")
  <2> DEFINE r == rows[n]
             p == IF n = 1 THEN last ELSE rows[n - 1].cursor
  <2>1. n \in 1..Len(rows) /\ (n # 1 => n - 1 \in 1..Len(rows) /\ n > 1) /\ n \in Nat
    BY <1>6
  <2>2. /\ r \in fed /\ r.cursor > last /\ r.cursor \in Nat /\ r.cursor < nextCursor
        /\ ms[n].type = "change" /\ ms[n].cursor = r.cursor
        /\ ms[n].content = [Nothing EXCEPT ![r.incident] = r.revision]
    BY <1>4, <1>6, <2>1
  <2>3. r.incident \in Incident /\ r.revision \in Nat /\ incidents[r.incident] >= r.revision
    BY <1>1, <2>2, IncidentsCover
  <2>4. /\ ms[n].content[r.incident] = r.revision
        /\ \A i \in Incident : ms[n].content[i] <= incidents[i]
    BY <1>4, <2>2, <2>3 DEF Nothing
  <2>5. p \in Int /\ p >= last
    <3>1. n # 1 => rows[n - 1] \in fed /\ rows[n - 1].cursor > last
      BY <1>4, <1>6, <2>1
    <3>2. n # 1 => rows[n - 1].cursor \in Nat
      BY <1>4, <3>1
    <3> HIDE DEF r
    <3> QED
      BY <1>4, <3>1, <3>2
  <2>6. \A s \in fed : p < s.cursor /\ s.cursor <= r.cursor => s = r
    <3> SUFFICES ASSUME NEW s \in fed, p < s.cursor, s.cursor <= r.cursor
                 PROVE  s = r
      OBVIOUS
    <3>1. s \in RowsBehind
      BY <1>4, <2>5
    <3>2. n > 1 => rows[n - 1].cursor < s.cursor
      BY <2>1
    <3> QED
      BY <1>5, <2>1, <3>1, <3>2
  <2> HIDE DEF r
  <2>7. Follows(ms[n], p, TRUE)
    BY <2>2, <2>3, <2>4, <2>6 DEF Follows
  <2>8. CASE n = 1
    BY <1>4, <2>7, <2>8 DEF Follows
  <2>9. CASE n # 1
    <3>1. ms[n - 1].type = "change" /\ ms[n - 1].cursor = p
      BY <1>6, <2>1, <2>9
    <3> QED
      BY <2>7, <2>9, <3>1 DEF Follows
  <2> QED
    BY <2>8, <2>9
<1>9. q \in Seq(Messages) /\ Chain(q)
  BY <1>4, <1>6, <1>8, Extended, Zenon
<1>10. CursorAt(q, Len(q) + 1) = EndCursor /\ LiveAt(q, Len(q) + 1)
  <2>1. CASE Len(ms) = 0
    <3>1. /\ CursorAt(q, Len(q) + 1) = CursorAt(channel, Len(channel) + 1)
          /\ LiveAt(q, Len(q) + 1) = LiveAt(channel, Len(channel) + 1)
      BY <1>4, <1>6, <1>8, <2>1, Extended, Zenon
    <3>2. rows = <<>>
      <4>1. rows \in Seq(RowsBehind) /\ Len(rows) = 0
        BY <1>5, <1>6, <2>1
      <4> QED
        BY <4>1
    <3> QED
      BY <1>4, <1>7, <3>1, <3>2
  <2>2. CASE Len(ms) > 0
    <3>1. /\ CursorAt(q, Len(q) + 1) = ms[Len(ms)].cursor
          /\ LiveAt(q, Len(q) + 1) <=> ms[Len(ms)].type # "reset"
      BY <1>4, <1>6, <1>8, <2>2, Extended, Zenon
    <3>2. rows # <<>> /\ Len(ms) \in 1..Len(rows) /\ Len(ms) = Len(rows)
      BY <1>5, <1>6, <2>2
    <3>3. ms[Len(ms)].cursor = EndCursor /\ ms[Len(ms)].type = "change"
      BY <1>6, <1>7, <3>2
    <3> QED
      BY <3>1, <3>3
  <2> QED
    BY <1>6, <2>1, <2>2
<1>11. EndCursor < nextCursor /\ EndCursor >= last
  <2>1. CASE rows = <<>>
    BY <1>4, <1>7, <2>1
  <2>2. CASE rows # <<>>
    <3>1. Len(rows) \in 1..Len(rows)
      BY <1>5, <2>2
    <3>2. EndCursor = rows[Len(rows)].cursor
      BY <1>7, <2>2
    <3>3. rows[Len(rows)] \in fed /\ rows[Len(rows)].cursor > last
      BY <1>4, <1>6, <3>1
    <3> QED
      BY <1>4, <3>2, <3>3
  <2> QED
    BY <2>1, <2>2
<1>12. g \in Seq(Messages) /\ Greets(g, EndCursor)
  <2>1. Greeting(EndCursor) \in Seq(Messages) /\ Greets(Greeting(EndCursor), EndCursor)
    BY <1>7, GreetingIs DEF Greets
  <2>2. <<>> \in Seq(Messages) /\ Greets(<<>>, EndCursor)
    BY DEF Greets
  <2> QED
    BY <2>1, <2>2
<1> HIDE DEF q, g
<1>13. /\ Chain(q \o g)
       /\ CursorAt(q \o g, Len(q \o g) + 1) = EndCursor
       /\ LiveAt(q \o g, Len(q \o g) + 1)
  BY <1>1, <1>7, <1>9, <1>10, <1>11, <1>12, Greeted, Zenon
<1>14. ChannelInOrder' /\ CursorAt(channel, Len(channel) + 1)' = EndCursor
                       /\ LiveAt(channel, Len(channel) + 1)'
  BY <1>2, <1>13, ChainCarried DEF ChannelInOrder, FeedTypes
<1>15. Done(NextRows) => \A r \in fed : r.cursor <= EndCursor
  <2> SUFFICES ASSUME Done(NextRows), NEW r \in fed
               PROVE  r.cursor <= EndCursor
    OBVIOUS
  <2>1. CASE r.cursor <= last
    BY <1>4, <1>7, <1>11, <2>1
  <2>2. CASE r.cursor > last
    <3>1. r \in RowsBehind
      BY <1>4, <2>2
    <3>2. Len(rows) > 0 /\ r.cursor <= rows[Len(rows)].cursor
      BY <1>5, <3>1
    <3>3. rows # <<>>
      BY <3>2
    <3> QED
      BY <1>7, <3>2, <3>3
  <2> QED
    BY <1>4, <2>1, <2>2
<1>16. HandlerInStep'
  BY <1>2, <1>11, <1>14, <1>15 DEF HandlerInStep, tables
<1> QED
  BY <1>3, <1>14, <1>16 DEF FeedIInv, FeedTypes

(* A message reaches the page: the rest of the channel still follows. *)
LEMMA OnMessageKeeps ==
  ASSUME FeedIInv, ProjectorIInv', FeedTypes', OnMessage
  PROVE  FeedIInv'
<1> DEFINE m == Head(channel)
<1>1. ProjectorIInv /\ PrunedBelow /\ TypeOK /\ ChannelInOrder /\ HandlerInStep /\ PageInStep
  BY DEF FeedIInv
<1>2. /\ UNCHANGED <<tables, stage, last, notified>>
      /\ channel # <<>> /\ channel' = Tail(channel)
      /\ shown' = CASE m.type = "snapshot" -> m.content
                    [] m.type = "reset" -> Nothing
                    [] m.type = "change" -> Newer(m)
                    [] OTHER -> shown
      /\ cursor' = IF m.type = "reset" THEN cursor ELSE m.cursor
  BY DEF OnMessage, projectorVars, database, tables, handler
<1>3. /\ channel \in Seq(Messages) /\ channel' \in Seq(Messages)
      /\ Len(channel) \in Nat /\ Len(channel) > 0 /\ Len(channel') = Len(channel) - 1
      /\ m = channel[1] /\ m \in Messages
      /\ \A k \in 1..Len(channel') : channel'[k] = channel[k + 1]
  <2>1. channel \in Seq(Messages) /\ channel # <<>>
    BY <1>1, <1>2 DEF ChannelInOrder
  <2> QED
    BY <1>2, <2>1
<1>4. /\ m.cursor \in Nat /\ \A i \in Incident : m.content[i] \in Nat
      /\ m.type \in MessageType
  BY <1>3 DEF Messages
<1>5. /\ nextCursor \in Nat /\ cursor \in Int
      /\ \A i \in Incident : incidents[i] \in Nat /\ shown[i] \in Nat
      /\ \A r \in fed : r.cursor \in Nat /\ r.incident \in Incident /\ r.revision \in Nat
      /\ shown \in [Incident -> 0..MaxRevision]
  BY <1>1 DEF TypeOK, None, ProjectorIInv, ProjectorTypeOK, Revision
<1> HIDE DEF m
<1>6. Follows(m, cursor, Covers(shown, cursor))
  <2>1. Follows(channel[1], CursorAt(channel, 1), LiveAt(channel, 1))
    BY <1>1, <1>3 DEF ChannelInOrder, Chain
  <2> QED
    BY <1>3, <2>1 DEF CursorAt, LiveAt
<1>7. cursor' = m.cursor /\ cursor' < nextCursor
  BY <1>2, <1>4, <1>6 DEF Follows
<1>8. /\ Newer(m) \in [Incident -> 0..MaxRevision]
      /\ \A i \in Incident : /\ Newer(m)[i] >= shown[i] /\ Newer(m)[i] >= m.content[i]
                             /\ Newer(m)[i] \in {shown[i], m.content[i]}
  BY <1>3, <1>5, NewerIs
<1>9. \A i \in Incident : shown'[i] <= incidents[i]
  <2>1. \A i \in Incident : m.content[i] <= incidents[i] /\ shown[i] <= incidents[i]
    BY <1>1, <1>6 DEF Follows, PageInStep
  <2>2. \A i \in Incident : Nothing[i] <= incidents[i]
    BY <1>5 DEF Nothing
  <2>3. \A i \in Incident : Newer(m)[i] <= incidents[i]
    BY <1>8, <2>1
  <2>4. shown' \in {m.content, Nothing, Newer(m), shown}
    BY <1>2
  <2> QED
    BY <2>1, <2>2, <2>3, <2>4
<1>10. ASSUME m.type # "reset" PROVE Covers(shown, cursor)'
  <2>1. CASE m.type = "snapshot"
    <3>1. shown' = m.content /\ Covers(m.content, m.cursor) /\ fed' = fed
      BY <1>2, <1>6, <2>1 DEF Follows, tables
    <3> QED
      BY <1>7, <3>1 DEF Covers
  <2>2. CASE m.type = "change"
    <3>1. shown' = Newer(m) /\ fed' = fed
      BY <1>2, <2>2 DEF tables
    <3>2. Covers(shown, cursor)
      BY <1>6, <2>2 DEF Follows
    <3>3. PICK r \in fed : /\ r.cursor = m.cursor
                           /\ m.content[r.incident] >= r.revision
                           /\ \A s \in fed : cursor < s.cursor /\ s.cursor <= m.cursor => s = r
      BY <1>6, <2>2 DEF Follows
    <3>4. ASSUME NEW s \in fed, s.cursor <= m.cursor PROVE Newer(m)[s.incident] >= s.revision
      <4>1. s.incident \in Incident /\ s.revision \in Nat /\ s.cursor \in Nat
        BY <1>5
      <4>2. /\ shown[s.incident] \in Nat /\ m.content[s.incident] \in Nat /\ Newer(m)[s.incident] \in Nat
            /\ Newer(m)[s.incident] >= shown[s.incident] /\ Newer(m)[s.incident] >= m.content[s.incident]
        BY <1>4, <1>5, <1>8, <4>1
      <4>3. CASE s.cursor <= cursor
        <5>1. shown[s.incident] >= s.revision
          BY <3>2, <4>3 DEF Covers
        <5> QED
          BY <4>1, <4>2, <5>1
      <4>4. CASE cursor < s.cursor
        <5>1. s = r
          BY <3>3, <3>4, <4>4
        <5>2. m.content[s.incident] >= s.revision
          BY <3>3, <5>1
        <5> QED
          BY <4>1, <4>2, <5>2
      <4> QED
        BY <1>5, <4>1, <4>3, <4>4
    <3> QED
      BY <1>7, <3>1, <3>4 DEF Covers
  <2>3. CASE m.type \in {"live", "ping"}
    <3>1. shown' = shown /\ fed' = fed /\ cursor' = cursor /\ Covers(shown, cursor)
      BY <1>2, <1>6, <2>3 DEF Follows, tables
    <3> QED
      BY <3>1 DEF Covers
  <2> QED
    BY <1>4, <1>10, <2>1, <2>2, <2>3 DEF MessageType
<1>11. PageInStep'
  <2>1. CASE m.type = "reset"
    <3>1. Stale(cursor)' /\ nextCursor' = nextCursor /\ incidents' = incidents
      BY <1>2, <1>6, <2>1 DEF Follows, Stale, tables
    <3> QED
      BY <1>7, <1>9, <3>1 DEF PageInStep
  <2>2. CASE m.type # "reset"
    BY <1>2, <1>7, <1>9, <1>10, <2>2 DEF PageInStep, tables
  <2> QED
    BY <2>1, <2>2
<1>12. \A k \in 1..Len(channel) :
         /\ CursorAt(channel, k)' = CursorAt(channel, k + 1)
         /\ LiveAt(channel, k + 1) => LiveAt(channel, k)'
  <2> TAKE k \in 1..Len(channel)
  <2>1. k + 1 # 1 /\ (k + 1) - 1 = k
    BY <1>3
  <2>2. CASE k = 1
    <3>1. CursorAt(channel, k)' = cursor' /\ CursorAt(channel, k + 1) = m.cursor
      BY <1>3, <2>1, <2>2 DEF CursorAt
    <3>2. LiveAt(channel, k)' = Covers(shown, cursor)'
      BY <2>2 DEF LiveAt
    <3>3. LiveAt(channel, k + 1) => m.type # "reset"
      BY <1>3, <2>1, <2>2 DEF LiveAt
    <3> QED
      BY <1>7, <1>10, <3>1, <3>2, <3>3
  <2>3. CASE k # 1
    <3>1. channel'[k - 1] = channel[k]
      <4>1. k - 1 \in 1..Len(channel') /\ (k - 1) + 1 = k
        BY <1>3, <2>3
      <4> QED
        BY <1>3, <4>1
    <3>2. CursorAt(channel, k)' = CursorAt(channel, k + 1)
      BY <2>1, <2>3, <3>1 DEF CursorAt
    <3>3. LiveAt(channel, k + 1) => LiveAt(channel, k)'
      BY <2>1, <2>3, <3>1 DEF LiveAt
    <3> QED
      BY <3>2, <3>3
  <2> QED
    BY <2>2, <2>3
<1>13. FeedGrows
  BY <1>2, <1>5 DEF FeedGrows, tables
<1>14. Chain(channel)'
  <2> SUFFICES ASSUME NEW k \in 1..Len(channel')
               PROVE  Follows(channel[k], CursorAt(channel, k), LiveAt(channel, k))'
    BY DEF Chain
  <2>1. k \in 1..Len(channel) /\ k + 1 \in 1..Len(channel) /\ (k + 1) - 1 = k /\ k + 1 # 1
    BY <1>3
  <2>2. CursorAt(channel, k + 1) \in Int /\ channel[k + 1] \in Messages
    <3>1. channel[k] \in Messages /\ channel[k + 1] \in Messages
      BY <1>3, <2>1
    <3>2. \A x \in Messages : x.cursor \in Int
      BY DEF Messages
    <3> QED
      BY <2>1, <3>1, <3>2 DEF CursorAt
  <2>3. PICK n \in Messages : n = channel[k + 1]
    BY <2>2
  <2>4. PICK c \in Int : c = CursorAt(channel, k + 1)
    BY <2>2
  <2>5. PICK live \in BOOLEAN : live = LiveAt(channel, k + 1)
    BY DEF LiveAt, Covers
  <2>6. PICK live2 \in BOOLEAN : live2 = LiveAt(channel, k)'
    BY DEF LiveAt, Covers
  <2>7. Follows(n, c, live) /\ (live => live2)
    BY <1>1, <1>12, <2>1, <2>3, <2>4, <2>5, <2>6 DEF ChannelInOrder, Chain
  <2>8. Follows(n, c, live2)'
    BY <1>1, <1>13, <2>7, FollowsKept
  <2>9. channel'[k] = n /\ CursorAt(channel, k)' = c /\ LiveAt(channel, k)' = live2
    BY <1>3, <1>12, <2>1, <2>3, <2>4, <2>6
  <2> QED
    BY <2>8, <2>9 DEF Follows, Covers, Stale
<1>15. HandlerInStep'
  <2>1. Len(channel) \in 1..Len(channel) /\ Len(channel') + 1 = Len(channel)
    BY <1>3
  <2>2. /\ CursorAt(channel, Len(channel) + 1)' = CursorAt(channel, Len(channel) + 1)
        /\ LiveAt(channel, Len(channel) + 1) => LiveAt(channel, Len(channel) + 1)'
    <3>1. PICK k \in 1..Len(channel) : k = Len(channel)
      BY <2>1
    <3>2. /\ CursorAt(channel, k)' = CursorAt(channel, k + 1)
          /\ LiveAt(channel, k + 1) => LiveAt(channel, k)'
      BY <1>12
    <3>3. CursorAt(channel, Len(channel) + 1)' = CursorAt(channel, k)'
      BY <2>1, <3>1 DEF CursorAt
    <3>4. LiveAt(channel, Len(channel) + 1)' = LiveAt(channel, k)'
      BY <2>1, <3>1 DEF LiveAt
    <3> QED
      BY <3>1, <3>2, <3>3, <3>4
  <2>3. Stale(last) => Stale(last)'
    BY <1>2 DEF Stale, tables
  <2>4. stage # "closed"
    BY <1>1, <1>2 DEF HandlerInStep
  <2> QED
    BY <1>1, <1>2, <2>2, <2>3, <2>4 DEF HandlerInStep, tables
<1>16. PrunedBelow'
  BY <1>1, <1>2 DEF PrunedBelow, tables
<1> QED
  BY <1>3, <1>11, <1>14, <1>15, <1>16 DEF FeedIInv, FeedTypes, ChannelInOrder

(* The other steps leave the channel as it is, or empty. *)
LEMMA OthersKeep ==
  ASSUME FeedIInv, ProjectorIInv', FeedTypes',
         Connect \/ Wake \/ Ping \/ Disconnect \/ UNCHANGED vars
  PROVE  FeedIInv'
<1>1. ProjectorIInv /\ PrunedBelow /\ TypeOK /\ ChannelInOrder /\ HandlerInStep /\ PageInStep
  BY DEF FeedIInv
<1>2. UNCHANGED <<tables, shown, cursor>>
  BY DEF Connect, Wake, Ping, Disconnect, vars, page, feedVars, projectorVars, database, tables
<1>3. PageInStep' /\ PrunedBelow'
  BY <1>1, <1>2, PageCarried DEF PrunedBelow, tables
<1>4. /\ channel \in Seq(Messages) /\ Chain(channel) /\ last \in Nat /\ last < nextCursor
      /\ cursor \in Nat \cup {None}
  BY <1>1 DEF ChannelInOrder, HandlerInStep, TypeOK
<1>5. channel' = channel =>
        /\ ChannelInOrder'
        /\ CursorAt(channel, Len(channel) + 1)' = CursorAt(channel, Len(channel) + 1)
        /\ LiveAt(channel, Len(channel) + 1)' = LiveAt(channel, Len(channel) + 1)
  BY <1>2, <1>4, ChainCarried DEF ChannelInOrder
<1>6. \A c : Stale(c)' = Stale(c)
  BY <1>2 DEF Stale, tables
<1>7. CASE Connect
  <2>1. /\ stage = "closed" /\ channel = <<>> /\ channel' = channel /\ Len(channel) = 0
        /\ stage' = IF cursor = None THEN "snapshot" ELSE "oldest"
        /\ last' = IF cursor = None THEN 0 ELSE cursor
    BY <1>1, <1>7 DEF Connect, HandlerInStep
  <2>2. nextCursor' = nextCursor /\ 0 < nextCursor /\ cursor < nextCursor
    BY <1>1, <1>2 DEF tables, ProjectorIInv, ProjectorTypeOK, PageInStep
  <2>3. CursorAt(channel, Len(channel) + 1) = cursor /\ LiveAt(channel, Len(channel) + 1) = Covers(shown, cursor)
    BY <2>1 DEF CursorAt, LiveAt
  <2>4. Covers(shown, cursor) \/ Stale(cursor)
    BY <1>1 DEF PageInStep
  <2>5. Stale(last)' <=> Stale(last')
    BY <1>2 DEF Stale, tables
  <2>6. HandlerInStep'
    BY <1>5, <2>1, <2>2, <2>3, <2>4, <2>5 DEF HandlerInStep
  <2> QED
    BY <1>3, <1>5, <2>1, <2>6 DEF FeedIInv, FeedTypes
<1>8. CASE Wake
  <2>1. stage = "idle" /\ stage' = "oldest" /\ last' = last /\ channel' = channel
    BY <1>8 DEF Wake
  <2>2. HandlerInStep'
    BY <1>1, <1>2, <1>5, <2>1 DEF HandlerInStep, tables
  <2> QED
    BY <1>3, <1>5, <2>1, <2>2 DEF FeedIInv, FeedTypes
<1>9. CASE Ping
  <2> DEFINE m == Message("ping", last, Nothing)
             ms == <<m>>
  <2>1. /\ stage = "idle" /\ ~notified /\ channel = <<>> /\ channel' = ms
        /\ UNCHANGED <<stage, last, notified>>
    BY <1>9 DEF Ping, handler
  <2>2. m \in Messages /\ m.type = "ping" /\ m.cursor = last /\ m.content = Nothing
    BY <1>4, NothingType, MessageIs DEF MessageType
  <2>3. ms \in Seq(Messages) /\ Greets(ms, last) /\ channel' = channel \o ms
    BY <2>1, <2>2 DEF Greets
  <2>4. CursorAt(channel, Len(channel) + 1) = last /\ LiveAt(channel, Len(channel) + 1)
    BY <1>1, <2>1 DEF HandlerInStep
  <2> HIDE DEF ms, m
  <2>5. /\ Chain(channel \o ms)
        /\ CursorAt(channel \o ms, Len(channel \o ms) + 1) = last
        /\ LiveAt(channel \o ms, Len(channel \o ms) + 1)
    BY <1>1, <1>4, <2>3, <2>4, Greeted, Zenon
  <2>6. ChannelInOrder' /\ CursorAt(channel, Len(channel) + 1)' = last /\ LiveAt(channel, Len(channel) + 1)'
    BY <1>2, <2>3, <2>5, ChainCarried DEF ChannelInOrder, FeedTypes
  <2>7. HandlerInStep'
    BY <1>1, <1>2, <2>1, <2>6 DEF HandlerInStep, tables
  <2> QED
    BY <1>3, <2>6, <2>7 DEF FeedIInv, FeedTypes
<1>10. CASE Disconnect
  <2>1. stage' = "closed" /\ channel' = <<>> /\ last' = last
    BY <1>10 DEF Disconnect
  <2>2. ChannelInOrder'
    BY <2>1 DEF ChannelInOrder, Chain
  <2>3. HandlerInStep'
    BY <1>2, <1>4, <2>1 DEF HandlerInStep, tables
  <2> QED
    BY <1>3, <2>2, <2>3 DEF FeedIInv, FeedTypes
<1>11. CASE UNCHANGED vars
  <2>1. UNCHANGED <<stage, last, notified, channel>>
    BY <1>11 DEF vars, feedVars, handler
  <2>2. Stale(last)' = Stale(last)
    BY <1>2, <2>1 DEF Stale, tables
  <2>3. HandlerInStep'
    BY <1>1, <1>2, <1>5, <2>1, <2>2 DEF HandlerInStep, tables
  <2> QED
    BY <1>3, <1>5, <2>1, <2>3 DEF FeedIInv, FeedTypes
<1> QED
  BY <1>7, <1>8, <1>9, <1>10, <1>11

-----------------------------------------------------------------------------
(* The theorems of the feed.                                               *)

LEMMA FeedStep ==
  ASSUME ~PruneAll, ~PruneInRead, FeedIInv, [Next]_vars
  PROVE  FeedIInv'
<1>1. ProjectorIInv /\ FeedTypes
  BY DEF FeedIInv, FeedTypes, ChannelInOrder
<1>2. ProjectorIInv'
  BY <1>1, FeedStepsProject, ProjectorStep
<1>3. FeedTypes'
  BY <1>1, <1>2, FeedTypesStep
<1>4. CASE Project
  BY <1>2, <1>3, <1>4, ProjectKeeps
<1>5. CASE SendSnapshot
  BY <1>2, <1>3, <1>5, SendSnapshotKeeps
<1>6. CASE ReadOldest
  BY <1>2, <1>3, <1>6, ReadOldestKeeps
<1>7. CASE ReadRows
  BY <1>2, <1>3, <1>7, ReadRowsKeeps
<1>8. CASE OnMessage
  BY <1>2, <1>3, <1>8, OnMessageKeeps
<1>9. CASE Connect \/ Wake \/ Ping \/ Disconnect \/ UNCHANGED vars
  BY <1>2, <1>3, <1>9, OthersKeep
<1> QED
  BY <1>4, <1>5, <1>6, <1>7, <1>8, <1>9 DEF Next

LEMMA FeedInvariance ==
  ASSUME ~PruneAll, ~PruneInRead
  PROVE  Spec => []FeedIInv
<1>1. Init => FeedIInv
  BY FeedStarts
<1>2. FeedIInv /\ [Next]_vars => FeedIInv'
  BY FeedStep
<1> QED
  BY <1>1, <1>2, PTL DEF Spec

LEMMA FeedIInvSuffices == FeedIInv => CursorCovers /\ PageIsCurrent
<1> SUFFICES ASSUME FeedIInv PROVE CursorCovers /\ PageIsCurrent
  OBVIOUS
<1>1. ProjectorIInv /\ PrunedBelow /\ TypeOK /\ ChannelInOrder /\ HandlerInStep /\ PageInStep
  BY DEF FeedIInv
<1>2. /\ \A r \in fed : r.cursor \in Nat /\ r.revision \in Nat
      /\ feed \subseteq fed
      /\ incidents \in [Incident -> 0..MaxRevision]
      /\ shown \in [Incident -> 0..MaxRevision]
      /\ cursor \in Int
  BY <1>1 DEF ProjectorIInv, ProjectorTypeOK, TypeOK, None, Revision
<1>3. CursorCovers
  <2>1. CASE Covers(shown, cursor)
    BY <2>1 DEF CursorCovers, Covers
  <2>2. CASE Stale(cursor)
    <3> DEFINE S == {r.cursor : r \in feed}
    <3>1. S \in SUBSET Nat /\ S # {} /\ \A y \in S : cursor + 1 < y
      BY <1>2, <2>2 DEF Stale
    <3> HIDE DEF S
    <3>2. Min(S) \in S
      BY <3>1, MinOfNat
    <3>3. Min(S) \in Nat /\ cursor + 1 < Min(S)
      BY <3>1, <3>2
    <3>4. cursor < Min(S) - 1
      BY <1>2, <3>3
    <3> QED
      BY <2>2, <3>4 DEF CursorCovers, Stale, S
  <2> QED
    BY <1>1, <2>1, <2>2 DEF PageInStep
<1>4. PageIsCurrent
  <2> SUFFICES ASSUME stage = "idle", ~notified, channel = <<>>
               PROVE  shown = incidents
    BY DEF PageIsCurrent
  <2>1. cursor = last /\ Covers(shown, cursor)
    <3>1. Len(channel) + 1 = 1
      OBVIOUS
    <3> QED
      BY <1>1, <3>1 DEF HandlerInStep, CursorAt, LiveAt
  <2>2. \A r \in fed : r.cursor <= cursor
    BY <1>1, <2>1 DEF HandlerInStep
  <2>3. \A i \in Incident : shown[i] <= incidents[i]
    BY <1>1 DEF PageInStep
  <2>4. \A i \in Incident : shown[i] >= incidents[i]
    <3> TAKE i \in Incident
    <3>1. CASE incidents[i] = 0
      BY <1>2, <3>1
    <3>2. CASE \E r \in fed : r.incident = i /\ r.revision = incidents[i]
      BY <2>1, <2>2, <3>2 DEF Covers
    <3> QED
      BY <1>1, <3>1, <3>2, IncidentsCover
  <2>5. \A i \in Incident : shown[i] = incidents[i]
    BY <1>2, <2>3, <2>4
  <2> QED
    BY <1>2, <2>5
<1> QED
  BY <1>3, <1>4

(* Wherever the connection breaks, the page has shown every change up to   *)
(* the cursor it resumes with, or that cursor is answered with a reset:    *)
(* for a feed in which some row always stays and that is not pruned        *)
(* between the two reads of Store.changes (main.py live, index.html).      *)
THEOREM CursorsCover ==
  ASSUME ~PruneAll, ~PruneInRead
  PROVE  Spec => []CursorCovers
<1>1. FeedIInv => CursorCovers
  BY FeedIInvSuffices
<1> QED
  BY <1>1, FeedInvariance, PTL

(* Under the same conditions a page that is connected and has nothing on   *)
(* the way shows what the database has, for every batch size and every     *)
(* interleaving of commits, reads, notifications and reconnects.           *)
THEOREM PagesAreCurrent ==
  ASSUME ~PruneAll, ~PruneInRead
  PROVE  Spec => []PageIsCurrent
<1>1. FeedIInv => PageIsCurrent
  BY FeedIInvSuffices
<1> QED
  BY <1>1, FeedInvariance, PTL

=============================================================================
