---------------------------- MODULE IncidentFeed ----------------------------
(***************************************************************************)
(* How an incident reaches a browser: the projector's tables, the incident *)
(* API's WebSocket handler (main.py) and the live page (index.html).       *)
(*                                                                         *)
(* Abstractions.                                                           *)
(*  - One page.  Its connection is a FIFO of messages; a disconnect loses  *)
(*    what is in it and ends the handler.                                  *)
(*  - Fewer incidents than the limit of a snapshot.  Health messages are   *)
(*    left out.                                                            *)
(*  - Each SQL statement is one step; a snapshot is one (REPEATABLE READ). *)
(*    Notifications of a LISTENing session are kept until it reads them.   *)
(***************************************************************************)
EXTENDS IncidentProjector

CONSTANTS
  BATCH,           \* rows of one read of the feed
  PruneAll,        \* whether the feed may be pruned to nothing
  PruneInRead,     \* whether it may be pruned between two reads of changes
  MaxDisconnects   \* bound: lost connections of the page

ASSUME FeedAssumption ==
  /\ BATCH \in Nat \ {0}
  /\ PruneAll \in BOOLEAN
  /\ PruneInRead \in BOOLEAN
  /\ MaxDisconnects \in Nat

VARIABLES
  (* the WebSocket handler *)
  stage,        \* where it is: see Stage
  last,         \* the cursor sent last
  greeted,      \* the "live" message was sent
  notified,     \* a notification waits
  (* on the way, and in the page *)
  channel,      \* messages to the page
  shown,        \* state.incidents: incident -> revision, 0 if there is none
  cursor,       \* state.cursor, or None
  connected,    \* the banner is hidden
  disconnects

handler == <<stage, last, greeted, notified>>
page == <<shown, cursor, connected>>
feedVars == <<handler, channel, page, disconnects>>
vars == <<projectorVars, feedVars>>

None == -1
Nothing == [i \in Incident |-> 0]

(* closed: no handler; snapshot, oldest, rows: the read that is next; idle: *)
(* waiting for a notification.                                             *)
Stage == {"closed", "snapshot", "oldest", "rows", "idle"}

Message(type, c, t) == [type |-> type, cursor |-> c, content |-> t]

-----------------------------------------------------------------------------
(* The projector, beside the API.  A commit notifies who listens.          *)

(* Only rows of FEED_RETENTION (7 days) ago go: a handler that is live has *)
(* sent them, one that catches up may not have.                            *)
PruneAllowed(k) ==
  /\ stage # "closed" /\ greeted => k <= last
  /\ PruneAll \/ \E r \in feed : r.cursor > k
  /\ PruneInRead \/ stage # "rows"

Project ==
  /\ \/ \E t \in Transition \cup {Malformed} : Produce(t)
     \/ Apply
     \/ ApplyUnheard
     \/ ApplyRolledBack
     \/ CommitOffset
     \/ Restart
     \/ \E k \in 1..(MaxLog + MaxFaults) : PruneAllowed(k) /\ PruneFeed(k)
  /\ notified' = (notified \/ (stage # "closed" /\ fed' # fed))
  /\ UNCHANGED <<stage, last, greeted, channel, page, disconnects>>

-----------------------------------------------------------------------------
(* main.py, live.                                                          *)

(* The page connects; the handler LISTENs, then starts with a snapshot or  *)
(* with the changes after the page's cursor.                               *)
Connect ==
  /\ stage = "closed"
  /\ stage' = IF cursor = None THEN "snapshot" ELSE "oldest"
  /\ last' = IF cursor = None THEN 0 ELSE cursor
  /\ greeted' = FALSE
  /\ notified' = FALSE
  /\ UNCHANGED <<projectorVars, channel, page, disconnects>>

(* What follows the messages of a read that is done: "live" the first time. *)
Greeting(c) == IF greeted THEN <<>> ELSE <<Message("live", c, Nothing)>>

NewestCursor == Max({0} \cup {r.cursor : r \in feed})

\* Mutant: the snapshot's cursor is the next one.
SnapshotCursorNext == nextCursor

SnapshotCursor == NewestCursor

(* Store.snapshot and send_snapshot *)
SendSnapshot ==
  /\ stage = "snapshot"
  /\ channel' = channel \o <<Message("snapshot", SnapshotCursor, incidents)>>
                        \o Greeting(SnapshotCursor)
  /\ last' = SnapshotCursor
  /\ greeted' = TRUE
  /\ stage' = "idle"
  /\ UNCHANGED <<projectorVars, notified, page, disconnects>>

\* Mutant: a cursor is never too old.
ExpiredNever == FALSE

(* CursorExpired *)
Expired == feed # {} /\ last < Min({r.cursor : r \in feed}) - 1

(* Store.changes, the oldest cursor. *)
ReadOldest ==
  /\ stage = "oldest"
  /\ \/ /\ Expired
        /\ channel' = Append(channel, Message("reset", last, Nothing))
        /\ stage' = "snapshot"
     \/ /\ ~Expired
        /\ stage' = "rows"
        /\ UNCHANGED channel
  /\ UNCHANGED <<projectorVars, last, greeted, notified, page, disconnects>>

(* The rows behind `last`, in order, at most BATCH of them. *)
NextRows ==
  LET rows == {r \in feed : r.cursor > last}
      Rank(r) == Cardinality({s \in rows : s.cursor <= r.cursor})
  IN  [n \in 1..Min({BATCH, Cardinality(rows)}) |-> CHOOSE r \in rows : Rank(r) = n]

\* Mutant: one batch is read, whatever is left.
DoneAtOnce(rows) == TRUE

Done(rows) == Len(rows) < BATCH

(* Store.changes, the rows, and send_changes. *)
ReadRows ==
  LET rows == NextRows
      end == IF rows = <<>> THEN last ELSE rows[Len(rows)].cursor
      Change(r) == Message("change", r.cursor, [Nothing EXCEPT ![r.incident] = r.revision])
      changes == [n \in DOMAIN rows |-> Change(rows[n])]
  IN  /\ stage = "rows"
      /\ last' = end
      /\ channel' = channel \o changes \o (IF Done(rows) THEN Greeting(end) ELSE <<>>)
      /\ greeted' = (greeted \/ Done(rows))
      /\ stage' = IF Done(rows) THEN "idle" ELSE "oldest"
      /\ UNCHANGED <<projectorVars, notified, page, disconnects>>

(* A notification wakes the handler. *)
Wake ==
  /\ stage = "idle" /\ notified
  /\ notified' = FALSE
  /\ stage' = "oldest"
  /\ UNCHANGED <<projectorVars, last, greeted, channel, page, disconnects>>

(* No notification within PING_INTERVAL_S. *)
Ping ==
  /\ stage = "idle" /\ ~notified
  /\ channel = <<>>
  /\ channel' = <<Message("ping", last, Nothing)>>
  /\ UNCHANGED <<projectorVars, handler, page, disconnects>>

-----------------------------------------------------------------------------
(* index.html.                                                             *)

(* apply: a transition counts only if its revision is newer. *)
Newer(m) == [i \in Incident |-> Max({shown[i], m.content[i]})]

(* socket.onmessage *)
OnMessage ==
  LET m == Head(channel)
  IN  /\ channel # <<>>
      /\ channel' = Tail(channel)
      /\ shown' = CASE m.type = "snapshot" -> m.content
                    [] m.type = "reset" -> Nothing
                    [] m.type = "change" -> Newer(m)
                    [] OTHER -> shown
      /\ cursor' = IF m.type = "reset" THEN cursor ELSE m.cursor
      /\ connected' = (connected \/ m.type \in {"live", "ping"})
      /\ UNCHANGED <<projectorVars, handler, disconnects>>

(* The connection breaks; socket.onclose shows the banner. *)
Disconnect ==
  /\ stage # "closed"
  /\ disconnects < MaxDisconnects
  /\ disconnects' = disconnects + 1
  /\ stage' = "closed"
  /\ notified' = FALSE
  /\ channel' = <<>>
  /\ connected' = FALSE
  /\ UNCHANGED <<projectorVars, last, greeted, shown, cursor>>

Init ==
  /\ ProjectorInit
  /\ stage = "closed"
  /\ last = 0
  /\ greeted = FALSE
  /\ notified = FALSE
  /\ channel = <<>>
  /\ shown = Nothing
  /\ cursor = None
  /\ connected = FALSE
  /\ disconnects = 0

Serve == Connect \/ SendSnapshot \/ ReadOldest \/ ReadRows \/ Wake

Next ==
  \/ Project
  \/ Connect
  \/ SendSnapshot
  \/ ReadOldest
  \/ ReadRows
  \/ Wake
  \/ Ping
  \/ OnMessage
  \/ Disconnect

Spec == Init /\ [][Next]_vars

(* The page reconnects, the handler runs and messages arrive. *)
FairSpec == Spec /\ WF_vars(Serve) /\ WF_vars(OnMessage)

-----------------------------------------------------------------------------
(* Properties.                                                             *)

(* Types of the handler's and the page's state; a cursor is a number once  *)
(* a message brought one (live, socket.onmessage).                         *)
TypeOK ==
  /\ ProjectorTypeOK
  /\ stage \in Stage
  /\ last \in Nat
  /\ greeted \in BOOLEAN /\ notified \in BOOLEAN /\ connected \in BOOLEAN
  /\ shown \in [Incident -> 0..MaxRevision]
  /\ cursor \in Nat \cup {None}

(* A page that is connected and has nothing under way shows every incident *)
(* at its current revision: no change falls between snapshot, catch-up,    *)
(* LISTEN and live (main.py live, index.html onmessage).                   *)
PageIsCurrent ==
  connected /\ stage = "idle" /\ ~notified /\ channel = <<>> => shown = incidents

(* A reconnect at any moment misses nothing: the page shows every change   *)
(* up to the cursor it would resume with, or that cursor is answered with  *)
(* a reset and a snapshot (index.html connect, main.py changes).           *)
CursorCovers ==
  cursor # None =>
    \/ \A r \in fed : r.cursor <= cursor => shown[r.incident] >= r.revision
    \/ feed # {} /\ cursor < Min({r.cursor : r \in feed}) - 1

(* Whatever the database shows of an incident, the page shows in the end.  *)
PageCatchesUp ==
  \A i \in Incident, n \in Revision : incidents[i] >= n ~> shown[i] >= n

=============================================================================
