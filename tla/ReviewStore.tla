---------------------------- MODULE ReviewStore ----------------------------
(***************************************************************************)
(* The promotion tables of the SQLite store and the functions of queue.py  *)
(* that change them: promotion_queue, review_events and export_outbox.     *)
(*                                                                         *)
(* Every function runs in one BEGIN IMMEDIATE transaction (queue.py,       *)
(* _owned_transaction), so each is one step here: a call that is refused   *)
(* (an exception, then ROLLBACK) changes nothing and is a stuttering step. *)
(*                                                                         *)
(* The callers are the most general ones: any of them may call any         *)
(* function at any time, with an item it read at any earlier moment.       *)
(* Promotion.tla has the callers the program really has.                   *)
(***************************************************************************)
EXTENDS Naturals, Sequences

CONSTANTS
  Artifact,       \* artifact ids
  Migrated,       \* the artifacts whose row was there before migration 004
  Correction,     \* texts a reviewer may put in place of a summary
  NoCorrection,   \* NULL in a corrected_summary column
  MaxRevision     \* bound: no artifact gets more review decisions than this

ASSUME StoreAssumption ==
  /\ Migrated \subseteq Artifact
  /\ NoCorrection \notin Correction
  /\ MaxRevision \in Nat \ {0}

VARIABLES
  queue,    \* promotion_queue: the current row of each artifact
  events,   \* review_events: the history of each artifact, in order of insertion
  outbox    \* export_outbox: the row of each artifact and revision

storeVars == <<queue, events, outbox>>

----------------------------------------------------------------------------
(* Constants and rows of queue.py and migration 004.                       *)

INITIAL_STATES == {"candidate", "review_needed"}
TERMINAL_STATES == {"rejected", "rollback_needed"}
EXPORT_ELIGIBLE_STATES == {"approved", "corrected"}
REVIEW_STATES ==
  INITIAL_STATES \cup TERMINAL_STATES \cup EXPORT_ELIGIBLE_STATES \cup {"deferred"}

LEGAL_TRANSITIONS ==
  [candidate       |-> {"review_needed", "approved", "rejected", "deferred", "corrected"},
   review_needed   |-> {"candidate", "approved", "rejected", "deferred", "corrected"},
   deferred        |-> {"candidate", "review_needed", "approved", "rejected", "corrected"},
   approved        |-> {"corrected", "rollback_needed"},
   corrected       |-> {"rollback_needed"},
   rejected        |-> {},
   rollback_needed |-> {}]

Revision == 1 .. MaxRevision
CorrectionOrNull == Correction \cup {NoCorrection}

QueueRow ==
  [provenance : {"none", "extracted", "legacy"},
   status     : REVIEW_STATES \cup {"absent"},
   revision   : 0 .. MaxRevision,
   latest     : 0 .. MaxRevision,      \* position of latest_review_event_id, 0 for NULL
   corrected  : CorrectionOrNull]

\* No row: the artifact has not been enqueued.
AbsentRow ==
  [provenance |-> "none", status |-> "absent", revision |-> 0, latest |-> 0,
   corrected |-> NoCorrection]

Event ==
  [type      : {"review.decision", "review.legacy_backfill"},
   revision  : Revision,
   prior     : REVIEW_STATES,
   new       : REVIEW_STATES,
   corrected : CorrectionOrNull]

\* What an exported file says: everything in it is a function of these columns
\* and of the columns the immutable-envelope trigger protects.
BuildContent(item) ==
  [revision |-> item.revision, event |-> item.latest, status |-> item.status,
   text |-> item.corrected]

NoContent == BuildContent(AbsentRow)

Content ==
  [revision : 0 .. MaxRevision, event : 0 .. MaxRevision,
   status : REVIEW_STATES \cup {"absent"}, text : CorrectionOrNull]

OutboxState == {"none", "planned", "exported", "failed", "rollback_needed", "rolled_back"}
OutboxRow ==
  [state : OutboxState, exportedAt : {"null", "set"}, event : 0 .. MaxRevision,
   content : Content]
NoOutboxRow == [state |-> "none", exportedAt |-> "null", event |-> 0, content |-> NoContent]

----------------------------------------------------------------------------
(* Migration 004 gives each decided row of the old table revision 1 and    *)
(* one backfilled event, whatever its status. The old table allowed a      *)
(* corrected summary in every status, and it is copied as it is.           *)

MigratedRow(s, c) ==
  LET decided == IF s \in INITIAL_STATES THEN 0 ELSE 1
  IN  [provenance |-> "legacy", status |-> s, revision |-> decided, latest |-> decided,
       corrected |-> c]

MigratedRows == {MigratedRow(s, c) : s \in REVIEW_STATES, c \in CorrectionOrNull}

BackfilledHistory(row) ==
  IF row.revision = 0
  THEN <<>>
  ELSE <<[type |-> "review.legacy_backfill", revision |-> 1, prior |-> "candidate",
          new |-> row.status, corrected |-> row.corrected]>>

Init ==
  \E migrated \in [Migrated -> MigratedRows] :
    /\ queue = [a \in Artifact |-> IF a \in Migrated THEN migrated[a] ELSE AbsentRow]
    /\ events = [a \in Artifact |-> BackfilledHistory(queue[a])]
    /\ outbox = [a \in Artifact |-> [r \in Revision |-> NoOutboxRow]]

----------------------------------------------------------------------------
(* queue.py.                                                               *)

Eligible(a) == queue[a].status \in EXPORT_ELIGIBLE_STATES

\* Wrong: the decision is compared, not what it says.
CurrentDecisionOfAnyStatus(a, r, e) == queue[a].revision = r /\ queue[a].latest = e

\* The condition reserve_outbox and mark_outbox_exported put on the queue row:
\* revision r, decided by event e, is the current decision and allows export.
CurrentDecision(a, r, e) ==
  /\ queue[a].revision = r
  /\ queue[a].latest = e
  /\ Eligible(a)

\* The queue row of an artifact whose event at that position is the latest one.
RowAfter(provenance, event, position) ==
  [provenance |-> provenance, status |-> event.new, revision |-> event.revision,
   latest |-> position, corrected |-> event.corrected]

\* An item that a caller may hold: the queue row as get_item or get_queue
\* returned it after the i-th event of a's history.
SnapshotAt(a, i) == RowAfter(queue[a].provenance, events[a][i], i)

\* INSERT of a row with revision 0; artifact_id is UNIQUE.
EnqueueCandidate(a, initial) ==
  /\ queue[a].status = "absent"
  /\ queue' = [queue EXCEPT ![a] =
                 [provenance |-> "extracted", status |-> initial, revision |-> 0,
                  latest |-> 0, corrected |-> NoCorrection]]
  /\ UNCHANGED <<events, outbox>>

\* Wrong: only what was exported is withdrawn, not what is about to be.
WithdrawExportedOnly(rows) ==
  [r \in Revision |->
     IF rows[r].state = "exported" THEN [rows[r] EXCEPT !.state = "rollback_needed"]
     ELSE rows[r]]

\* UPDATE export_outbox SET state = 'rollback_needed' of all rows of the artifact
\* that are, or may come to be, on disk.
Withdraw(rows) ==
  [r \in Revision |->
     IF rows[r].state \in {"planned", "exported"}
     THEN [rows[r] EXCEPT !.state = "rollback_needed"]
     ELSE rows[r]]

\* Wrong: the caller's expected revision is not compared.
DecidableUnchecked(row, decision, corrected, expected) ==
  /\ decision = "corrected" <=> corrected # NoCorrection
  /\ row.status # "absent"
  /\ decision \in LEGAL_TRANSITIONS[row.status]

\* What decide() checks before it writes: its arguments, that the row is there,
\* that the reviewer saw its revision, and that the transition is legal.
Decidable(row, decision, corrected, expected) ==
  /\ decision = "corrected" <=> corrected # NoCorrection
  /\ row.status # "absent"
  /\ row.revision = expected
  /\ decision \in LEGAL_TRANSITIONS[row.status]

\* Wrong: the event repeats the new status as the prior one.
DecisionEventWithoutPrior(row, decision, corrected) ==
  [type |-> "review.decision", revision |-> row.revision + 1, prior |-> decision,
   new |-> decision, corrected |-> corrected]

\* The event a decision appends. A rollback keeps the correction it withdraws.
DecisionEvent(row, decision, corrected) ==
  [type |-> "review.decision", revision |-> row.revision + 1, prior |-> row.status,
   new |-> decision,
   corrected |-> IF decision = "rollback_needed" THEN row.corrected ELSE corrected]

\* The trigger promotion_queue_review_snapshot_consistent: an UPDATE of the row
\* aborts unless its decision columns repeat those of the event it names.
SnapshotTrigger(row, history) ==
  /\ row.latest \in 1 .. Len(history)
  /\ history[row.latest].revision = row.revision
  /\ history[row.latest].new = row.status
  /\ history[row.latest].corrected = row.corrected

\* decide(): one review decision by a reviewer who saw revision `expected`. It
\* withdraws what the decision it replaces let out.
Decide(a, decision, corrected, expected) ==
  LET row == queue[a]
      event == DecisionEvent(row, decision, corrected)
  IN  /\ Decidable(row, decision, corrected, expected)
      /\ row.revision < MaxRevision
      /\ events' = [events EXCEPT ![a] = Append(@, event)]
      /\ queue' = [queue EXCEPT ![a] =
                     RowAfter(row.provenance, event, Len(events'[a]))]
      /\ SnapshotTrigger(queue'[a], events'[a])
      /\ outbox' = [outbox EXCEPT ![a] =
                      IF row.status \in EXPORT_ELIGIBLE_STATES THEN Withdraw(@) ELSE @]

\* Wrong: the row is made for the current revision, whichever one the item is of.
ReserveForStaleItem(a, item) ==
  /\ item.latest > 0 /\ item.revision > 0
  /\ Eligible(a)
  /\ outbox[a][queue[a].revision].state = "none"
  /\ outbox' = [outbox EXCEPT ![a][queue[a].revision] =
                  [state |-> "planned", exportedAt |-> "null", event |-> queue[a].latest,
                   content |-> BuildContent(item)]]
  /\ UNCHANGED <<queue, events>>

\* The transaction of reserve_outbox(): INSERT ... SELECT from the queue row if
\* the item is still its current decision, ON CONFLICT(idempotency_key) DO NOTHING.
ReserveOutbox(a, item) ==
  /\ item.latest > 0 /\ item.revision > 0
  /\ CurrentDecision(a, item.revision, item.latest)
  /\ outbox[a][item.revision].state = "none"
  /\ outbox' = [outbox EXCEPT ![a][item.revision] =
                  [state |-> "planned", exportedAt |-> "null", event |-> queue[a].latest,
                   content |-> BuildContent(item)]]
  /\ UNCHANGED <<queue, events>>

\* Wrong: an export that is already recorded is refused.
ExportableOnce(a, r) ==
  /\ outbox[a][r].state \in {"planned", "failed"}
  /\ CurrentDecision(a, r, outbox[a][r].event)

\* The WHERE clause of mark_outbox_exported().
Exportable(a, r) ==
  /\ outbox[a][r].state \in {"planned", "failed", "exported"}
  /\ CurrentDecision(a, r, outbox[a][r].event)

\* exported_at is set with the first export and never cleared.
MarkOutboxExported(a, r) ==
  /\ Exportable(a, r)
  /\ outbox' = [outbox EXCEPT ![a][r].state = "exported", ![a][r].exportedAt = "set"]
  /\ UNCHANGED <<queue, events>>

\* Wrong: anything but a finished export may fail.
FailableUnlessExported(a, r) == outbox[a][r].state \notin {"none", "exported"}

\* The WHERE clause of mark_outbox_failed().
Failable(a, r) == outbox[a][r].state \in {"planned", "failed"}

MarkOutboxFailed(a, r) ==
  /\ Failable(a, r)
  /\ outbox' = [outbox EXCEPT ![a][r].state = "failed"]
  /\ UNCHANGED <<queue, events>>

MarkOutboxRolledBack(a, r) ==
  /\ outbox[a][r].state = "rollback_needed"
  /\ outbox' = [outbox EXCEPT ![a][r].state = "rolled_back"]
  /\ UNCHANGED <<queue, events>>

Next ==
  \E a \in Artifact :
    \/ \E s \in INITIAL_STATES : EnqueueCandidate(a, s)
    \/ \E d \in REVIEW_STATES, c \in CorrectionOrNull, n \in 0 .. MaxRevision :
          Decide(a, d, c, n)
    \/ \E i \in 1 .. Len(events[a]) : ReserveOutbox(a, SnapshotAt(a, i))
    \/ \E r \in Revision :
          MarkOutboxExported(a, r) \/ MarkOutboxFailed(a, r) \/ MarkOutboxRolledBack(a, r)

Spec == Init /\ [][Next]_storeVars

----------------------------------------------------------------------------
(* The store as an implementation of the ledger.                           *)

InState(s) == {key \in Artifact \X Revision : outbox[key[1]][key[2]].state = s}

Ledger == INSTANCE PublicationLedger WITH
  granted   <- [a \in Artifact |-> IF Eligible(a) THEN queue[a].revision ELSE 0],
  published <- InState("exported"),
  recalled  <- InState("rollback_needed"),
  removed   <- InState("rolled_back")

----------------------------------------------------------------------------
(* Properties.                                                             *)

TypeOK ==
  /\ queue \in [Artifact -> QueueRow]
  /\ events \in [Artifact -> Seq(Event)]
  /\ outbox \in [Artifact -> [Revision -> OutboxRow]]

\* The audit history of an artifact explains its current row: revisions count
\* the events without a gap, each decision starts from the status the event
\* before it left (a decision cannot be lost, repeated or slipped in between),
\* and the last event is the one the queue row shows. Together with the legal
\* transitions: nothing follows a terminal decision.
HistoryExplainsQueue ==
  \A a \in Artifact :
    /\ queue[a].revision = Len(events[a])
    /\ \A i \in 1 .. Len(events[a]) :
         /\ events[a][i].revision = i
         /\ i > 1 => /\ events[a][i].prior = events[a][i - 1].new
                     /\ events[a][i].new \in LEGAL_TRANSITIONS[events[a][i].prior]
    /\ Len(events[a]) > 0 => SnapshotTrigger(queue[a], events[a])
    /\ Len(events[a]) = 0 => queue[a].latest = 0

\* The review boundary in the outbox: a row that is planned or exported is of
\* the artifact's current revision, which is approved or corrected, and names
\* its event; a row that once was is waiting for removal or removed, or it has
\* failed. Whichever order reviews, reservations and completions come in.
OutboxFollowsReview ==
  \A a \in Artifact, r \in Revision :
    LET row == outbox[a][r] IN
    /\ row.state \in {"planned", "exported"} => CurrentDecision(a, r, row.event)
    /\ row.state # "none" =>
         /\ row.event \in 1 .. Len(events[a])
         /\ events[a][row.event].revision = r
         /\ events[a][row.event].new \in EXPORT_ELIGIBLE_STATES
    /\ row.state \in {"rollback_needed", "rolled_back"} => r < queue[a].revision

\* An idempotency key stands for one content: what a reservation recorded is
\* what every later reader of that revision builds, so that the collision
\* reserve_outbox tests for (RuntimeError) cannot happen.
OneContentPerKey ==
  \A a \in Artifact, r \in Revision :
    outbox[a][r].state # "none" =>
      \A i \in 1 .. Len(events[a]) :
        events[a][i].revision = r => outbox[a][r].content = BuildContent(SnapshotAt(a, i))

\* What may follow each state of an outbox row: a withdrawal is never undone,
\* an export is only ever withdrawn, and no row is deleted.
OutboxSuccessors ==
  [none            |-> {"none", "planned"},
   planned         |-> {"planned", "exported", "failed", "rollback_needed"},
   failed          |-> {"failed", "exported"},
   exported        |-> {"exported", "rollback_needed"},
   rollback_needed |-> {"rollback_needed", "rolled_back"},
   rolled_back     |-> {"rolled_back"}]

OutboxLifecycle ==
  [][\A a \in Artifact, r \in Revision :
       outbox'[a][r].state \in OutboxSuccessors[outbox[a][r].state]]_storeVars

\* The tables, whoever calls queue.py and in whatever order, do what the ledger
\* of published revisions promises.
ImplementsLedger == Ledger!Spec
============================================================================
