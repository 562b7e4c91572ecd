------------------------ MODULE ReviewStore_proofs ------------------------
(***************************************************************************)
(* Proofs about ReviewStore, for any artifacts, corrections and bound on   *)
(* the revisions.                                                          *)
(***************************************************************************)
EXTENDS ReviewStore, TLAPS

\* The parts of the invariant hold each other up: a decision needs the history
\* to know the status it starts from, and the outbox needs it to know that what
\* is not current is older.
IInv == TypeOK /\ HistoryExplainsQueue /\ OutboxFollowsReview

----------------------------------------------------------------------------

\* What the queue row of a decided artifact shows is the last event of its
\* history, and an artifact without one has revision 0.
LEMMA RowShowsLastEvent ==
  ASSUME TypeOK, HistoryExplainsQueue, NEW a \in Artifact
  PROVE  /\ events[a] \in Seq(Event)
         /\ Len(events[a]) \in Nat
         /\ queue[a].revision = Len(events[a])
         /\ queue[a].latest = Len(events[a])
         /\ Len(events[a]) > 0 => /\ events[a][Len(events[a])].new = queue[a].status
                                  /\ events[a][Len(events[a])].corrected = queue[a].corrected
<1>1. events[a] \in Seq(Event) /\ Len(events[a]) \in Nat
  BY DEF TypeOK
<1>2. queue[a].revision = Len(events[a])
  BY DEF HistoryExplainsQueue
<1>3. CASE Len(events[a]) = 0
  BY <1>1, <1>2, <1>3 DEF HistoryExplainsQueue
<1>4. CASE Len(events[a]) > 0
  <2>1. SnapshotTrigger(queue[a], events[a])
    BY <1>4 DEF HistoryExplainsQueue
  <2>2. queue[a].latest \in 1 .. Len(events[a])
    BY <2>1 DEF SnapshotTrigger
  <2>3. events[a][queue[a].latest].revision = queue[a].latest
    BY <2>2 DEF HistoryExplainsQueue
  <2>4. queue[a].latest = Len(events[a])
    BY <1>2, <2>1, <2>3 DEF SnapshotTrigger
  <2> QED
    BY <1>1, <1>2, <2>1, <2>4 DEF SnapshotTrigger
<1> QED
  BY <1>1, <1>3, <1>4

\* An artifact that has no queue row has no history.
LEMMA AbsentHasNoHistory ==
  ASSUME TypeOK, HistoryExplainsQueue, NEW a \in Artifact, queue[a].status = "absent"
  PROVE  Len(events[a]) = 0
<1>1. /\ events[a] \in Seq(Event)
      /\ Len(events[a]) \in Nat
      /\ Len(events[a]) > 0 => events[a][Len(events[a])].new = queue[a].status
  BY RowShowsLastEvent
<1>2. SUFFICES ASSUME Len(events[a]) > 0 PROVE FALSE
  BY <1>1
<1>3. events[a][Len(events[a])] \in Event
  BY <1>1, <1>2
<1>4. events[a][Len(events[a])].new \in REVIEW_STATES
  BY <1>3 DEF Event
<1> QED
  BY <1>1, <1>2, <1>4
     DEF REVIEW_STATES, INITIAL_STATES, TERMINAL_STATES, EXPORT_ELIGIBLE_STATES

LEMMA InitIInv == Init => IInv
<1> SUFFICES ASSUME NEW migrated \in [Migrated -> MigratedRows],
                    queue = [a \in Artifact |-> IF a \in Migrated THEN migrated[a]
                                                ELSE AbsentRow],
                    events = [a \in Artifact |-> BackfilledHistory(queue[a])],
                    outbox = [a \in Artifact |-> [r \in Revision |-> NoOutboxRow]]
             PROVE  IInv
  BY DEF Init
<1> USE StoreAssumption
<1>1. ASSUME NEW row \in MigratedRows
      PROVE  /\ row \in QueueRow
             /\ BackfilledHistory(row) \in Seq(Event)
             /\ row.revision = Len(BackfilledHistory(row))
             /\ Len(BackfilledHistory(row)) > 0 => SnapshotTrigger(row, BackfilledHistory(row))
             /\ Len(BackfilledHistory(row)) = 0 => row.latest = 0
             /\ Len(BackfilledHistory(row)) \in {0, 1}
             /\ Len(BackfilledHistory(row)) = 1 => BackfilledHistory(row)[1].revision = 1
  <2>1. PICK s \in REVIEW_STATES, c \in CorrectionOrNull : row = MigratedRow(s, c)
    BY DEF MigratedRows
  <2>2. row \in QueueRow
    BY <2>1 DEF MigratedRow, QueueRow
  <2>3. CASE s \in INITIAL_STATES
    BY <2>1, <2>2, <2>3 DEF MigratedRow, BackfilledHistory
  <2>4. CASE s \notin INITIAL_STATES
    <3>1. row.revision = 1 /\ row.latest = 1 /\ row.status = s /\ row.corrected = c
      BY <2>1, <2>4 DEF MigratedRow
    <3> DEFINE e == [type |-> "review.legacy_backfill", revision |-> 1,
                     prior |-> "candidate", new |-> row.status, corrected |-> row.corrected]
    <3>2. BackfilledHistory(row) = <<e>>
      BY <3>1 DEF BackfilledHistory
    <3>3. e \in Event
      BY <3>1 DEF Event, Revision, REVIEW_STATES, INITIAL_STATES
    <3>4. e.revision = 1 /\ e.new = row.status /\ e.corrected = row.corrected
      OBVIOUS
    <3> HIDE DEF e
    <3>5. <<e>> \in Seq(Event) /\ Len(<<e>>) = 1 /\ <<e>>[1] = e
      BY <3>3
    <3> QED
      BY <2>2, <3>1, <3>2, <3>4, <3>5 DEF SnapshotTrigger
  <2> QED
    BY <2>3, <2>4
<1>2. /\ AbsentRow \in QueueRow
      /\ AbsentRow.revision = 0 /\ AbsentRow.latest = 0
      /\ BackfilledHistory(AbsentRow) = <<>>
      /\ <<>> \in Seq(Event) /\ Len(<<>>) = 0
  BY DEF AbsentRow, QueueRow, BackfilledHistory, CorrectionOrNull
<1>3. NoOutboxRow \in OutboxRow /\ NoOutboxRow.state = "none"
  BY DEF NoOutboxRow, OutboxRow, OutboxState, NoContent, BuildContent, AbsentRow, Content,
         CorrectionOrNull
<1>4. TypeOK
  BY <1>1, <1>2, <1>3 DEF TypeOK
<1>5. HistoryExplainsQueue
  <2> SUFFICES ASSUME NEW a \in Artifact
               PROVE  /\ queue[a].revision = Len(events[a])
                      /\ \A i \in 1 .. Len(events[a]) :
                           /\ events[a][i].revision = i
                           /\ i > 1 =>
                                /\ events[a][i].prior = events[a][i - 1].new
                                /\ events[a][i].new \in LEGAL_TRANSITIONS[events[a][i].prior]
                      /\ Len(events[a]) > 0 => SnapshotTrigger(queue[a], events[a])
                      /\ Len(events[a]) = 0 => queue[a].latest = 0
    BY DEF HistoryExplainsQueue
  <2>1. CASE a \in Migrated
    BY <1>1, <2>1
  <2>2. CASE a \notin Migrated
    BY <1>2, <2>2
  <2> QED
    BY <2>1, <2>2
<1>6. OutboxFollowsReview
  BY <1>3 DEF OutboxFollowsReview
<1> QED
  BY <1>4, <1>5, <1>6 DEF IInv

----------------------------------------------------------------------------
(* Each action preserves the invariant.                                    *)

LEMMA EnqueueIInv ==
  ASSUME IInv, NEW a \in Artifact, NEW s \in INITIAL_STATES, EnqueueCandidate(a, s)
  PROVE  IInv'
<1> USE StoreAssumption DEF IInv
<1> DEFINE row == [provenance |-> "extracted", status |-> s, revision |-> 0,
                   latest |-> 0, corrected |-> NoCorrection]
<1>1. /\ row \in QueueRow
      /\ row.revision = 0 /\ row.latest = 0 /\ row.status = s
      /\ s \notin EXPORT_ELIGIBLE_STATES
  BY DEF QueueRow, CorrectionOrNull, REVIEW_STATES, INITIAL_STATES, EXPORT_ELIGIBLE_STATES
<1> HIDE DEF row
<1>2. /\ queue' = [queue EXCEPT ![a] = row] /\ events' = events /\ outbox' = outbox
      /\ queue[a].status = "absent"
  BY DEF EnqueueCandidate, row
<1>3. TypeOK'
  BY <1>1, <1>2 DEF TypeOK
<1>4. Len(events[a]) = 0 /\ queue[a].revision = 0
  BY <1>2, AbsentHasNoHistory, RowShowsLastEvent
<1>5. \A b \in Artifact : b # a => queue'[b] = queue[b]
  BY <1>2 DEF TypeOK
<1>6. queue'[a] = row
  BY <1>2 DEF TypeOK
<1>7. HistoryExplainsQueue'
  <2> SUFFICES ASSUME NEW b \in Artifact
               PROVE  /\ queue'[b].revision = Len(events'[b])
                      /\ \A i \in 1 .. Len(events'[b]) :
                           /\ events'[b][i].revision = i
                           /\ i > 1 =>
                                /\ events'[b][i].prior = events'[b][i - 1].new
                                /\ events'[b][i].new \in LEGAL_TRANSITIONS[events'[b][i].prior]
                      /\ Len(events'[b]) > 0 => SnapshotTrigger(queue'[b], events'[b])
                      /\ Len(events'[b]) = 0 => queue'[b].latest = 0
    BY DEF HistoryExplainsQueue, SnapshotTrigger
  <2>1. CASE b = a
    BY <1>1, <1>2, <1>4, <1>6, <2>1
  <2>2. CASE b # a
    BY <1>2, <1>5, <2>2 DEF HistoryExplainsQueue
  <2> QED
    BY <2>1, <2>2
<1>8. OutboxFollowsReview'
  <2> SUFFICES ASSUME NEW b \in Artifact, NEW r \in Revision
               PROVE  LET o == outbox[b][r] IN
                      /\ o.state \in {"planned", "exported"} => CurrentDecision(b, r, o.event)'
                      /\ o.state # "none" =>
                           /\ o.event \in 1 .. Len(events[b])
                           /\ events[b][o.event].revision = r
                           /\ events[b][o.event].new \in EXPORT_ELIGIBLE_STATES
                      /\ o.state \in {"rollback_needed", "rolled_back"}
                           => r < queue'[b].revision
    BY <1>2 DEF OutboxFollowsReview, CurrentDecision, Eligible
  <2>1. CASE b = a
    <3>1. outbox[a][r].state = "none"
      BY <1>4 DEF OutboxFollowsReview
    <3> QED
      BY <2>1, <3>1
  <2>2. CASE b # a
    BY <1>2, <1>5, <2>2 DEF OutboxFollowsReview, CurrentDecision, Eligible
  <2> QED
    BY <2>1, <2>2
<1> QED
  BY <1>3, <1>7, <1>8

\* What decide() leaves behind, in the terms the proofs need.
LEMMA DecideFacts ==
  ASSUME IInv, NEW a \in Artifact, NEW d \in REVIEW_STATES, NEW c \in CorrectionOrNull,
         NEW n \in 0 .. MaxRevision, Decide(a, d, c, n)
  PROVE  /\ queue[a].revision + 1 \in Revision
         /\ DecisionEvent(queue[a], d, c) \in Event
         /\ d \in LEGAL_TRANSITIONS[queue[a].status]
         /\ queue[a].status \in REVIEW_STATES
         /\ \A b \in Artifact : b # a => /\ queue'[b] = queue[b]
                                         /\ events'[b] = events[b]
                                         /\ outbox'[b] = outbox[b]
         /\ events' \in [Artifact -> Seq(Event)]
         /\ events'[a] = Append(events[a], DecisionEvent(queue[a], d, c))
         /\ queue' \in [Artifact -> QueueRow]
         /\ queue'[a].revision = queue[a].revision + 1
         /\ queue'[a].latest = queue[a].revision + 1
         /\ queue'[a].status = d
         /\ queue'[a].provenance = queue[a].provenance
         /\ SnapshotTrigger(queue'[a], events'[a])
         /\ outbox'[a] = IF Eligible(a) THEN Withdraw(outbox[a]) ELSE outbox[a]
         /\ DOMAIN outbox' = Artifact
<1> USE StoreAssumption DEF IInv
<1> DEFINE row == queue[a]
           event == DecisionEvent(row, d, c)
<1>1. /\ Decidable(row, d, c, n) /\ row.revision < MaxRevision
      /\ events' = [events EXCEPT ![a] = Append(@, event)]
      /\ queue' = [queue EXCEPT ![a] = RowAfter(row.provenance, event, Len(events'[a]))]
      /\ SnapshotTrigger(queue'[a], events'[a])
      /\ outbox' = [outbox EXCEPT ![a] = IF Eligible(a) THEN Withdraw(@) ELSE @]
  BY DEF Decide, Eligible
<1>2. row \in QueueRow /\ row.revision \in 0 .. MaxRevision /\ row.corrected \in CorrectionOrNull
  BY DEF TypeOK, QueueRow
<1>3. row.revision + 1 \in Revision
  BY <1>1, <1>2 DEF Revision
<1>4. row.status \in REVIEW_STATES /\ d \in LEGAL_TRANSITIONS[row.status]
  BY <1>1, <1>2 DEF Decidable, QueueRow
<1>5. /\ event \in Event /\ event.new = d /\ event.revision = row.revision + 1
      /\ event.corrected \in CorrectionOrNull
  BY <1>2, <1>3, <1>4 DEF DecisionEvent, Event
<1> HIDE DEF event
<1>6. events[a] \in Seq(Event) /\ Len(events[a]) = row.revision
  BY RowShowsLastEvent
<1>7. events'[a] = Append(events[a], event) /\ Len(events'[a]) = row.revision + 1
  BY <1>1, <1>5, <1>6 DEF TypeOK
<1>8. events' \in [Artifact -> Seq(Event)]
  BY <1>1, <1>5, <1>6 DEF TypeOK
<1> DEFINE new == RowAfter(row.provenance, event, Len(events'[a]))
<1>9. /\ new \in QueueRow /\ new.status = d /\ new.revision = row.revision + 1
      /\ new.latest = row.revision + 1 /\ new.provenance = row.provenance
  BY <1>2, <1>3, <1>5, <1>7 DEF RowAfter, QueueRow, Revision
<1> HIDE DEF new
<1>10. queue' = [queue EXCEPT ![a] = new]
  BY <1>1 DEF new
<1>11. queue' \in [Artifact -> QueueRow] /\ queue'[a] = new
  BY <1>9, <1>10 DEF TypeOK
<1>12. \A b \in Artifact : b # a => /\ queue'[b] = queue[b]
                                    /\ events'[b] = events[b]
                                    /\ outbox'[b] = outbox[b]
  BY <1>1, <1>10 DEF TypeOK
<1>13. /\ outbox'[a] = IF Eligible(a) THEN Withdraw(outbox[a]) ELSE outbox[a]
       /\ DOMAIN outbox' = Artifact
  BY <1>1 DEF TypeOK
<1> QED
  BY <1>1, <1>3, <1>4, <1>5, <1>7, <1>8, <1>9, <1>11, <1>12, <1>13 DEF event

LEMMA DecideIInv ==
  ASSUME IInv, NEW a \in Artifact, NEW d \in REVIEW_STATES, NEW c \in CorrectionOrNull,
         NEW n \in 0 .. MaxRevision, Decide(a, d, c, n)
  PROVE  IInv'
<1> USE StoreAssumption DEF IInv
<1> DEFINE event == DecisionEvent(queue[a], d, c)
           last == queue[a].revision
<1>1. /\ last + 1 \in Revision /\ event \in Event
      /\ d \in LEGAL_TRANSITIONS[queue[a].status]
      /\ \A b \in Artifact : b # a => /\ queue'[b] = queue[b]
                                      /\ events'[b] = events[b]
                                      /\ outbox'[b] = outbox[b]
      /\ events' \in [Artifact -> Seq(Event)]
      /\ events'[a] = Append(events[a], event)
      /\ queue' \in [Artifact -> QueueRow]
      /\ queue'[a].revision = last + 1 /\ queue'[a].latest = last + 1
      /\ SnapshotTrigger(queue'[a], events'[a])
      /\ outbox'[a] = IF Eligible(a) THEN Withdraw(outbox[a]) ELSE outbox[a]
      /\ DOMAIN outbox' = Artifact
  BY DecideFacts
<1>2. /\ event.revision = last + 1 /\ event.prior = queue[a].status /\ event.new = d
  BY DEF DecisionEvent
<1> HIDE DEF event
<1>3. /\ events[a] \in Seq(Event) /\ Len(events[a]) \in Nat /\ last = Len(events[a])
      /\ queue[a].latest = last
      /\ last > 0 => events[a][last].new = queue[a].status
  BY RowShowsLastEvent
<1>4. /\ Len(events'[a]) = last + 1
      /\ \A i \in 1 .. last : events'[a][i] = events[a][i]
      /\ events'[a][last + 1] = event
  BY <1>1, <1>3
<1>5. TypeOK'
  <2>1. outbox[a] \in [Revision -> OutboxRow]
    BY DEF TypeOK
  <2>2. ASSUME NEW r \in Revision
        PROVE  [outbox[a][r] EXCEPT !.state = "rollback_needed"] \in OutboxRow
    BY <2>1 DEF OutboxRow, OutboxState
  <2>3. Withdraw(outbox[a]) \in [Revision -> OutboxRow]
    BY <2>1, <2>2 DEF Withdraw
  <2>4. outbox'[a] \in [Revision -> OutboxRow]
    BY <1>1, <2>1, <2>3
  <2>5. \A b \in Artifact : outbox'[b] \in [Revision -> OutboxRow]
    BY <1>1, <2>4 DEF TypeOK
  <2>6. outbox' = [b \in Artifact |-> outbox'[b]]
    BY <1>1, Zenon DEF Decide
  <2>7. outbox' \in [Artifact -> [Revision -> OutboxRow]]
    BY <2>5, <2>6, Zenon
  <2> QED
    BY <1>1, <2>7 DEF TypeOK
<1>6. HistoryExplainsQueue'
  <2> SUFFICES ASSUME NEW b \in Artifact
               PROVE  /\ queue'[b].revision = Len(events'[b])
                      /\ \A i \in 1 .. Len(events'[b]) :
                           /\ events'[b][i].revision = i
                           /\ i > 1 =>
                                /\ events'[b][i].prior = events'[b][i - 1].new
                                /\ events'[b][i].new \in LEGAL_TRANSITIONS[events'[b][i].prior]
                      /\ Len(events'[b]) > 0 => SnapshotTrigger(queue'[b], events'[b])
                      /\ Len(events'[b]) = 0 => queue'[b].latest = 0
    BY DEF HistoryExplainsQueue, SnapshotTrigger
  <2>1. CASE b # a
    <3>1. queue'[b] = queue[b] /\ events'[b] = events[b]
      BY <1>1, <2>1
    <3>2. PICK row, log : row = queue[b] /\ log = events[b]
      OBVIOUS
    <3>3. /\ row.revision = Len(log)
          /\ \A i \in 1 .. Len(log) :
               /\ log[i].revision = i
               /\ i > 1 => /\ log[i].prior = log[i - 1].new
                           /\ log[i].new \in LEGAL_TRANSITIONS[log[i].prior]
          /\ Len(log) > 0 => SnapshotTrigger(row, log)
          /\ Len(log) = 0 => row.latest = 0
      BY <3>2, Zenon DEF HistoryExplainsQueue
    <3> QED
      BY <3>1, <3>2, <3>3, Zenon
  <2>2. CASE b = a
    <3>1. ASSUME NEW i \in 1 .. last
          PROVE  /\ events'[a][i].revision = i
                 /\ i > 1 =>
                      /\ events'[a][i].prior = events'[a][i - 1].new
                      /\ events'[a][i].new \in LEGAL_TRANSITIONS[events'[a][i].prior]
      <4>1. /\ events[a][i].revision = i
            /\ i > 1 => /\ events[a][i].prior = events[a][i - 1].new
                        /\ events[a][i].new \in LEGAL_TRANSITIONS[events[a][i].prior]
        BY <1>3 DEF HistoryExplainsQueue
      <4>2. i > 1 => i - 1 \in 1 .. last
        BY <1>3
      <4> QED
        BY <1>4, <4>1, <4>2
    <3>2. last + 1 > 1 => /\ events'[a][last + 1].prior = events'[a][last].new
                          /\ events'[a][last + 1].new \in
                               LEGAL_TRANSITIONS[events'[a][last + 1].prior]
      BY <1>1, <1>2, <1>3, <1>4
    <3>3. events'[a][last + 1].revision = last + 1
      BY <1>2, <1>4
    <3> HIDE DEF last
    <3>4. \A i \in 1 .. Len(events'[a]) : i \in 1 .. last \/ i = last + 1
      BY <1>3, <1>4
    <3>5. (last + 1) - 1 = last
      BY <1>3
    <3>6. \A i \in 1 .. Len(events'[a]) :
            /\ events'[a][i].revision = i
            /\ i > 1 =>
                 /\ events'[a][i].prior = events'[a][i - 1].new
                 /\ events'[a][i].new \in LEGAL_TRANSITIONS[events'[a][i].prior]
      BY <3>1, <3>2, <3>3, <3>4, <3>5
    <3> QED
      BY <1>1, <1>3, <1>4, <2>2, <3>6
  <2> QED
    BY <2>1, <2>2
<1>7. OutboxFollowsReview'
  <2> SUFFICES ASSUME NEW b \in Artifact, NEW r \in Revision
               PROVE  LET o == outbox'[b][r] IN
                      /\ o.state \in {"planned", "exported"} =>
                           /\ queue'[b].revision = r
                           /\ queue'[b].latest = o.event
                           /\ queue'[b].status \in EXPORT_ELIGIBLE_STATES
                      /\ o.state # "none" =>
                           /\ o.event \in 1 .. Len(events'[b])
                           /\ events'[b][o.event].revision = r
                           /\ events'[b][o.event].new \in EXPORT_ELIGIBLE_STATES
                      /\ o.state \in {"rollback_needed", "rolled_back"}
                           => r < queue'[b].revision
    BY DEF OutboxFollowsReview, CurrentDecision, Eligible
  <2>1. CASE b # a
    <3>1. queue'[b] = queue[b] /\ events'[b] = events[b] /\ outbox'[b] = outbox[b]
      BY <1>1, <2>1
    <3> HIDE DEF last
    <3> QED
      BY <3>1 DEF OutboxFollowsReview, CurrentDecision, Eligible
  <2>2. CASE b = a
    <3> DEFINE o == outbox[a][r]
               p == outbox'[a][r]
    <3>1. /\ o.state \in {"planned", "exported"} => Eligible(a) /\ r = last
          /\ o.state # "none" =>
               /\ o.event \in 1 .. last
               /\ events[a][o.event].revision = r
               /\ events[a][o.event].new \in EXPORT_ELIGIBLE_STATES
          /\ o.state \in {"rollback_needed", "rolled_back"} => r < last
      BY <1>3 DEF OutboxFollowsReview, CurrentDecision
    <3>2. o \in OutboxRow
      BY DEF TypeOK
    <3>3. /\ p.event = o.event
          /\ p.state = IF o.state \in {"planned", "exported"} THEN "rollback_needed"
                       ELSE o.state
      BY <1>1, <3>1, <3>2 DEF Withdraw, OutboxRow
    <3> HIDE DEF o, p
    <3>4. r \in Nat /\ last \in Nat
      BY <1>3 DEF Revision
    <3>5. p.state \notin {"planned", "exported"}
      BY <3>3
    <3>6. p.state # "none" =>
             /\ p.event \in 1 .. Len(events'[a])
             /\ events'[a][p.event].revision = r
             /\ events'[a][p.event].new \in EXPORT_ELIGIBLE_STATES
      <4>1. o.state # "none" => o.event \in 1 .. last /\ o.event \in 1 .. last + 1
        BY <3>1, <3>4
      <4>2. p.state # "none" => o.state # "none"
        BY <3>3
      <4> QED
        BY <1>4, <3>1, <3>3, <4>1, <4>2
    <3>7. p.state \in {"rollback_needed", "rolled_back"} => r < last + 1
      BY <3>1, <3>3, <3>4
    <3> QED
      BY <1>1, <2>2, <3>5, <3>6, <3>7 DEF p
  <2> QED
    BY <2>1, <2>2
<1> QED
  BY <1>5, <1>6, <1>7

\* The actions that change one row of the outbox and nothing else.
LEMMA OutboxRowIInv ==
  ASSUME IInv, NEW a \in Artifact, NEW r \in Revision, NEW o \in OutboxRow,
         outbox' = [outbox EXCEPT ![a][r] = o], UNCHANGED <<queue, events>>,
         o.state \in {"planned", "exported"} => CurrentDecision(a, r, o.event),
         o.state # "none" => /\ o.event \in 1 .. Len(events[a])
                             /\ events[a][o.event].revision = r
                             /\ events[a][o.event].new \in EXPORT_ELIGIBLE_STATES,
         o.state \in {"rollback_needed", "rolled_back"} => r < queue[a].revision
  PROVE  IInv'
<1> USE DEF IInv
<1>1. TypeOK'
  BY DEF TypeOK
<1>2. HistoryExplainsQueue'
  BY DEF HistoryExplainsQueue, SnapshotTrigger
<1>3. OutboxFollowsReview'
  <2> SUFFICES ASSUME NEW b \in Artifact, NEW q \in Revision
               PROVE  LET p == outbox'[b][q] IN
                      /\ p.state \in {"planned", "exported"} => CurrentDecision(b, q, p.event)
                      /\ p.state # "none" =>
                           /\ p.event \in 1 .. Len(events[b])
                           /\ events[b][p.event].revision = q
                           /\ events[b][p.event].new \in EXPORT_ELIGIBLE_STATES
                      /\ p.state \in {"rollback_needed", "rolled_back"}
                           => q < queue[b].revision
    BY DEF OutboxFollowsReview, CurrentDecision, Eligible
  <2>1. CASE b = a /\ q = r
    <3>1. outbox'[b][q] = o
      BY <2>1 DEF TypeOK
    <3> QED
      BY <2>1, <3>1
  <2>2. CASE ~(b = a /\ q = r)
    <3>1. outbox'[b][q] = outbox[b][q]
      BY <2>2 DEF TypeOK
    <3> QED
      BY <3>1 DEF OutboxFollowsReview
  <2> QED
    BY <2>1, <2>2
<1> QED
  BY <1>1, <1>2, <1>3

LEMMA ReserveIInv ==
  ASSUME IInv, NEW a \in Artifact, NEW i \in 1 .. Len(events[a]),
         ReserveOutbox(a, SnapshotAt(a, i))
  PROVE  IInv'
<1> USE DEF IInv
<1> DEFINE item == SnapshotAt(a, i)
           o == [state |-> "planned", exportedAt |-> "null", event |-> queue[a].latest,
                 content |-> BuildContent(item)]
<1>1. /\ CurrentDecision(a, item.revision, item.latest)
      /\ outbox' = [outbox EXCEPT ![a][item.revision] = o]
      /\ UNCHANGED <<queue, events>>
  BY DEF ReserveOutbox
<1>2. /\ events[a] \in Seq(Event) /\ Len(events[a]) \in Nat
      /\ queue[a].revision = Len(events[a]) /\ queue[a].latest = Len(events[a])
      /\ events[a][Len(events[a])].new = queue[a].status
  BY RowShowsLastEvent
<1>3. i \in Revision /\ queue[a].latest \in 0 .. MaxRevision /\ events[a][i] \in Event
      /\ events[a][i].revision = i
  BY <1>2, StoreAssumption DEF HistoryExplainsQueue, TypeOK, QueueRow, Revision
<1>4. item.revision = i /\ item.latest = i
  BY <1>3 DEF SnapshotAt, RowAfter
<1>5. queue[a].revision = i /\ queue[a].latest = i /\ Eligible(a)
  BY <1>1, <1>4 DEF CurrentDecision
<1>6. BuildContent(item) \in Content
  BY <1>3, StoreAssumption DEF SnapshotAt, RowAfter, BuildContent, Content, Event, Revision
<1>7. o \in OutboxRow
  BY <1>3, <1>6 DEF OutboxRow, OutboxState
<1>8. o.state = "planned" /\ o.event = i
  BY <1>5
<1> HIDE DEF item, o
<1>9. CurrentDecision(a, i, i)
  BY <1>5 DEF CurrentDecision
<1>10. events[a][i].new \in EXPORT_ELIGIBLE_STATES
  BY <1>2, <1>5 DEF Eligible
<1> QED
  BY <1>1, <1>3, <1>4, <1>7, <1>8, <1>9, <1>10, OutboxRowIInv

\* The step writes one row of the outbox; it gives one row a new state.
SetsRow(a, r, o) == outbox' = [outbox EXCEPT ![a][r] = o]
SetsState(a, r, s) ==
  \/ outbox' = [outbox EXCEPT ![a][r].state = s]
  \/ /\ s = "exported"
     /\ outbox' = [outbox EXCEPT ![a][r].state = s, ![a][r].exportedAt = "set"]

\* What a change of state of an outbox row keeps.
LEMMA NewState ==
  ASSUME TypeOK, NEW a \in Artifact, NEW r \in Revision, NEW s \in OutboxState,
         SetsState(a, r, s)
  PROVE  \E o \in OutboxRow : /\ SetsRow(a, r, o)
                              /\ o.state = s
                              /\ o.event = outbox[a][r].event
                              /\ o.content = outbox[a][r].content
                              /\ outbox[a][r].exportedAt = "set" => o.exportedAt = "set"
<1>1. PICK row \in OutboxRow : row = outbox[a][r]
  BY DEF TypeOK
<1>2. CASE outbox' = [outbox EXCEPT ![a][r].state = s]
  <2>1. PICK o : o = [row EXCEPT !.state = s]
    OBVIOUS
  <2>2. /\ o \in OutboxRow /\ o.state = s
        /\ o.event = row.event /\ o.content = row.content
        /\ o.exportedAt = row.exportedAt
    BY <2>1 DEF OutboxRow
  <2>3. SetsRow(a, r, o)
    BY <1>1, <1>2, <2>1 DEF SetsRow
  <2> QED
    BY <1>1, <2>2, <2>3, Zenon
<1>3. CASE outbox' = [outbox EXCEPT ![a][r].state = s, ![a][r].exportedAt = "set"]
  <2>1. PICK o : o = [row EXCEPT !.state = s, !.exportedAt = "set"]
    OBVIOUS
  <2>2. /\ o \in OutboxRow /\ o.state = s
        /\ o.event = row.event /\ o.content = row.content
        /\ o.exportedAt = "set"
    BY <2>1 DEF OutboxRow
  <2>3. /\ outbox \in [Artifact -> [Revision -> OutboxRow]]
        /\ outbox[a] \in [Revision -> OutboxRow]
    BY DEF TypeOK
  <2>4. [outbox EXCEPT ![a][r].state = s, ![a][r].exportedAt = "set"]
          = [outbox EXCEPT ![a][r] = o]
    BY <1>1, <2>1, <2>3
  <2>5. SetsRow(a, r, o)
    BY <1>3, <2>4, Zenon DEF SetsRow
  <2> QED
    BY <1>1, <2>2, <2>5, Zenon
<1> QED
  BY <1>2, <1>3 DEF SetsState

\* The same, row by row.
LEMMA RowsAfterNewState ==
  ASSUME TypeOK, NEW a \in Artifact, NEW r \in Revision, NEW s \in OutboxState,
         SetsState(a, r, s),
         NEW b \in Artifact, NEW q \in Revision
  PROVE  /\ outbox'[b][q].event = outbox[b][q].event
         /\ outbox'[b][q].content = outbox[b][q].content
         /\ outbox'[b][q].state = IF b = a /\ q = r THEN s ELSE outbox[b][q].state
         /\ outbox[b][q].exportedAt = "set" => outbox'[b][q].exportedAt = "set"
<1>1. PICK o \in OutboxRow : /\ SetsRow(a, r, o)
                             /\ o.state = s
                             /\ o.event = outbox[a][r].event
                             /\ o.content = outbox[a][r].content
                             /\ outbox[a][r].exportedAt = "set" => o.exportedAt = "set"
  BY NewState
<1>2. /\ o.state = s /\ o.event = outbox[a][r].event /\ o.content = outbox[a][r].content
      /\ outbox[a][r].exportedAt = "set" => o.exportedAt = "set"
  BY <1>1
<1>3. ASSUME NEW table, table = [outbox EXCEPT ![a][r] = o]
      PROVE  table[b][q] = IF b = a /\ q = r THEN o ELSE outbox[b][q]
  BY <1>3 DEF TypeOK
<1>4. outbox'[b][q] = IF b = a /\ q = r THEN o ELSE outbox[b][q]
  BY <1>1, <1>3, Zenon DEF SetsRow
<1> QED
  BY <1>2, <1>4

LEMMA MarkIInv ==
  ASSUME IInv, NEW a \in Artifact, NEW r \in Revision,
         MarkOutboxExported(a, r) \/ MarkOutboxFailed(a, r) \/ MarkOutboxRolledBack(a, r)
  PROVE  IInv'
<1> USE DEF IInv
<1>1. PICK s \in {"exported", "failed", "rolled_back"} :
        /\ SetsState(a, r, s)
        /\ UNCHANGED <<queue, events>>
        /\ outbox[a][r].state # "none"
        /\ s = "exported" => CurrentDecision(a, r, outbox[a][r].event)
        /\ s = "rolled_back" => outbox[a][r].state = "rollback_needed"
  BY DEF MarkOutboxExported, Exportable, MarkOutboxFailed, Failable, MarkOutboxRolledBack,
         SetsState
<1>2. PICK o \in OutboxRow : /\ SetsRow(a, r, o)
                             /\ o.state = s
                             /\ o.event = outbox[a][r].event
                             /\ o.content = outbox[a][r].content
  <2>1. TypeOK /\ s \in OutboxState
    BY DEF OutboxState
  <2> QED
    BY <1>1, <2>1, NewState, Zenon
<1>3. o.state = s /\ o.event = outbox[a][r].event
  BY <1>2
<1>4. /\ outbox[a][r].event \in 1 .. Len(events[a])
      /\ events[a][outbox[a][r].event].revision = r
      /\ events[a][outbox[a][r].event].new \in EXPORT_ELIGIBLE_STATES
      /\ s = "rolled_back" => r < queue[a].revision
  BY <1>1 DEF OutboxFollowsReview
<1>5. /\ o.state \in {"planned", "exported"} => CurrentDecision(a, r, o.event)
      /\ o.state # "none" => /\ o.event \in 1 .. Len(events[a])
                            /\ events[a][o.event].revision = r
                            /\ events[a][o.event].new \in EXPORT_ELIGIBLE_STATES
      /\ o.state \in {"rollback_needed", "rolled_back"} => r < queue[a].revision
  <2>1. o.state \in {"planned", "exported"} => s = "exported"
    BY <1>3
  <2>2. o.state \in {"rollback_needed", "rolled_back"} => s = "rolled_back"
    BY <1>3
  <2> QED
    BY <1>1, <1>3, <1>4, <2>1, <2>2
<1>6. UNCHANGED <<queue, events>>
  BY <1>1
<1> QED
  BY <1>2, <1>5, <1>6, OutboxRowIInv, Zenon DEF SetsRow

LEMMA NextIInv == IInv /\ [Next]_storeVars => IInv'
<1> SUFFICES ASSUME IInv, [Next]_storeVars PROVE IInv'
  OBVIOUS
<1>1. ASSUME NEW a \in Artifact, NEW s \in INITIAL_STATES, EnqueueCandidate(a, s)
      PROVE  IInv'
  BY <1>1, EnqueueIInv
<1>2. ASSUME NEW a \in Artifact, NEW d \in REVIEW_STATES, NEW c \in CorrectionOrNull,
             NEW n \in 0 .. MaxRevision, Decide(a, d, c, n)
      PROVE  IInv'
  BY <1>2, DecideIInv
<1>3. ASSUME NEW a \in Artifact, NEW i \in 1 .. Len(events[a]),
             ReserveOutbox(a, SnapshotAt(a, i))
      PROVE  IInv'
  BY <1>3, ReserveIInv
<1>4. ASSUME NEW a \in Artifact, NEW r \in Revision,
             MarkOutboxExported(a, r) \/ MarkOutboxFailed(a, r) \/ MarkOutboxRolledBack(a, r)
      PROVE  IInv'
  BY <1>4, MarkIInv
<1>5. CASE UNCHANGED storeVars
  BY <1>5 DEF storeVars, IInv, TypeOK, HistoryExplainsQueue, SnapshotTrigger,
              OutboxFollowsReview, CurrentDecision, Eligible
<1> QED
  BY <1>1, <1>2, <1>3, <1>4, <1>5 DEF Next

LEMMA StoreInvariant == Spec => []IInv
BY InitIInv, NextIInv, PTL DEF Spec

\* Rows, events and reservations have their types, and no revision number goes
\* beyond the number of decisions.
THEOREM TypesHold == Spec => []TypeOK
BY StoreInvariant, PTL DEF IInv

\* However the calls of queue.py come in, the append-only history explains each
\* queue row: no decision is lost, repeated or made from a status that was not
\* the current one.
THEOREM HistoryHolds == Spec => []HistoryExplainsQueue
BY StoreInvariant, PTL DEF IInv

\* However the calls of queue.py come in, what is planned or exported is of the
\* current, eligible decision, and what is withdrawn is of an older one.
THEOREM ReviewBoundaryHolds == Spec => []OutboxFollowsReview
BY StoreInvariant, PTL DEF IInv

----------------------------------------------------------------------------
(* One content per idempotency key.                                        *)

LEMMA ContentOfSnapshot ==
  ASSUME NEW a, NEW i
  PROVE  BuildContent(SnapshotAt(a, i)) =
           [revision |-> events[a][i].revision, event |-> i, status |-> events[a][i].new,
            text |-> events[a][i].corrected]
BY DEF BuildContent, SnapshotAt, RowAfter

\* The rows that outlive a decision keep what they say, and there is none yet of
\* the revision the decision makes.
LEMMA DecideKeepsContent ==
  ASSUME IInv, OneContentPerKey,
         NEW a \in Artifact, NEW d \in REVIEW_STATES, NEW c \in CorrectionOrNull,
         NEW n \in 0 .. MaxRevision, Decide(a, d, c, n)
  PROVE  OneContentPerKey'
<1> USE DEF IInv
<1> DEFINE event == DecisionEvent(queue[a], d, c)
           last == queue[a].revision
<1>1. /\ \A b \in Artifact : b # a => /\ events'[b] = events[b]
                                      /\ outbox'[b] = outbox[b]
      /\ events'[a] = Append(events[a], event)
      /\ event \in Event
      /\ outbox'[a] = IF Eligible(a) THEN Withdraw(outbox[a]) ELSE outbox[a]
  BY DecideFacts
<1>2. event.revision = last + 1
  BY DEF DecisionEvent
<1> HIDE DEF event
<1>3. events[a] \in Seq(Event) /\ Len(events[a]) \in Nat /\ last = Len(events[a])
  BY RowShowsLastEvent
<1>4. /\ Len(events'[a]) = last + 1
      /\ \A i \in 1 .. last : events'[a][i] = events[a][i]
      /\ events'[a][last + 1] = event
  BY <1>1, <1>3
<1> SUFFICES ASSUME NEW b \in Artifact, NEW r \in Revision,
                    outbox'[b][r].state # "none",
                    NEW i \in 1 .. Len(events'[b]), events'[b][i].revision = r
             PROVE  outbox'[b][r].content =
                      [revision |-> events'[b][i].revision, event |-> i,
                       status |-> events'[b][i].new, text |-> events'[b][i].corrected]
  BY DEF OneContentPerKey, BuildContent, SnapshotAt, RowAfter
<1>5. CASE b # a
  <2>1. events'[b] = events[b] /\ outbox'[b] = outbox[b]
    BY <1>1, <1>5
  <2>2. outbox[b][r].content = BuildContent(SnapshotAt(b, i))
    BY <2>1 DEF OneContentPerKey
  <2> QED
    BY <2>1, <2>2, ContentOfSnapshot
<1>6. CASE b = a
  <2>1. outbox[a][r] \in OutboxRow
    BY DEF TypeOK
  <2>2. outbox[a][r].state # "none" /\ outbox'[a][r].content = outbox[a][r].content
    BY <1>1, <1>6, <2>1 DEF Withdraw, OutboxRow
  <2>3. outbox[a][r].event \in 1 .. last /\ events[a][outbox[a][r].event].revision = r
    BY <1>3, <2>2 DEF OutboxFollowsReview
  <2>4. r \in 1 .. last
    BY <1>3, <2>3 DEF HistoryExplainsQueue
  <2>5. i \in 1 .. last
    BY <1>2, <1>3, <1>4, <1>6, <2>4
  <2>6. events'[a][i] = events[a][i]
    BY <1>4, <2>5
  <2>7. outbox[a][r].content = BuildContent(SnapshotAt(a, i))
    BY <1>3, <1>6, <2>2, <2>5, <2>6 DEF OneContentPerKey
  <2> QED
    BY <1>6, <2>2, <2>6, <2>7, ContentOfSnapshot
<1> QED
  BY <1>5, <1>6

LEMMA NextContent == IInv /\ OneContentPerKey /\ [Next]_storeVars => OneContentPerKey'
<1> SUFFICES ASSUME IInv, OneContentPerKey, [Next]_storeVars PROVE OneContentPerKey'
  OBVIOUS
<1> USE DEF IInv
<1>1. ASSUME NEW a \in Artifact, NEW d \in REVIEW_STATES, NEW c \in CorrectionOrNull,
             NEW n \in 0 .. MaxRevision, Decide(a, d, c, n)
      PROVE  OneContentPerKey'
  BY <1>1, DecideKeepsContent
<1>2. ASSUME UNCHANGED events,
             \A b \in Artifact, r \in Revision :
               outbox'[b][r].state # "none" =>
                 outbox[b][r].state # "none" /\ outbox'[b][r].content = outbox[b][r].content
      PROVE  OneContentPerKey'
  BY <1>2 DEF OneContentPerKey, BuildContent, SnapshotAt, RowAfter
<1>3. ASSUME NEW a \in Artifact, NEW s \in INITIAL_STATES, EnqueueCandidate(a, s)
      PROVE  OneContentPerKey'
  BY <1>2, <1>3 DEF EnqueueCandidate
<1>4. ASSUME NEW a \in Artifact, NEW j \in 1 .. Len(events[a]),
             ReserveOutbox(a, SnapshotAt(a, j))
      PROVE  OneContentPerKey'
  <2> DEFINE item == SnapshotAt(a, j)
             o == [state |-> "planned", exportedAt |-> "null", event |-> queue[a].latest,
                   content |-> BuildContent(item)]
  <2>1. item.revision = j /\ j \in Revision
    <3>1. queue[a].revision = Len(events[a]) /\ queue[a].revision \in 0 .. MaxRevision
      BY DEF HistoryExplainsQueue, TypeOK, QueueRow
    <3> QED
      BY <3>1, StoreAssumption DEF HistoryExplainsQueue, SnapshotAt, RowAfter, Revision
  <2>2. /\ outbox' = [outbox EXCEPT ![a][j] = o] /\ UNCHANGED <<queue, events>>
    BY <1>4, <2>1 DEF ReserveOutbox
  <2>3. o.content = BuildContent(item)
    OBVIOUS
  <2> HIDE DEF item, o
  <2> SUFFICES ASSUME NEW b \in Artifact, NEW r \in Revision,
                      outbox'[b][r].state # "none",
                      NEW i \in 1 .. Len(events[b]), events[b][i].revision = r
               PROVE  outbox'[b][r].content = BuildContent(SnapshotAt(b, i))
    BY <2>2 DEF OneContentPerKey, BuildContent, SnapshotAt, RowAfter
  <2>4. CASE b = a /\ r = j
    <3>1. outbox'[b][r] = o
      BY <2>1, <2>2, <2>4 DEF TypeOK
    <3>2. i = j
      BY <2>4 DEF HistoryExplainsQueue
    <3> QED
      BY <2>3, <2>4, <3>1, <3>2 DEF item
  <2>5. CASE ~(b = a /\ r = j)
    <3>1. outbox'[b][r] = outbox[b][r]
      BY <2>1, <2>2, <2>5 DEF TypeOK
    <3> QED
      BY <3>1 DEF OneContentPerKey
  <2> QED
    BY <2>4, <2>5
<1>5. ASSUME NEW a \in Artifact, NEW q \in Revision,
             MarkOutboxExported(a, q) \/ MarkOutboxFailed(a, q) \/ MarkOutboxRolledBack(a, q)
      PROVE  OneContentPerKey'
  <2>1. PICK s \in OutboxState : /\ SetsState(a, q, s)
                                 /\ UNCHANGED events
                                 /\ outbox[a][q].state # "none"
    BY <1>5 DEF MarkOutboxExported, Exportable, MarkOutboxFailed, Failable,
                MarkOutboxRolledBack, OutboxState, SetsState
  <2>2. \A b \in Artifact, r \in Revision :
          /\ outbox'[b][r].content = outbox[b][r].content
          /\ outbox'[b][r].state = IF b = a /\ r = q THEN s ELSE outbox[b][r].state
    BY <2>1, RowsAfterNewState
  <2> QED
    BY <1>2, <2>1, <2>2
<1>6. CASE UNCHANGED storeVars
  BY <1>2, <1>6 DEF storeVars
<1> QED
  BY <1>1, <1>3, <1>4, <1>5, <1>6 DEF Next

\* Every reader of a revision builds the content that its reservation recorded:
\* the collision reserve_outbox raises a RuntimeError for cannot happen.
THEOREM OneContentHolds == Spec => []OneContentPerKey
<1>1. Init => OneContentPerKey
  BY DEF Init, OneContentPerKey, NoOutboxRow
<1> QED
  BY <1>1, StoreInvariant, NextContent, PTL DEF Spec

----------------------------------------------------------------------------
(* What happens to the outbox in a step: facts for the two theorems below. *)

LEMMA WithdrawStates ==
  ASSUME TypeOK, NEW a \in Artifact, NEW r \in Revision
  PROVE  Withdraw(outbox[a])[r].state =
           IF outbox[a][r].state \in {"planned", "exported"} THEN "rollback_needed"
           ELSE outbox[a][r].state
<1>1. outbox[a][r] \in OutboxRow
  BY DEF TypeOK
<1> QED
  BY <1>1 DEF Withdraw, OutboxRow

\* In each step at most one artifact's states change: all of its states, when a
\* decision withdraws an eligible one, or that of one row.
LEMMA OutboxSteps ==
  ASSUME IInv, [Next]_storeVars
  PROVE  \/ UNCHANGED outbox
         \/ \E a \in Artifact :
              /\ Eligible(a)
              /\ \A b \in Artifact, r \in Revision :
                   outbox'[b][r].state =
                     IF b = a /\ outbox[b][r].state \in {"planned", "exported"}
                     THEN "rollback_needed" ELSE outbox[b][r].state
         \/ \E a \in Artifact, q \in Revision, s \in OutboxState :
              /\ s \in OutboxSuccessors[outbox[a][q].state]
              /\ \A b \in Artifact, r \in Revision :
                   outbox'[b][r].state = IF b = a /\ r = q THEN s ELSE outbox[b][r].state
<1> USE DEF IInv
<1>1. ASSUME NEW a \in Artifact, NEW d \in REVIEW_STATES, NEW c \in CorrectionOrNull,
             NEW n \in 0 .. MaxRevision, Decide(a, d, c, n)
      PROVE  \/ UNCHANGED outbox
             \/ /\ Eligible(a)
                /\ \A b \in Artifact, r \in Revision :
                     outbox'[b][r].state =
                       IF b = a /\ outbox[b][r].state \in {"planned", "exported"}
                       THEN "rollback_needed" ELSE outbox[b][r].state
  <2>1. outbox' = [outbox EXCEPT ![a] = IF Eligible(a) THEN Withdraw(@) ELSE @]
    BY <1>1 DEF Decide, Eligible
  <2>2. CASE Eligible(a)
    <3>1. outbox'[a] = Withdraw(outbox[a]) /\ \A b \in Artifact : b # a => outbox'[b] = outbox[b]
      BY <2>1, <2>2 DEF TypeOK
    <3> QED
      BY <2>2, <3>1, WithdrawStates
  <2>3. CASE ~Eligible(a)
    BY <2>1, <2>3 DEF TypeOK
  <2> QED
    BY <2>2, <2>3
<1>2. ASSUME NEW a \in Artifact, NEW i \in 1 .. Len(events[a]),
             ReserveOutbox(a, SnapshotAt(a, i))
      PROVE  /\ i \in Revision
             /\ "planned" \in OutboxSuccessors[outbox[a][i].state]
             /\ \A b \in Artifact, r \in Revision :
                  outbox'[b][r].state = IF b = a /\ r = i THEN "planned" ELSE outbox[b][r].state
  <2>1. queue[a].revision = Len(events[a]) /\ queue[a].revision \in 0 .. MaxRevision
    BY DEF HistoryExplainsQueue, TypeOK, QueueRow
  <2>2. SnapshotAt(a, i).revision = i /\ i \in Revision
    BY <2>1, StoreAssumption DEF HistoryExplainsQueue, SnapshotAt, RowAfter, Revision
  <2> DEFINE o == [state |-> "planned", exportedAt |-> "null", event |-> queue[a].latest,
                   content |-> BuildContent(SnapshotAt(a, i))]
  <2>3. outbox[a][i].state = "none" /\ outbox' = [outbox EXCEPT ![a][i] = o]
    BY <1>2, <2>2 DEF ReserveOutbox
  <2>4. o.state = "planned"
    OBVIOUS
  <2> HIDE DEF o
  <2>5. \A b \in Artifact, r \in Revision :
          outbox'[b][r] = IF b = a /\ r = i THEN o ELSE outbox[b][r]
    BY <2>3 DEF TypeOK
  <2> QED
    BY <2>2, <2>3, <2>4, <2>5 DEF OutboxSuccessors
<1>3. ASSUME NEW a \in Artifact, NEW q \in Revision,
             MarkOutboxExported(a, q) \/ MarkOutboxFailed(a, q) \/ MarkOutboxRolledBack(a, q)
      PROVE  \E s \in OutboxState :
               /\ s \in OutboxSuccessors[outbox[a][q].state]
               /\ \A b \in Artifact, r \in Revision :
                    outbox'[b][r].state = IF b = a /\ r = q THEN s ELSE outbox[b][r].state
  <2>1. PICK s \in OutboxState : /\ SetsState(a, q, s)
                                 /\ s \in OutboxSuccessors[outbox[a][q].state]
    BY <1>3 DEF MarkOutboxExported, Exportable, MarkOutboxFailed, Failable,
                MarkOutboxRolledBack, OutboxState, OutboxSuccessors,
                SetsState
  <2>2. \A b \in Artifact, r \in Revision :
          outbox'[b][r].state = IF b = a /\ r = q THEN s ELSE outbox[b][r].state
    BY <2>1, RowsAfterNewState
  <2> QED
    BY <2>1, <2>2
<1>4. ASSUME NEW a \in Artifact, NEW s \in INITIAL_STATES, EnqueueCandidate(a, s)
      PROVE  UNCHANGED outbox
  BY <1>4 DEF EnqueueCandidate
<1>5. CASE UNCHANGED storeVars
  BY <1>5 DEF storeVars
<1>6. "planned" \in OutboxState
  BY DEF OutboxState
<1>7. CASE \E a \in Artifact : \E i \in 1 .. Len(events[a]) : ReserveOutbox(a, SnapshotAt(a, i))
  BY <1>2, <1>6, <1>7
<1>8. CASE \E a \in Artifact, r \in Revision :
             MarkOutboxExported(a, r) \/ MarkOutboxFailed(a, r) \/ MarkOutboxRolledBack(a, r)
  BY <1>3, <1>8
<1>9. CASE \E a \in Artifact, d \in REVIEW_STATES, c \in CorrectionOrNull, n \in 0 .. MaxRevision :
             Decide(a, d, c, n)
  BY <1>1, <1>9
<1> QED
  BY <1>4, <1>5, <1>7, <1>8, <1>9 DEF Next

\* What may follow each state, in one step.
LEMMA StatesSucceed ==
  ASSUME IInv, [Next]_storeVars, NEW a \in Artifact, NEW r \in Revision
  PROVE  outbox'[a][r].state \in OutboxSuccessors[outbox[a][r].state]
<1> USE DEF IInv
<1>1. outbox[a][r].state \in OutboxState
  BY DEF TypeOK, OutboxRow
<1>2. outbox[a][r].state \in OutboxSuccessors[outbox[a][r].state]
  BY <1>1 DEF OutboxState, OutboxSuccessors
<1>3. outbox[a][r].state \in {"planned", "exported"} =>
        "rollback_needed" \in OutboxSuccessors[outbox[a][r].state]
  BY DEF OutboxSuccessors
<1>4. CASE UNCHANGED outbox
  BY <1>2, <1>4
<1>5. CASE ~ UNCHANGED outbox
  BY <1>2, <1>3, <1>5, OutboxSteps
<1> QED
  BY <1>4, <1>5

\* A withdrawn export never comes back, an export is only ever withdrawn, and
\* no row of the outbox is deleted.
THEOREM LifecycleHolds == Spec => OutboxLifecycle
<1>1. ASSUME IInv, [Next]_storeVars
      PROVE  [\A a \in Artifact, r \in Revision :
                outbox'[a][r].state \in OutboxSuccessors[outbox[a][r].state]]_storeVars
  BY <1>1, StatesSucceed
<1> QED
  BY <1>1, StoreInvariant, PTL DEF Spec, OutboxLifecycle

----------------------------------------------------------------------------
(* The store implements the ledger.                                        *)

Granted == [a \in Artifact |-> IF Eligible(a) THEN queue[a].revision ELSE 0]

LEMMA InStateDef ==
  ASSUME NEW s
  PROVE  /\ InState(s) \subseteq Artifact \X Revision
         /\ \A a \in Artifact, r \in Revision : <<a, r>> \in InState(s) <=> outbox[a][r].state = s
BY DEF InState

LEMMA InStateDefPrime ==
  ASSUME NEW s
  PROVE  /\ InState(s)' \subseteq Artifact \X Revision
         /\ \A a \in Artifact, r \in Revision :
              <<a, r>> \in InState(s)' <=> outbox'[a][r].state = s
BY DEF InState

\* Sets of keys are equal when they have the same artifact and revision pairs.
LEMMA SameKeys ==
  ASSUME NEW S \in SUBSET (Artifact \X Revision), NEW T \in SUBSET (Artifact \X Revision),
         \A a \in Artifact, r \in Revision : <<a, r>> \in S <=> <<a, r>> \in T
  PROVE  S = T
OBVIOUS

LEMMA LedgerInit == Init => Ledger!Init
<1> SUFFICES ASSUME Init PROVE Ledger!Init
  OBVIOUS
<1>1. PICK migrated \in [Migrated -> MigratedRows] :
        /\ queue = [a \in Artifact |-> IF a \in Migrated THEN migrated[a] ELSE AbsentRow]
        /\ outbox = [a \in Artifact |-> [r \in Revision |-> NoOutboxRow]]
  BY DEF Init
<1>2. ASSUME NEW row \in MigratedRows, row.status \in EXPORT_ELIGIBLE_STATES
      PROVE  row.revision = 1
  BY <1>2 DEF MigratedRows, MigratedRow, EXPORT_ELIGIBLE_STATES, INITIAL_STATES
<1>3. AbsentRow.status \notin EXPORT_ELIGIBLE_STATES
  BY DEF AbsentRow, EXPORT_ELIGIBLE_STATES
<1>4. 1 \in Revision
  BY StoreAssumption DEF Revision
<1>5. ASSUME NEW a \in Artifact
      PROVE  (IF Eligible(a) THEN queue[a].revision ELSE 0) \in Revision \cup {0}
  BY <1>1, <1>2, <1>3, <1>4 DEF Eligible
<1>6. Granted \in [Artifact -> Revision \cup {0}]
  BY <1>5 DEF Granted
<1>7. ASSUME NEW s \in OutboxState \ {"none"}
      PROVE  InState(s) = {}
  <2>1. \A a \in Artifact, r \in Revision : outbox[a][r].state = "none"
    BY <1>1 DEF NoOutboxRow
  <2> QED
    BY <2>1 DEF InState
<1> QED
  BY <1>6, <1>7 DEF Ledger!Init, Granted, OutboxState

\* A decision replaces the grant, and recalls what was let out under it.
LEMMA DecideIsReview ==
  ASSUME IInv, NEW a \in Artifact, NEW d \in REVIEW_STATES, NEW c \in CorrectionOrNull,
         NEW n \in 0 .. MaxRevision, Decide(a, d, c, n)
  PROVE  \E g \in Revision \cup {0} : Ledger!Review(a, g)
<1> USE DEF IInv
<1> DEFINE last == queue[a].revision
           g == IF d \in EXPORT_ELIGIBLE_STATES THEN last + 1 ELSE 0
           out(r) == outbox[a][r].state \in {"planned", "exported"}
           S == {key \in {<<a, Granted[a]>>} : Granted[a] = last /\ last \in Revision /\ out(last)}
<1>1. /\ last + 1 \in Revision
      /\ queue'[a].revision = last + 1 /\ queue'[a].status = d
      /\ \A b \in Artifact : b # a => queue'[b] = queue[b] /\ outbox'[b] = outbox[b]
      /\ outbox'[a] = IF Eligible(a) THEN Withdraw(outbox[a]) ELSE outbox[a]
  BY DecideFacts
<1>2. last \in Nat /\ last = Len(events[a])
  BY RowShowsLastEvent
<1>3. \A r \in Revision : out(r) => Eligible(a) /\ r = last
  BY DEF OutboxFollowsReview, CurrentDecision
<1>4. \A r \in Revision :
        outbox'[a][r].state = IF out(r) THEN "rollback_needed" ELSE outbox[a][r].state
  BY <1>1, <1>3, WithdrawStates
<1>5. Granted' = [Granted EXCEPT ![a] = g]
  BY <1>1 DEF Granted, Eligible
<1>6. \A r \in Revision : outbox[a][r].state \in {"exported", "rollback_needed", "rolled_back"}
                            => r < last + 1
  <2>1. \A r \in Revision : r \in Nat
    BY DEF Revision
  <2> QED
    BY <1>2, <1>3, <2>1 DEF OutboxFollowsReview
<1>7. \A r \in Revision : out(r) <=> <<a, r>> \in S
  <2>1. Eligible(a) => Granted[a] = last
    BY DEF Granted
  <2> QED
    BY <1>3, <2>1
<1>8. S \subseteq {a} \X Revision
  OBVIOUS
<1>9. S \in SUBSET {<<a, Granted[a]>>}
  OBVIOUS
<1> HIDE DEF S
<1>10. InState("exported")' = InState("exported") \ S
  <2>1. ASSUME NEW b \in Artifact, NEW r \in Revision
        PROVE  outbox'[b][r].state = "exported" <=>
                 outbox[b][r].state = "exported" /\ <<b, r>> \notin S
    <3>1. CASE b = a
      BY <1>4, <1>7, <3>1
    <3>2. CASE b # a
      BY <1>1, <1>8, <3>2
    <3> QED
      BY <3>1, <3>2
  <2> QED
    BY <2>1, InStateDef, InStateDefPrime, SameKeys
<1>11. InState("rollback_needed")' = InState("rollback_needed") \cup S
  <2>1. ASSUME NEW b \in Artifact, NEW r \in Revision
        PROVE  outbox'[b][r].state = "rollback_needed" <=>
                 outbox[b][r].state = "rollback_needed" \/ <<b, r>> \in S
    <3>1. CASE b = a
      BY <1>4, <1>7, <3>1
    <3>2. CASE b # a
      BY <1>1, <1>8, <3>2
    <3> QED
      BY <3>1, <3>2
  <2>2. S \subseteq Artifact \X Revision
    BY <1>8
  <2> QED
    BY <2>1, <2>2, InStateDef, InStateDefPrime, SameKeys
<1>12. InState("rolled_back")' = InState("rolled_back")
  <2>1. ASSUME NEW b \in Artifact, NEW r \in Revision
        PROVE  outbox'[b][r].state = "rolled_back" <=> outbox[b][r].state = "rolled_back"
    <3>1. CASE b = a
      BY <1>4, <3>1
    <3>2. CASE b # a
      BY <1>1, <3>2
    <3> QED
      BY <3>1, <3>2
  <2> QED
    BY <2>1 DEF InState
<1>13. \A r \in Revision :
         /\ <<a, r>> \in InState("exported") => <<a, r>> \in S
         /\ <<a, r>> \in InState("exported") \cup InState("rollback_needed")
                           \cup InState("rolled_back") => r < last + 1
  BY <1>6, <1>7, InStateDef
<1>14. g \in Revision \cup {0} /\ (g = 0 \/ g = last + 1)
  BY <1>1
<1> HIDE DEF g, last
<1> QED
  BY <1>5, <1>9, <1>10, <1>11, <1>12, <1>13, <1>14 DEF Ledger!Review, Granted

\* A change of one outbox row that leaves the queue alone.
LEMMA RowStepIsLedgerStep ==
  ASSUME IInv, NEW a \in Artifact, NEW q \in Revision,
         \/ MarkOutboxExported(a, q)
         \/ MarkOutboxFailed(a, q)
         \/ MarkOutboxRolledBack(a, q)
  PROVE  \/ Ledger!Publish(a)
         \/ Ledger!Remove(a, q)
         \/ UNCHANGED <<Granted, InState("exported"), InState("rollback_needed"),
                        InState("rolled_back")>>
<1> USE DEF IInv
<1>1. PICK s \in {"exported", "failed", "rolled_back"} :
        /\ SetsState(a, q, s)
        /\ UNCHANGED <<queue, events>>
        /\ s = "exported" => /\ CurrentDecision(a, q, outbox[a][q].event)
                             /\ outbox[a][q].state \in {"planned", "failed", "exported"}
        /\ s = "failed" => outbox[a][q].state \in {"planned", "failed"}
        /\ s = "rolled_back" => outbox[a][q].state = "rollback_needed"
  BY DEF MarkOutboxExported, Exportable, MarkOutboxFailed, Failable, MarkOutboxRolledBack,
         SetsState
<1>2. s \in OutboxState
  BY DEF OutboxState
<1>5. \A b \in Artifact, r \in Revision :
        outbox'[b][r].state = IF b = a /\ r = q THEN s ELSE outbox[b][r].state
  BY <1>1, <1>2, RowsAfterNewState
<1>6. Granted' = Granted
  BY <1>1 DEF Granted, Eligible
<1>7. ASSUME NEW t \in {"exported", "rollback_needed", "rolled_back"}
      PROVE  InState(t)' = (InState(t) \ {<<a, q>>}) \cup (IF s = t THEN {<<a, q>>} ELSE {})
  <2> DEFINE T == (InState(t) \ {<<a, q>>}) \cup (IF s = t THEN {<<a, q>>} ELSE {})
  <2>1. T \subseteq Artifact \X Revision
    BY InStateDef
  <2>2. ASSUME NEW b \in Artifact, NEW r \in Revision
        PROVE  outbox'[b][r].state = t <=> <<b, r>> \in T
    <3>1. <<b, r>> \in InState(t) <=> outbox[b][r].state = t
      BY InStateDef
    <3>2. outbox'[b][r].state = IF b = a /\ r = q THEN s ELSE outbox[b][r].state
      BY <1>5
    <3> QED
      BY <3>1, <3>2
  <2> HIDE DEF T
  <2>3. InState(t)' = T
    BY <2>1, <2>2 DEF InState
  <2> QED
    BY <2>3 DEF T
<1>8. CASE s = "exported"
  <2>1. Granted[a] = q
    BY <1>1, <1>8 DEF Granted, CurrentDecision
  <2>2. q # 0
    BY DEF Revision
  <2>3. <<a, q>> \notin InState("rollback_needed") \cup InState("rolled_back")
    BY <1>1, <1>8, InStateDef
  <2>4. /\ InState("exported")' = InState("exported") \cup {<<a, q>>}
        /\ InState("rollback_needed")' = InState("rollback_needed")
        /\ InState("rolled_back")' = InState("rolled_back")
    BY <1>7, <1>8, <2>3
  <2>5. Ledger!Publish(a)
    BY <1>6, <2>1, <2>2, <2>3, <2>4 DEF Ledger!Publish, Granted
  <2> QED
    BY <2>5
<1>9. CASE s = "failed"
  <2>1. \A t \in {"exported", "rollback_needed", "rolled_back"} : <<a, q>> \notin InState(t)
    BY <1>1, <1>9, InStateDef
  <2>2. \A t \in {"exported", "rollback_needed", "rolled_back"} : InState(t)' = InState(t)
    BY <1>7, <1>9, <2>1
  <2> QED
    BY <1>6, <2>2
<1>10. CASE s = "rolled_back"
  <2>1. /\ <<a, q>> \in InState("rollback_needed")
        /\ <<a, q>> \notin InState("exported")
    BY <1>1, <1>10, InStateDef
  <2>2. /\ InState("exported")' = InState("exported")
        /\ InState("rollback_needed")' = InState("rollback_needed") \ {<<a, q>>}
        /\ InState("rolled_back")' = InState("rolled_back") \cup {<<a, q>>}
    BY <1>7, <1>10, <2>1
  <2>3. Ledger!Remove(a, q)
    BY <1>6, <2>1, <2>2 DEF Ledger!Remove, Granted
  <2> QED
    BY <2>3
<1> QED
  BY <1>8, <1>9, <1>10

LEMMA LedgerNext ==
  ASSUME IInv, [Next]_storeVars
  PROVE  \/ Ledger!Next
         \/ UNCHANGED <<Granted, InState("exported"), InState("rollback_needed"),
                        InState("rolled_back")>>
<1> USE DEF IInv
<1>1. ASSUME NEW a \in Artifact, NEW d \in REVIEW_STATES, NEW c \in CorrectionOrNull,
             NEW n \in 0 .. MaxRevision, Decide(a, d, c, n)
      PROVE  Ledger!Next
  BY <1>1, DecideIsReview DEF Ledger!Next
<1>2. ASSUME NEW a \in Artifact, NEW q \in Revision,
             MarkOutboxExported(a, q) \/ MarkOutboxFailed(a, q) \/ MarkOutboxRolledBack(a, q)
      PROVE  \/ Ledger!Next
             \/ UNCHANGED <<Granted, InState("exported"), InState("rollback_needed"),
                            InState("rolled_back")>>
  BY <1>2, RowStepIsLedgerStep DEF Ledger!Next
<1>3. ASSUME NEW a \in Artifact, NEW s \in INITIAL_STATES, EnqueueCandidate(a, s)
      PROVE  UNCHANGED <<Granted, InState("exported"), InState("rollback_needed"),
                         InState("rolled_back")>>
  <2>1. /\ queue[a].status = "absent" /\ outbox' = outbox
        /\ \A b \in Artifact : b # a => queue'[b] = queue[b]
        /\ queue'[a].status = s
    BY <1>3 DEF EnqueueCandidate, TypeOK
  <2>2. "absent" \notin EXPORT_ELIGIBLE_STATES /\ s \notin EXPORT_ELIGIBLE_STATES
    BY DEF EXPORT_ELIGIBLE_STATES, INITIAL_STATES
  <2>3. Granted' = Granted
    BY <2>1, <2>2 DEF Granted, Eligible
  <2> QED
    BY <2>1, <2>3 DEF InState
<1>4. ASSUME NEW a \in Artifact, NEW i \in 1 .. Len(events[a]),
             ReserveOutbox(a, SnapshotAt(a, i))
      PROVE  UNCHANGED <<Granted, InState("exported"), InState("rollback_needed"),
                         InState("rolled_back")>>
  <2>1. queue[a].revision = Len(events[a]) /\ queue[a].revision \in 0 .. MaxRevision
    BY DEF HistoryExplainsQueue, TypeOK, QueueRow
  <2>2. SnapshotAt(a, i).revision = i /\ i \in Revision
    BY <2>1, StoreAssumption DEF HistoryExplainsQueue, SnapshotAt, RowAfter, Revision
  <2> DEFINE o == [state |-> "planned", exportedAt |-> "null", event |-> queue[a].latest,
                   content |-> BuildContent(SnapshotAt(a, i))]
  <2>3. /\ outbox[a][i].state = "none" /\ outbox' = [outbox EXCEPT ![a][i] = o]
        /\ queue' = queue
    BY <1>4, <2>2 DEF ReserveOutbox
  <2>4. o.state = "planned"
    OBVIOUS
  <2> HIDE DEF o
  <2>5. ASSUME NEW t \in {"exported", "rollback_needed", "rolled_back"}
        PROVE  InState(t)' = InState(t)
    <3>1. \A b \in Artifact, r \in Revision :
            outbox'[b][r] = IF b = a /\ r = i THEN o ELSE outbox[b][r]
      BY <2>2, <2>3 DEF TypeOK
    <3>2. \A b \in Artifact, r \in Revision : outbox'[b][r].state = t <=> outbox[b][r].state = t
      BY <2>3, <2>4, <3>1
    <3> QED
      BY <3>2 DEF InState
  <2>6. Granted' = Granted
    BY <2>3 DEF Granted, Eligible
  <2> QED
    BY <2>5, <2>6
<1>5. CASE UNCHANGED storeVars
  BY <1>5 DEF storeVars, Granted, Eligible, InState
<1>6. CASE \E a \in Artifact : \E i \in 1 .. Len(events[a]) : ReserveOutbox(a, SnapshotAt(a, i))
  BY <1>4, <1>6
<1>7. CASE \E a \in Artifact, r \in Revision :
             MarkOutboxExported(a, r) \/ MarkOutboxFailed(a, r) \/ MarkOutboxRolledBack(a, r)
  BY <1>2, <1>7
<1>8. CASE \E a \in Artifact, d \in REVIEW_STATES, c \in CorrectionOrNull, n \in 0 .. MaxRevision :
             Decide(a, d, c, n)
  BY <1>1, <1>8
<1> QED
  BY <1>3, <1>5, <1>6, <1>7, <1>8 DEF Next

\* The tables do what the ledger promises, for any artifacts and any number of
\* revisions: only the revision the current review grants is published, what the
\* review takes back is recalled in the same step, and nothing recalled returns.
THEOREM StoreImplementsLedger == Spec => ImplementsLedger
<1>1. IInv /\ [Next]_storeVars => [Ledger!Next]_(Ledger!ledgerVars)
  <2> SUFFICES ASSUME IInv, [Next]_storeVars PROVE [Ledger!Next]_(Ledger!ledgerVars)
    OBVIOUS
  <2>1. CASE Ledger!Next
    BY <2>1
  <2>2. CASE UNCHANGED <<Granted, InState("exported"), InState("rollback_needed"),
                         InState("rolled_back")>>
    BY <2>2 DEF Ledger!ledgerVars, Granted
  <2> QED
    BY <2>1, <2>2, LedgerNext
<1>2. Spec => Ledger!Spec
  BY <1>1, LedgerInit, StoreInvariant, PTL DEF Spec, Ledger!Spec
<1> QED
  BY <1>2 DEF ImplementsLedger
============================================================================
