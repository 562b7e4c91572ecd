-------------------------- MODULE Promotion_proofs --------------------------
(***************************************************************************)
(* Proofs about Promotion, for any artifacts, reviewers, exporters and     *)
(* bound on the revisions. Everything that was proved of the store alone   *)
(* carries over, as the program uses it only as the store allows.          *)
(***************************************************************************)
EXTENDS Promotion, ReviewStore_proofs, FiniteSetTheorems

----------------------------------------------------------------------------
(* What a step of the store leaves as it was, whoever takes it.            *)

\* Histories only grow, revisions only count up, and a row changes only with
\* its revision.
LEMMA QueueFrame ==
  ASSUME IInv, [Next]_storeVars, NEW a \in Artifact
  PROVE  /\ Len(events[a]) \in Nat /\ Len(events'[a]) \in Nat
         /\ Len(events[a]) <= Len(events'[a])
         /\ \A i \in 1 .. Len(events[a]) : events'[a][i] = events[a][i]
         /\ queue[a].revision \in Nat /\ queue'[a].revision \in Nat
         /\ queue[a].revision <= queue'[a].revision
         /\ queue[a].status # "absent" =>
              /\ queue'[a].status # "absent"
              /\ queue'[a].provenance = queue[a].provenance
              /\ queue'[a].revision = queue[a].revision => queue'[a] = queue[a]
<1> USE DEF IInv
<1> DEFINE Goal == /\ Len(events[a]) \in Nat /\ Len(events'[a]) \in Nat
                   /\ Len(events[a]) <= Len(events'[a])
                   /\ \A i \in 1 .. Len(events[a]) : events'[a][i] = events[a][i]
                   /\ queue[a].revision \in Nat /\ queue'[a].revision \in Nat
                   /\ queue[a].revision <= queue'[a].revision
                   /\ queue[a].status # "absent" =>
                        /\ queue'[a].status # "absent"
                        /\ queue'[a].provenance = queue[a].provenance
                        /\ queue'[a].revision = queue[a].revision => queue'[a] = queue[a]
<1>1. /\ events[a] \in Seq(Event) /\ Len(events[a]) \in Nat
      /\ queue[a].revision \in Nat /\ queue[a].revision = Len(events[a])
  BY RowShowsLastEvent
<1>2. ASSUME queue'[a] = queue[a], events'[a] = events[a] PROVE Goal
  BY <1>1, <1>2
<1>3. ASSUME NEW b \in Artifact, NEW s \in INITIAL_STATES, EnqueueCandidate(b, s)
      PROVE  Goal
  <2>1. CASE b = a
    <3>1. /\ queue[a].status = "absent" /\ events'[a] = events[a]
          /\ queue'[a].revision = 0
      BY <1>3, <2>1 DEF EnqueueCandidate, TypeOK
    <3> QED
      BY <1>1, <3>1, AbsentHasNoHistory
  <2>2. CASE b # a
    BY <1>2, <1>3, <2>2 DEF EnqueueCandidate, TypeOK
  <2> QED
    BY <2>1, <2>2
<1>4. ASSUME NEW b \in Artifact, NEW d \in REVIEW_STATES, NEW c \in CorrectionOrNull,
             NEW n \in 0 .. MaxRevision, Decide(b, d, c, n)
      PROVE  Goal
  <2>1. CASE b = a
    <3>1. /\ events'[a] = Append(events[a], DecisionEvent(queue[a], d, c))
          /\ queue'[a].revision = queue[a].revision + 1
          /\ queue'[a].status = d /\ queue'[a].provenance = queue[a].provenance
      BY <1>4, <2>1, DecideFacts
    <3>2. d # "absent"
      BY DEF REVIEW_STATES, INITIAL_STATES, TERMINAL_STATES, EXPORT_ELIGIBLE_STATES
    <3>3. /\ Len(events'[a]) = Len(events[a]) + 1
          /\ \A i \in 1 .. Len(events[a]) : events'[a][i] = events[a][i]
      BY <1>1, <3>1
    <3> QED
      BY <1>1, <3>1, <3>2, <3>3
  <2>2. CASE b # a
    BY <1>2, <1>4, <2>2, DecideFacts
  <2> QED
    BY <2>1, <2>2
<1>5. ASSUME UNCHANGED <<queue, events>> PROVE Goal
  BY <1>2, <1>5
<1>6. ASSUME UNCHANGED storeVars PROVE Goal
  BY <1>2, <1>6 DEF storeVars
<1> HIDE DEF Goal
<1>7. ASSUME Next PROVE Goal
  <2>1. ASSUME NEW b \in Artifact, NEW i \in 1 .. Len(events[b]),
               ReserveOutbox(b, SnapshotAt(b, i))
        PROVE  Goal
    BY <1>5, <2>1 DEF ReserveOutbox
  <2>2. ASSUME NEW b \in Artifact, NEW r \in Revision,
               MarkOutboxExported(b, r) \/ MarkOutboxFailed(b, r) \/ MarkOutboxRolledBack(b, r)
        PROVE  Goal
    BY <1>5, <2>2 DEF MarkOutboxExported, MarkOutboxFailed, MarkOutboxRolledBack
  <2> QED
    BY <1>3, <1>4, <1>7, <2>1, <2>2 DEF Next
<1>8. Goal
  BY <1>6, <1>7
<1> QED
  BY <1>8 DEF Goal

\* What a reservation recorded stays recorded.
LEMMA ReservationStays ==
  ASSUME IInv, [Next]_storeVars, NEW a \in Artifact, NEW r \in Revision,
         outbox[a][r].state # "none"
  PROVE  /\ outbox'[a][r].event = outbox[a][r].event
         /\ outbox'[a][r].content = outbox[a][r].content
         /\ outbox[a][r].exportedAt = "set" => outbox'[a][r].exportedAt = "set"
<1> USE DEF IInv
<1> DEFINE Goal == /\ outbox'[a][r].event = outbox[a][r].event
                   /\ outbox'[a][r].content = outbox[a][r].content
                   /\ outbox[a][r].exportedAt = "set" => outbox'[a][r].exportedAt = "set"
<1>1. ASSUME NEW b \in Artifact, NEW d \in REVIEW_STATES, NEW c \in CorrectionOrNull,
             NEW n \in 0 .. MaxRevision, Decide(b, d, c, n)
      PROVE  Goal
  <2>1. /\ b # a => outbox'[a] = outbox[a]
        /\ b = a => outbox'[a] = IF Eligible(a) THEN Withdraw(outbox[a]) ELSE outbox[a]
    BY <1>1, DecideFacts
  <2>2. outbox[a][r] \in OutboxRow
    BY DEF TypeOK
  <2>3. /\ Withdraw(outbox[a])[r].event = outbox[a][r].event
        /\ Withdraw(outbox[a])[r].content = outbox[a][r].content
        /\ Withdraw(outbox[a])[r].exportedAt = outbox[a][r].exportedAt
    BY <2>2 DEF Withdraw, OutboxRow
  <2> QED
    BY <2>1, <2>3
<1>2. ASSUME NEW b \in Artifact, NEW i \in 1 .. Len(events[b]),
             ReserveOutbox(b, SnapshotAt(b, i))
      PROVE  Goal
  <2>1. queue[b].revision = Len(events[b]) /\ queue[b].revision \in 0 .. MaxRevision
    BY DEF HistoryExplainsQueue, TypeOK, QueueRow
  <2>2. SnapshotAt(b, i).revision = i /\ i \in Revision
    BY <2>1, StoreAssumption DEF HistoryExplainsQueue, SnapshotAt, RowAfter, Revision
  <2> DEFINE o == [state |-> "planned", exportedAt |-> "null", event |-> queue[b].latest,
                   content |-> BuildContent(SnapshotAt(b, i))]
  <2>3. outbox[b][i].state = "none" /\ outbox' = [outbox EXCEPT ![b][i] = o]
    BY <1>2, <2>2 DEF ReserveOutbox
  <2> HIDE DEF o
  <2>4. ~(b = a /\ i = r)
    BY <2>3
  <2>5. outbox'[a][r] = outbox[a][r]
    BY <2>2, <2>3, <2>4 DEF TypeOK
  <2> QED
    BY <2>5
<1>3. ASSUME NEW b \in Artifact, NEW q \in Revision,
             MarkOutboxExported(b, q) \/ MarkOutboxFailed(b, q) \/ MarkOutboxRolledBack(b, q)
      PROVE  Goal
  <2>1. PICK s \in OutboxState : SetsState(b, q, s)
    BY <1>3 DEF MarkOutboxExported, MarkOutboxFailed, MarkOutboxRolledBack, OutboxState, SetsState
  <2> QED
    BY <2>1, RowsAfterNewState
<1>4. ASSUME NEW b \in Artifact, NEW s \in INITIAL_STATES, EnqueueCandidate(b, s)
      PROVE  Goal
  BY <1>4 DEF EnqueueCandidate
<1>5. ASSUME UNCHANGED storeVars PROVE Goal
  BY <1>5 DEF storeVars
<1> HIDE DEF Goal
<1>6. Goal
  BY <1>1, <1>2, <1>3, <1>4, <1>5 DEF Next
<1> QED
  BY <1>6 DEF Goal

\* The row of an export that was recorded as done once.
Recorded(a, r) == outbox[a][r].state # "none" /\ outbox[a][r].exportedAt = "set"

LEMMA MarkedIsExported ==
  ASSUME TypeOK, NEW a \in Artifact, NEW r \in Revision, MarkOutboxExported(a, r)
  PROVE  outbox'[a][r].state = "exported" /\ outbox'[a][r].exportedAt = "set"
<1> DEFINE row == [outbox[a][r] EXCEPT !.state = "exported", !.exportedAt = "set"]
<1>1. /\ outbox[a][r] \in OutboxRow /\ outbox[a] \in [Revision -> OutboxRow]
      /\ outbox \in [Artifact -> [Revision -> OutboxRow]]
  BY DEF TypeOK
<1>2. row.state = "exported" /\ row.exportedAt = "set"
  BY <1>1 DEF OutboxRow
<1>3. outbox' = [outbox EXCEPT ![a] = [outbox[a] EXCEPT ![r] = row]]
  BY <1>1 DEF MarkOutboxExported
<1> HIDE DEF row
<1>4. outbox'[a] = [outbox[a] EXCEPT ![r] = row]
  BY <1>3 DEF TypeOK
<1>5. outbox'[a][r] = row
  BY <1>1, <1>4
<1> QED
  BY <1>2, <1>5

\* What was reserved, recorded or refused once stays so.
LEMMA OutboxFrame ==
  ASSUME IInv, [Next]_storeVars, NEW a \in Artifact, NEW r \in Revision,
         outbox[a][r].state # "none"
  PROVE  /\ outbox'[a][r].state # "none"
         /\ Recorded(a, r) => Recorded(a, r)'
         /\ ~Exportable(a, r) => ~Exportable(a, r)'
<1> USE DEF IInv
<1>1. /\ outbox[a][r].state \in OutboxState
      /\ outbox'[a][r].state \in OutboxSuccessors[outbox[a][r].state]
  BY StatesSucceed DEF TypeOK, OutboxRow
<1>2. /\ outbox'[a][r].state # "none"
      /\ outbox[a][r].state \in {"rollback_needed", "rolled_back"} =>
           outbox'[a][r].state \in {"rollback_needed", "rolled_back"}
  BY <1>1 DEF OutboxState, OutboxSuccessors
<1>3. ASSUME ~Exportable(a, r), Exportable(a, r)' PROVE FALSE
  <2> DEFINE e == outbox[a][r].event
  <2>1. /\ outbox'[a][r].event = e /\ queue'[a].revision = r
        /\ outbox[a][r].state \notin {"rollback_needed", "rolled_back"}
    BY <1>2, <1>3, ReservationStays DEF Exportable, CurrentDecision
  <2>2. ~CurrentDecision(a, r, e)
    BY <1>1, <1>3, <2>1 DEF Exportable, OutboxState
  <2>3. /\ e \in 1 .. Len(events[a]) /\ events[a][e].revision = r
    BY DEF OutboxFollowsReview
  <2>4. /\ r = e /\ queue[a].revision = Len(events[a]) /\ Len(events[a]) \in Nat
    BY <2>3, RowShowsLastEvent DEF HistoryExplainsQueue
  <2>5. queue[a].status # "absent"
    BY <2>3, <2>4, AbsentHasNoHistory
  <2>6. /\ queue[a].revision <= queue'[a].revision
        /\ queue'[a].revision = queue[a].revision => queue'[a] = queue[a]
    BY <2>5, QueueFrame
  <2>7. queue'[a] = queue[a]
    BY <2>1, <2>3, <2>4, <2>6
  <2> QED
    BY <1>3, <2>1, <2>2, <2>7 DEF Exportable, CurrentDecision, Eligible
<1>4. Recorded(a, r) => Recorded(a, r)'
  BY <1>2, ReservationStays DEF Recorded
<1> QED
  BY <1>2, <1>3, <1>4

----------------------------------------------------------------------------
(* The invariant.                                                          *)

DeskTypes ==
  seen \in [Reviewer -> SUBSET [artifact : Artifact, revision : 0 .. MaxRevision,
                                status : REVIEW_STATES]]

ExporterTypes ==
  /\ pc \in [Exporter -> {"idle", "list", "next", "history", "reserve", "reread", "verify",
                          "write", "mark", "unlink", "fail", "manifest"}]
  /\ todo \in [Exporter -> SUBSET [artifact : Artifact, revision : Revision,
                                 status : EXPORT_ELIGIBLE_STATES]]
  /\ item \in [Exporter -> SUBSET Item]
  /\ done \in [Exporter -> SUBSET Key]

DiskTypes ==
  /\ files \in [Artifact -> [Revision -> Content]]
  /\ manifest \in SUBSET Key
  /\ removing \in SUBSET Key

\* An artifact has been decided before it is listed for export.
EligibleIsDecided == \A a \in Artifact : Eligible(a) => queue[a].revision > 0

\* What a reviewer holds was so once, and is so as long as the revision is the same.
DeskFollowsQueue ==
  \A p \in Reviewer : \A s \in seen[p] :
    LET row == queue[s.artifact] IN
    /\ row.status # "absent"
    /\ s.revision <= row.revision
    /\ s.revision = row.revision => s.status = row.status

\* What an exporter knows of its item from each step on. The row it reloaded is that
\* of a decision in the history, which need not be the last one any more.
ItemIsEligible(i) ==
  /\ i.row.status \in EXPORT_ELIGIBLE_STATES
  /\ queue[i.artifact].status # "absent"
  /\ i.row.provenance = queue[i.artifact].provenance

ItemIsDecision(i) ==
  /\ i.row.latest \in 1 .. Len(events[i.artifact])
  /\ i.row = SnapshotAt(i.artifact, i.row.latest)

StateOf(i) == outbox[i.artifact][i.row.revision].state

ItemInv(e, i) ==
  /\ ItemIsEligible(i)
  /\ pc[e] # "history" => ItemIsDecision(i)
  /\ pc[e] \in {"verify", "write", "mark", "unlink", "fail"} => StateOf(i) # "none"
  /\ pc[e] = "verify" => Recorded(i.artifact, i.row.revision)
  /\ pc[e] = "unlink" => ~Exportable(i.artifact, i.row.revision)

ExporterInv(e) ==
  /\ \A i, j \in item[e] : i = j
  /\ \A i \in item[e] : ItemInv(e, i)
  /\ \A key \in done[e] : Recorded(key[1], key[2])

\* A file has the content that its reservation recorded.
FilesAreReserved ==
  \A a \in Artifact, r \in Revision :
    OnDisk(a, r) => outbox[a][r].state # "none" /\ files[a][r] = outbox[a][r].content

\* What was removed and not recorded yet has not been recorded by somebody else.
RemovalIsDue == \A key \in removing : outbox[key[1]][key[2]].state = "rollback_needed"

\* What is on record as exported has its date.
ExportedIsDated ==
  \A a \in Artifact, r \in Revision : outbox[a][r].state = "exported" => Recorded(a, r)

ManifestInv == \A key \in manifest : Recorded(key[1], key[2])

StoreInv == IInv /\ OneContentPerKey /\ ExportedIsDated
RunInv == ExporterTypes /\ \A e \in Exporter : ExporterInv(e)
DiskInv == DiskTypes /\ FilesAreReserved /\ ManifestInv /\ RemovalIsDue
DeskInv == DeskTypes /\ DeskFollowsQueue /\ EligibleIsDecided
PInv == StoreInv /\ DeskInv /\ RunInv /\ DiskInv

\* No other step of the store makes a row exported.
LEMMA OnlyMarkExports ==
  ASSUME IInv, [Next]_storeVars, NEW a \in Artifact, NEW r \in Revision,
         outbox'[a][r].state = "exported", outbox[a][r].state # "exported"
  PROVE  MarkOutboxExported(a, r)
<1> USE DEF IInv
<1>1. ASSUME NEW b \in Artifact, NEW d \in REVIEW_STATES, NEW c \in CorrectionOrNull,
             NEW n \in 0 .. MaxRevision, Decide(b, d, c, n)
      PROVE  FALSE
  <2>1. /\ b # a => outbox'[a] = outbox[a]
        /\ b = a => outbox'[a] = IF Eligible(a) THEN Withdraw(outbox[a]) ELSE outbox[a]
    BY <1>1, DecideFacts
  <2>2. outbox[a][r] \in OutboxRow
    BY DEF TypeOK
  <2>3. Withdraw(outbox[a])[r].state \in {outbox[a][r].state, "rollback_needed"}
    BY <2>2 DEF Withdraw, OutboxRow
  <2> QED
    BY <2>1, <2>3
<1>2. ASSUME NEW b \in Artifact, NEW i \in 1 .. Len(events[b]),
             ReserveOutbox(b, SnapshotAt(b, i))
      PROVE  FALSE
  <2>1. queue[b].revision = Len(events[b]) /\ queue[b].revision \in 0 .. MaxRevision
    BY DEF HistoryExplainsQueue, TypeOK, QueueRow
  <2>2. SnapshotAt(b, i).revision = i /\ i \in Revision
    BY <2>1, StoreAssumption DEF HistoryExplainsQueue, SnapshotAt, RowAfter, Revision
  <2> DEFINE o == [state |-> "planned", exportedAt |-> "null", event |-> queue[b].latest,
                   content |-> BuildContent(SnapshotAt(b, i))]
  <2>3. outbox' = [outbox EXCEPT ![b][i] = o] /\ o.state = "planned"
    BY <1>2, <2>2 DEF ReserveOutbox
  <2> HIDE DEF o
  <2>4. outbox'[a][r] \in {o, outbox[a][r]}
    BY <2>2, <2>3 DEF TypeOK
  <2> QED
    BY <2>3, <2>4
<1>3. ASSUME NEW b \in Artifact, NEW q \in Revision, NEW s \in OutboxState \ {"exported"},
             SetsState(b, q, s)
      PROVE  FALSE
  BY <1>3, RowsAfterNewState
<1>4. ASSUME NEW b \in Artifact, NEW q \in Revision,
             MarkOutboxFailed(b, q) \/ MarkOutboxRolledBack(b, q)
      PROVE  FALSE
  <2>1. PICK s \in OutboxState \ {"exported"} : SetsState(b, q, s)
    BY <1>4 DEF MarkOutboxFailed, MarkOutboxRolledBack, OutboxState, SetsState
  <2> QED
    BY <1>3, <2>1
<1>5. ASSUME NEW b \in Artifact, NEW q \in Revision, MarkOutboxExported(b, q)
      PROVE  b = a /\ q = r
  <2>1. SetsState(b, q, "exported") /\ "exported" \in OutboxState
    BY <1>5 DEF MarkOutboxExported, OutboxState, SetsState
  <2> QED
    BY <2>1, RowsAfterNewState
<1>6. ASSUME NEW b \in Artifact, NEW s \in INITIAL_STATES, EnqueueCandidate(b, s)
      PROVE  FALSE
  BY <1>6 DEF EnqueueCandidate
<1>7. Next
  BY DEF storeVars
<1> QED
  BY <1>1, <1>2, <1>4, <1>5, <1>6, <1>7 DEF Next

LEMMA DatedStep ==
  ASSUME IInv, ExportedIsDated, [Next]_storeVars
  PROVE  ExportedIsDated'
<1> USE DEF IInv
<1> SUFFICES ASSUME NEW a \in Artifact, NEW r \in Revision, outbox'[a][r].state = "exported"
             PROVE  Recorded(a, r)'
  BY DEF ExportedIsDated
<1>1. CASE outbox[a][r].state = "exported"
  BY <1>1, OutboxFrame DEF ExportedIsDated
<1>2. CASE outbox[a][r].state # "exported"
  <2>1. MarkOutboxExported(a, r)
    BY <1>2, OnlyMarkExports
  <2> QED
    BY <2>1, MarkedIsExported DEF Recorded
<1> QED
  BY <1>1, <1>2

----------------------------------------------------------------------------
(* The program uses the store as the store allows.                         *)

\* A decision's place in the history is its revision.
LEMMA DecisionFacts ==
  ASSUME IInv, ExporterTypes, NEW e \in Exporter, NEW i \in item[e], ItemIsEligible(i),
         ItemIsDecision(i)
  PROVE  /\ i.artifact \in Artifact /\ i.row.revision \in Revision
         /\ i.row.latest = i.row.revision
         /\ i.row.revision \in 1 .. Len(events[i.artifact])
         /\ events[i.artifact][i.row.revision].revision = i.row.revision
         /\ events[i.artifact][i.row.revision].new \in EXPORT_ELIGIBLE_STATES
         /\ i.row = SnapshotAt(i.artifact, i.row.revision)
<1> USE DEF IInv
<1> DEFINE a == i.artifact
           n == i.row.latest
<1>1. a \in Artifact
  BY DEF ExporterTypes, Item
<1> HIDE DEF a, n
<1>2. n \in 1 .. Len(events[a]) /\ i.row = SnapshotAt(a, n)
  BY DEF ItemIsDecision, a, n
<1>3. events[a][n].revision = n /\ queue[a].revision = Len(events[a])
  BY <1>1, <1>2 DEF HistoryExplainsQueue
<1>4. Len(events[a]) \in 0 .. MaxRevision /\ MaxRevision \in Nat
  BY <1>1, <1>3, StoreAssumption DEF TypeOK, QueueRow
<1>5. i.row.revision = n /\ i.row.status = events[a][n].new
  BY <1>2, <1>3 DEF SnapshotAt, RowAfter
<1>6. n \in Revision
  BY <1>2, <1>4 DEF Revision
<1> QED
  BY <1>1, <1>2, <1>3, <1>5, <1>6 DEF ItemIsEligible, a, n

\* What the outbox has for an item's key is what the item says.
LEMMA ContentOfItem ==
  ASSUME StoreInv, ExporterTypes, NEW e \in Exporter, NEW i \in item[e], ItemIsEligible(i),
         ItemIsDecision(i), StateOf(i) # "none"
  PROVE  outbox[i.artifact][i.row.revision].content = BuildContent(i.row)
BY DecisionFacts DEF StoreInv, OneContentPerKey, StateOf

\* Every step of reviewers, exporters and the operator is one of the store, or leaves
\* the store alone.
LEMMA StoreStep ==
  ASSUME IInv, DeskTypes, RunInv, [PromotionNext]_vars
  PROVE  [Next]_storeVars
<1> USE DEF IInv, RunInv
<1>1. ASSUME NEW a \in Artifact, NEW s \in INITIAL_STATES, Enqueue(a, s)
      PROVE  Next
  BY <1>1 DEF Enqueue, Next
<1>2. ASSUME NEW p \in Reviewer, Review(p)
      PROVE  Next
  <2>1. PICK s \in seen[p], d \in Statuses, c \in CorrectionOrNull :
          Decide(s.artifact, d, c, s.revision)
    BY <1>2 DEF Review
  <2>2. s.artifact \in Artifact /\ s.revision \in 0 .. MaxRevision /\ d \in REVIEW_STATES
    BY PromotionAssumption DEF DeskTypes
  <2> QED
    BY <2>1, <2>2 DEF Next
<1>3. ASSUME NEW e \in Exporter, NEW i \in item[e], pc[e] # "history"
      PROVE  /\ i.artifact \in Artifact /\ i.row.revision \in Revision
             /\ \E n \in 1 .. Len(events[i.artifact]) : i.row = SnapshotAt(i.artifact, n)
  BY <1>3, DecisionFacts DEF ExporterInv, ItemInv
<1>4. ASSUME NEW e \in Exporter, Reserve(e)
      PROVE  [Next]_storeVars
  <2>1. PICK i \in item[e] : ReserveOutbox(i.artifact, i.row) \/ UNCHANGED storeVars
    BY <1>4 DEF Reserve
  <2>2. pc[e] # "history"
    BY <1>4 DEF Reserve, At
  <2> QED
    BY <1>3, <2>1, <2>2 DEF Next
<1>5. ASSUME NEW e \in Exporter, Mark(e) \/ RecordFailure(e)
      PROVE  [Next]_storeVars
  <2>1. PICK i \in item[e] : \/ MarkOutboxExported(i.artifact, i.row.revision)
                            \/ MarkOutboxFailed(i.artifact, i.row.revision)
                            \/ UNCHANGED storeVars
    BY <1>5 DEF Mark, RecordFailure
  <2>2. pc[e] # "history"
    BY <1>5 DEF Mark, RecordFailure, At
  <2> QED
    BY <1>3, <2>1, <2>2 DEF Next
<1>6. ASSUME NEW a \in Artifact, NEW r \in Revision, RecordRemoval(a, r)
      PROVE  Next
  BY <1>6 DEF RecordRemoval, Next
<1>7. ASSUME NEW e \in Exporter,
             \/ ListApproved(e) \/ ListCorrected(e) \/ Reload(e) \/ CheckHistory(e)
             \/ Reread(e) \/ Verify(e) \/ Write(e) \/ Unlink(e) \/ WriteManifest(e)
             \/ Crash(e) \/ WriteFails(e) \/ ManifestFails(e)
      PROVE  UNCHANGED storeVars
  BY <1>7 DEF ListApproved, ListCorrected, Reload, CheckHistory, Reread, Verify, Write,
              Unlink, WriteManifest, Crash, WriteFails, ManifestFails
<1>8. ASSUME NEW p \in Reviewer, NEW a \in Artifact, Inspect(p, a)
      PROVE  UNCHANGED storeVars
  BY <1>8 DEF Inspect
<1>9. ASSUME NEW a \in Artifact, NEW r \in Revision, RemoveFile(a, r) \/ RevertByHand(a, r)
      PROVE  UNCHANGED storeVars
  BY <1>9 DEF RemoveFile, RevertByHand
<1>10. CASE UNCHANGED vars
  BY <1>10 DEF vars, storeVars
<1>11. CASE PromotionNext
  <2>1. CASE \E e \in Exporter : \/ ListApproved(e) \/ Continue(e)
                                \/ Crash(e) \/ WriteFails(e) \/ ManifestFails(e)
    BY <1>4, <1>5, <1>7, <2>1 DEF Continue
  <2> QED
    BY <1>1, <1>2, <1>6, <1>8, <1>9, <1>11, <2>1 DEF PromotionNext
<1> QED
  BY <1>10, <1>11

----------------------------------------------------------------------------
(* Types.                                                                  *)

LEMMA ListedTypes ==
  ASSUME TypeOK, EligibleIsDecided, NEW s \in EXPORT_ELIGIBLE_STATES
  PROVE  Listed(s) \subseteq [artifact : Artifact, revision : Revision,
                              status : EXPORT_ELIGIBLE_STATES]
<1> SUFFICES ASSUME NEW t \in Listed(s)
             PROVE  t \in [artifact : Artifact, revision : Revision,
                           status : EXPORT_ELIGIBLE_STATES]
  OBVIOUS
<1>1. PICK a \in Artifact : /\ queue[a].status = s
                            /\ t = [artifact |-> a, revision |-> queue[a].revision, status |-> s]
  BY DEF Listed
<1>2. queue[a].revision \in 0 .. MaxRevision /\ MaxRevision \in Nat
  BY StoreAssumption DEF TypeOK, QueueRow
<1>3. queue[a].revision \in Revision
  BY <1>1, <1>2 DEF EligibleIsDecided, Eligible, Revision
<1> QED
  BY <1>1, <1>3

LEMMA ContentTypes ==
  ASSUME NEW row \in QueueRow
  PROVE  BuildContent(row) \in Content /\ NoContent \in Content
<1>1. AbsentRow \in QueueRow
  BY StoreAssumption DEF AbsentRow, QueueRow, CorrectionOrNull
<1> QED
  BY <1>1 DEF QueueRow, BuildContent, Content, NoContent

\* What a reservation, read again, lets an exporter do.
LEMMA RereadSteps ==
  ASSUME NEW e \in Exporter, Reread(e)
  PROVE  \/ Abort(e)
         \/ /\ UNCHANGED <<todo, item, done>>
            /\ \E i \in item[e] :
                 \/ Goto(e, "verify") /\ StateOf(i) = "exported"
                 \/ Goto(e, "write") /\ StateOf(i) # "none"
<1>1. PICK i \in item[e] :
        LET step == NextStep(outbox[i.artifact][i.row.revision], BuildContent(i.row)) IN
        IF step = "abort" THEN Abort(e) ELSE Goto(e, step) /\ UNCHANGED <<todo, item, done>>
  BY DEF Reread
<1> DEFINE row == outbox[i.artifact][i.row.revision]
           step == NextStep(row, BuildContent(i.row))
<1>2. /\ step \in {"abort", "verify", "write"}
      /\ step # "abort" => row.state # "none"
      /\ step = "verify" => row.state = "exported"
  BY DEF NextStep
<1>3. IF step = "abort" THEN Abort(e) ELSE Goto(e, step) /\ UNCHANGED <<todo, item, done>>
  BY <1>1
<1> HIDE DEF step
<1> QED
  BY <1>2, <1>3 DEF StateOf

LEMMA ExporterTypesStep ==
  ASSUME IInv, EligibleIsDecided, RunInv, [PromotionNext]_vars
  PROVE  ExporterTypes'
<1> USE DEF IInv, RunInv
<1>1. ASSUME NEW e \in Exporter, Abort(e)
      PROVE  ExporterTypes'
  BY <1>1 DEF ExporterTypes, Abort, Goto
<1>2. ASSUME NEW e \in Exporter, UNCHANGED <<todo, item, done>>,
             NEW step \in {"reserve", "reread", "verify", "write", "mark", "unlink", "fail"},
             Goto(e, step)
      PROVE  ExporterTypes'
  BY <1>2 DEF ExporterTypes, Goto
<1>3. ASSUME NEW e \in Exporter, NEW i \in item[e], pc[e] # "history", Finish(e, i)
      PROVE  ExporterTypes'
  <2>1. <<i.artifact, i.row.revision>> \in Key
    BY <1>3, DecisionFacts DEF ExporterInv, ItemInv, Key
  <2> QED
    BY <1>3, <2>1 DEF ExporterTypes, Finish, Goto
<1>4. ASSUME NEW e \in Exporter, ListApproved(e) \/ ListCorrected(e)
      PROVE  ExporterTypes'
  <2>1. /\ Listed("approved") \subseteq [artifact : Artifact, revision : Revision,
                                        status : EXPORT_ELIGIBLE_STATES]
        /\ Listed("corrected") \subseteq [artifact : Artifact, revision : Revision,
                                         status : EXPORT_ELIGIBLE_STATES]
    BY ListedTypes DEF EXPORT_ELIGIBLE_STATES
  <2>2. CASE ListApproved(e)
    BY <2>1, <2>2 DEF ListApproved, ExporterTypes, Goto
  <2>3. CASE ListCorrected(e)
    BY <2>1, <2>3 DEF ListCorrected, ExporterTypes, Goto
  <2> QED
    BY <1>4, <2>2, <2>3
<1>5. ASSUME NEW e \in Exporter, Reload(e)
      PROVE  ExporterTypes'
  <2>1. PICK t \in todo[e] :
          \/ /\ Goto(e, "history")
             /\ todo' = [todo EXCEPT ![e] = @ \ {t}]
             /\ item' = [item EXCEPT ![e] = {[artifact |-> t.artifact, row |-> queue[t.artifact]]}]
             /\ UNCHANGED done
          \/ Abort(e)
    BY <1>5 DEF Reload
  <2>2. [artifact |-> t.artifact, row |-> queue[t.artifact]] \in Item
    BY DEF ExporterTypes, TypeOK, Item
  <2>3. CASE Abort(e)
    BY <1>1, <2>3
  <2> QED
    BY <2>1, <2>2, <2>3 DEF ExporterTypes, Goto
<1>6. ASSUME NEW e \in Exporter,
             CheckHistory(e) \/ Reserve(e) \/ Reread(e) \/ Write(e) \/ WriteFails(e)
      PROVE  ExporterTypes'
  <2>1. CASE Reread(e)
    BY <1>1, <1>2, <2>1, RereadSteps
  <2>2. CASE CheckHistory(e) \/ Reserve(e)
    BY <1>1, <1>2, <2>2 DEF CheckHistory, Reserve
  <2>3. CASE Write(e) \/ WriteFails(e)
    BY <1>2, <2>3 DEF Write, WriteFails
  <2> QED
    BY <1>6, <2>1, <2>2, <2>3
<1>7. ASSUME NEW e \in Exporter, Verify(e) \/ Mark(e)
      PROVE  ExporterTypes'
  <2>1. pc[e] # "history"
    BY <1>7 DEF Verify, Mark, At
  <2> QED
    BY <1>1, <1>2, <1>3, <1>7, <2>1 DEF Verify, Mark
<1>8. ASSUME NEW e \in Exporter,
             \/ Unlink(e) \/ RecordFailure(e) \/ WriteManifest(e) \/ Crash(e)
             \/ ManifestFails(e)
      PROVE  ExporterTypes'
  BY <1>1, <1>8 DEF Unlink, RecordFailure, WriteManifest, Crash, ManifestFails
<1>9. ASSUME UNCHANGED runVars
      PROVE  ExporterTypes'
  BY <1>9 DEF ExporterTypes, runVars
<1>10. ASSUME UNCHANGED vars
       PROVE  ExporterTypes'
  BY <1>9, <1>10 DEF vars, runVars
<1>11. ASSUME PromotionNext
       PROVE  ExporterTypes'
  <2>1. ASSUME NEW p \in Reviewer, Review(p) \/ \E a \in Artifact : Inspect(p, a)
        PROVE  UNCHANGED runVars
    BY <2>1 DEF Review, Inspect
  <2>2. ASSUME NEW a \in Artifact, \E s \in INITIAL_STATES : Enqueue(a, s)
        PROVE  UNCHANGED runVars
    BY <2>2 DEF Enqueue
  <2>3. ASSUME NEW a \in Artifact, NEW r \in Revision,
               RemoveFile(a, r) \/ RecordRemoval(a, r) \/ RevertByHand(a, r)
        PROVE  UNCHANGED runVars
    BY <2>3 DEF RemoveFile, RecordRemoval, RevertByHand
  <2>4. CASE \E e \in Exporter : \/ ListApproved(e) \/ Continue(e)
                                \/ Crash(e) \/ WriteFails(e) \/ ManifestFails(e)
    BY <1>4, <1>5, <1>6, <1>7, <1>8, <2>4 DEF Continue
  <2> QED
    BY <1>9, <1>11, <2>1, <2>2, <2>3, <2>4 DEF PromotionNext
<1> QED
  BY <1>10, <1>11

----------------------------------------------------------------------------
(* What an exporter knows of its item stays true while others take steps.  *)

LEMMA ItemFrame ==
  ASSUME IInv, ExporterTypes, [Next]_storeVars, NEW e \in Exporter, NEW i \in item[e],
         ItemIsEligible(i)
  PROVE  /\ ItemIsEligible(i)'
         /\ ItemIsDecision(i) => ItemIsDecision(i)'
         /\ ItemIsDecision(i) /\ StateOf(i) # "none" =>
              /\ StateOf(i)' # "none"
              /\ Recorded(i.artifact, i.row.revision) => Recorded(i.artifact, i.row.revision)'
              /\ ~Exportable(i.artifact, i.row.revision)
                   => ~Exportable(i.artifact, i.row.revision)'
<1> DEFINE a == i.artifact
           r == i.row.revision
<1>1. a \in Artifact
  BY DEF ExporterTypes, Item
<1>2. /\ Len(events[a]) \in Nat /\ Len(events'[a]) \in Nat
      /\ Len(events[a]) <= Len(events'[a])
      /\ \A n \in 1 .. Len(events[a]) : events'[a][n] = events[a][n]
      /\ queue[a].status # "absent" =>
           /\ queue'[a].status # "absent"
           /\ queue'[a].provenance = queue[a].provenance
  BY <1>1, QueueFrame
<1>3. ItemIsEligible(i)'
  BY <1>2 DEF ItemIsEligible
<1>4. ItemIsDecision(i) => ItemIsDecision(i)'
  <2> SUFFICES ASSUME ItemIsDecision(i) PROVE ItemIsDecision(i)'
    OBVIOUS
  <2> DEFINE n == i.row.latest
  <2>1. n \in 1 .. Len(events[a]) /\ i.row = SnapshotAt(a, n)
    BY DEF ItemIsDecision
  <2>2. n \in 1 .. Len(events'[a]) /\ events'[a][n] = events[a][n]
    BY <1>2, <2>1
  <2>3. SnapshotAt(a, n)' = SnapshotAt(a, n)
    BY <1>2, <2>2 DEF SnapshotAt, ItemIsEligible
  <2> QED
    BY <2>1, <2>2, <2>3 DEF ItemIsDecision
<1>5. ASSUME ItemIsDecision(i), StateOf(i) # "none"
      PROVE  /\ StateOf(i)' # "none"
             /\ Recorded(i.artifact, i.row.revision) => Recorded(i.artifact, i.row.revision)'
             /\ ~Exportable(a, r) => ~Exportable(a, r)'
  BY <1>1, <1>5, DecisionFacts, OutboxFrame DEF StateOf
<1> QED
  BY <1>3, <1>4, <1>5

LEMMA DoneFrame ==
  ASSUME IInv, ExporterTypes, [Next]_storeVars, NEW e \in Exporter, NEW key \in done[e],
         Recorded(key[1], key[2])
  PROVE  Recorded(key[1], key[2])'
<1>1. key[1] \in Artifact /\ key[2] \in Revision
  BY DEF ExporterTypes, Key
<1> QED
  BY <1>1, OutboxFrame DEF Recorded

\* Whoever does nothing keeps what it knows.
LEMMA IdleExporter ==
  ASSUME IInv, RunInv, [Next]_storeVars, NEW e \in Exporter,
         pc'[e] = pc[e], item'[e] = item[e], done'[e] = done[e]
  PROVE  ExporterInv(e)'
<1>1. ASSUME NEW i \in item[e] PROVE ItemInv(e, i)'
  <2>1. ItemInv(e, i) /\ ItemIsEligible(i)
    BY DEF RunInv, ExporterInv, ItemInv
  <2>2. ItemIsEligible(i)' /\ (pc[e] # "history" => ItemIsDecision(i) /\ ItemIsDecision(i)')
    BY <2>1, ItemFrame DEF RunInv, ItemInv
  <2>3. pc[e] \in {"verify", "write", "mark", "unlink", "fail"} =>
          /\ StateOf(i)' # "none"
          /\ Recorded(i.artifact, i.row.revision) => Recorded(i.artifact, i.row.revision)'
          /\ ~Exportable(i.artifact, i.row.revision)
               => ~Exportable(i.artifact, i.row.revision)'
    BY <2>1, <2>2, ItemFrame DEF RunInv, ItemInv
  <2> QED
    BY <2>1, <2>2, <2>3 DEF ItemInv
<1>2. \A key \in done[e] : Recorded(key[1], key[2])'
  BY DoneFrame DEF RunInv, ExporterInv
<1> QED
  BY <1>1, <1>2 DEF ExporterInv, RunInv

LEMMA AbortedExporter ==
  ASSUME ExporterTypes, NEW e \in Exporter, Abort(e)
  PROVE  ExporterInv(e)'
<1>1. item'[e] = {} /\ done'[e] = {}
  BY DEF Abort, ExporterTypes
<1> QED
  BY <1>1 DEF ExporterInv

\* An item is done with when its export is on record.
LEMMA FinishedExporter ==
  ASSUME IInv, RunInv, [Next]_storeVars, NEW e \in Exporter, NEW i \in item[e],
         Finish(e, i), Recorded(i.artifact, i.row.revision)'
  PROVE  ExporterInv(e)'
<1>1. item'[e] = {} /\ done'[e] = done[e] \cup {<<i.artifact, i.row.revision>>}
  BY DEF Finish, RunInv, ExporterTypes
<1>2. \A key \in done[e] : Recorded(key[1], key[2])'
  BY DoneFrame DEF RunInv, ExporterInv
<1> QED
  BY <1>1, <1>2 DEF ExporterInv

\* An exporter that goes on with its item has to know what the next step asks for.
LEMMA GoingExporter ==
  ASSUME IInv, RunInv, [Next]_storeVars, NEW e \in Exporter, NEW step, step # "history",
         Goto(e, step), item'[e] = item[e], done'[e] = done[e],
         \A i \in item[e] :
           /\ ItemIsDecision(i)
           /\ step \in {"verify", "write", "mark", "unlink", "fail"} => StateOf(i) # "none"
           /\ step = "verify" => Recorded(i.artifact, i.row.revision)
           /\ step = "unlink" => ~Exportable(i.artifact, i.row.revision)
  PROVE  ExporterInv(e)'
<1>1. pc'[e] = step
  BY DEF Goto, RunInv, ExporterTypes
<1>2. ASSUME NEW i \in item[e] PROVE ItemInv(e, i)'
  <2>1. ItemIsEligible(i) /\ ItemIsDecision(i)
    BY DEF RunInv, ExporterInv, ItemInv
  <2>2. ItemIsEligible(i)' /\ ItemIsDecision(i)'
    BY <2>1, ItemFrame DEF RunInv
  <2>3. StateOf(i) # "none" =>
          /\ StateOf(i)' # "none"
          /\ Recorded(i.artifact, i.row.revision) => Recorded(i.artifact, i.row.revision)'
          /\ ~Exportable(i.artifact, i.row.revision)
               => ~Exportable(i.artifact, i.row.revision)'
    BY <2>1, ItemFrame DEF RunInv
  <2> QED
    BY <1>1, <2>2, <2>3 DEF ItemInv
<1>3. \A key \in done[e] : Recorded(key[1], key[2])'
  BY DoneFrame DEF RunInv, ExporterInv
<1> QED
  BY <1>2, <1>3 DEF ExporterInv, RunInv

\* What an exporter's own steps make of it.
LEMMA OwnStep ==
  ASSUME StoreInv, EligibleIsDecided, RunInv, [Next]_storeVars, NEW e \in Exporter,
         \/ ListApproved(e) \/ Continue(e)
         \/ Crash(e) \/ WriteFails(e) \/ ManifestFails(e)
  PROVE  ExporterInv(e)'
<1> USE DEF StoreInv
<1>0. /\ \A i, j \in item[e] : i = j
      /\ \A i \in item[e] :
           /\ i.artifact \in Artifact /\ ItemIsEligible(i)
           /\ pc[e] # "history" => ItemIsDecision(i)
           /\ pc[e] \in {"verify", "write", "mark", "unlink", "fail"} => StateOf(i) # "none"
           /\ pc[e] = "verify" => Recorded(i.artifact, i.row.revision)
  BY DEF RunInv, ExporterInv, ItemInv, ExporterTypes, Item
<1>1. CASE Abort(e)
  BY <1>1, AbortedExporter DEF RunInv
<1>2. CASE ListApproved(e)
  BY <1>0, <1>2, GoingExporter DEF ListApproved, At
<1>3. CASE ListCorrected(e)
  <2>1. CASE Goto(e, "idle")
    BY <1>0, <1>3, <2>1, GoingExporter DEF ListCorrected, At
  <2>2. CASE Goto(e, "next")
    BY <1>0, <1>3, <2>2, GoingExporter DEF ListCorrected, At
  <2> QED
    BY <1>3, <2>1, <2>2 DEF ListCorrected
<1>4. CASE Reload(e)
  <2> SUFFICES ASSUME ~Abort(e) PROVE ExporterInv(e)'
    BY <1>1
  <2>1. PICK t \in todo[e] :
          LET row == queue[t.artifact] IN
          /\ Reloadable(row, t)
          /\ Goto(e, "history")
          /\ item' = [item EXCEPT ![e] = {[artifact |-> t.artifact, row |-> row]}]
          /\ UNCHANGED <<done, queue, events, outbox>>
    BY <1>4 DEF Reload, storeVars
  <2>2. PICK i : i = [artifact |-> t.artifact, row |-> queue[t.artifact]]
    OBVIOUS
  <2>3. item'[e] = {i} /\ pc'[e] = "history" /\ done'[e] = done[e]
    BY <2>1, <2>2 DEF RunInv, ExporterTypes, Goto
  <2>4. ItemIsEligible(i)'
    BY <2>1, <2>2 DEF ItemIsEligible, Reloadable, EXPORT_ELIGIBLE_STATES
  <2>5. ItemInv(e, i)'
    BY <2>3, <2>4 DEF ItemInv
  <2>6. \A key \in done[e] : Recorded(key[1], key[2])'
    BY DoneFrame DEF RunInv, ExporterInv
  <2> QED
    BY <2>3, <2>5, <2>6 DEF ExporterInv
<1>5. CASE CheckHistory(e)
  <2> SUFFICES ASSUME ~Abort(e) PROVE ExporterInv(e)'
    BY <1>1
  <2>1. PICK i \in item[e] :
          /\ i.row.latest = Len(events[i.artifact])
          /\ SnapshotTrigger(i.row, events[i.artifact])
          /\ Goto(e, "reserve") /\ UNCHANGED <<todo, item, done>>
    BY <1>5 DEF CheckHistory
  <2>2. i.row \in QueueRow /\ i.artifact \in Artifact
    BY DEF RunInv, ExporterTypes, Item
  <2>3. i.row = SnapshotAt(i.artifact, i.row.latest)
    BY <1>0, <2>1, <2>2 DEF SnapshotTrigger, SnapshotAt, RowAfter, QueueRow, ItemIsEligible
  <2>4. ItemIsDecision(i)
    BY <2>1, <2>3 DEF ItemIsDecision, SnapshotTrigger
  <2> QED
    BY <1>0, <2>1, <2>4, GoingExporter
<1>6. CASE Reserve(e)
  BY <1>0, <1>6, GoingExporter DEF Reserve, At
<1>7. CASE Reread(e)
  <2> SUFFICES ASSUME ~Abort(e) PROVE ExporterInv(e)'
    BY <1>1
  <2>1. PICK i \in item[e] :
          /\ UNCHANGED <<todo, item, done>>
          /\ \/ Goto(e, "verify") /\ StateOf(i) = "exported"
             \/ Goto(e, "write") /\ StateOf(i) # "none"
    BY <1>7, RereadSteps
  <2>2. pc[e] # "history"
    BY <1>7 DEF Reread, At
  <2>3. CASE Goto(e, "verify") /\ StateOf(i) = "exported"
    <3>1. i.artifact \in Artifact /\ i.row.revision \in Revision
      BY <1>0, <2>2, DecisionFacts DEF RunInv
    <3>2. Recorded(i.artifact, i.row.revision)
      BY <2>3, <3>1 DEF ExportedIsDated, StateOf
    <3> QED
      BY <1>0, <2>1, <2>2, <2>3, <3>2, GoingExporter
  <2>4. CASE Goto(e, "write") /\ StateOf(i) # "none"
    BY <1>0, <2>1, <2>2, <2>4, GoingExporter
  <2> QED
    BY <2>1, <2>3, <2>4
<1>8. CASE Verify(e)
  <2> SUFFICES ASSUME ~Abort(e) PROVE ExporterInv(e)'
    BY <1>1
  <2>1. PICK i \in item[e] : Finish(e, i) /\ UNCHANGED storeVars /\ pc[e] = "verify"
    BY <1>8 DEF Verify, At
  <2>2. Recorded(i.artifact, i.row.revision)'
    BY <1>0, <2>1 DEF Recorded, storeVars
  <2> QED
    BY <2>1, <2>2, FinishedExporter
<1>9. CASE Write(e)
  BY <1>0, <1>9, GoingExporter DEF Write, At
<1>10. CASE Mark(e)
  <2>1. PICK i \in item[e] :
          LET a == i.artifact
              r == i.row.revision
          IN  \/ MarkOutboxExported(a, r) /\ Finish(e, i)
              \/ /\ ~Exportable(a, r) /\ Goto(e, "unlink")
                 /\ UNCHANGED <<storeVars, todo, item, done>>
    BY <1>10 DEF Mark
  <2>2. pc[e] = "mark"
    BY <1>10 DEF Mark, At
  <2>3. CASE MarkOutboxExported(i.artifact, i.row.revision) /\ Finish(e, i)
    <3>1. PICK a \in Artifact, r \in Revision : a = i.artifact /\ r = i.row.revision
      BY <1>0, <2>2, DecisionFacts DEF RunInv
    <3>2. MarkOutboxExported(a, r) /\ TypeOK
      BY <2>3, <3>1 DEF StoreInv, IInv
    <3>3. Recorded(a, r)'
      BY <3>2, MarkedIsExported DEF Recorded
    <3> QED
      BY <2>3, <3>1, <3>3, FinishedExporter
  <2>4. CASE ~Exportable(i.artifact, i.row.revision) /\ Goto(e, "unlink")
               /\ UNCHANGED <<storeVars, todo, item, done>>
    BY <1>0, <2>2, <2>4, GoingExporter
  <2> QED
    BY <2>1, <2>3, <2>4
<1>11. CASE WriteFails(e)
  BY <1>0, <1>11, GoingExporter DEF WriteFails, At
<1>12. CASE \/ Unlink(e) \/ RecordFailure(e) \/ WriteManifest(e) \/ Crash(e) \/ ManifestFails(e)
  BY <1>1, <1>12 DEF Unlink, RecordFailure, WriteManifest, Crash, ManifestFails
<1> QED
  BY <1>2, <1>3, <1>4, <1>5, <1>6, <1>7, <1>8, <1>9, <1>10, <1>11, <1>12 DEF Continue

\* Who takes a step, and whom it leaves alone.
LEMMA OthersStep ==
  ASSUME ExporterTypes, [PromotionNext]_vars, NEW e \in Exporter,
         ~(\/ ListApproved(e) \/ Continue(e)
           \/ Crash(e) \/ WriteFails(e) \/ ManifestFails(e))
  PROVE  pc'[e] = pc[e] /\ todo'[e] = todo[e] /\ item'[e] = item[e] /\ done'[e] = done[e]
<1>1. ASSUME NEW d \in Exporter, d # e,
             \/ ListApproved(d) \/ Continue(d)
             \/ Crash(d) \/ WriteFails(d) \/ ManifestFails(d)
      PROVE  pc'[e] = pc[e] /\ todo'[e] = todo[e] /\ item'[e] = item[e] /\ done'[e] = done[e]
  <2> USE DEF ExporterTypes, Abort, Goto
  <2>1. CASE ListApproved(d) \/ ListCorrected(d)
    BY <1>1, <2>1 DEF ListApproved, ListCorrected
  <2>2. CASE Reload(d)
    BY <1>1, <2>2 DEF Reload
  <2>3. CASE CheckHistory(d) \/ Reserve(d)
    BY <1>1, <2>3 DEF CheckHistory, Reserve
  <2>4. CASE Reread(d)
    BY <1>1, <2>4, RereadSteps
  <2>5. CASE Verify(d) \/ Mark(d)
    BY <1>1, <2>5 DEF Verify, Mark, Finish
  <2>6. CASE Write(d) \/ WriteFails(d)
    BY <1>1, <2>6 DEF Write, WriteFails
  <2>7. CASE \/ Unlink(d) \/ RecordFailure(d) \/ WriteManifest(d) \/ Crash(d)
             \/ ManifestFails(d)
    BY <1>1, <2>7 DEF Unlink, RecordFailure, WriteManifest, Crash, ManifestFails
  <2> QED
    BY <1>1, <2>1, <2>2, <2>3, <2>4, <2>5, <2>6, <2>7 DEF Continue
<1>2. ASSUME UNCHANGED runVars
      PROVE  pc'[e] = pc[e] /\ todo'[e] = todo[e] /\ item'[e] = item[e] /\ done'[e] = done[e]
  BY <1>2 DEF runVars
<1>3. CASE UNCHANGED vars
  BY <1>2, <1>3 DEF vars, runVars
<1>4. CASE PromotionNext
  <2>1. ASSUME NEW p \in Reviewer, Review(p) \/ \E a \in Artifact : Inspect(p, a)
        PROVE  UNCHANGED runVars
    BY <2>1 DEF Review, Inspect
  <2>2. ASSUME NEW a \in Artifact, \E s \in INITIAL_STATES : Enqueue(a, s)
        PROVE  UNCHANGED runVars
    BY <2>2 DEF Enqueue
  <2>3. ASSUME NEW a \in Artifact, NEW r \in Revision,
               RemoveFile(a, r) \/ RecordRemoval(a, r) \/ RevertByHand(a, r)
        PROVE  UNCHANGED runVars
    BY <2>3 DEF RemoveFile, RecordRemoval, RevertByHand
  <2>4. CASE \E d \in Exporter : \/ ListApproved(d) \/ Continue(d)
                                \/ Crash(d) \/ WriteFails(d) \/ ManifestFails(d)
    BY <1>1, <2>4
  <2> QED
    BY <1>2, <1>4, <2>1, <2>2, <2>3, <2>4 DEF PromotionNext
<1> QED
  BY <1>3, <1>4

LEMMA RunInvStep ==
  ASSUME StoreInv, DeskTypes, EligibleIsDecided, RunInv, [PromotionNext]_vars
  PROVE  RunInv'
<1>1. [Next]_storeVars
  BY StoreStep DEF StoreInv
<1>2. ASSUME NEW e \in Exporter
      PROVE  ExporterInv(e)'
  <2>1. CASE \/ ListApproved(e) \/ Continue(e)
             \/ Crash(e) \/ WriteFails(e) \/ ManifestFails(e)
    BY <1>1, <2>1, OwnStep
  <2>2. CASE ~(\/ ListApproved(e) \/ Continue(e)
               \/ Crash(e) \/ WriteFails(e) \/ ManifestFails(e))
    BY <1>1, <2>2, OthersStep, IdleExporter DEF RunInv, StoreInv
  <2> QED
    BY <2>1, <2>2
<1>3. ExporterTypes'
  BY ExporterTypesStep DEF StoreInv
<1> QED
  BY <1>2, <1>3 DEF RunInv

----------------------------------------------------------------------------
(* The output directory.                                                   *)

LEMMA OneFile ==
  ASSUME DiskTypes, NEW a \in Artifact, NEW r \in Revision, NEW c \in Content,
         PutFile(a, r, c)
  PROVE  /\ files' \in [Artifact -> [Revision -> Content]]
         /\ \A b \in Artifact, q \in Revision :
              files'[b][q] = IF b = a /\ q = r THEN c ELSE files[b][q]
<1>1. files' = [files EXCEPT ![a][r] = c]
  BY DEF PutFile
<1> QED
  BY <1>1 DEF DiskTypes

\* A file is put there with what its reservation recorded, or taken away when no
\* decision allows it, or by hand. Whatever the step, the store is left alone.
LEMMA FilesStep ==
  ASSUME StoreInv, RunInv, [PromotionNext]_vars
  PROVE  \/ UNCHANGED files
         \/ /\ UNCHANGED storeVars
            /\ \E a \in Artifact, r \in Revision, c \in Content :
                 /\ PutFile(a, r, c)
                 /\ \/ outbox[a][r].state # "none" /\ c = outbox[a][r].content
                    \/ c = NoContent /\ (~Exportable(a, r) \/ "revert" \in Disruptions)
<1> DEFINE Goal ==
      \/ UNCHANGED files
      \/ /\ UNCHANGED storeVars
         /\ \E a \in Artifact, r \in Revision, c \in Content :
              /\ PutFile(a, r, c)
              /\ \/ outbox[a][r].state # "none" /\ c = outbox[a][r].content
                 \/ c = NoContent /\ (~Exportable(a, r) \/ "revert" \in Disruptions)
<1>1. NoContent \in Content
  <2>1. AbsentRow \in QueueRow
    BY StoreAssumption DEF AbsentRow, QueueRow, CorrectionOrNull
  <2> QED
    BY <2>1, ContentTypes
<1>2. ASSUME NEW a \in Artifact, NEW r \in Revision, UNCHANGED storeVars,
             PutFile(a, r, NoContent), ~Exportable(a, r) \/ "revert" \in Disruptions
      PROVE  Goal
  BY <1>1, <1>2
<1>3. ASSUME NEW e \in Exporter, NEW i \in item[e],
             pc[e] \in {"write", "unlink"}
      PROVE  /\ i.artifact \in Artifact /\ i.row.revision \in Revision
             /\ BuildContent(i.row) \in Content
             /\ StateOf(i) # "none"
             /\ outbox[i.artifact][i.row.revision].content = BuildContent(i.row)
             /\ pc[e] = "unlink" => ~Exportable(i.artifact, i.row.revision)
  <2>1. /\ ItemIsEligible(i) /\ ItemIsDecision(i) /\ StateOf(i) # "none"
        /\ pc[e] = "unlink" => ~Exportable(i.artifact, i.row.revision)
    BY <1>3 DEF RunInv, ExporterInv, ItemInv
  <2>2. i.row \in QueueRow
    BY DEF RunInv, ExporterTypes, Item
  <2> QED
    BY <2>1, <2>2, DecisionFacts, ContentOfItem, ContentTypes DEF RunInv, StoreInv
<1>4. ASSUME NEW e \in Exporter, Write(e) \/ WriteFails(e)
      PROVE  Goal
  <2>1. PICK i \in item[e] :
          /\ \/ PutFile(i.artifact, i.row.revision, BuildContent(i.row))
             \/ UNCHANGED files
          /\ UNCHANGED storeVars
    BY <1>4 DEF Write, WriteFails
  <2>2. pc[e] \in {"write", "unlink"}
    BY <1>4 DEF Write, WriteFails, At
  <2> QED
    BY <1>3, <2>1, <2>2 DEF StateOf
<1>5. ASSUME NEW e \in Exporter, Unlink(e)
      PROVE  Goal
  <2>1. PICK i \in item[e] :
          /\ \/ PutFile(i.artifact, i.row.revision, NoContent)
             \/ UNCHANGED files
          /\ UNCHANGED storeVars
    BY <1>5 DEF Unlink
  <2>2. pc[e] = "unlink"
    BY <1>5 DEF Unlink, At
  <2> QED
    BY <1>2, <1>3, <2>1, <2>2
<1>6. ASSUME NEW a \in Artifact, NEW r \in Revision, RemoveFile(a, r) \/ RevertByHand(a, r)
      PROVE  Goal
  BY <1>2, <1>6 DEF RemoveFile, RevertByHand, Exportable
<1>7. ASSUME UNCHANGED files PROVE Goal
  BY <1>7
<1> HIDE DEF Goal
<1>8. ASSUME NEW a \in Artifact, NEW s \in INITIAL_STATES, Enqueue(a, s)
      PROVE  Goal
  BY <1>7, <1>8 DEF Enqueue, diskVars
<1>9. ASSUME NEW p \in Reviewer, Review(p) \/ \E a \in Artifact : Inspect(p, a)
      PROVE  Goal
  BY <1>7, <1>9 DEF Review, Inspect, diskVars
<1>10. ASSUME NEW e \in Exporter, ListApproved(e) \/ Continue(e) \/ Crash(e) \/ ManifestFails(e)
       PROVE  Goal
  <2>1. CASE \/ ListApproved(e) \/ ListCorrected(e) \/ Reload(e) \/ CheckHistory(e)
             \/ Reserve(e) \/ Reread(e)
    BY <1>7, <2>1 DEF ListApproved, ListCorrected, Reload, CheckHistory, Reserve, Reread,
                      diskVars
  <2>2. CASE \/ Verify(e) \/ Mark(e) \/ RecordFailure(e) \/ WriteManifest(e)
             \/ Crash(e) \/ ManifestFails(e)
    BY <1>7, <2>2 DEF Verify, Mark, RecordFailure, WriteManifest, Crash, ManifestFails,
                      diskVars
  <2> QED
    BY <1>4, <1>5, <1>10, <2>1, <2>2 DEF Continue
<1>11. ASSUME NEW a \in Artifact, NEW r \in Revision, RecordRemoval(a, r)
       PROVE  Goal
  BY <1>7, <1>11 DEF RecordRemoval, diskVars
<1>12. ASSUME UNCHANGED vars PROVE Goal
  BY <1>7, <1>12 DEF vars
<1>13. ASSUME PromotionNext PROVE Goal
  BY <1>4, <1>6, <1>8, <1>9, <1>10, <1>11, <1>13 DEF PromotionNext
<1> QED
  BY <1>12, <1>13 DEF Goal

LEMMA FilesAreReservedStep ==
  ASSUME StoreInv, DeskTypes, RunInv, DiskTypes, FilesAreReserved, [PromotionNext]_vars
  PROVE  FilesAreReserved' /\ files' \in [Artifact -> [Revision -> Content]]
<1>1. [Next]_storeVars /\ IInv
  BY StoreStep DEF StoreInv
<1>2. CASE UNCHANGED files
  <2>1. ASSUME NEW a \in Artifact, NEW r \in Revision, OnDisk(a, r)
        PROVE  outbox'[a][r].state # "none" /\ files[a][r] = outbox'[a][r].content
    BY <1>1, <2>1, ReservationStays, OutboxFrame DEF FilesAreReserved
  <2> QED
    BY <1>2, <2>1 DEF FilesAreReserved, OnDisk, DiskTypes
<1>3. CASE ~UNCHANGED files
  <2>1. PICK a \in Artifact, r \in Revision, c \in Content :
          /\ PutFile(a, r, c) /\ UNCHANGED storeVars
          /\ \/ outbox[a][r].state # "none" /\ c = outbox[a][r].content
             \/ c = NoContent
    BY <1>3, FilesStep
  <2>2. /\ files' \in [Artifact -> [Revision -> Content]]
        /\ \A b \in Artifact, q \in Revision :
             files'[b][q] = IF b = a /\ q = r THEN c ELSE files[b][q]
    BY <2>1, OneFile
  <2>3. ASSUME NEW b \in Artifact, NEW q \in Revision, files'[b][q] # NoContent
        PROVE  outbox[b][q].state # "none" /\ files'[b][q] = outbox[b][q].content
    BY <2>1, <2>2, <2>3 DEF FilesAreReserved, OnDisk
  <2> QED
    BY <2>1, <2>2, <2>3 DEF FilesAreReserved, OnDisk, storeVars, NoContent
<1> QED
  BY <1>2, <1>3

LEMMA ManifestStep ==
  ASSUME StoreInv, DeskTypes, RunInv, DiskTypes, ManifestInv, [PromotionNext]_vars
  PROVE  ManifestInv' /\ manifest' \in SUBSET Key
<1>1. [Next]_storeVars /\ IInv
  BY StoreStep DEF StoreInv
<1>2. ASSUME NEW key \in Key, Recorded(key[1], key[2])
      PROVE  Recorded(key[1], key[2])'
  <2>1. key[1] \in Artifact /\ key[2] \in Revision
    BY DEF Key
  <2> QED
    BY <1>1, <1>2, <2>1, OutboxFrame DEF Recorded
<1>3. manifest' = manifest \/ \E e \in Exporter : manifest' = done[e]
  <2>1. ASSUME NEW e \in Exporter, Continue(e)
        PROVE  manifest' = manifest \/ manifest' = done[e]
    <3>1. CASE \/ ListCorrected(e) \/ Reload(e) \/ CheckHistory(e) \/ Reserve(e) \/ Reread(e)
      BY <3>1 DEF ListCorrected, Reload, CheckHistory, Reserve, Reread, diskVars
    <3>2. CASE \/ Verify(e) \/ Write(e) \/ Mark(e) \/ Unlink(e) \/ RecordFailure(e)
               \/ WriteManifest(e)
      BY <3>2 DEF Verify, Write, Mark, Unlink, RecordFailure, WriteManifest, diskVars
    <3> QED
      BY <2>1, <3>1, <3>2 DEF Continue
  <2>2. ASSUME NEW e \in Exporter,
               ListApproved(e) \/ Crash(e) \/ WriteFails(e) \/ ManifestFails(e)
        PROVE  manifest' = manifest \/ manifest' = done[e]
    BY <2>2 DEF ListApproved, Crash, WriteFails, ManifestFails, diskVars
  <2>3. ASSUME NEW a \in Artifact, NEW s \in INITIAL_STATES, Enqueue(a, s)
        PROVE  manifest' = manifest
    BY <2>3 DEF Enqueue, diskVars
  <2>4. ASSUME NEW p \in Reviewer, Review(p) \/ \E a \in Artifact : Inspect(p, a)
        PROVE  manifest' = manifest
    BY <2>4 DEF Review, Inspect, diskVars
  <2>5. ASSUME NEW a \in Artifact, NEW r \in Revision,
               RemoveFile(a, r) \/ RecordRemoval(a, r) \/ RevertByHand(a, r)
        PROVE  manifest' = manifest
    BY <2>5 DEF RemoveFile, RecordRemoval, RevertByHand, diskVars
  <2>6. ASSUME UNCHANGED vars PROVE manifest' = manifest
    BY <2>6 DEF vars
  <2> QED
    BY <2>1, <2>2, <2>3, <2>4, <2>5, <2>6 DEF PromotionNext
<1>4. ASSUME NEW e \in Exporter
      PROVE  /\ done[e] \in SUBSET Key
             /\ \A key \in done[e] : Recorded(key[1], key[2])
  BY DEF RunInv, ExporterTypes, ExporterInv
<1>5. /\ manifest \in SUBSET Key
      /\ \A key \in manifest : Recorded(key[1], key[2])
  BY DEF DiskTypes, ManifestInv
<1>6. /\ manifest' \in SUBSET Key
      /\ \A key \in manifest' : Recorded(key[1], key[2])
  BY <1>3, <1>4, <1>5
<1>7. \A key \in manifest' : Recorded(key[1], key[2])'
  BY <1>2, <1>6
<1> QED
  BY <1>6, <1>7 DEF ManifestInv

\* What changes the state of an outbox row: a review withdraws it, a reservation
\* plans it, its exporter marks it or records a failure, the operator records the
\* removal of its file.
LEMMA RowChanges ==
  ASSUME StoreInv, DeskTypes, RunInv, [PromotionNext]_vars,
         NEW a \in Artifact, NEW r \in Revision, outbox'[a][r].state # outbox[a][r].state
  PROVE  \/ outbox'[a][r].state \in {"planned", "rollback_needed"}
         \/ /\ outbox'[a][r].state = "exported" /\ UNCHANGED diskVars
            /\ \E e \in Exporter : \E i \in item[e] :
                 /\ pc[e] = "mark" /\ i.artifact = a /\ i.row.revision = r
                 /\ Exportable(a, r)
         \/ outbox'[a][r].state = "failed" /\ \E e \in Exporter : pc[e] = "fail"
         \/ outbox'[a][r].state = "rolled_back" /\ RecordRemoval(a, r)
<1> DEFINE Goal ==
      \/ outbox'[a][r].state \in {"planned", "rollback_needed"}
      \/ /\ outbox'[a][r].state = "exported" /\ UNCHANGED diskVars
         /\ \E e \in Exporter : \E i \in item[e] :
              /\ pc[e] = "mark" /\ i.artifact = a /\ i.row.revision = r
              /\ Exportable(a, r)
      \/ outbox'[a][r].state = "failed" /\ \E e \in Exporter : pc[e] = "fail"
      \/ outbox'[a][r].state = "rolled_back" /\ RecordRemoval(a, r)
<1>1. IInv /\ TypeOK
  BY DEF StoreInv, IInv
<1>2. outbox' # outbox
  OBVIOUS
<1>3. outbox[a] \in [Revision -> OutboxRow]
  BY <1>1 DEF TypeOK
<1>4. ASSUME NEW e \in Exporter, NEW i \in item[e], pc[e] # "history"
      PROVE  \E b \in Artifact, q \in Revision : b = i.artifact /\ q = i.row.revision
  <2>1. ItemIsEligible(i) /\ ItemIsDecision(i)
    BY <1>4 DEF RunInv, ExporterInv, ItemInv
  <2> QED
    BY <1>1, <2>1, DecisionFacts DEF RunInv
<1>5. ASSUME NEW p \in Reviewer, Review(p)
      PROVE  Goal
  <2>1. PICK s \in seen[p], d \in Statuses, c \in CorrectionOrNull :
          Decide(s.artifact, d, c, s.revision)
    BY <1>5 DEF Review
  <2>2. PICK b \in Artifact : b = s.artifact
    BY DEF DeskTypes
  <2>3. outbox' = [outbox EXCEPT ![b] =
                     IF queue[b].status \in EXPORT_ELIGIBLE_STATES
                     THEN Withdraw(outbox[b]) ELSE outbox[b]]
    BY <2>1, <2>2 DEF Decide
  <2>4. outbox'[a] = outbox[a] \/ outbox'[a] = Withdraw(outbox[a])
    BY <1>1, <2>3 DEF TypeOK
  <2>5. outbox[a][r] \in OutboxRow
    BY <1>3
  <2>6. Withdraw(outbox[a])[r].state \in {outbox[a][r].state, "rollback_needed"}
    BY <2>5 DEF Withdraw, OutboxRow
  <2>7. outbox'[a][r].state = "rollback_needed"
    BY <2>4, <2>6
  <2> QED
    BY <2>7
<1>6. ASSUME NEW e \in Exporter, Mark(e)
      PROVE  Goal
  <2>1. PICK i \in item[e] : MarkOutboxExported(i.artifact, i.row.revision)
    BY <1>2, <1>6 DEF Mark, storeVars
  <2>2. pc[e] = "mark" /\ UNCHANGED diskVars
    BY <1>6 DEF Mark, At
  <2>3. PICK b \in Artifact, q \in Revision : b = i.artifact /\ q = i.row.revision
    BY <1>4, <2>2
  <2>4. PICK s \in OutboxState : SetsState(b, q, s)
    BY <2>1, <2>3 DEF MarkOutboxExported, OutboxState, SetsState
  <2>5. b = a /\ q = r
    BY <1>1, <2>4, RowsAfterNewState
  <2>6. MarkOutboxExported(a, r)
    BY <2>1, <2>3, <2>5
  <2>7. outbox'[a][r].state = "exported" /\ Exportable(a, r)
    BY <1>1, <2>6, MarkedIsExported DEF MarkOutboxExported
  <2> QED
    BY <2>2, <2>3, <2>5, <2>7
<1>7. ASSUME NEW e \in Exporter, RecordFailure(e)
      PROVE  Goal
  <2>1. PICK i \in item[e] : MarkOutboxFailed(i.artifact, i.row.revision)
    BY <1>2, <1>7 DEF RecordFailure, storeVars
  <2>2. pc[e] = "fail"
    BY <1>7 DEF RecordFailure, At
  <2>3. PICK b \in Artifact, q \in Revision : b = i.artifact /\ q = i.row.revision
    BY <1>4, <2>2
  <2>4. PICK s \in OutboxState :
          SetsState(b, q, s) /\ s = "failed"
    BY <2>1, <2>3 DEF MarkOutboxFailed, OutboxState, SetsState
  <2>5. outbox'[a][r].state = "failed"
    BY <1>1, <2>4, RowsAfterNewState
  <2> QED
    BY <2>2, <2>5
<1>8. ASSUME NEW e \in Exporter, Reserve(e)
      PROVE  Goal
  <2>1. PICK i \in item[e] : ReserveOutbox(i.artifact, i.row)
    BY <1>2, <1>8 DEF Reserve, storeVars
  <2>2. PICK b \in Artifact, q \in Revision : b = i.artifact /\ q = i.row.revision
    BY <1>4, <1>8 DEF Reserve, At
  <2> DEFINE row == [state |-> "planned", exportedAt |-> "null", event |-> queue[b].latest,
                     content |-> BuildContent(i.row)]
  <2>3. row.state = "planned" /\ outbox' = [outbox EXCEPT ![b][q] = row]
    BY <2>1, <2>2 DEF ReserveOutbox
  <2> HIDE DEF row
  <2>4. outbox'[a][r] \in {row, outbox[a][r]}
    BY <1>1, <2>3 DEF TypeOK
  <2> QED
    BY <2>3, <2>4
<1>9. ASSUME NEW b \in Artifact, NEW q \in Revision, RecordRemoval(b, q)
      PROVE  Goal
  <2>1. PICK s \in OutboxState :
          SetsState(b, q, s) /\ s = "rolled_back"
    BY <1>9 DEF RecordRemoval, MarkOutboxRolledBack, OutboxState, SetsState
  <2>2. b = a /\ q = r /\ outbox'[a][r].state = "rolled_back"
    BY <1>1, <2>1, RowsAfterNewState
  <2> QED
    BY <1>9, <2>2
<1> HIDE DEF Goal
<1>10. ASSUME NEW e \in Exporter,
              \/ ListApproved(e) \/ ListCorrected(e) \/ Reload(e) \/ CheckHistory(e)
              \/ Reread(e) \/ Verify(e) \/ Write(e) \/ Unlink(e) \/ WriteManifest(e)
              \/ Crash(e) \/ WriteFails(e) \/ ManifestFails(e)
       PROVE  FALSE
  <2>1. CASE ListApproved(e) \/ ListCorrected(e) \/ Reload(e) \/ CheckHistory(e) \/ Reread(e)
    BY <1>2, <2>1 DEF ListApproved, ListCorrected, Reload, CheckHistory, Reread, storeVars
  <2>2. CASE \/ Verify(e) \/ Write(e) \/ Unlink(e) \/ WriteManifest(e)
             \/ Crash(e) \/ WriteFails(e) \/ ManifestFails(e)
    BY <1>2, <2>2 DEF Verify, Write, Unlink, WriteManifest, Crash, WriteFails,
                      ManifestFails, storeVars
  <2> QED
    BY <1>10, <2>1, <2>2
<1>11. ASSUME NEW b \in Artifact, \E s \in INITIAL_STATES : Enqueue(b, s)
       PROVE  FALSE
  BY <1>2, <1>11 DEF Enqueue, EnqueueCandidate
<1>12. ASSUME NEW p \in Reviewer, NEW b \in Artifact, Inspect(p, b)
       PROVE  FALSE
  BY <1>2, <1>12 DEF Inspect, storeVars
<1>13. ASSUME NEW b \in Artifact, NEW q \in Revision, RemoveFile(b, q) \/ RevertByHand(b, q)
       PROVE  FALSE
  BY <1>2, <1>13 DEF RemoveFile, RevertByHand, storeVars
<1>14. PromotionNext
  BY <1>2 DEF vars
<1>15. Goal
  BY <1>5, <1>6, <1>7, <1>8, <1>9, <1>10, <1>11, <1>12, <1>13, <1>14
  DEF PromotionNext, Continue
<1> QED
  BY <1>15 DEF Goal

\* Only the operator says that a withdrawn file is gone.
LEMMA RemovalsRecorded ==
  ASSUME StoreInv, DeskTypes, RunInv, [PromotionNext]_vars,
         NEW a \in Artifact, NEW r \in Revision, outbox[a][r].state = "rollback_needed"
  PROVE  outbox'[a][r].state = "rollback_needed" \/ RecordRemoval(a, r)
<1>1. [Next]_storeVars /\ IInv
  BY StoreStep DEF StoreInv
<1>2. outbox'[a][r].state \in {"rollback_needed", "rolled_back"}
  <2>1. outbox'[a][r].state \in OutboxSuccessors["rollback_needed"]
    BY <1>1, StatesSucceed DEF IInv
  <2> QED
    BY <2>1 DEF OutboxSuccessors
<1> QED
  BY <1>2, RowChanges

\* Only the operator removes withdrawn files, and what was removed stays due until
\* it is recorded.
LEMMA RemovingStep ==
  ASSUME [PromotionNext]_vars
  PROVE  \/ removing' = removing
         \/ \E a \in Artifact, r \in Revision : RemoveFile(a, r) \/ RecordRemoval(a, r)
<1>1. ASSUME NEW e \in Exporter, Continue(e)
      PROVE  removing' = removing
  <2>1. CASE \/ ListCorrected(e) \/ Reload(e) \/ CheckHistory(e) \/ Reserve(e) \/ Reread(e)
    BY <2>1 DEF ListCorrected, Reload, CheckHistory, Reserve, Reread
  <2>2. CASE \/ Verify(e) \/ Write(e) \/ Mark(e) \/ Unlink(e) \/ RecordFailure(e)
             \/ WriteManifest(e)
    BY <2>2 DEF Verify, Write, Mark, Unlink, RecordFailure, WriteManifest
  <2> QED
    BY <1>1, <2>1, <2>2 DEF Continue
<1>2. ASSUME NEW e \in Exporter,
             ListApproved(e) \/ Crash(e) \/ WriteFails(e) \/ ManifestFails(e)
      PROVE  removing' = removing
  BY <1>2 DEF ListApproved, Crash, WriteFails, ManifestFails
<1>3. ASSUME NEW a \in Artifact, NEW s \in INITIAL_STATES, Enqueue(a, s)
      PROVE  removing' = removing
  BY <1>3 DEF Enqueue
<1>4. ASSUME NEW p \in Reviewer, Review(p) \/ \E a \in Artifact : Inspect(p, a)
      PROVE  removing' = removing
  BY <1>4 DEF Review, Inspect
<1>5. ASSUME NEW a \in Artifact, NEW r \in Revision, RevertByHand(a, r)
      PROVE  removing' = removing
  BY <1>5 DEF RevertByHand
<1>6. ASSUME UNCHANGED vars PROVE removing' = removing
  BY <1>6 DEF vars
<1> QED
  BY <1>1, <1>2, <1>3, <1>4, <1>5, <1>6 DEF PromotionNext

LEMMA RemovalIsDueStep ==
  ASSUME StoreInv, DeskTypes, RunInv, DiskTypes, RemovalIsDue, [PromotionNext]_vars
  PROVE  RemovalIsDue' /\ removing' \in SUBSET Key
<1>1. removing' \in SUBSET Key
  <2>1. ASSUME NEW a \in Artifact, NEW r \in Revision, RemoveFile(a, r) \/ RecordRemoval(a, r)
        PROVE  removing' \in SUBSET Key
    <3>1. <<a, r>> \in Key
      BY DEF Key
    <3> QED
      BY <2>1, <3>1 DEF DiskTypes, RemoveFile, RecordRemoval
  <2> QED
    BY <2>1, RemovingStep DEF DiskTypes
<1>2. ASSUME NEW a \in Artifact, NEW r \in Revision, <<a, r>> \in removing'
      PROVE  outbox'[a][r].state = "rollback_needed"
  <2>1. CASE <<a, r>> \in removing
    <3>1. outbox[a][r].state = "rollback_needed"
      BY <2>1 DEF RemovalIsDue
    <3>2. ~RecordRemoval(a, r)
      BY <1>2 DEF RecordRemoval
    <3> QED
      BY <3>1, <3>2, RemovalsRecorded
  <2>2. CASE <<a, r>> \notin removing
    <3>1. PICK b \in Artifact, q \in Revision : RemoveFile(b, q) \/ RecordRemoval(b, q)
      BY <1>2, <2>2, RemovingStep
    <3>2. RemoveFile(b, q) /\ <<a, r>> = <<b, q>>
      BY <1>2, <2>2, <3>1 DEF RemoveFile, RecordRemoval
    <3> QED
      BY <3>2 DEF RemoveFile, storeVars
  <2> QED
    BY <2>1, <2>2
<1>3. ASSUME NEW key \in removing'
      PROVE  outbox'[key[1]][key[2]].state = "rollback_needed"
  <2>1. PICK a \in Artifact, r \in Revision : key = <<a, r>>
    BY <1>1 DEF Key
  <2> QED
    BY <1>2, <2>1
<1> QED
  BY <1>1, <1>3 DEF RemovalIsDue

LEMMA DiskInvStep ==
  ASSUME StoreInv, DeskTypes, RunInv, DiskInv, [PromotionNext]_vars
  PROVE  DiskInv'
BY FilesAreReservedStep, ManifestStep, RemovalIsDueStep DEF DiskInv, DiskTypes

----------------------------------------------------------------------------
(* The reviewers.                                                          *)

\* Who changes what a reviewer holds.
LEMMA SeenStep ==
  ASSUME [PromotionNext]_vars
  PROVE  \/ seen' = seen
         \/ \E p \in Reviewer :
              \/ seen' = [seen EXCEPT ![p] = {}]
              \/ UNCHANGED storeVars /\ \E a \in Artifact : Inspect(p, a)
<1>1. ASSUME NEW e \in Exporter, Continue(e)
      PROVE  seen' = seen
  <2>1. CASE \/ ListCorrected(e) \/ Reload(e) \/ CheckHistory(e) \/ Reserve(e) \/ Reread(e)
    BY <2>1 DEF ListCorrected, Reload, CheckHistory, Reserve, Reread, deskVars
  <2>2. CASE \/ Verify(e) \/ Write(e) \/ Mark(e) \/ Unlink(e) \/ RecordFailure(e)
             \/ WriteManifest(e)
    BY <2>2 DEF Verify, Write, Mark, Unlink, RecordFailure, WriteManifest, deskVars
  <2> QED
    BY <1>1, <2>1, <2>2 DEF Continue
<1>2. ASSUME NEW e \in Exporter,
             ListApproved(e) \/ Crash(e) \/ WriteFails(e) \/ ManifestFails(e)
      PROVE  seen' = seen
  BY <1>2 DEF ListApproved, Crash, WriteFails, ManifestFails, deskVars
<1>3. ASSUME NEW a \in Artifact, NEW s \in INITIAL_STATES, Enqueue(a, s)
      PROVE  seen' = seen
  BY <1>3 DEF Enqueue
<1>4. ASSUME NEW p \in Reviewer, Review(p)
      PROVE  seen' = [seen EXCEPT ![p] = {}]
  BY <1>4 DEF Review
<1>5. ASSUME NEW a \in Artifact, NEW r \in Revision,
             RemoveFile(a, r) \/ RecordRemoval(a, r) \/ RevertByHand(a, r)
      PROVE  seen' = seen
  BY <1>5 DEF RemoveFile, RecordRemoval, RevertByHand, deskVars
<1>6. ASSUME UNCHANGED vars PROVE seen' = seen
  BY <1>6 DEF vars
<1>7. ASSUME NEW p \in Reviewer, NEW a \in Artifact, Inspect(p, a)
      PROVE  UNCHANGED storeVars
  BY <1>7 DEF Inspect
<1> QED
  BY <1>1, <1>2, <1>3, <1>4, <1>5, <1>6, <1>7 DEF PromotionNext

LEMMA DeskFollowsQueueStep ==
  ASSUME StoreInv, DeskTypes, RunInv, DeskFollowsQueue, [PromotionNext]_vars
  PROVE  DeskTypes' /\ DeskFollowsQueue'
<1>1. [Next]_storeVars /\ IInv
  BY StoreStep DEF StoreInv
<1> DEFINE Seen == [artifact : Artifact, revision : 0 .. MaxRevision, status : REVIEW_STATES]
           Follows(s) == LET row == queue[s.artifact] IN
                         /\ row.status # "absent"
                         /\ s.revision <= row.revision
                         /\ s.revision = row.revision => s.status = row.status
<1>2. ASSUME NEW p \in Reviewer, NEW s \in seen[p]
      PROVE  s \in Seen /\ Follows(s)
  BY DEF DeskTypes, DeskFollowsQueue
<1>3. ASSUME NEW s \in Seen, Follows(s)
      PROVE  Follows(s)'
  <2> DEFINE a == s.artifact
  <2>1. a \in Artifact /\ s.revision \in Nat
    OBVIOUS
  <2>2. /\ queue[a].revision \in Nat /\ queue'[a].revision \in Nat
        /\ queue[a].revision <= queue'[a].revision
        /\ queue[a].status # "absent" =>
             /\ queue'[a].status # "absent"
             /\ queue'[a].revision = queue[a].revision => queue'[a] = queue[a]
    BY <1>1, <2>1, QueueFrame
  <2> QED
    BY <1>3, <2>1, <2>2
<1>4. ASSUME NEW p \in Reviewer, NEW a \in Artifact, Inspect(p, a), UNCHANGED storeVars,
             NEW q \in Reviewer, NEW s \in seen'[q], s \notin seen[q]
      PROVE  s \in Seen /\ Follows(s)'
  <2>1. s = [artifact |-> a, revision |-> queue[a].revision, status |-> queue[a].status]
    BY <1>4 DEF Inspect, DeskTypes
  <2>2. queue[a] \in QueueRow /\ queue[a].status # "absent" /\ queue' = queue
    BY <1>1, <1>4 DEF Inspect, IInv, TypeOK, storeVars
  <2> QED
    BY <2>1, <2>2 DEF QueueRow
<1>5. ASSUME NEW q \in Reviewer, NEW s \in seen'[q]
      PROVE  s \in Seen /\ Follows(s)'
  <2>1. CASE s \in seen[q]
    BY <1>2, <1>3, <2>1
  <2>2. CASE s \notin seen[q]
    BY <1>4, <1>5, <2>2, SeenStep DEF DeskTypes
  <2> QED
    BY <2>1, <2>2
<1>6. DOMAIN seen' = Reviewer /\ seen' = [q \in Reviewer |-> seen'[q]]
  BY SeenStep DEF DeskTypes, Inspect
<1> QED
  BY <1>5, <1>6 DEF DeskTypes, DeskFollowsQueue

LEMMA EligibleIsDecidedStep ==
  ASSUME IInv, EligibleIsDecided, [Next]_storeVars
  PROVE  EligibleIsDecided'
<1> SUFFICES ASSUME NEW a \in Artifact, Eligible(a)', queue'[a].revision <= 0
             PROVE  FALSE
  <2>1. \A a \in Artifact : queue'[a].revision \in Nat
    BY QueueFrame
  <2> QED
    BY <2>1 DEF EligibleIsDecided
<1>1. queue[a].revision = 0 /\ queue'[a].revision = 0
  BY QueueFrame
<1>2. queue[a].status = "absent"
  BY <1>1, QueueFrame DEF EligibleIsDecided, Eligible
<1>3. ASSUME NEW b \in Artifact, NEW s \in INITIAL_STATES, EnqueueCandidate(b, s)
      PROVE  FALSE
  <2>1. queue'[a].status \in INITIAL_STATES \cup {"absent"}
    BY <1>2, <1>3 DEF EnqueueCandidate, IInv, TypeOK
  <2> QED
    BY <2>1 DEF Eligible, INITIAL_STATES, EXPORT_ELIGIBLE_STATES
<1>4. ASSUME NEW b \in Artifact, NEW d \in REVIEW_STATES, NEW c \in CorrectionOrNull,
             NEW n \in 0 .. MaxRevision, Decide(b, d, c, n)
      PROVE  FALSE
  <2>1. b # a
    BY <1>2, <1>4 DEF Decide, Decidable
  <2>2. queue'[a] = queue[a]
    BY <1>4, <2>1 DEF Decide, IInv, TypeOK
  <2> QED
    BY <1>2, <2>2 DEF Eligible, EXPORT_ELIGIBLE_STATES
<1>5. CASE UNCHANGED queue
  BY <1>2, <1>5 DEF Eligible, EXPORT_ELIGIBLE_STATES
<1> QED
  BY <1>3, <1>4, <1>5
  DEF Next, ReserveOutbox, MarkOutboxExported, MarkOutboxFailed, MarkOutboxRolledBack,
      storeVars

LEMMA DeskInvStep ==
  ASSUME StoreInv, DeskInv, RunInv, [PromotionNext]_vars
  PROVE  DeskInv'
<1>1. [Next]_storeVars /\ IInv
  BY StoreStep DEF StoreInv, DeskInv
<1> QED
  BY <1>1, DeskFollowsQueueStep, EligibleIsDecidedStep DEF DeskInv

----------------------------------------------------------------------------
(* The invariant holds.                                                    *)

LEMMA InitPInv == PromotionInit => PInv
<1> SUFFICES ASSUME PromotionInit PROVE PInv
  OBVIOUS
<1>1. StoreInv
  <2>1. \A a \in Artifact, r \in Revision : outbox[a][r].state = "none"
    BY DEF PromotionInit, Init, NoOutboxRow
  <2>2. OneContentPerKey /\ ExportedIsDated
    BY <2>1 DEF OneContentPerKey, ExportedIsDated
  <2> QED
    BY <2>2, InitIInv DEF PromotionInit, StoreInv
<1>2. DeskTypes /\ DeskFollowsQueue
  BY DEF PromotionInit, DeskTypes, DeskFollowsQueue
<1>3. EligibleIsDecided
  <2> SUFFICES ASSUME NEW a \in Artifact, Eligible(a)
               PROVE  queue[a].revision > 0
    BY DEF EligibleIsDecided
  <2>1. PICK migrated \in [Migrated -> MigratedRows] :
          queue = [b \in Artifact |-> IF b \in Migrated THEN migrated[b] ELSE AbsentRow]
    BY DEF PromotionInit, Init
  <2>2. a \in Migrated /\ queue[a] \in MigratedRows
    BY <2>1 DEF Eligible, AbsentRow, EXPORT_ELIGIBLE_STATES
  <2>3. PICK s, c : queue[a] = MigratedRow(s, c)
    BY <2>2 DEF MigratedRows
  <2>4. s \notin INITIAL_STATES
    BY <2>3 DEF Eligible, MigratedRow, INITIAL_STATES, EXPORT_ELIGIBLE_STATES
  <2> QED
    BY <2>3, <2>4 DEF MigratedRow
<1>4. RunInv
  BY DEF PromotionInit, RunInv, ExporterTypes, ExporterInv
<1>5. DiskInv
  <2>1. NoContent \in Content
    <3>1. AbsentRow \in QueueRow
      BY StoreAssumption DEF AbsentRow, QueueRow, CorrectionOrNull
    <3> QED
      BY <3>1, ContentTypes
  <2> QED
    BY <2>1 DEF PromotionInit, DiskInv, DiskTypes, FilesAreReserved, OnDisk,
                ManifestInv, RemovalIsDue
<1> QED
  BY <1>1, <1>2, <1>3, <1>4, <1>5 DEF PInv, DeskInv

LEMMA NextPInv ==
  ASSUME PInv, [PromotionNext]_vars
  PROVE  PInv'
<1>1. StoreInv /\ DeskInv /\ RunInv /\ DiskInv /\ DeskTypes /\ EligibleIsDecided /\ IInv
  BY DEF PInv, DeskInv, StoreInv
<1>2. [Next]_storeVars
  BY <1>1, StoreStep
<1>3. StoreInv'
  <2>1. IInv'
    BY <1>1, <1>2, NextIInv
  <2>2. OneContentPerKey'
    BY <1>1, <1>2, NextContent DEF StoreInv
  <2>3. ExportedIsDated'
    BY <1>1, <1>2, DatedStep DEF StoreInv
  <2> QED
    BY <2>1, <2>2, <2>3 DEF StoreInv
<1> QED
  BY <1>1, <1>3, DeskInvStep, RunInvStep, DiskInvStep DEF PInv

LEMMA PromotionInvariant == PromotionSpec => []PInv
BY InitPInv, NextPInv, PTL DEF PromotionSpec

\* Reviewers, exporters and the operator, each with its own many-step protocol, use
\* the tables of queue.py only as the store allows; so the theorems about the store
\* (types, history, review boundary, one content per key, the ledger) hold of the
\* whole program.
THEOREM UsesStoreHolds == PromotionSpec => UsesStore
<1>1. PInv /\ [PromotionNext]_vars => [Next]_storeVars
  BY StoreStep DEF PInv, StoreInv, DeskInv
<1>2. PromotionInit => Init
  BY DEF PromotionInit
<1> QED
  BY <1>1, <1>2, PromotionInvariant, PTL DEF PromotionSpec, UsesStore, Spec

\* With files, crashes and stale reads of several processes, the program as a whole still
\* publishes, recalls and removes as PublicationLedger says (exporters.py, cli.py and the
\* operator on the tables of queue.py).
THEOREM ProgramImplementsLedger == PromotionSpec => ImplementsLedger
  BY UsesStoreHolds, StoreImplementsLedger, PTL DEF UsesStore

\* Whatever exporters, reviewers, the operator and disruptions do, in any order,
\* a file in the output directory says what an approved or corrected decision of
\* its revision said (exporters.py writes nothing else).
THEOREM FilesAreApprovedHolds == PromotionSpec => []FilesAreApproved
<1>1. PInv => FilesAreApproved
  <2> SUFFICES ASSUME PInv, NEW a \in Artifact, NEW r \in Revision, OnDisk(a, r)
               PROVE  \E i \in 1 .. Len(events[a]) :
                        /\ events[a][i].revision = r
                        /\ events[a][i].new \in EXPORT_ELIGIBLE_STATES
                        /\ files[a][r] = BuildContent(SnapshotAt(a, i))
    BY DEF FilesAreApproved
  <2>1. outbox[a][r].state # "none" /\ files[a][r] = outbox[a][r].content
    BY DEF PInv, DiskInv, FilesAreReserved
  <2>2. PICK i \in 1 .. Len(events[a]) :
          events[a][i].revision = r /\ events[a][i].new \in EXPORT_ELIGIBLE_STATES
    BY <2>1 DEF PInv, StoreInv, IInv, OutboxFollowsReview
  <2>3. outbox[a][r].content = BuildContent(SnapshotAt(a, i))
    BY <2>1, <2>2 DEF PInv, StoreInv, OneContentPerKey
  <2> QED
    BY <2>1, <2>2, <2>3
<1> QED
  BY <1>1, PromotionInvariant, PTL

\* The manifest an exporter leaves lists only exports that the outbox had recorded
\* as done before, whichever crashes, failures and withdrawals came in between: an
\* export that was withdrawn before it was done is never listed.
THEOREM ManifestHolds == PromotionSpec => []ManifestIsRecorded
<1>1. PInv => ManifestIsRecorded
  BY DEF PInv, DiskInv, ManifestInv, ManifestIsRecorded, Recorded
<1> QED
  BY <1>1, PromotionInvariant, PTL

\* Of two reviewers who inspected the same revision only one decides, and what it
\* replaces is what it saw: every new revision comes from a reviewer that held the
\* row's revision and status, and no longer holds it.
THEOREM DecidedOnWhatWasSeenHolds == PromotionSpec => DecidedOnWhatWasSeen
<1>1. ASSUME PInv, [PromotionNext]_vars
      PROVE  [\A a \in Artifact :
                queue[a].revision' # queue[a].revision =>
                  \E p \in Reviewer : [artifact |-> a, revision |-> queue[a].revision,
                                       status |-> queue[a].status] \in seen[p] \ seen'[p]]_vars
  <2> SUFFICES ASSUME NEW a \in Artifact, queue'[a].revision # queue[a].revision
               PROVE  \E p \in Reviewer :
                        [artifact |-> a, revision |-> queue[a].revision,
                         status |-> queue[a].status] \in seen[p] \ seen'[p]
    OBVIOUS
  <2>1. TypeOK /\ HistoryExplainsQueue /\ DeskTypes /\ DeskFollowsQueue
    BY <1>1 DEF PInv, StoreInv, IInv, DeskInv
  <2>2. queue' # queue
    OBVIOUS
  <2>3. ASSUME NEW b \in Artifact, NEW s \in INITIAL_STATES, Enqueue(b, s)
        PROVE  FALSE
    <3>1. /\ queue[b].status = "absent"
          /\ queue' = [queue EXCEPT ![b] =
                         [provenance |-> "extracted", status |-> s, revision |-> 0,
                          latest |-> 0, corrected |-> NoCorrection]]
      BY <2>3 DEF Enqueue, EnqueueCandidate
    <3>2. queue[b].revision = 0
      BY <2>1, <3>1, AbsentHasNoHistory, RowShowsLastEvent
    <3> QED
      BY <2>1, <3>1, <3>2 DEF TypeOK
  <2>4. ASSUME NEW p \in Reviewer, Review(p)
        PROVE  [artifact |-> a, revision |-> queue[a].revision,
                status |-> queue[a].status] \in seen[p] \ seen'[p]
    <3>1. PICK s \in seen[p], d \in Statuses, c \in CorrectionOrNull :
            /\ Decide(s.artifact, d, c, s.revision)
            /\ seen' = [seen EXCEPT ![p] = {}]
      BY <2>4 DEF Review
    <3>2. PICK b \in Artifact : b = s.artifact
      BY <2>1 DEF DeskTypes
    <3>3. /\ queue[b].revision = s.revision
          /\ \E row : queue' = [queue EXCEPT ![b] = row]
      BY <3>1, <3>2 DEF Decide, Decidable
    <3>4. b = a
      BY <2>1, <3>3 DEF TypeOK
    <3>5. queue[a].status = s.status
      BY <2>1, <3>2, <3>3, <3>4 DEF DeskFollowsQueue
    <3>6. s = [artifact |-> a, revision |-> queue[a].revision, status |-> queue[a].status]
      <4>1. s \in [artifact : Artifact, revision : 0 .. MaxRevision, status : REVIEW_STATES]
        BY <2>1 DEF DeskTypes
      <4>2. s = [artifact |-> s.artifact, revision |-> s.revision, status |-> s.status]
        BY <4>1
      <4> QED
        BY <3>2, <3>3, <3>4, <3>5, <4>2, Zenon
    <3>7. seen'[p] = {}
      BY <2>1, <3>1 DEF DeskTypes
    <3> QED
      BY <3>6, <3>7
  <2>5. ASSUME NEW e \in Exporter,
               \/ ListApproved(e) \/ Continue(e)
               \/ Crash(e) \/ WriteFails(e) \/ ManifestFails(e)
        PROVE  FALSE
    <3>1. CASE Mark(e) \/ RecordFailure(e) \/ Reserve(e)
      BY <2>2, <3>1 DEF Mark, MarkOutboxExported, RecordFailure, MarkOutboxFailed, Reserve,
                        ReserveOutbox, storeVars
    <3>2. CASE \/ ListApproved(e) \/ ListCorrected(e) \/ Reload(e) \/ CheckHistory(e)
               \/ Reread(e) \/ Verify(e)
      BY <2>2, <3>2 DEF ListApproved, ListCorrected, Reload, CheckHistory, Reread, Verify,
                        storeVars
    <3>3. CASE \/ Write(e) \/ Unlink(e) \/ WriteManifest(e)
               \/ Crash(e) \/ WriteFails(e) \/ ManifestFails(e)
      BY <2>2, <3>3 DEF Write, Unlink, WriteManifest, Crash, WriteFails, ManifestFails,
                        storeVars
    <3> QED
      BY <2>5, <3>1, <3>2, <3>3 DEF Continue
  <2>6. ASSUME NEW b \in Artifact, NEW q \in Revision,
               RemoveFile(b, q) \/ RecordRemoval(b, q) \/ RevertByHand(b, q)
        PROVE  FALSE
    BY <2>2, <2>6 DEF RemoveFile, RecordRemoval, MarkOutboxRolledBack, RevertByHand,
                      storeVars
  <2>7. ASSUME NEW p \in Reviewer, NEW b \in Artifact, Inspect(p, b)
        PROVE  FALSE
    BY <2>2, <2>7 DEF Inspect, storeVars
  <2>8. PromotionNext
    BY <1>1, <2>2 DEF vars
  <2> QED
    BY <2>3, <2>4, <2>5, <2>6, <2>7, <2>8 DEF PromotionNext
<1> QED
  BY <1>1, PromotionInvariant, PTL DEF PromotionSpec, DecidedOnWhatWasSeen

----------------------------------------------------------------------------
(* What the outbox says is exported is on disk, unless files are deleted   *)
(* by hand.                                                                *)

\* An exporter about to mark its item has written its file, and as long as the mark
\* is still allowed nobody takes the file away.
WrittenIsThere ==
  \A e \in Exporter : \A i \in item[e] :
    pc[e] = "mark" /\ Exportable(i.artifact, i.row.revision)
      => files[i.artifact][i.row.revision] = BuildContent(i.row)

\* An exporter comes to the mark by writing the file.
LEMMA MarkFollowsWrite ==
  ASSUME ExporterTypes, [PromotionNext]_vars, NEW e \in Exporter, pc'[e] = "mark"
  PROVE  Write(e) \/ (pc[e] = "mark" /\ item'[e] = item[e])
<1> SUFFICES ASSUME ~(pc[e] = "mark" /\ item'[e] = item[e])
             PROVE  Write(e)
  OBVIOUS
<1>1. \/ ListApproved(e) \/ Continue(e)
      \/ Crash(e) \/ WriteFails(e) \/ ManifestFails(e)
  BY OthersStep
<1>2. ASSUME NEW step, step # "mark", Goto(e, step)
      PROVE  FALSE
  BY <1>2 DEF Goto, ExporterTypes
<1>3. ~Abort(e)
  BY <1>2 DEF Abort
<1>4. CASE ListApproved(e) \/ ListCorrected(e) \/ Reload(e) \/ CheckHistory(e) \/ Reserve(e)
  BY <1>2, <1>3, <1>4 DEF ListApproved, ListCorrected, Reload, CheckHistory, Reserve
<1>5. CASE Reread(e)
  BY <1>2, <1>3, <1>5, RereadSteps
<1>6. CASE Verify(e) \/ Mark(e)
  BY <1>2, <1>3, <1>6 DEF Verify, Mark, Finish
<1>7. CASE \/ WriteFails(e) \/ Unlink(e) \/ RecordFailure(e) \/ WriteManifest(e) \/ Crash(e)
           \/ ManifestFails(e)
  BY <1>2, <1>3, <1>7 DEF WriteFails, Unlink, RecordFailure, WriteManifest, Crash,
                          ManifestFails
<1> QED
  BY <1>1, <1>4, <1>5, <1>6, <1>7 DEF Continue

\* Where an exporter is with an item that it has reserved.
LEMMA ItemAtMark ==
  ASSUME PInv, NEW e \in Exporter, NEW i \in item[e], pc[e] \in {"write", "mark", "unlink"}
  PROVE  \E a \in Artifact, r \in Revision :
           /\ a = i.artifact /\ r = i.row.revision
           /\ outbox[a][r].state # "none"
           /\ outbox[a][r].content = BuildContent(i.row)
           /\ pc[e] = "unlink" => ~Exportable(a, r)
<1>1. /\ ItemIsEligible(i) /\ ItemIsDecision(i) /\ StateOf(i) # "none"
      /\ pc[e] = "unlink" => ~Exportable(i.artifact, i.row.revision)
  BY DEF PInv, RunInv, ExporterInv, ItemInv
<1> QED
  BY <1>1, DecisionFacts, ContentOfItem DEF StateOf, PInv, StoreInv, RunInv

LEMMA WrittenIsThereStep ==
  ASSUME "revert" \notin Disruptions, PInv, WrittenIsThere, [PromotionNext]_vars
  PROVE  WrittenIsThere'
<1>1. /\ StoreInv /\ IInv /\ RunInv /\ ExporterTypes /\ DiskTypes /\ [Next]_storeVars
  BY StoreStep DEF PInv, StoreInv, DeskInv, RunInv, DiskInv
<1> SUFFICES ASSUME NEW e \in Exporter, NEW i \in item'[e], pc'[e] = "mark",
                    Exportable(i.artifact, i.row.revision)'
             PROVE  files'[i.artifact][i.row.revision] = BuildContent(i.row)
  BY DEF WrittenIsThere
<1>2. CASE Write(e)
  <2>1. PICK j \in item[e] : PutFile(j.artifact, j.row.revision, BuildContent(j.row))
    BY <1>2 DEF Write
  <2>2. pc[e] = "write" /\ item' = item
    BY <1>2 DEF Write, At
  <2>3. i \in item[e] /\ i = j
    BY <1>1, <2>2 DEF RunInv, ExporterInv
  <2>4. PICK a \in Artifact, r \in Revision : a = j.artifact /\ r = j.row.revision
    BY <2>2, ItemAtMark
  <2>5. BuildContent(j.row) \in Content
    BY <1>1, ContentTypes DEF ExporterTypes, Item
  <2> QED
    BY <1>1, <2>1, <2>3, <2>4, <2>5, OneFile
<1>3. CASE pc[e] = "mark" /\ item'[e] = item[e]
  <2>1. i \in item[e]
    BY <1>3
  <2>2. PICK a \in Artifact, r \in Revision :
          /\ a = i.artifact /\ r = i.row.revision
          /\ outbox[a][r].state # "none"
          /\ outbox[a][r].content = BuildContent(i.row)
    BY <1>3, <2>1, ItemAtMark
  <2>3. Exportable(a, r)
    BY <1>1, <2>2, OutboxFrame
  <2>4. files[a][r] = outbox[a][r].content
    BY <1>3, <2>1, <2>2, <2>3 DEF WrittenIsThere
  <2>5. files'[a][r] = files[a][r]
    <3>1. CASE UNCHANGED files
      BY <3>1
    <3>2. CASE ~UNCHANGED files
      <4>1. PICK b \in Artifact, q \in Revision, c \in Content :
              /\ PutFile(b, q, c)
              /\ c = outbox[b][q].content \/ ~Exportable(b, q)
        BY <1>1, <3>2, FilesStep
      <4>2. files'[a][r] = IF a = b /\ r = q THEN c ELSE files[a][r]
        BY <1>1, <4>1, OneFile
      <4> QED
        BY <2>3, <2>4, <4>1, <4>2
    <3> QED
      BY <3>1, <3>2
  <2> QED
    BY <2>2, <2>4, <2>5
<1> QED
  BY <1>1, <1>2, <1>3, MarkFollowsWrite

LEMMA ExportedFileStep ==
  ASSUME "revert" \notin Disruptions, PInv, WrittenIsThere, ExportedFileOnDisk,
         [PromotionNext]_vars
  PROVE  ExportedFileOnDisk'
<1>1. /\ StoreInv /\ IInv /\ DeskTypes /\ RunInv /\ DiskTypes /\ [Next]_storeVars
  BY StoreStep DEF PInv, StoreInv, DeskInv, RunInv, DiskInv
<1> SUFFICES ASSUME NEW a \in Artifact, NEW r \in Revision, outbox'[a][r].state = "exported"
             PROVE  files'[a][r] = outbox'[a][r].content
  BY DEF ExportedFileOnDisk
<1>2. CASE outbox[a][r].state = "exported"
  <2>1. /\ files[a][r] = outbox[a][r].content
        /\ outbox'[a][r].content = outbox[a][r].content
    BY <1>1, <1>2, ReservationStays DEF ExportedFileOnDisk
  <2>2. Exportable(a, r)
    BY <1>1, <1>2 DEF IInv, OutboxFollowsReview, Exportable
  <2>3. CASE UNCHANGED files
    BY <2>1, <2>3
  <2>4. CASE ~UNCHANGED files
    <3>1. PICK b \in Artifact, q \in Revision, c \in Content :
            /\ PutFile(b, q, c)
            /\ c = outbox[b][q].content \/ ~Exportable(b, q)
      BY <1>1, <2>4, FilesStep
    <3>2. files'[a][r] = IF a = b /\ r = q THEN c ELSE files[a][r]
      BY <1>1, <3>1, OneFile
    <3> QED
      BY <2>1, <2>2, <3>1, <3>2
  <2> QED
    BY <2>3, <2>4
<1>3. CASE outbox[a][r].state # "exported"
  <2>1. /\ UNCHANGED files
        /\ \E e \in Exporter : \E i \in item[e] :
             pc[e] = "mark" /\ i.artifact = a /\ i.row.revision = r /\ Exportable(a, r)
    BY <1>1, <1>3, RowChanges DEF diskVars
  <2>2. PICK e \in Exporter : \E i \in item[e] :
          pc[e] = "mark" /\ i.artifact = a /\ i.row.revision = r /\ Exportable(a, r)
    BY <2>1
  <2>3. PICK i \in item[e] :
          pc[e] = "mark" /\ i.artifact = a /\ i.row.revision = r /\ Exportable(a, r)
    BY <2>2
  <2>4. files[a][r] = BuildContent(i.row)
    BY <2>3 DEF WrittenIsThere
  <2>5. outbox[a][r].content = BuildContent(i.row) /\ outbox[a][r].state # "none"
    BY <2>3, ItemAtMark
  <2> QED
    BY <1>1, <2>1, <2>4, <2>5, ReservationStays
<1> QED
  BY <1>2, <1>3

\* As long as nobody deletes files by hand, an outbox row that says "exported" is
\* backed by the file that was reserved: no late exporter, withdrawal, crash or
\* failed write takes it away or replaces it.
THEOREM ExportedFileOnDiskHolds ==
  ASSUME "revert" \notin Disruptions
  PROVE  PromotionSpec => []ExportedFileOnDisk
<1>1. PromotionInit => WrittenIsThere /\ ExportedFileOnDisk
  BY DEF PromotionInit, Init, WrittenIsThere, ExportedFileOnDisk, NoOutboxRow
<1>2. PInv /\ WrittenIsThere /\ ExportedFileOnDisk /\ [PromotionNext]_vars
        => WrittenIsThere' /\ ExportedFileOnDisk'
  BY WrittenIsThereStep, ExportedFileStep
<1> QED
  BY <1>1, <1>2, PromotionInvariant, PTL DEF PromotionSpec

----------------------------------------------------------------------------
(* A file no decision allows any more is somebody's to remove, unless      *)
(* processes die or the file system fails.                                 *)

Undisrupted == "crash" \notin Disruptions /\ "oserror" \notin Disruptions

\* Without failing writes there are no failed exports.
NothingFails ==
  /\ \A e \in Exporter : pc[e] # "fail"
  /\ \A a \in Artifact, r \in Revision : outbox[a][r].state # "failed"

\* A withdrawn file's owner: the operator, if it has not removed the file yet, or
\* the exporter that is about to mark or to unlink it.
Watched(a, r) ==
  \/ outbox[a][r].state = "rollback_needed" /\ <<a, r>> \notin removing
  \/ \E e \in Exporter : /\ pc[e] \in {"mark", "unlink"}
                        /\ \E i \in item[e] : i.artifact = a /\ i.row.revision = r

StrayFileIsWatched ==
  \A a \in Artifact, r \in Revision :
    OnDisk(a, r) /\ ~CurrentDecision(a, r, outbox[a][r].event) => Watched(a, r)

LEMMA NothingFailsStep ==
  ASSUME Undisrupted, PInv, NothingFails, [PromotionNext]_vars
  PROVE  NothingFails'
<1>1. StoreInv /\ DeskTypes /\ RunInv /\ ExporterTypes
  BY DEF PInv, DeskInv, RunInv
<1>2. ASSUME NEW a \in Artifact, NEW r \in Revision
      PROVE  outbox'[a][r].state # "failed"
  BY <1>1, RowChanges DEF NothingFails
<1>3. ASSUME NEW e \in Exporter, pc'[e] = "fail"
      PROVE  FALSE
  <2>1. \/ ListApproved(e) \/ Continue(e)
        \/ Crash(e) \/ WriteFails(e) \/ ManifestFails(e)
    BY <1>1, <1>3, OthersStep DEF NothingFails
  <2>2. ASSUME NEW step, step # "fail", Goto(e, step)
        PROVE  FALSE
    BY <1>1, <1>3, <2>2 DEF Goto, ExporterTypes
  <2>3. ~Abort(e)
    BY <2>2 DEF Abort
  <2>4. CASE \/ ListApproved(e) \/ ListCorrected(e) \/ Reload(e) \/ CheckHistory(e)
             \/ Reserve(e)
    BY <2>2, <2>3, <2>4 DEF ListApproved, ListCorrected, Reload, CheckHistory, Reserve
  <2>5. CASE Reread(e)
    BY <2>2, <2>3, <2>5, RereadSteps
  <2>6. CASE Verify(e) \/ Mark(e) \/ Write(e)
    BY <2>2, <2>3, <2>6 DEF Verify, Mark, Write, Finish
  <2>7. CASE \/ WriteFails(e) \/ Unlink(e) \/ RecordFailure(e) \/ WriteManifest(e)
             \/ Crash(e) \/ ManifestFails(e)
    BY <2>2, <2>3, <2>7 DEF WriteFails, Unlink, RecordFailure, WriteManifest, Crash,
                            ManifestFails, Undisrupted
  <2> QED
    BY <2>1, <2>4, <2>5, <2>6, <2>7 DEF Continue
<1> QED
  BY <1>2, <1>3 DEF NothingFails

\* A file that was not there is put there by the exporter that will mark it.
LEMMA NewFileIsWatched ==
  ASSUME Undisrupted, PInv, [PromotionNext]_vars,
         NEW a \in Artifact, NEW r \in Revision, OnDisk(a, r)', ~OnDisk(a, r)
  PROVE  Watched(a, r)'
<1>1. /\ StoreInv /\ IInv /\ RunInv /\ DiskTypes /\ ExporterTypes
  BY DEF PInv, StoreInv, DiskInv, RunInv
<1>2. files' # files
  BY DEF OnDisk
<1>3. ASSUME NEW b, NEW q, PutFile(b, q, NoContent)
      PROVE  FALSE
  BY <1>1, <1>3 DEF PutFile, DiskTypes, OnDisk
<1>4. ASSUME NEW e \in Exporter, Write(e)
      PROVE  Watched(a, r)'
  <2>1. PICK i \in item[e] : PutFile(i.artifact, i.row.revision, BuildContent(i.row))
    BY <1>4 DEF Write
  <2>2. pc[e] = "write" /\ item' = item /\ pc'[e] = "mark"
    BY <1>1, <1>4 DEF Write, At, Goto, ExporterTypes
  <2>3. PICK b \in Artifact, q \in Revision : b = i.artifact /\ q = i.row.revision
    BY <2>2, ItemAtMark
  <2>4. BuildContent(i.row) \in Content
    BY <1>1, ContentTypes DEF ExporterTypes, Item
  <2>5. a = b /\ r = q
    BY <1>1, <2>1, <2>3, <2>4, OneFile DEF OnDisk
  <2> QED
    BY <2>2, <2>3, <2>5 DEF Watched
<1>5. ASSUME NEW e \in Exporter, Unlink(e) PROVE FALSE
  BY <1>2, <1>3, <1>5 DEF Unlink
<1>6. ASSUME NEW e \in Exporter,
             \/ ListApproved(e) \/ ListCorrected(e) \/ Reload(e) \/ CheckHistory(e)
             \/ Reserve(e) \/ Reread(e) \/ Verify(e) \/ Mark(e) \/ RecordFailure(e)
             \/ WriteManifest(e) \/ Crash(e) \/ WriteFails(e) \/ ManifestFails(e)
      PROVE  FALSE
  <2>1. CASE \/ ListApproved(e) \/ ListCorrected(e) \/ Reload(e) \/ CheckHistory(e)
             \/ Reserve(e) \/ Reread(e)
    BY <1>2, <2>1 DEF ListApproved, ListCorrected, Reload, CheckHistory, Reserve, Reread,
                      diskVars
  <2>2. CASE \/ Verify(e) \/ Mark(e) \/ RecordFailure(e) \/ WriteManifest(e)
             \/ Crash(e) \/ WriteFails(e) \/ ManifestFails(e)
    BY <1>2, <2>2 DEF Verify, Mark, RecordFailure, WriteManifest, Crash, WriteFails,
                      ManifestFails, diskVars, Undisrupted
  <2> QED
    BY <1>6, <2>1, <2>2
<1>7. ASSUME NEW b \in Artifact, NEW q \in Revision,
             RemoveFile(b, q) \/ RecordRemoval(b, q) \/ RevertByHand(b, q)
      PROVE  FALSE
  BY <1>2, <1>3, <1>7 DEF RemoveFile, RecordRemoval, RevertByHand, diskVars
<1>8. ASSUME NEW p \in Reviewer, Review(p) \/ \E b \in Artifact : Inspect(p, b)
      PROVE  FALSE
  BY <1>2, <1>8 DEF Review, Inspect, diskVars
<1>9. ASSUME NEW b \in Artifact, NEW s \in INITIAL_STATES, Enqueue(b, s)
      PROVE  FALSE
  BY <1>2, <1>9 DEF Enqueue, diskVars
<1>10. PromotionNext
  BY <1>2 DEF vars
<1> QED
  BY <1>4, <1>5, <1>6, <1>7, <1>8, <1>9, <1>10 DEF PromotionNext, Continue

\* The review that takes a decision back withdraws what was reserved for it.
LEMMA WithdrawnIsWatched ==
  ASSUME PInv, NothingFails, [PromotionNext]_vars,
         NEW a \in Artifact, NEW r \in Revision, OnDisk(a, r),
         CurrentDecision(a, r, outbox[a][r].event),
         ~CurrentDecision(a, r, outbox[a][r].event)'
  PROVE  Watched(a, r)'
<1>1. /\ StoreInv /\ IInv /\ TypeOK /\ DeskTypes /\ RunInv /\ [Next]_storeVars
  BY StoreStep DEF PInv, StoreInv, IInv, DeskInv
<1>2. outbox[a][r].state # "none"
  BY DEF PInv, DiskInv, FilesAreReserved
<1>3. outbox[a][r].state \in {"planned", "exported"}
  <2>1. outbox[a][r].state \in OutboxState
    BY <1>1 DEF TypeOK, OutboxRow
  <2>2. /\ outbox[a][r].state \notin {"rollback_needed", "rolled_back"}
        /\ queue[a].revision = r
    BY <1>1 DEF IInv, OutboxFollowsReview, CurrentDecision, TypeOK, QueueRow
  <2> QED
    BY <1>2, <2>1, <2>2 DEF NothingFails, OutboxState
<1>4. outbox'[a][r].event = outbox[a][r].event
  BY <1>1, <1>2, ReservationStays
<1>5. queue'[a] # queue[a] /\ Eligible(a)
  BY <1>4 DEF CurrentDecision, Eligible
<1>6. outbox'[a] = Withdraw(outbox[a])
  <2>1. ASSUME NEW b \in Artifact, NEW s \in INITIAL_STATES, EnqueueCandidate(b, s)
        PROVE  FALSE
    <3>1. queue[b].status = "absent" /\ b = a
      BY <1>1, <1>5, <2>1 DEF EnqueueCandidate, TypeOK
    <3> QED
      BY <1>5, <3>1 DEF Eligible, EXPORT_ELIGIBLE_STATES
  <2>2. ASSUME NEW b \in Artifact, NEW d \in REVIEW_STATES, NEW c \in CorrectionOrNull,
               NEW n \in 0 .. MaxRevision, Decide(b, d, c, n)
        PROVE  outbox'[a] = Withdraw(outbox[a])
    <3>1. b = a
      BY <1>1, <1>5, <2>2 DEF Decide, TypeOK
    <3> QED
      BY <1>1, <1>5, <2>2, <3>1 DEF Decide, TypeOK, Eligible
  <2>3. ~UNCHANGED queue
    BY <1>5
  <2> QED
    BY <1>1, <2>1, <2>2, <2>3
    DEF Next, ReserveOutbox, MarkOutboxExported, MarkOutboxFailed, MarkOutboxRolledBack,
        storeVars
<1>7. outbox'[a][r].state = "rollback_needed"
  <2>1. outbox[a][r] \in OutboxRow
    BY <1>1 DEF TypeOK
  <2> QED
    BY <1>3, <1>6, <2>1 DEF Withdraw, OutboxRow
<1>8. <<a, r>> \notin removing'
  <2>1. <<a, r>> \notin removing
    BY <1>3 DEF PInv, DiskInv, RemovalIsDue
  <2>2. ASSUME NEW b \in Artifact, NEW q \in Revision, RemoveFile(b, q) \/ RecordRemoval(b, q)
        PROVE  FALSE
    BY <1>5, <2>2 DEF RemoveFile, RecordRemoval, MarkOutboxRolledBack, storeVars
  <2> QED
    BY <2>1, <2>2, RemovingStep
<1> QED
  BY <1>7, <1>8 DEF Watched

\* Whoever is to remove a file either does or still is.
LEMMA WatchedStays ==
  ASSUME Undisrupted, PInv, [PromotionNext]_vars,
         NEW a \in Artifact, NEW r \in Revision, OnDisk(a, r), OnDisk(a, r)',
         ~CurrentDecision(a, r, outbox[a][r].event), Watched(a, r)
  PROVE  Watched(a, r)'
<1>1. /\ StoreInv /\ IInv /\ TypeOK /\ DeskTypes /\ RunInv /\ ExporterTypes /\ DiskTypes
  BY DEF PInv, StoreInv, IInv, DeskInv, RunInv, DiskInv
<1>2. ASSUME PutFile(a, r, NoContent) PROVE FALSE
  BY <1>1, <1>2 DEF PutFile, DiskTypes, OnDisk
<1>3. CASE outbox[a][r].state = "rollback_needed" /\ <<a, r>> \notin removing
  <2>1. outbox'[a][r].state = "rollback_needed"
    BY <1>1, <1>3, RemovalsRecorded DEF RecordRemoval
  <2>2. <<a, r>> \notin removing'
    <3>1. ASSUME NEW b \in Artifact, NEW q \in Revision,
                 RemoveFile(b, q) \/ RecordRemoval(b, q), <<a, r>> \in removing'
          PROVE  FALSE
      <4>1. RemoveFile(b, q) /\ <<a, r>> = <<b, q>>
        BY <1>3, <3>1 DEF RemoveFile, RecordRemoval
      <4>2. RemoveFile(a, r)
        BY <4>1
      <4> QED
        BY <1>2, <4>2 DEF RemoveFile
    <3> QED
      BY <1>3, <3>1, RemovingStep
  <2> QED
    BY <2>1, <2>2 DEF Watched
<1>4. ASSUME NEW e \in Exporter, pc[e] \in {"mark", "unlink"},
             NEW i \in item[e], i.artifact = a, i.row.revision = r
      PROVE  Watched(a, r)'
  <2>1. CASE pc'[e] = pc[e] /\ item'[e] = item[e]
    BY <1>4, <2>1 DEF Watched
  <2>2. CASE ~(pc'[e] = pc[e] /\ item'[e] = item[e])
    <3>1. \/ ListApproved(e) \/ Continue(e)
          \/ Crash(e) \/ WriteFails(e) \/ ManifestFails(e)
      BY <1>1, <2>2, OthersStep
    <3>2. Mark(e) \/ Unlink(e)
      BY <1>4, <3>1 DEF Continue, ListApproved, ListCorrected, Reload, CheckHistory,
                        Reserve, Reread, Verify, Write, RecordFailure, WriteManifest, Crash,
                        WriteFails, ManifestFails, At, Undisrupted
    <3>3. \A j \in item[e] : j = i
      BY <1>1 DEF RunInv, ExporterInv
    <3>4. CASE Mark(e)
      <4>1. ~Exportable(a, r)
        BY DEF Exportable
      <4>2. Goto(e, "unlink") /\ item' = item
        BY <1>4, <3>3, <3>4, <4>1 DEF Mark, MarkOutboxExported
      <4>3. pc'[e] = "unlink"
        BY <1>1, <4>2 DEF Goto, ExporterTypes
      <4> QED
        BY <1>4, <4>2, <4>3 DEF Watched
    <3>5. CASE Unlink(e)
      <4>1. outbox[a][r].content = BuildContent(i.row) /\ outbox[a][r].state # "none"
        BY <1>4, ItemAtMark
      <4>2. files[a][r] = BuildContent(i.row)
        BY <4>1 DEF PInv, DiskInv, FilesAreReserved
      <4>3. PutFile(a, r, NoContent)
        BY <1>4, <3>3, <3>5, <4>2 DEF Unlink, Undisrupted
      <4> QED
        BY <1>2, <4>3
    <3> QED
      BY <3>2, <3>4, <3>5
  <2> QED
    BY <2>1, <2>2
<1> QED
  BY <1>3, <1>4 DEF Watched

LEMMA StrayFileStep ==
  ASSUME Undisrupted, PInv, NothingFails, StrayFileIsWatched, [PromotionNext]_vars
  PROVE  StrayFileIsWatched'
<1> SUFFICES ASSUME NEW a \in Artifact, NEW r \in Revision, OnDisk(a, r)',
                    ~CurrentDecision(a, r, outbox[a][r].event)'
             PROVE  Watched(a, r)'
  BY DEF StrayFileIsWatched
<1>1. CASE ~OnDisk(a, r)
  BY <1>1, NewFileIsWatched
<1>2. CASE OnDisk(a, r) /\ CurrentDecision(a, r, outbox[a][r].event)
  BY <1>2, WithdrawnIsWatched
<1>3. CASE OnDisk(a, r) /\ ~CurrentDecision(a, r, outbox[a][r].event)
  BY <1>3, WatchedStays DEF StrayFileIsWatched
<1> QED
  BY <1>1, <1>2, <1>3

\* If no process dies and no write or unlink fails, a file without a current
\* decision waits for the operator, or the exporter that wrote it late is still
\* there to unlink it: no order of reviews, exports and removals leaves it behind.
THEOREM StrayFileHasOwnerHolds ==
  ASSUME "crash" \notin Disruptions, "oserror" \notin Disruptions
  PROVE  PromotionSpec => []StrayFileHasOwner
<1>1. PromotionInit => NothingFails /\ StrayFileIsWatched
  BY DEF PromotionInit, Init, NothingFails, NoOutboxRow, StrayFileIsWatched, OnDisk
<1>2. PInv /\ NothingFails /\ StrayFileIsWatched /\ [PromotionNext]_vars
        => NothingFails' /\ StrayFileIsWatched'
  BY NothingFailsStep, StrayFileStep DEF Undisrupted
<1>3. StrayFileIsWatched => StrayFileHasOwner
  <2> SUFFICES ASSUME StrayFileIsWatched, NEW a \in Artifact, NEW r \in Revision,
                      OnDisk(a, r), ~CurrentDecision(a, r, outbox[a][r].event)
               PROVE  \/ outbox[a][r].state = "rollback_needed"
                      \/ \E e \in Exporter :
                           /\ pc[e] \in {"mark", "unlink"}
                           /\ \E i \in item[e] : i.artifact = a /\ i.row.revision = r
    BY DEF StrayFileHasOwner
  <2>1. Watched(a, r)
    BY DEF StrayFileIsWatched
  <2> QED
    BY <2>1 DEF Watched
<1> QED
  BY <1>1, <1>2, <1>3, PromotionInvariant, PTL DEF PromotionSpec

----------------------------------------------------------------------------
(* Types.                                                                  *)

\* Ever finitely many artifacts are in the queue, so that the next one has a place.
QueuedTypes ==
  /\ queuedAt \in [Artifact -> Nat]
  /\ IsFiniteSet({a \in Artifact : queuedAt[a] > 0})

LEMMA QueuedTypesStep ==
  ASSUME QueuedTypes, [PromotionNext]_vars
  PROVE  QueuedTypes'
<1>1. ASSUME NEW a \in Artifact, NEW s \in INITIAL_STATES, Enqueue(a, s)
      PROVE  QueuedTypes'
  <2> DEFINE queued == {b \in Artifact : queuedAt[b] > 0}
             place == 1 + Cardinality(queued)
  <2>1. IsFiniteSet(queued) /\ Cardinality(queued) \in Nat
    BY FS_CardinalityType DEF QueuedTypes
  <2>2. place \in Nat /\ place > 0
    BY <2>1
  <2>3. queuedAt' = [queuedAt EXCEPT ![a] = place]
    BY <1>1 DEF Enqueue
  <2>4. IsFiniteSet(queued \cup {a})
    BY <2>1, FS_AddElement
  <2> HIDE DEF place
  <2>5. {b \in Artifact : queuedAt'[b] > 0} = queued \cup {a}
    BY <2>2, <2>3 DEF QueuedTypes
  <2> HIDE DEF queued
  <2>6. queuedAt' \in [Artifact -> Nat]
    BY <2>2, <2>3 DEF QueuedTypes
  <2> QED
    BY <2>4, <2>5, <2>6 DEF QueuedTypes
<1>2. ASSUME queuedAt' = queuedAt
      PROVE  QueuedTypes'
  BY <1>2 DEF QueuedTypes
<1>3. ASSUME NEW e \in Exporter, Continue(e)
      PROVE  queuedAt' = queuedAt
  <2>1. CASE \/ ListCorrected(e) \/ Reload(e) \/ CheckHistory(e) \/ Reserve(e) \/ Reread(e)
    BY <2>1 DEF ListCorrected, Reload, CheckHistory, Reserve, Reread, deskVars
  <2>2. CASE \/ Verify(e) \/ Write(e) \/ Mark(e) \/ Unlink(e) \/ RecordFailure(e)
             \/ WriteManifest(e)
    BY <2>2 DEF Verify, Write, Mark, Unlink, RecordFailure, WriteManifest, deskVars
  <2> QED
    BY <1>3, <2>1, <2>2 DEF Continue
<1>4. ASSUME NEW e \in Exporter,
             ListApproved(e) \/ Crash(e) \/ WriteFails(e) \/ ManifestFails(e)
      PROVE  queuedAt' = queuedAt
  BY <1>4 DEF ListApproved, Crash, WriteFails, ManifestFails, deskVars
<1>5. ASSUME NEW p \in Reviewer, Review(p) \/ \E a \in Artifact : Inspect(p, a)
      PROVE  queuedAt' = queuedAt
  BY <1>5 DEF Review, Inspect
<1>6. ASSUME NEW a \in Artifact, NEW r \in Revision,
             RemoveFile(a, r) \/ RecordRemoval(a, r) \/ RevertByHand(a, r)
      PROVE  queuedAt' = queuedAt
  BY <1>6 DEF RemoveFile, RecordRemoval, RevertByHand, deskVars
<1>7. ASSUME UNCHANGED vars PROVE queuedAt' = queuedAt
  BY <1>7 DEF vars
<1> QED
  BY <1>1, <1>2, <1>3, <1>4, <1>5, <1>6, <1>7 DEF PromotionNext

\* Every variable keeps its type; in particular exporters only ever hold rows the
\* queue can have, and the disk only contents an export can build.
THEOREM PromotionTypesHold == PromotionSpec => []PromotionTypeOK
<1>1. PromotionInit => QueuedTypes
  <2> SUFFICES ASSUME PromotionInit PROVE QueuedTypes
    OBVIOUS
  <2>1. Cardinality(Migrated) \in Nat
    BY PromotionAssumption, FS_CardinalityType
  <2>2. /\ queuedAt \in [Artifact -> 0 .. Cardinality(Migrated)]
        /\ \A a \in Artifact : queuedAt[a] = 0 <=> a \notin Migrated
    BY DEF PromotionInit
  <2>3. {a \in Artifact : queuedAt[a] > 0} = Migrated
    BY <2>1, <2>2, StoreAssumption
  <2> QED
    BY <2>1, <2>2, <2>3, PromotionAssumption DEF QueuedTypes
<1>2. PInv /\ QueuedTypes => PromotionTypeOK
  BY DEF PInv, StoreInv, IInv, DeskInv, DeskTypes, RunInv, ExporterTypes, DiskInv, DiskTypes,
         QueuedTypes, PromotionTypeOK
<1> QED
  BY <1>1, <1>2, QueuedTypesStep, PromotionInvariant, PTL DEF PromotionSpec
=============================================================================
