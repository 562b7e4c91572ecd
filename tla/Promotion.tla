----------------------------- MODULE Promotion -----------------------------
(***************************************************************************)
(* The promotion boundary at work: reviewers (mpi queue ...), exporters    *)
(* (mpi export, exporters.py) and the operator who removes withdrawn files *)
(* share the tables of ReviewStore and one output directory.               *)
(*                                                                         *)
(* An exporter holds no transaction between its steps: it lists, reloads,  *)
(* reads the history, reserves, re-reads the reservation, writes the file, *)
(* marks the row, and writes the manifest, and reviews, other exporters    *)
(* and the operator come in between.                                       *)
(***************************************************************************)
EXTENDS ReviewStore, FiniteSets

CONSTANTS
  Reviewer,      \* people running `mpi queue`
  Exporter,      \* processes running `mpi export`, all on one output directory
  ListLimit,     \* get_queue's default limit
  Statuses,      \* bound: the review statuses that this instance uses
  Disruptions    \* what may go wrong around the code: see the last section

ASSUME PromotionAssumption ==
  /\ ListLimit \in Nat \ {0}
  /\ Statuses \subseteq REVIEW_STATES
  /\ Disruptions \subseteq {"crash", "oserror", "revert"}
  /\ IsFiniteSet(Migrated)

VARIABLES
  queuedAt,   \* the queued_at column: the order in which artifacts were enqueued
  seen,       \* what each reviewer has inspected and not yet acted upon (0 or 1 item)
  pc,         \* the step each exporter is at
  todo,       \* items the exporter listed and has not yet taken
  item,       \* the row the exporter reloaded for the item at hand (0 or 1 item)
  done,       \* what the exporter has appended to `artifacts`
  files,      \* content of memory/<type>/<artifact>-r<revision>, NoContent: no file
  manifest,   \* what export-manifest.json lists
  removing    \* withdrawn files the operator has removed and not yet recorded

deskVars == <<queuedAt, seen>>
runVars == <<pc, todo, item, done>>
diskVars == <<files, manifest>>
vars == <<queue, events, outbox, queuedAt, seen, pc, todo, item, done, files, manifest,
          removing>>

Key == Artifact \X Revision

----------------------------------------------------------------------------
(* Reviewers.                                                              *)

Enqueue(a, s) ==
  /\ EnqueueCandidate(a, s)
  /\ queuedAt' = [queuedAt EXCEPT ![a] = 1 + Cardinality({b \in Artifact : queuedAt[b] > 0})]
  /\ UNCHANGED <<seen, runVars, diskVars, removing>>

\* mpi queue inspect: the reviewer reads the row and its revision.
Inspect(p, a) ==
  /\ queue[a].status # "absent"
  /\ seen' = [seen EXCEPT ![p] = {[artifact |-> a, revision |-> queue[a].revision,
                                   status |-> queue[a].status]}]
  /\ UNCHANGED <<storeVars, queuedAt, runVars, diskVars, removing>>

\* mpi queue approve|reject|defer|rollback|correct --expected-revision: with the
\* revision that was inspected. decide() is also given the statuses no command
\* has, as its callers in Python may.
Review(p) ==
  \E s \in seen[p], d \in Statuses, c \in CorrectionOrNull :
    /\ Decide(s.artifact, d, c, s.revision)
    /\ seen' = [seen EXCEPT ![p] = {}]
    /\ UNCHANGED <<queuedAt, runVars, diskVars, removing>>

----------------------------------------------------------------------------
(* Exporters.                                                              *)

\* get_queue(status = s): the ListLimit newest rows, with what the exporter looks
\* at in them.
Listed(s) ==
  LET rows == {a \in Artifact : queue[a].status = s}
      newer(a) == {b \in rows : queuedAt[b] > queuedAt[a]}
  IN  {[artifact |-> a, revision |-> queue[a].revision, status |-> s] :
         a \in {b \in rows : Cardinality(newer(b)) < ListLimit}}

At(e, step) == pc[e] = step
Goto(e, step) == pc' = [pc EXCEPT ![e] = step]

\* An exception leaves export_approved_candidates: the process ends, and what it
\* did not write into the manifest it never will.
Abort(e) ==
  /\ Goto(e, "idle")
  /\ todo' = [todo EXCEPT ![e] = {}]
  /\ item' = [item EXCEPT ![e] = {}]
  /\ done' = [done EXCEPT ![e] = {}]

\* The first of cmd_export's two queries.
ListApproved(e) ==
  /\ At(e, "idle")
  /\ todo' = [todo EXCEPT ![e] = Listed("approved")]
  /\ Goto(e, "list")
  /\ UNCHANGED <<storeVars, deskVars, item, done, diskVars, removing>>

\* The second. With nothing listed the exporter is not called at all, and an
\* older manifest stays.
ListCorrected(e) ==
  LET all == todo[e] \cup Listed("corrected") IN
  /\ At(e, "list")
  /\ todo' = [todo EXCEPT ![e] = all]
  /\ Goto(e, IF all = {} THEN "idle" ELSE "next")
  /\ UNCHANGED <<storeVars, deskVars, item, done, diskVars, removing>>

\* The order of the list: approved items, then corrected ones, newest first.
Precedes(t, u) ==
  IF t.status = u.status
  THEN queuedAt[t.artifact] > queuedAt[u.artifact]
  ELSE t.status = "approved"

\* Wrong: corrected items are taken for rejected ones.
ReloadableIfApproved(row, t) ==
  /\ row.revision = t.revision
  /\ row.status = "approved"
  /\ row.provenance # "legacy"

\* _current_export_item up to the validation of the envelope, which a legacy
\* provenance fails. A row never disappears.
Reloadable(row, t) ==
  /\ row.revision = t.revision
  /\ row.status \in EXPORT_ELIGIBLE_STATES
  /\ row.provenance # "legacy"

Reload(e) ==
  /\ At(e, "next")
  /\ \E t \in todo[e] :
       /\ \A u \in todo[e] \ {t} : Precedes(t, u)
       /\ LET row == queue[t.artifact] IN
          IF Reloadable(row, t)
          THEN /\ Goto(e, "history")
               /\ todo' = [todo EXCEPT ![e] = @ \ {t}]
               /\ item' = [item EXCEPT ![e] = {[artifact |-> t.artifact, row |-> row]}]
               /\ UNCHANGED done
          ELSE Abort(e)
  /\ UNCHANGED <<storeVars, deskVars, diskVars, removing>>

\* The rest of it: the last event of the history must be the row's decision.
CheckHistory(e) ==
  /\ At(e, "history")
  /\ \E i \in item[e] :
       LET history == events[i.artifact] IN
       IF i.row.latest = Len(history) /\ SnapshotTrigger(i.row, history)
          /\ (i.row.status = "corrected" => i.row.corrected # NoCorrection)
       THEN Goto(e, "reserve") /\ UNCHANGED <<todo, item, done>>
       ELSE Abort(e)
  /\ UNCHANGED <<storeVars, deskVars, diskVars, removing>>

\* Wrong: the row is inserted whatever the review has come to.
ReserveUnchecked(e) ==
  /\ At(e, "reserve")
  /\ \E i \in item[e] :
       IF outbox[i.artifact][i.row.revision].state = "none"
       THEN outbox' = [outbox EXCEPT ![i.artifact][i.row.revision] =
                         [state |-> "planned", exportedAt |-> "null",
                          event |-> i.row.latest, content |-> BuildContent(i.row)]]
       ELSE UNCHANGED outbox
  /\ Goto(e, "reread")
  /\ UNCHANGED <<queue, events, deskVars, todo, item, done, diskVars, removing>>

\* The INSERT of reserve_outbox, in its transaction. It may insert nothing.
Reserve(e) ==
  /\ At(e, "reserve")
  /\ \E i \in item[e] :
       \/ ReserveOutbox(i.artifact, i.row)
       \/ /\ \/ ~CurrentDecision(i.artifact, i.row.revision, i.row.latest)
             \/ outbox[i.artifact][i.row.revision].state # "none"
          /\ UNCHANGED storeVars
  /\ Goto(e, "reread")
  /\ UNCHANGED <<deskVars, todo, item, done, diskVars, removing>>

\* The row as read again after that transaction, and what its state calls for.
NextStep(row, content) ==
  IF row.content # content \/ row.state \in {"none", "rollback_needed", "rolled_back"}
  THEN "abort"
  ELSE IF row.state = "exported" THEN "verify" ELSE "write"

Reread(e) ==
  /\ At(e, "reread")
  /\ \E i \in item[e] :
       LET step == NextStep(outbox[i.artifact][i.row.revision], BuildContent(i.row)) IN
       IF step = "abort" THEN Abort(e) ELSE Goto(e, step) /\ UNCHANGED <<todo, item, done>>
  /\ UNCHANGED <<storeVars, deskVars, diskVars, removing>>

\* `artifacts.append(artifact)`.
Finish(e, i) ==
  /\ done' = [done EXCEPT ![e] = @ \cup {<<i.artifact, i.row.revision>>}]
  /\ item' = [item EXCEPT ![e] = {}]
  /\ Goto(e, IF todo[e] = {} THEN "manifest" ELSE "next")
  /\ UNCHANGED todo

\* An export already recorded: its file must be there, unchanged.
Verify(e) ==
  /\ At(e, "verify")
  /\ \E i \in item[e] :
       IF files[i.artifact][i.row.revision] = BuildContent(i.row)
       THEN Finish(e, i)
       ELSE Abort(e)
  /\ UNCHANGED <<storeVars, deskVars, diskVars, removing>>

PutFile(a, r, content) == files' = [files EXCEPT ![a][r] = content]

\* Wrong: the text comes from the queue as it is when the file is written.
WriteCurrentText(e) ==
  /\ At(e, "write")
  /\ \E i \in item[e] :
       PutFile(i.artifact, i.row.revision, BuildContent(queue[i.artifact]))
  /\ Goto(e, "mark")
  /\ UNCHANGED <<storeVars, deskVars, todo, item, done, manifest, removing>>

\* os.replace of a complete temporary file.
Write(e) ==
  /\ At(e, "write")
  /\ \E i \in item[e] : PutFile(i.artifact, i.row.revision, BuildContent(i.row))
  /\ Goto(e, "mark")
  /\ UNCHANGED <<storeVars, deskVars, todo, item, done, manifest, removing>>

\* Wrong: a refused mark is ignored.
MarkIgnoringRefusal(e) ==
  /\ At(e, "mark")
  /\ \E i \in item[e] :
       LET a == i.artifact
           r == i.row.revision
       IN  /\ MarkOutboxExported(a, r) \/ (~Exportable(a, r) /\ UNCHANGED storeVars)
           /\ Finish(e, i)
  /\ UNCHANGED <<deskVars, diskVars, removing>>

\* Wrong: the exporter that is refused stops at once.
MarkOrStop(e) ==
  /\ At(e, "mark")
  /\ \E i \in item[e] :
       LET a == i.artifact
           r == i.row.revision
       IN  \/ MarkOutboxExported(a, r) /\ Finish(e, i)
           \/ ~Exportable(a, r) /\ Abort(e) /\ UNCHANGED storeVars
  /\ UNCHANGED <<deskVars, diskVars, removing>>

\* mark_outbox_exported: refused if the review has moved on.
Mark(e) ==
  /\ At(e, "mark")
  /\ \E i \in item[e] :
       LET a == i.artifact
           r == i.row.revision
       IN  \/ MarkOutboxExported(a, r) /\ Finish(e, i)
           \/ /\ ~Exportable(a, r)
              /\ Goto(e, "unlink")
              /\ UNCHANGED <<storeVars, todo, item, done>>
  /\ UNCHANGED <<deskVars, diskVars, removing>>

\* _unlink_if_hash, which ignores an OSError, and the ExportEligibilityError
\* after it.
Unlink(e) ==
  /\ At(e, "unlink")
  /\ \E i \in item[e] :
       \/ /\ files[i.artifact][i.row.revision] = BuildContent(i.row)
          /\ PutFile(i.artifact, i.row.revision, NoContent)
       \/ /\ \/ files[i.artifact][i.row.revision] # BuildContent(i.row)
             \/ "oserror" \in Disruptions
          /\ UNCHANGED files
  /\ Abort(e)
  /\ UNCHANGED <<storeVars, deskVars, manifest, removing>>

\* The handler of OSError: mark_outbox_failed, whose refusal is ignored; the
\* OSError is raised again.
RecordFailure(e) ==
  /\ At(e, "fail")
  /\ \E i \in item[e] :
       \/ MarkOutboxFailed(i.artifact, i.row.revision)
       \/ ~Failable(i.artifact, i.row.revision) /\ UNCHANGED storeVars
  /\ Abort(e)
  /\ UNCHANGED <<deskVars, diskVars, removing>>

WriteManifest(e) ==
  /\ At(e, "manifest")
  /\ manifest' = done[e]
  /\ Abort(e)
  /\ UNCHANGED <<storeVars, deskVars, files, removing>>

----------------------------------------------------------------------------
(* The operator, as docs/integration/live-export.md describes: a withdrawn *)
(* file is removed, then mark_outbox_rolled_back records it.               *)

RemoveFile(a, r) ==
  /\ outbox[a][r].state = "rollback_needed"
  /\ <<a, r>> \notin removing
  /\ PutFile(a, r, NoContent)
  /\ removing' = removing \cup {<<a, r>>}
  /\ UNCHANGED <<storeVars, deskVars, runVars, manifest>>

RecordRemoval(a, r) ==
  /\ <<a, r>> \in removing
  /\ MarkOutboxRolledBack(a, r)
  /\ removing' = removing \ {<<a, r>>}
  /\ UNCHANGED <<deskVars, runVars, diskVars>>

----------------------------------------------------------------------------
(* Disruptions.                                                            *)

\* The process dies. Its transactions are committed or not there at all.
Crash(e) ==
  /\ "crash" \in Disruptions
  /\ pc[e] # "idle"
  /\ Abort(e)
  /\ UNCHANGED <<storeVars, deskVars, diskVars, removing>>

\* _atomic_write_text raises OSError: before os.replace, or after it, when the
\* directory cannot be opened or synced.
WriteFails(e) ==
  /\ "oserror" \in Disruptions
  /\ At(e, "write")
  /\ \E i \in item[e] : \/ PutFile(i.artifact, i.row.revision, BuildContent(i.row))
                        \/ UNCHANGED files
  /\ Goto(e, "fail")
  /\ UNCHANGED <<storeVars, deskVars, todo, item, done, manifest, removing>>

\* The same for the manifest: nothing handles it.
ManifestFails(e) ==
  /\ "oserror" \in Disruptions
  /\ At(e, "manifest")
  /\ \/ manifest' = done[e]
     \/ UNCHANGED manifest
  /\ Abort(e)
  /\ UNCHANGED <<storeVars, deskVars, files, removing>>

\* docs/ops-runbooks.md: "delete the artifact file named in rollback_note to
\* revert a dry-run export entry".
RevertByHand(a, r) ==
  /\ "revert" \in Disruptions
  /\ files[a][r] # NoContent
  /\ PutFile(a, r, NoContent)
  /\ UNCHANGED <<storeVars, deskVars, runVars, manifest, removing>>

----------------------------------------------------------------------------

PromotionInit ==
  /\ Init
  /\ queuedAt \in {at \in [Artifact -> 0 .. Cardinality(Migrated)] :
                     /\ \A a \in Artifact : at[a] = 0 <=> a \notin Migrated
                     /\ \A a, b \in Migrated : at[a] = at[b] => a = b}
  /\ seen = [p \in Reviewer |-> {}]
  /\ pc = [e \in Exporter |-> "idle"]
  /\ todo = [e \in Exporter |-> {}]
  /\ item = [e \in Exporter |-> {}]
  /\ done = [e \in Exporter |-> {}]
  /\ files = [a \in Artifact |-> [r \in Revision |-> NoContent]]
  /\ manifest = {}
  /\ removing = {}

\* What a started run does next, whoever started it.
Continue(e) ==
  \/ ListCorrected(e) \/ Reload(e) \/ CheckHistory(e) \/ Reserve(e) \/ Reread(e)
  \/ Verify(e) \/ Write(e) \/ Mark(e) \/ Unlink(e) \/ RecordFailure(e) \/ WriteManifest(e)

PromotionNext ==
  \/ \E a \in Artifact, s \in INITIAL_STATES \cap Statuses : Enqueue(a, s)
  \/ \E p \in Reviewer : Review(p) \/ \E a \in Artifact : Inspect(p, a)
  \/ \E e \in Exporter :
       \/ ListApproved(e) \/ Continue(e)
       \/ Crash(e) \/ WriteFails(e) \/ ManifestFails(e)
  \/ \E a \in Artifact, r \in Revision :
       RemoveFile(a, r) \/ RecordRemoval(a, r) \/ RevertByHand(a, r)

PromotionSpec == PromotionInit /\ [][PromotionNext]_vars

\* A started run goes on, as long as nothing stops its process.
RunFairness == \A e \in Exporter : WF_vars(Continue(e))

\* Export runs are started again and again.
ExportFairness == \A e \in Exporter : WF_vars(ListApproved(e))

FairSpec == PromotionSpec /\ RunFairness
RepeatedExportSpec == PromotionSpec /\ RunFairness /\ ExportFairness

----------------------------------------------------------------------------
(* Properties.                                                             *)

Item == [artifact : Artifact, row : QueueRow]

PromotionTypeOK ==
  /\ TypeOK
  /\ queuedAt \in [Artifact -> Nat]
  /\ seen \in [Reviewer -> SUBSET [artifact : Artifact, revision : 0 .. MaxRevision,
                                   status : REVIEW_STATES]]
  /\ pc \in [Exporter -> {"idle", "list", "next", "history", "reserve", "reread", "verify",
                          "write", "mark", "unlink", "fail", "manifest"}]
  /\ todo \in [Exporter -> SUBSET [artifact : Artifact, revision : Revision,
                                 status : EXPORT_ELIGIBLE_STATES]]
  /\ item \in [Exporter -> SUBSET Item]
  /\ done \in [Exporter -> SUBSET Key]
  /\ files \in [Artifact -> [Revision -> Content]]
  /\ manifest \in SUBSET Key
  /\ removing \in SUBSET Key

OnDisk(a, r) == files[a][r] # NoContent

\* An outbox row that says "exported" is backed by the file, with the content
\* that was approved, whatever other exporters, reviewers and the operator do in
\* the meantime: no exporter removes or replaces what another one recorded.
ExportedFileOnDisk ==
  \A a \in Artifact, r \in Revision :
    outbox[a][r].state = "exported" => files[a][r] = outbox[a][r].content

\* Nothing but the text of an approved or corrected decision is ever on disk:
\* what a file says is what the event of its revision approved.
FilesAreApproved ==
  \A a \in Artifact, r \in Revision :
    OnDisk(a, r) =>
      \E i \in 1 .. Len(events[a]) :
        /\ events[a][i].revision = r
        /\ events[a][i].new \in EXPORT_ELIGIBLE_STATES
        /\ files[a][r] = BuildContent(SnapshotAt(a, i))

\* The manifest lists only what the outbox recorded as exported first, withdrawn
\* since or not: never an export that was refused because its failure or its
\* withdrawal came before the mark.
ManifestIsRecorded == \A key \in manifest : outbox[key[1]][key[2]].exportedAt = "set"

\* A file that no current decision allows is accounted for: it waits for the
\* operator, or the exporter that wrote it late is still there to unlink it.
StrayFileHasOwner ==
  \A a \in Artifact, r \in Revision :
    OnDisk(a, r) /\ ~CurrentDecision(a, r, outbox[a][r].event) =>
      \/ outbox[a][r].state = "rollback_needed"
      \/ \E e \in Exporter : /\ pc[e] \in {"mark", "unlink"}
                            /\ \E i \in item[e] : i.artifact = a /\ i.row.revision = r

\* A decision is recorded only by a reviewer who inspected the revision it
\* replaces, in the status it had then: of two reviewers who read the same
\* revision, only one decides.
DecidedOnWhatWasSeen ==
  [][\A a \in Artifact :
       queue[a].revision' # queue[a].revision =>
         \E p \in Reviewer : [artifact |-> a, revision |-> queue[a].revision,
                              status |-> queue[a].status] \in seen[p] \ seen'[p]]_vars

\* Reviewers, exporters and the operator use the tables only as ReviewStore
\* allows: what is checked and proved of it for any callers holds of these.
UsesStore == Spec

\* A file whose removal is already recorded, written by an exporter that was
\* late, does not stay.
LateFileIsUnlinked ==
  \A a \in Artifact, r \in Revision :
    OnDisk(a, r) /\ outbox[a][r].state = "rolled_back" ~> ~OnDisk(a, r)

\* A decision that allows export, and is not replaced, is exported by one of the
\* runs that come after it.
ApprovedIsExported ==
  \A a \in Artifact, r \in Revision :
    Eligible(a) /\ queue[a].revision = r /\ queue[a].provenance # "legacy"
      ~> outbox[a][r].state = "exported" \/ queue[a].revision # r
============================================================================
