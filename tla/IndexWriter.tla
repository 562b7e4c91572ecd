----------------------------- MODULE IndexWriter -----------------------------
(***************************************************************************)
(* The index writer and the sync batches around it: index_writer.py and    *)
(* run_sync_batch, in processes that share one database in WAL mode.       *)
(*                                                                         *)
(* A record is what the properties tell apart of a message: its            *)
(* locator_export_id, its account, mailbox, folder and UID together (at),  *)
(* the rest of its metadata, and whether it is "rejected" by the mapper,   *)
(* "invalid" to _validate_record, or "good".                               *)
(***************************************************************************)
EXTENDS Naturals, Sequences, FiniteSets

CONSTANTS
  Process,     \* processes that sync
  Export,      \* the values of locator_export_id
  Identity,    \* account, mailbox, folder and UID
  Meta,        \* the rest of a record's metadata
  Unstorable,  \* metadata that is valid, but not to SQLite: an integer above 64 bits
  Reordered,   \* metadata whose attachments SQL sorts otherwise than Python
  Batches,     \* the batches considered, each with a cursor of its own
  NoRow, None, Unread, Nobody

VARIABLES
  db,       \* what is committed: rows, decisions, locator history, checkpoint
  writer,   \* the process whose transaction has the write lock
  pc,       \* where each process is
  run,      \* its batch, whether it is a dry run, the counts of its first plan
  plan,     \* the actions planned so far
  states,   \* _plan_records: what it has read or planned of each export
  owners,   \* _plan_records: what it has read or planned of each identity
  tables,   \* its transaction's view of the database
  stale,    \* whether another commit came after that view
  next,     \* the record to write next
  counts    \* the outcomes counted

vars == <<db, writer, pc, run, plan, states, owners, tables, stale, next, counts>>

Kind == {"good", "rejected", "invalid"}
Message == [export : Export, at : Identity, meta : Meta, kind : Kind]
Action == {"inserted", "updated", "unchanged", "failed"}
Row == [at : Identity, meta : Meta]
State == [at : Identity, meta : Meta, sorted : BOOLEAN]

ASSUME BatchAssumption ==
  /\ Batches # {}
  /\ \A b \in Batches : b.messages \in Seq(Message) /\ b.cursor # None
  /\ \A b, c \in Batches : b.cursor = c.cursor => b = c

Tables ==
  [rows : [Export -> Row \cup {NoRow}], decided : [Export -> Meta \cup {None}],
   history : SUBSET (Export \X Identity),
   checkpoint : {b.cursor : b \in Batches} \cup {None}]

ASSUME ValueAssumption ==
  /\ NoRow \notin Row \cup State \cup {Unread}
  /\ Unread \notin State \cup Export \cup {Nobody}
  /\ None \notin Meta \cup Tables
  /\ Nobody \notin Export \cup Process

NothingRead == [e \in Export |-> Unread]
NobodyRead == [i \in Identity |-> Unread]
NoCounts == [a \in Action |-> 0]
NoRun == [batch |-> CHOOSE b \in Batches : TRUE, dry |-> TRUE,
          planned |-> NoCounts]

\* A process forgets its plan.
Forget(p) ==
  /\ plan' = [plan EXCEPT ![p] = <<>>]
  /\ states' = [states EXCEPT ![p] = NothingRead]
  /\ owners' = [owners EXCEPT ![p] = NobodyRead]

Init ==
  /\ db = [rows |-> [e \in Export |-> NoRow], decided |-> [e \in Export |-> None],
           history |-> {}, checkpoint |-> None]
  /\ writer = Nobody
  /\ pc = [p \in Process |-> "idle"]
  /\ run = [p \in Process |-> NoRun]
  /\ plan = [p \in Process |-> <<>>]
  /\ states = [p \in Process |-> NothingRead]
  /\ owners = [p \in Process |-> NobodyRead]
  /\ tables = [p \in Process |-> None]
  /\ stale = [p \in Process |-> FALSE]
  /\ next = [p \in Process |-> 1]
  /\ counts = [p \in Process |-> NoCounts]

----------------------------------------------------------------------------
(* Records. A message that the mapper rejects is none, and is passed over. *)

MapperAccepts(m) == m.kind # "rejected"
Messages(p) == run[p].batch.messages
Rejections(p) == Cardinality({i \in DOMAIN Messages(p) : ~MapperAccepts(Messages(p)[i])})

Valid(r) == r.kind # "invalid"

\* _state_from_record
StateOf(r) == [at |-> r.at, meta |-> r.meta, sorted |-> TRUE]

\* _load_record_state
Load(view, e) ==
  IF view.rows[e] = NoRow THEN NoRow
  ELSE [at |-> view.rows[e].at, meta |-> view.rows[e].meta,
        sorted |-> view.rows[e].meta \notin Reordered]

\* _mailbox_uid_owner
Owner(view, identity) ==
  LET owning == {e \in Export : view.rows[e] # NoRow /\ view.rows[e].at = identity}
  IN  IF owning = {} THEN Nobody ELSE CHOOSE e \in owning : TRUE

----------------------------------------------------------------------------
(* _plan_records, a record in a step. Outside of a transaction every       *)
(* record may be read from another state of the database.                  *)

View(p) == IF pc[p] = "plan" \/ plan[p] = <<>> THEN db ELSE tables[p]

Existing(p, e) == IF states[p][e] = Unread THEN Load(View(p), e) ELSE states[p][e]

CurrentOwner(p, identity) ==
  IF owners[p][identity] = Unread THEN Owner(View(p), identity) ELSE owners[p][identity]

Taken(p, r) == CurrentOwner(p, r.at) \notin {Nobody, r.export}

PlannedAction(p, r) ==
  IF ~MapperAccepts(r) THEN "rejected"
  ELSE IF ~Valid(r) \/ Taken(p, r) THEN "failed"
  ELSE IF Existing(p, r.export) = NoRow THEN "inserted"
  ELSE IF Existing(p, r.export) = StateOf(r) THEN "unchanged"
  ELSE "updated"

\* The identity the record leaves, if it moves.
Left(p, r) ==
  IF Existing(p, r.export) = NoRow THEN {} ELSE {Existing(p, r.export).at} \ {r.at}

\* Wrong: the identity a record takes is not remembered.
OwnersIfNotTaken(p, r) ==
  [i \in Identity |-> IF i \in Left(p, r) THEN Nobody ELSE owners[p][i]]

OwnersAfter(p, r) ==
  [i \in Identity |->
     CASE i = r.at           -> r.export
       [] i \in Left(p, r)   -> Nobody
       [] OTHER              -> owners[p][i]]

PlanRecord(p) ==
  /\ pc[p] \in {"plan", "replan"}
  /\ Len(plan[p]) < Len(Messages(p))
  /\ LET r == Messages(p)[Len(plan[p]) + 1]
     IN  /\ plan' = [plan EXCEPT ![p] = Append(@, PlannedAction(p, r))]
         /\ IF ~MapperAccepts(r) \/ ~Valid(r)
            THEN UNCHANGED <<states, owners>>
            ELSE IF Taken(p, r)
            THEN /\ states' = [states EXCEPT ![p][r.export] = Existing(p, r.export)]
                 /\ owners' = [owners EXCEPT ![p][r.at] = CurrentOwner(p, r.at)]
            ELSE /\ states' = [states EXCEPT ![p][r.export] = StateOf(r)]
                 /\ owners' = [owners EXCEPT ![p] = OwnersAfter(p, r)]
  \* The first read of a transaction takes its snapshot.
  /\ IF pc[p] = "replan" /\ plan[p] = <<>>
     THEN tables' = [tables EXCEPT ![p] = db] /\ stale' = [stale EXCEPT ![p] = FALSE]
     ELSE UNCHANGED <<tables, stale>>
  /\ UNCHANGED <<db, writer, pc, run, next, counts>>

\* _summarize_plans
Summary(p) ==
  [a \in Action |-> Cardinality({i \in DOMAIN plan[p] : plan[p][i] = a})]

----------------------------------------------------------------------------
(* run_sync_batch and write_index_records.                                 *)

Goto(p, step) == pc' = [pc EXCEPT ![p] = step]

\* The result is made.
Finish(p) ==
  /\ Goto(p, "done")
  /\ Forget(p)
  /\ next' = [next EXCEPT ![p] = 1]
  /\ UNCHANGED <<run, counts>>

Start(p) ==
  /\ pc[p] = "idle"
  /\ \E b \in Batches, dry \in BOOLEAN :
       run' = [run EXCEPT ![p] = [batch |-> b, dry |-> dry, planned |-> NoCounts]]
  /\ Goto(p, "plan")
  /\ UNCHANGED <<db, writer, plan, states, owners, tables, stale, next, counts>>

\* A dry run ends, as does what has a rejected or failed record; else the savepoint
\* is set and everything planned again.
EndPlan(p) ==
  /\ pc[p] = "plan"
  /\ Len(plan[p]) = Len(Messages(p))
  /\ IF run[p].dry \/ Rejections(p) > 0 \/ Summary(p)["failed"] > 0
     THEN Goto(p, "done")
     ELSE Goto(p, "replan")
  /\ counts' = [counts EXCEPT ![p] = Summary(p)]
  /\ run' = [run EXCEPT ![p].planned = Summary(p)]
  /\ Forget(p)
  /\ UNCHANGED <<db, writer, tables, stale, next>>

EndReplan(p) ==
  /\ pc[p] = "replan"
  /\ Len(plan[p]) = Len(Messages(p))
  /\ Goto(p, "write")
  /\ states' = [states EXCEPT ![p] = NothingRead]
  /\ owners' = [owners EXCEPT ![p] = NobodyRead]
  /\ counts' = [counts EXCEPT ![p] = NoCounts]
  /\ UNCHANGED <<db, writer, run, plan, tables, stale, next>>

Count(p, outcome) ==
  /\ counts' = [counts EXCEPT ![p][outcome] = @ + 1]
  /\ next' = [next EXCEPT ![p] = @ + 1]

\* SQLite answers SQLITE_BUSY at once to a transaction that has read: another has the
\* lock, or has committed since.
MayWrite(p) == writer = p \/ (writer = Nobody /\ ~stale[p])

\* UNIQUE (mailbox_id, locator_uid)
Collides(rows, r) ==
  \E e \in Export \ {r.export} : rows[e] # NoRow /\ rows[e].at = r.at

\* Wrong: the update leaves the UID as it is.
PutAtOldPlace(rows, r) ==
  [rows EXCEPT ![r.export] =
     [at |-> IF @ = NoRow THEN r.at ELSE @.at, meta |-> r.meta]]

\* _insert_record or _update_record
Put(rows, r) == [rows EXCEPT ![r.export] = [at |-> r.at, meta |-> r.meta]]

Pass(p) ==
  /\ pc[p] = "write"
  /\ next[p] <= Len(plan[p])
  /\ plan[p][next[p]] \in {"unchanged", "failed"}
  /\ Count(p, plan[p][next[p]])
  /\ UNCHANGED <<db, writer, pc, run, plan, states, owners, tables, stale>>

\* An insertion needs an export that has no row, an update one that has: what is not so
\* after an earlier record failed raises.
Write(p) ==
  /\ pc[p] = "write"
  /\ next[p] <= Len(plan[p])
  /\ plan[p][next[p]] \in {"inserted", "updated"}
  /\ MayWrite(p)
  /\ LET r == Messages(p)[next[p]]
     IN  /\ r.meta \notin Unstorable
         /\ ~Collides(tables[p].rows, r)
         /\ plan[p][next[p]] = "inserted" <=> tables[p].rows[r.export] = NoRow
         /\ tables' = [tables EXCEPT ![p].rows = Put(@, r)]
  /\ writer' = p
  /\ Count(p, plan[p][next[p]])
  /\ UNCHANGED <<db, pc, run, plan, states, owners, stale>>

\* Wrong: the record is counted as planned, and as failed.
CountFailureTwice(p) ==
  /\ counts' = [counts EXCEPT ![p][plan[p][next[p]]] = @ + 1, ![p]["failed"] = @ + 1]
  /\ next' = [next EXCEPT ![p] = @ + 1]

CountFailure(p) == Count(p, "failed")

\* Any statement of the record's may raise: busy, a constraint, a value SQLite does
\* not take, a full disk. The record's savepoint is rolled back, the lock is kept.
WriteFails(p) ==
  /\ pc[p] = "write"
  /\ next[p] <= Len(plan[p])
  /\ plan[p][next[p]] \in {"inserted", "updated"}
  /\ \/ UNCHANGED writer
     \/ MayWrite(p) /\ writer' = p
  /\ CountFailure(p)
  /\ UNCHANGED <<db, pc, run, plan, states, owners, tables, stale>>

\* The transaction ends without effect.
Drop(p) ==
  /\ tables' = [tables EXCEPT ![p] = None]
  /\ stale' = [stale EXCEPT ![p] = FALSE]
  /\ writer' = IF writer = p THEN Nobody ELSE writer
  /\ UNCHANGED db

\* A read raises: the result has the counts of the first plan, which are there still.
ReplanFails(p) ==
  /\ pc[p] = "replan"
  /\ Drop(p)
  /\ Finish(p)

\* SAVEPOINT or RELEASE of a record raises, outside of its try: what was counted of the
\* records is lost, and the result has the counts of the first plan.
SavepointFails(p) ==
  /\ pc[p] = "write"
  /\ next[p] <= Len(plan[p])
  /\ plan[p][next[p]] \in {"inserted", "updated"}
  /\ Drop(p)
  /\ Goto(p, "done")
  /\ Forget(p)
  /\ next' = [next EXCEPT ![p] = 1]
  /\ counts' = [counts EXCEPT ![p] = run[p].planned]
  /\ UNCHANGED run

RollBack(p) ==
  /\ pc[p] = "write"
  /\ next[p] > Len(plan[p])
  /\ counts[p]["failed"] > 0
  /\ Drop(p)
  /\ Finish(p)

\* What concerns an export is said by the last of its records.
Last(p, e) ==
  CHOOSE i \in DOMAIN Messages(p) :
    /\ Messages(p)[i].export = e
    /\ \A j \in DOMAIN Messages(p) : Messages(p)[j].export = e => j <= i

Mentioned(p) == {Messages(p)[i].export : i \in DOMAIN Messages(p)}

\* Wrong: a decision that is there stays.
DecideOnce(p, decided) ==
  [e \in Export |->
     IF e \in Mentioned(p) /\ decided[e] = None THEN Messages(p)[Last(p, e)].meta ELSE decided[e]]

\* _persist_ingest_decisions
Decide(p, decided) ==
  [e \in Export |-> IF e \in Mentioned(p) THEN Messages(p)[Last(p, e)].meta ELSE decided[e]]

\* _record_locator_history
Observed(p) == {<<Messages(p)[i].export, Messages(p)[i].at>> : i \in DOMAIN Messages(p)}

\* A batch without records reads nothing, and waits for the lock.
Snapshot(p) == IF Messages(p) = <<>> THEN db ELSE tables[p]
MayPersist(p) == IF Messages(p) = <<>> THEN writer = Nobody ELSE MayWrite(p)

\* Wrong: whether a record failed is not looked at.
CompleteAnyway(p) == next[p] > Len(plan[p])

Complete(p) == next[p] > Len(plan[p]) /\ counts[p]["failed"] = 0

Persist(p) ==
  /\ pc[p] = "write"
  /\ Complete(p)
  /\ MayPersist(p)
  /\ LET old == Snapshot(p)
     IN  tables' = [tables EXCEPT ![p] =
                      [rows |-> old.rows, decided |-> Decide(p, old.decided),
                       history |-> old.history \cup Observed(p),
                       checkpoint |-> run[p].batch.cursor]]
  /\ writer' = p
  /\ Goto(p, "commit")
  /\ UNCHANGED <<db, run, plan, states, owners, stale, next, counts>>

\* Busy, or a full disk, at any of its statements.
PersistFails(p) ==
  /\ pc[p] = "write"
  /\ Complete(p)
  /\ Drop(p)
  /\ Finish(p)

\* RELEASE of the outermost savepoint.
Commit(p) ==
  /\ pc[p] = "commit"
  /\ db' = tables[p]
  /\ tables' = [tables EXCEPT ![p] = None]
  /\ stale' = [q \in Process |-> q # p /\ tables[q] # None]
  /\ writer' = Nobody
  /\ Finish(p)

\* The call is over.
Leave(p) ==
  /\ Goto(p, "idle")
  /\ Forget(p)
  /\ run' = [run EXCEPT ![p] = NoRun]
  /\ next' = [next EXCEPT ![p] = 1]
  /\ counts' = [counts EXCEPT ![p] = NoCounts]

Return(p) ==
  /\ pc[p] = "done"
  /\ Leave(p)
  /\ UNCHANGED <<db, writer, tables, stale>>

\* The process dies, or a commit or a rollback raises and the caller closes the connection.
Crash(p) ==
  /\ pc[p] # "idle"
  /\ Drop(p)
  /\ Leave(p)

Step(p) ==
  \/ Start(p) \/ PlanRecord(p) \/ EndPlan(p) \/ EndReplan(p)
  \/ Pass(p) \/ Write(p) \/ WriteFails(p)
  \/ ReplanFails(p) \/ SavepointFails(p) \/ RollBack(p)
  \/ Persist(p) \/ PersistFails(p) \/ Commit(p) \/ Return(p) \/ Crash(p)

Next == \E p \in Process : Step(p)

Spec == Init /\ [][Next]_vars

----------------------------------------------------------------------------
(* Properties.                                                             *)

TypeOK ==
  /\ db \in Tables
  /\ writer \in Process \cup {Nobody}
  /\ pc \in [Process -> {"idle", "plan", "replan", "write", "commit", "done"}]
  /\ run \in [Process -> [batch : Batches, dry : BOOLEAN, planned : [Action -> Nat]]]
  /\ plan \in [Process -> Seq(Action \cup {"rejected"})]
  /\ states \in [Process -> [Export -> State \cup {NoRow, Unread}]]
  /\ owners \in [Process -> [Identity -> Export \cup {Nobody, Unread}]]
  /\ tables \in [Process -> Tables \cup {None}]
  /\ stale \in [Process -> BOOLEAN]
  /\ next \in [Process -> Nat \ {0}]
  /\ \A p \in Process : next[p] <= Len(Messages(p)) + 1
  /\ counts \in [Process -> [Action -> Nat]]

\* A record that _plan_records means to write or to pass over can be: whatever the batch
\* moves to and fro, UNIQUE (mailbox_id, locator_uid) does not refuse it, and a row to
\* be inserted is not there, any other is, unless an earlier record failed.
PlanIsKept ==
  \A p \in Process :
    pc[p] = "write" /\ next[p] <= Len(plan[p]) /\ counts[p]["failed"] = 0
      /\ plan[p][next[p]] # "failed" =>
      LET r == Messages(p)[next[p]]
      IN  /\ ~Collides(tables[p].rows, r)
          /\ plan[p][next[p]] = "inserted" <=> tables[p].rows[r.export] = NoRow

\* "Every input is represented exactly once by the inserted, updated, unchanged,
\* rejected, or failed counts."
InputsAreAccounted ==
  \A p \in Process :
    pc[p] = "done" =>
      counts[p]["inserted"] + counts[p]["updated"] + counts[p]["unchanged"]
        + counts[p]["failed"] + Rejections(p) = Len(run[p].batch.messages)

\* What is committed fits together: no two rows have one identity, each row has the
\* decision made of the same record, and its place is in the locator history.
IndexIsCoherent ==
  \A e \in Export :
    /\ db.rows[e] = NoRow <=> db.decided[e] = None
    /\ db.rows[e] # NoRow =>
         /\ db.decided[e] = db.rows[e].meta
         /\ <<e, db.rows[e].at>> \in db.history
         /\ ~Collides(db.rows, [export |-> e, at |-> db.rows[e].at])

\* "re-running an exact normalized record reports it as unchanged": while the checkpoint
\* is that of a batch, planning the last record of each export of it again says so.
ReplayIsUnchanged ==
  \A b \in Batches : \A i \in DOMAIN b.messages :
    /\ db.checkpoint = b.cursor
    /\ \A j \in DOMAIN b.messages : b.messages[j].export = b.messages[i].export => j <= i
    => Load(db, b.messages[i].export) = StateOf(b.messages[i])

\* "record mutations and checkpoint advancement then commit in one outer transaction":
\* with two syncs at once, crashes and failures at every step, batches are applied in
\* one step each or not at all, record by record in their order.
Ledger == INSTANCE SyncLedger
ImplementsSyncLedger == Ledger!Spec
=============================================================================
